------------------------------ MODULE MediaUpload ------------------------------
(***************************************************************************)
(* One binary upload of a source folder, from the upload session's         *)
(* creation to its terminal status, with everyone who touches it: HTTP     *)
(* requests that create the session, send the bytes, cancel or remove the  *)
(* source (VideoSourceMediaService, VideoSourceIntakeService) and the      *)
(* scheduler's reconcilers (VideoSourceMediaReconciliationService).        *)
(*                                                                         *)
(* Every database statement autocommits and every storage call runs in a   *)
(* thread, so each one is a step of its own: between two steps of one      *)
(* actor any other actor, in this process or another instance, may run.    *)
(* Sessions share no row, so one session and its one source are modelled.  *)
(***************************************************************************)
EXTENDS Naturals, FiniteSets

CONSTANTS
    Creators,      \* POST .../uploads requests, retries of one another (one idempotency key)
    Uploaders,     \* PUT .../content or POST .../complete requests
    Aborters,      \* DELETE .../uploads/{session} requests
    Removers,      \* DELETE .../sources/{source} requests
    Reconcilers,   \* reconciliation batches, one per running scheduler
    MaxAttempts,   \* attempt ceiling of the reconciler (max_attempts)
    MaxCrashes,    \* bound: how many actors may stop in mid-flight
    Multipart,     \* the session's mode: multipart, or else proxy
    Replaces,      \* the source was created to replace an older, ready one
    LostReplies,   \* a database write may be applied and still raise
    Prompt,        \* live actors beat the stale mark (1800 s) and the lease (120 s)
    None

Actors == Creators \cup Uploaders \cup Aborters \cup Removers \cup Reconcilers

ASSUME ActorsAreDistinct ==
    /\ Creators \cap (Uploaders \cup Aborters \cup Removers \cup Reconcilers) = {}
    /\ Uploaders \cap (Aborters \cup Removers \cup Reconcilers) = {}
    /\ Aborters \cap (Removers \cup Reconcilers) = {}
    /\ Removers \cap Reconcilers = {}
    /\ None \notin Actors

ASSUME BoundsAssumption ==
    /\ MaxAttempts \in Nat \ {0}
    /\ MaxCrashes \in Nat
    /\ {Multipart, Replaces, LostReplies, Prompt} \subseteq BOOLEAN

(* Stored versions, by who put them. An unreturned one was put by a call    *)
(* that raised: nobody knows its locator.                                  *)
Objects == {"raw", "canonical", "preview", "unreturned"} \X Uploaders
Assets  == {"main", "preview"} \X Uploaders               \* project assets, by who attached them

SessionStatuses == {"none", "created", "processing", "completed", "failed", "aborted",
    "expired", "orphan_cleanup_needed", "reconciliation_required", "reconciliation_failed"}
SourceStatuses == {"none", "pending_validation", "processing", "ready", "failed",
    "removed", "orphan_cleanup_needed"}

VARIABLES
    pc,            \* where each actor is
    status,        \* video_source_upload_sessions.status
    plan,          \* ... cleanup_locators_json
    planAssets,    \* ... cleanup_asset_ids_json
    attempts,      \* ... reconcile_attempts, saturating at MaxAttempts
    lease,         \* ... lease_token, the holder or None
    sourceStatus,  \* video_sources.status
    sourceAsset,   \* video_sources.asset_id: the uploader whose main asset it is
    oldStatus,     \* status of the replaced source
    oldUsage,      \* the replaced source's asset usage is still linked
    objects,       \* versions present in the bucket
    usages,        \* assets linked to the folder for this source
    provider,      \* provider side of the session: "none", "open", "aborted"
    version,       \* who put the version the provider remembers as complete
    held,          \* locators an uploader has in hand (raw, canonical, preview)
    own,           \* asset ids an uploader has in hand
    snap,          \* the row a reconciler read
    sawAsset,      \* a remover read a source that had an asset
    expired,       \* expires_at has passed
    stale,         \* status is processing and updated_at is too old
    lapsed,        \* lease_expires_at has passed
    backoff,       \* reconcile_after has not passed yet
    crashes

rowVars    == <<status, plan, planAssets, attempts, lease>>
sourceVars == <<sourceStatus, sourceAsset>>
oldVars    == <<oldStatus, oldUsage>>
storeVars  == <<objects, usages, provider, version>>
localVars  == <<held, own, snap, sawAsset>>
clockVars  == <<expired, stale, lapsed, backoff>>
vars == <<pc, rowVars, sourceVars, oldVars, storeVars, localVars, clockVars, crashes>>

NoSnap == [status |-> "none", plan |-> {}, assets |-> {}, attempts |-> 0]

(***************************************************************************)
(* Program counters. Owning: the uploader won the created -> processing    *)
(* transition and has side effects left to do.                             *)
(***************************************************************************)
CreatorPC    == {"adding", "provisioning", "recording", "discarding"}
PublishingPC == {"claimed", "working", "stored", "attached", "previewed", "completed"}
PublishedPC  == {"readied", "raw_deleted", "superseded"}
UndoingPC    == {"rollback", "deleting", "settling", "settled"}
OwningPC     == PublishingPC \cup PublishedPC \cup UndoingPC
UploaderPC   == {"expiring", "expired", "loaded", "uploaded"} \cup OwningPC
AborterPC    == {"aborting", "cancelling", "cancelled"}
RemoverPC    == {"removing", "detaching"}
ReconcilerPC == {"listed", "read", "expire", "finish_expired", "contain", "cleanup",
                 "cleanup_assets", "finish_cleaned", "defer", "report", "report_exhausted"}

PCs == {"idle", "done"} \cup CreatorPC \cup UploaderPC \cup AborterPC \cup RemoverPC
       \cup ReconcilerPC

Busy(a) == pc[a] \notin {"idle", "done"}

Init ==
    /\ pc = [a \in Actors |-> "idle"]
    /\ status = "none" /\ plan = {} /\ planAssets = {} /\ attempts = 0 /\ lease = None
    /\ sourceStatus = "none" /\ sourceAsset = None
    /\ oldStatus = IF Replaces THEN "ready" ELSE "none"
    /\ oldUsage = Replaces
    /\ objects = {} /\ usages = {} /\ provider = "none" /\ version = None
    /\ held = [u \in Uploaders |-> {}]
    /\ own = [u \in Uploaders |-> {}]
    /\ snap = [k \in Reconcilers |-> NoSnap]
    /\ sawAsset = [d \in Removers |-> FALSE]
    /\ expired = FALSE /\ stale = FALSE /\ lapsed = FALSE /\ backoff = FALSE
    /\ crashes = 0

Move(a, from, to) == pc[a] = from /\ pc' = [pc EXCEPT ![a] = to]

(* update_source writes status and asset_id, whatever they were. *)
UpdateSource(s, a) == sourceStatus' = s /\ sourceAsset' = a

(* Every write of the session row refreshes updated_at. *)
WriteStatus(s) == status' = s /\ stale' = FALSE

-------------------------------------------------------------------------------
(***************************************************************************)
(* create_upload_session                                                   *)
(***************************************************************************)
CreateFindReplay(c) ==
    /\ \/ status # "none" /\ Move(c, "idle", "done")      \* replay of the stored session
       \/ status = "none" /\ Move(c, "idle", "adding")
    /\ UNCHANGED <<rowVars, sourceVars, oldVars, storeVars, localVars, clockVars, crashes>>

(* Mutant: the replaced source is superseded when its replacement is created. *)
CreateAddSourceSupersedes(c) ==
    /\ Move(c, "adding", "provisioning")
    /\ sourceStatus = "none"
    /\ UpdateSource("pending_validation", None)
    /\ oldStatus' = "superseded"
    /\ UNCHANGED <<rowVars, oldUsage, storeVars, localVars, clockVars, crashes>>

(* add_source: an existing source of this key is a replay (then the session *)
(* is looked up again, and the request ends either way); otherwise the row  *)
(* is inserted and only then the folder revision is bumped, which may fail. *)
CreateAddSource(c) ==
    /\ \/ /\ sourceStatus # "none"
          /\ Move(c, "adding", "done")
          /\ UNCHANGED sourceVars
       \/ /\ sourceStatus = "none"
          /\ Move(c, "adding", "provisioning") \/ Move(c, "adding", "done")
          /\ UpdateSource("pending_validation", None)
    /\ UNCHANGED <<rowVars, oldVars, storeVars, localVars, clockVars, crashes>>

CreateProvision(c) ==
    /\ \/ /\ Move(c, "provisioning", "recording")
          /\ provider' = "open"
       \/ /\ Move(c, "provisioning", "discarding")
          /\ UNCHANGED provider
    /\ UNCHANGED <<rowVars, sourceVars, oldVars, objects, usages, version, localVars,
                   clockVars, crashes>>

(* create_upload_session_record; a failure aborts the provider session.    *)
CreateRecord(c) ==
    /\ \/ /\ Move(c, "recording", "done")
          /\ WriteStatus("created")
          /\ UNCHANGED provider
       \/ /\ Move(c, "recording", "discarding")
          /\ provider' \in {provider, "aborted"}
          /\ \/ UNCHANGED <<status, stale>>
             \/ LostReplies /\ WriteStatus("created")
    /\ UNCHANGED <<plan, planAssets, attempts, lease, sourceVars, oldVars, objects, usages,
                   version, localVars, expired, lapsed, backoff, crashes>>

CreateDiscard(c) ==
    /\ Move(c, "discarding", "done")
    /\ UpdateSource("failed", None)
    /\ UNCHANGED <<rowVars, oldVars, storeVars, localVars, clockVars, crashes>>

Create(c) == \/ CreateFindReplay(c) \/ CreateAddSource(c) \/ CreateProvision(c)
             \/ CreateRecord(c) \/ CreateDiscard(c)

-------------------------------------------------------------------------------
(* Mutant: the row is updated whatever its status. *)
TransitionAlways(from, to) == WriteStatus(to)

(***************************************************************************)
(* transition_upload_session: a conditional update of the status.          *)
(***************************************************************************)
Transition(from, to) == status = from /\ WriteStatus(to)

(***************************************************************************)
(* upload_proxy and complete_multipart: _load_session, the provider's      *)
(* upload, then _finalize_locator.                                         *)
(***************************************************************************)
Closed == {"completed", "processing", "aborted", "failed", "orphan_cleanup_needed", "expired"}

LoadSession(u) ==
    /\ \/ status \in Closed \cup {"none"} /\ Move(u, "idle", "done")
       \/ status \notin Closed \cup {"none"} /\ expired /\ Move(u, "idle", "expiring")
       \/ status \notin Closed \cup {"none"} /\ ~expired /\ Move(u, "idle", "loaded")
    /\ UNCHANGED <<rowVars, sourceVars, oldVars, storeVars, localVars, clockVars, crashes>>

(* Mutant: expiry is written whatever the status has become. *)
LoadExpireAlways(u) ==
    /\ WriteStatus("expired") /\ Move(u, "expiring", "expired")
    /\ UNCHANGED <<plan, planAssets, attempts, lease, sourceVars, oldVars, storeVars,
                   localVars, expired, lapsed, backoff, crashes>>

LoadExpire(u) ==
    /\ \/ Transition("created", "expired") /\ Move(u, "expiring", "expired")
       \/ status # "created" /\ Move(u, "expiring", "done") /\ UNCHANGED <<status, stale>>
    /\ UNCHANGED <<plan, planAssets, attempts, lease, sourceVars, oldVars, storeVars,
                   localVars, expired, lapsed, backoff, crashes>>

LoadExpireSource(u) ==
    /\ Move(u, "expired", "done")
    /\ UpdateSource("failed", None)
    /\ UNCHANGED <<rowVars, oldVars, storeVars, localVars, clockVars, crashes>>

(* A call of the storage that raises may have stored its version all the   *)
(* same: its reply was lost, or the verification failed and the best-effort *)
(* delete (_safe_delete_key) with it. The caller has no locator of it.     *)
MayLeave(u) == objects' \in {objects, objects \cup {<<"unreturned", u>>}}

(* The provider returns the version it remembers as complete. A proxy      *)
(* upload served by another thread or instance puts a version of its own;  *)
(* a multipart upload completes once and never after its abort.            *)
UploadRaw(u) ==
    /\ \/ /\ Move(u, "loaded", "done")
          /\ MayLeave(u) /\ UNCHANGED <<version, held>>
       \/ /\ Move(u, "loaded", "uploaded")
          /\ \/ /\ version # None
                /\ held' = [held EXCEPT ![u] = {<<"raw", version>>}]
                /\ UNCHANGED <<objects, version>>
             \/ /\ IF Multipart THEN version = None /\ provider = "open" ELSE TRUE
                /\ held' = [held EXCEPT ![u] = {<<"raw", u>>}]
                /\ objects' = objects \cup {<<"raw", u>>}
                /\ version' = IF version = None THEN u ELSE version
    /\ UNCHANGED <<rowVars, sourceVars, oldVars, usages, provider, own, snap, sawAsset,
                   clockVars, crashes>>

(* A request that does not win the claim returns; nobody deletes its bytes. *)
Claim(u) ==
    /\ \/ Transition("created", "processing") /\ Move(u, "uploaded", "claimed")
       \/ status # "created" /\ Move(u, "uploaded", "done") /\ UNCHANGED <<status, stale>>
    /\ UNCHANGED <<plan, planAssets, attempts, lease, sourceVars, oldVars, storeVars,
                   localVars, expired, lapsed, backoff, crashes>>

MarkProcessing(u) ==
    /\ Move(u, "claimed", "working")
    /\ UpdateSource("processing", None)
    /\ UNCHANGED <<rowVars, oldVars, storeVars, localVars, clockVars, crashes>>

(* Download, validate, sanitize and store the canonical object.            *)
StoreCanonical(u) ==
    /\ \/ /\ Move(u, "working", "stored")
          /\ objects' = objects \cup {<<"canonical", u>>}
          /\ held' = [held EXCEPT ![u] = @ \cup {<<"canonical", u>>}]
       \/ Move(u, "working", "rollback") /\ MayLeave(u) /\ UNCHANGED held
    /\ UNCHANGED <<rowVars, sourceVars, oldVars, usages, provider, version, own, snap,
                   sawAsset, clockVars, crashes>>

AttachAsset(u) ==
    /\ \/ /\ Move(u, "stored", "attached")
          /\ usages' = usages \cup {<<"main", u>>}
          /\ own' = [own EXCEPT ![u] = @ \cup {<<"main", u>>}]
       \/ Move(u, "stored", "rollback") /\ UNCHANGED <<usages, own>>
       \/ /\ LostReplies /\ Move(u, "stored", "rollback")
          /\ usages' = usages \cup {<<"main", u>>} /\ UNCHANGED own
    /\ UNCHANGED <<rowVars, sourceVars, oldVars, objects, provider, version, held, snap,
                   sawAsset, clockVars, crashes>>

(* Without a preview asset the upload goes on with a metadata fallback; the *)
(* preview object is then deleted, and forgotten when that delete fails.    *)
AttachPreview(u) ==
    /\ \/ /\ Move(u, "attached", "previewed")
          /\ \/ /\ objects' = objects \cup {<<"preview", u>>}
                /\ held' = [held EXCEPT ![u] = @ \cup {<<"preview", u>>}]
                /\ usages' = usages \cup {<<"preview", u>>}
                /\ own' = [own EXCEPT ![u] = @ \cup {<<"preview", u>>}]
             \/ /\ objects' \in {objects, objects \cup {<<"preview", u>>}}
                /\ \/ UNCHANGED usages
                   \/ LostReplies /\ usages' = usages \cup {<<"preview", u>>}
                /\ UNCHANGED <<held, own>>
       \/ Move(u, "attached", "rollback") /\ MayLeave(u) /\ UNCHANGED <<usages, held, own>>
    /\ UNCHANGED <<rowVars, sourceVars, oldVars, provider, version, snap, sawAsset,
                   clockVars, crashes>>

(* update_upload_session("completed"): no condition on the status.         *)
CompleteSession(u) ==
    /\ \/ Move(u, "previewed", "completed") /\ WriteStatus("completed")
       \/ Move(u, "previewed", "rollback") /\ UNCHANGED <<status, stale>>
       \/ LostReplies /\ Move(u, "previewed", "rollback") /\ WriteStatus("completed")
    /\ UNCHANGED <<plan, planAssets, attempts, lease, sourceVars, oldVars, storeVars,
                   localVars, expired, lapsed, backoff, crashes>>

PublishSource(u) ==
    /\ \/ Move(u, "completed", "readied") /\ UpdateSource("ready", u)
       \/ Move(u, "completed", "rollback") /\ UNCHANGED sourceVars
       \/ LostReplies /\ Move(u, "completed", "rollback") /\ UpdateSource("ready", u)
    /\ UNCHANGED <<rowVars, oldVars, storeVars, localVars, clockVars, crashes>>

DeleteRaw(u) ==
    /\ Move(u, "readied", "raw_deleted")
    /\ objects' \in {objects, objects \ {o \in held[u] : o[1] = "raw"}}
    /\ UNCHANGED <<rowVars, sourceVars, oldVars, usages, provider, version, localVars,
                   clockVars, crashes>>

(* supersede_source refuses unless the replacement is ready at that moment. *)
Supersede(u) ==
    /\ \/ /\ Replaces /\ sourceStatus = "ready"
          /\ Move(u, "raw_deleted", "superseded")
          /\ oldStatus' = "superseded"
       \/ /\ ~(Replaces /\ sourceStatus = "ready")
          /\ Move(u, "raw_deleted", "done")
          /\ UNCHANGED oldStatus
    /\ UNCHANGED <<rowVars, sourceVars, oldUsage, storeVars, localVars, clockVars, crashes>>

DetachReplaced(u) ==
    /\ Move(u, "superseded", "done")
    /\ oldUsage' \in {FALSE, oldUsage}
    /\ UNCHANGED <<rowVars, sourceVars, oldStatus, storeVars, localVars, clockVars, crashes>>

(***************************************************************************)
(* _rollback_assets and _compensate.                                       *)
(***************************************************************************)
RollbackAssets(u) ==
    /\ Move(u, "rollback", "deleting")
    /\ \/ /\ usages' = IF own[u] = {} THEN usages ELSE {}
          /\ own' = [own EXCEPT ![u] = {}]
       \/ own[u] # {} /\ usages' \in {usages, {}} /\ UNCHANGED own
    /\ UNCHANGED <<rowVars, sourceVars, oldVars, objects, provider, version, held, snap,
                   sawAsset, clockVars, crashes>>

(* The locators whose delete raised are kept; some of these deletes may     *)
(* have been done all the same.                                            *)
DeleteHeld(u) ==
    /\ Move(u, "deleting", "settling")
    /\ \E kept \in SUBSET held[u] : \E left \in SUBSET kept :
          /\ objects' = objects \ (held[u] \ left)
          /\ held' = [held EXCEPT ![u] = kept]
    /\ UNCHANGED <<rowVars, sourceVars, oldVars, usages, provider, version, own, snap,
                   sawAsset, clockVars, crashes>>

CleanupFailed(u) == held[u] # {} \/ own[u] # {}

(* Mutant: the two lists of the cleanup plan are swapped. *)
SettleSessionSwapped(u) ==
    /\ Move(u, "settling", "settled")
    /\ WriteStatus("orphan_cleanup_needed")
    /\ plan' = own[u] /\ planAssets' = held[u] /\ backoff' = FALSE
    /\ UNCHANGED <<attempts, lease, sourceVars, oldVars, storeVars, localVars, expired,
                   lapsed, crashes>>

(* Mutant: a failed compensation settles without writing down what is left. *)
SettleSessionForgets(u) ==
    /\ Move(u, "settling", "settled")
    /\ WriteStatus("failed")
    /\ UNCHANGED <<plan, planAssets, backoff, attempts, lease, sourceVars, oldVars,
                   storeVars, localVars, expired, lapsed, crashes>>

SettleSession(u) ==
    /\ Move(u, "settling", "settled")
    /\ \/ /\ CleanupFailed(u)
          /\ WriteStatus("orphan_cleanup_needed")
          /\ plan' = held[u]
          /\ planAssets' = own[u]
          /\ backoff' = FALSE
       \/ /\ ~CleanupFailed(u)
          /\ WriteStatus("failed")
          /\ UNCHANGED <<plan, planAssets, backoff>>
    /\ UNCHANGED <<attempts, lease, sourceVars, oldVars, storeVars, localVars, expired,
                   lapsed, crashes>>

SettleSource(u) ==
    /\ Move(u, "settled", "done")
    /\ UpdateSource(IF CleanupFailed(u) THEN "orphan_cleanup_needed" ELSE "failed", None)
    /\ UNCHANGED <<rowVars, oldVars, storeVars, localVars, clockVars, crashes>>

Upload(u) == \/ LoadSession(u) \/ LoadExpire(u) \/ LoadExpireSource(u) \/ UploadRaw(u)
             \/ Claim(u) \/ MarkProcessing(u) \/ StoreCanonical(u) \/ AttachAsset(u)
             \/ AttachPreview(u) \/ CompleteSession(u) \/ PublishSource(u) \/ DeleteRaw(u)
             \/ Supersede(u) \/ DetachReplaced(u) \/ RollbackAssets(u) \/ DeleteHeld(u)
             \/ SettleSession(u) \/ SettleSource(u)

-------------------------------------------------------------------------------
(***************************************************************************)
(* abort_upload: the provider is aborted before the row is claimed, and    *)
(* restoring the provider session fails once it has expired.               *)
(***************************************************************************)
AbortLoad(a) ==
    /\ \/ status \in {"none", "aborted", "processing", "completed"} /\ Move(a, "idle", "done")
       \/ status \notin {"none", "aborted", "processing", "completed"}
          /\ Move(a, "idle", "aborting")
    /\ UNCHANGED <<rowVars, sourceVars, oldVars, storeVars, localVars, clockVars, crashes>>

AbortProvider(a) ==
    /\ \/ Move(a, "aborting", "done") /\ UNCHANGED provider
       \/ /\ ~expired
          /\ Move(a, "aborting", "cancelling")
          /\ provider' = IF version = None THEN "aborted" ELSE provider
    /\ UNCHANGED <<rowVars, sourceVars, oldVars, objects, usages, version, localVars,
                   clockVars, crashes>>

AbortClaim(a) ==
    /\ \/ Transition("created", "aborted") /\ Move(a, "cancelling", "cancelled")
       \/ status # "created" /\ Move(a, "cancelling", "done") /\ UNCHANGED <<status, stale>>
    /\ UNCHANGED <<plan, planAssets, attempts, lease, sourceVars, oldVars, storeVars,
                   localVars, expired, lapsed, backoff, crashes>>

(* Mutant: cancelling leaves the source as it was. *)
AbortSourceSkipped(a) ==
    /\ Move(a, "cancelled", "done")
    /\ UNCHANGED <<rowVars, sourceVars, oldVars, storeVars, localVars, clockVars, crashes>>

AbortSource(a) ==
    /\ Move(a, "cancelled", "done")
    /\ UpdateSource("failed", None)
    /\ UNCHANGED <<rowVars, oldVars, storeVars, localVars, clockVars, crashes>>

Abort(a) == AbortLoad(a) \/ AbortProvider(a) \/ AbortClaim(a) \/ AbortSource(a)

(***************************************************************************)
(* remove_source: the source is read, marked removed, the folder revision  *)
(* bumped (which may fail after the mark), and the usage detached if the   *)
(* first read saw an asset.                                                *)
(***************************************************************************)
RemoveRead(d) ==
    /\ sourceStatus # "none"
    /\ Move(d, "idle", "removing")
    /\ sawAsset' = [sawAsset EXCEPT ![d] = sourceAsset # None]
    /\ UNCHANGED <<rowVars, sourceVars, oldVars, storeVars, held, own, snap, clockVars,
                   crashes>>

(* Mutant: a refused removal still goes on to detach the usage. *)
RemoveWriteDetaches(d) ==
    /\ Move(d, "removing", "detaching") /\ UNCHANGED sourceStatus
    /\ UNCHANGED <<rowVars, sourceAsset, oldVars, storeVars, localVars, clockVars, crashes>>

RemoveWrite(d) ==
    /\ \/ Move(d, "removing", "done") /\ UNCHANGED sourceStatus
       \/ /\ sourceStatus # "removed"
          /\ sourceStatus' = "removed"
          /\ \/ sawAsset[d] /\ Move(d, "removing", "detaching")
             \/ Move(d, "removing", "done")
    /\ UNCHANGED <<rowVars, sourceAsset, oldVars, storeVars, localVars, clockVars, crashes>>

RemoveDetach(d) ==
    /\ Move(d, "detaching", "done")
    /\ usages' \in {usages, {}}
    /\ UNCHANGED <<rowVars, sourceVars, oldVars, objects, provider, version, localVars,
                   clockVars, crashes>>

Remove(d) == RemoveRead(d) \/ RemoveWrite(d) \/ RemoveDetach(d)

-------------------------------------------------------------------------------
(***************************************************************************)
(* run_batch: candidates are selected, each row is read again, and the     *)
(* lease is taken on the status that second read returned.                 *)
(***************************************************************************)
Candidate ==
    /\ \/ status = "created" /\ expired
       \/ status = "processing" /\ stale
       \/ status = "orphan_cleanup_needed" /\ ~backoff
    /\ lease = None \/ lapsed

ListCandidates(k) ==
    /\ Candidate
    /\ Move(k, "idle", "listed")
    /\ UNCHANGED <<rowVars, sourceVars, oldVars, storeVars, localVars, clockVars, crashes>>

ReadCandidate(k) ==
    /\ Move(k, "listed", "read")
    /\ snap' = [snap EXCEPT ![k] = [status |-> status, plan |-> plan, assets |-> planAssets,
                                    attempts |-> attempts]]
    /\ UNCHANGED <<rowVars, sourceVars, oldVars, storeVars, held, own, sawAsset, clockVars,
                   crashes>>

Bump(n) == IF n < MaxAttempts THEN n + 1 ELSE n

Branch(s) == CASE s = "created" -> "expire"
               [] s = "processing" -> "contain"
               [] OTHER -> "cleanup"

TakeLease(k) ==
    /\ \/ /\ status = snap[k].status
          /\ lease = None \/ lapsed
          /\ Move(k, "read", Branch(snap[k].status))
          /\ lease' = k
          /\ lapsed' = FALSE
          /\ stale' = FALSE
          /\ attempts' = Bump(attempts)
          /\ snap' = [snap EXCEPT ![k].attempts = Bump(@)]
       \/ /\ ~(status = snap[k].status /\ (lease = None \/ lapsed))
          /\ Move(k, "read", "idle")
          /\ snap' = [snap EXCEPT ![k] = NoSnap]
          /\ UNCHANGED <<lease, lapsed, stale, attempts>>
    /\ UNCHANGED <<status, plan, planAssets, sourceVars, oldVars, storeVars, held, own,
                   sawAsset, expired, backoff, crashes>>

(* _expire: abort the provider session; an error is deferred.              *)
ExpireProvider(k) ==
    /\ \/ /\ Move(k, "expire", "finish_expired")
          /\ provider' = IF version = None THEN "aborted" ELSE provider
       \/ Move(k, "expire", "defer") /\ UNCHANGED provider
    /\ UNCHANGED <<rowVars, sourceVars, oldVars, objects, usages, version, localVars,
                   clockVars, crashes>>

(* _cleanup: delete the plan's locators in order up to the first error,    *)
(* then roll back its assets.                                              *)
CleanupObjects(k) ==
    /\ \/ /\ Move(k, "cleanup", "cleanup_assets")
          /\ objects' = objects \ snap[k].plan
       \/ /\ snap[k].plan # {}
          /\ Move(k, "cleanup", "defer")
          /\ \E gone \in SUBSET snap[k].plan : objects' = objects \ gone
    /\ UNCHANGED <<rowVars, sourceVars, oldVars, usages, provider, version, localVars,
                   clockVars, crashes>>

CleanupAssets(k) ==
    /\ \/ /\ Move(k, "cleanup_assets", "finish_cleaned")
          /\ usages' = IF snap[k].assets = {} THEN usages ELSE {}
       \/ /\ snap[k].assets # {}
          /\ Move(k, "cleanup_assets", "defer")
          /\ usages' \in {usages, {}}
    /\ UNCHANGED <<rowVars, sourceVars, oldVars, objects, provider, version, localVars,
                   clockVars, crashes>>

(* finish_upload_reconciliation looks at the lease token and not at the    *)
(* status; its result is not read.                                         *)
Finish(k, from, s) ==
    /\ Move(k, from, "report")
    /\ \/ /\ lease = k
          /\ WriteStatus(s)
          /\ plan' = {} /\ planAssets' = {}
          /\ lease' = None /\ lapsed' = FALSE /\ backoff' = FALSE
       \/ /\ lease # k
          /\ UNCHANGED <<status, stale, plan, planAssets, lease, lapsed, backoff>>
    /\ UNCHANGED <<attempts, sourceVars, oldVars, storeVars, localVars, expired, crashes>>

FinishReconciliation(k) == \/ Finish(k, "finish_expired", "expired")
                           \/ Finish(k, "contain", "reconciliation_required")
                           \/ Finish(k, "finish_cleaned", "failed")

(* Mutant: the attempt ceiling is never reached. *)
ExhaustedNever(k) == FALSE

(* defer_upload_reconciliation, same condition.                            *)
Exhausted(k) == snap[k].attempts >= MaxAttempts

Defer(k) ==
    /\ Move(k, "defer", IF Exhausted(k) THEN "report_exhausted" ELSE "idle")
    /\ \/ /\ lease = k
          /\ WriteStatus(IF Exhausted(k) THEN "reconciliation_failed"
                                         ELSE "orphan_cleanup_needed")
          /\ backoff' = ~Exhausted(k)
          /\ lease' = None /\ lapsed' = FALSE
       \/ lease # k /\ UNCHANGED <<status, stale, backoff, lease, lapsed>>
    /\ snap' = [snap EXCEPT ![k] = NoSnap]
    /\ UNCHANGED <<plan, planAssets, attempts, sourceVars, oldVars, storeVars, held, own,
                   sawAsset, expired, crashes>>

(* Mutant: the reconciler repairs the session and forgets the source. *)
ReportNothing(k) ==
    /\ Move(k, "report", "idle") \/ Move(k, "report_exhausted", "idle")
    /\ snap' = [snap EXCEPT ![k] = NoSnap]
    /\ UNCHANGED <<rowVars, sourceVars, oldVars, storeVars, held, own, sawAsset, clockVars,
                   crashes>>

(* Whatever became of the lease, the source is written.                    *)
Report(k) ==
    /\ \/ Move(k, "report", "idle") /\ UpdateSource("failed", None)
       \/ Move(k, "report_exhausted", "idle") /\ UpdateSource("orphan_cleanup_needed", None)
    /\ snap' = [snap EXCEPT ![k] = NoSnap]
    /\ UNCHANGED <<rowVars, oldVars, storeVars, held, own, sawAsset, clockVars, crashes>>

Reconcile(k) == \/ ListCandidates(k) \/ ReadCandidate(k) \/ TakeLease(k) \/ ExpireProvider(k)
                \/ CleanupObjects(k) \/ CleanupAssets(k) \/ FinishReconciliation(k)
                \/ Defer(k) \/ Report(k)

-------------------------------------------------------------------------------
(***************************************************************************)
(* Time. Under Prompt a processing row grows stale, and a lease lapses,    *)
(* only after the actor that owned it stopped.                             *)
(***************************************************************************)
Expire ==
    /\ status # "none" /\ ~expired
    /\ expired' = TRUE
    /\ UNCHANGED <<pc, rowVars, sourceVars, oldVars, storeVars, localVars, stale, lapsed,
                   backoff, crashes>>

GrowStale ==
    /\ status = "processing" /\ ~stale
    /\ Prompt => \A u \in Uploaders : pc[u] \notin OwningPC
    /\ stale' = TRUE
    /\ UNCHANGED <<pc, rowVars, sourceVars, oldVars, storeVars, localVars, expired, lapsed,
                   backoff, crashes>>

LapseLease ==
    /\ lease # None /\ ~lapsed
    /\ Prompt => ~Busy(lease)
    /\ lapsed' = TRUE
    /\ UNCHANGED <<pc, rowVars, sourceVars, oldVars, storeVars, localVars, expired, stale,
                   backoff, crashes>>

EndBackoff ==
    /\ backoff
    /\ backoff' = FALSE
    /\ UNCHANGED <<pc, rowVars, sourceVars, oldVars, storeVars, localVars, expired, stale,
                   lapsed, crashes>>

Time == Expire \/ GrowStale \/ LapseLease \/ EndBackoff

(* An actor stops: its process dies, or an exception nobody catches ends it. *)
Crash(a) ==
    /\ crashes < MaxCrashes
    /\ Busy(a)
    /\ crashes' = crashes + 1
    /\ pc' = [pc EXCEPT ![a] = IF a \in Reconcilers THEN "idle" ELSE "done"]
    /\ snap' = IF a \in Reconcilers THEN [snap EXCEPT ![a] = NoSnap] ELSE snap
    /\ UNCHANGED <<rowVars, sourceVars, oldVars, storeVars, held, own, sawAsset, clockVars>>

Next == \/ \E c \in Creators : Create(c)
        \/ \E u \in Uploaders : Upload(u)
        \/ \E a \in Aborters : Abort(a)
        \/ \E d \in Removers : Remove(d)
        \/ \E k \in Reconcilers : Reconcile(k)
        \/ \E a \in Actors : Crash(a)
        \/ Time

Spec == Init /\ [][Next]_vars

(* A request that was received runs on (the first step of a request is its *)
(* arrival and is not required); the scheduler keeps ticking; time passes. *)
Fairness ==
    /\ \A c \in Creators : WF_vars(Busy(c) /\ Create(c))
    /\ \A u \in Uploaders : WF_vars(Busy(u) /\ Upload(u))
    /\ \A a \in Aborters : WF_vars(Busy(a) /\ Abort(a))
    /\ \A d \in Removers : WF_vars(Busy(d) /\ Remove(d))
    /\ \A k \in Reconcilers : WF_vars(Reconcile(k))
    /\ WF_vars(Expire) /\ WF_vars(GrowStale) /\ WF_vars(LapseLease) /\ WF_vars(EndBackoff)

FairSpec == Spec /\ Fairness

-------------------------------------------------------------------------------
(* Type invariant, in one part for each tuple of variables. *)
RowType == /\ status \in SessionStatuses
           /\ plan \subseteq Objects /\ planAssets \subseteq Assets
           /\ attempts \in 0..MaxAttempts
           /\ lease \in Reconcilers \cup {None}

SourceType == sourceStatus \in SourceStatuses /\ sourceAsset \in Uploaders \cup {None}

OldType == oldStatus \in {"none", "ready", "superseded"} /\ oldUsage \in BOOLEAN

StoreType == /\ objects \subseteq Objects /\ usages \subseteq Assets
             /\ provider \in {"none", "open", "aborted"}
             /\ version \in Uploaders \cup {None}

Snaps == [status : SessionStatuses, plan : SUBSET Objects, assets : SUBSET Assets,
          attempts : 0..MaxAttempts]

LocalType == /\ held \in [Uploaders -> SUBSET Objects]
             /\ own \in [Uploaders -> SUBSET Assets]
             /\ snap \in [Reconcilers -> Snaps]
             /\ sawAsset \in [Removers -> BOOLEAN]

ClockType == {expired, stale, lapsed, backoff} \subseteq BOOLEAN

TypeOK == /\ pc \in [Actors -> PCs]
          /\ RowType /\ SourceType /\ OldType /\ StoreType /\ LocalType /\ ClockType
          /\ crashes \in 0..MaxCrashes

(* "processing is an exclusive completion claim": no two completions of one *)
(* session are ever past the created -> processing transition, whatever     *)
(* reconcilers, crashes and cancellations do.                               *)
ExclusiveCompletion ==
    \A u, v \in Uploaders : pc[u] \in OwningPC /\ pc[v] \in OwningPC => u = v

(* A source shown as ready always has its asset linked and the canonical    *)
(* object stored: no compensation, cleanup of a plan, late detach or        *)
(* reconciler takes them away while the source still says ready.            *)
ReadyBacked ==
    sourceStatus = "ready" => /\ <<"main", sourceAsset>> \in usages
                              /\ <<"canonical", sourceAsset>> \in objects

Ended(a) == pc[a] \in {"idle", "done"}

(* When every actor has finished and none was cut short, the two rows tell  *)
(* the same story: the source is ready exactly when the session completed,  *)
(* a source that waits for bytes has an open session, and a closed session  *)
(* left the source failed, with cleanup owed exactly when a plan is kept.   *)
SourceFollowsSession ==
    (crashes = 0 /\ \A a \in Actors : Ended(a)) =>
        /\ status = "completed" <=> sourceStatus = "ready"
        /\ status = "created" => sourceStatus = "pending_validation"
        /\ status \in {"aborted", "expired", "failed"} => sourceStatus = "failed"
        /\ status = "orphan_cleanup_needed" =>
              sourceStatus = "orphan_cleanup_needed" /\ plan \cup planAssets # {}
        /\ status # "processing"

(* "Failed compensation persists only exact locators": when no owner is at  *)
(* work any more and none was cut short, every stored canonical version     *)
(* whose locator the storage has returned, and every linked asset, belongs  *)
(* to the published source or stands in the plan. It says nothing of an     *)
(* unreturned version, which _compensate cannot name: nobody deletes it.    *)
CompensationAccounted ==
    (crashes = 0 /\ \A u \in Uploaders : pc[u] \notin OwningPC) =>
        /\ \A u \in Uploaders : <<"canonical", u>> \in objects =>
              (sourceStatus = "ready" /\ sourceAsset = u) \/ <<"canonical", u>> \in plan
        /\ \A x \in usages :
              (sourceStatus = "ready" /\ sourceAsset = x[2]) \/ x \in planAssets

(* A replaced source gives way only to a published one: the folder never    *)
(* holds a superseded original whose replacement is not ready and backed.   *)
ReplacementTakesOver ==
    (oldStatus = "superseded" \/ (Replaces /\ ~oldUsage)) =>
        /\ sourceStatus = "ready"
        /\ <<"main", sourceAsset>> \in usages

(* The requests alone implement the one-path promise of UploadOutcome.      *)
Outcome == INSTANCE UploadOutcome
    WITH outcome <- status, published <- (sourceStatus = "ready")

ImplementsOutcome == Outcome!Spec

Unsettled == {"created", "processing", "orphan_cleanup_needed"}

(* A session in an active status always comes to leave the active statuses, *)
(* through its owner or through the reconciler, even when the owner or a    *)
(* reconciler died.                                                         *)
SessionSettles == status \in Unsettled ~> status \notin Unsettled \cup {"none"}

(* No source with a session waits for ever: unless an actor is cut short, it *)
(* ends ready, failed, removed or marked for cleanup.                        *)
Waiting == status # "none" /\ sourceStatus \in {"pending_validation", "processing"}

SourceSettles == Waiting ~> (~Waiting \/ crashes > 0)
===============================================================================
