----------------------------- MODULE SourceFolder -----------------------------
(***************************************************************************)
(* One source folder: its revision, its sources, the confirmation that the *)
(* sources are ready and the handoff of a generation request to the job    *)
(* store (VideoSourceIntakeStore, VideoSourceIntakeService).               *)
(*                                                                         *)
(* Editors add, remove and retry sources; confirmers call mark_ready;      *)
(* generators call generate; uploads go on writing the source of a file    *)
(* after the request that created it has answered. Every statement is      *)
(* autocommitted and awaited, so each is a step of its own. A request that *)
(* a failing statement or a restart cuts short is a Crash of its actor.    *)
(***************************************************************************)
EXTENDS Naturals, Sequences, FiniteSets

CONSTANTS
    Editors,       \* clients that edit the folder, each one request after another
    Confirmers,    \* POST .../ready requests
    Generators,    \* POST .../generate requests; also the ids of the handoff rows they insert
    Sources,       \* idempotency keys of additions; also the ids of the rows they insert
    Kinds,         \* the kinds of source that are added: "text", "link", "file"
    Texts,         \* normalized hashes of pasted texts
    Keys,          \* idempotency keys of generation requests
    MaxActive,     \* active sources a folder may hold (100)
    MaxRevision,   \* bound: no edit begins at this revision
    MaxCrashes,    \* bound: how many requests may be cut short
    Resends,       \* clients may repeat a request with the revision they first sent
    None

Callers == Confirmers \cup Generators
Actors  == Editors \cup Callers

ASSUME ActorsAreDistinct ==
    /\ Editors \cap Callers = {} /\ Confirmers \cap Generators = {}
    /\ None \notin Actors \cup Sources \cup Texts \cup Keys

ASSUME BoundsAssumption ==
    /\ {MaxActive, MaxRevision, MaxCrashes} \subseteq Nat
    /\ Resends \in BOOLEAN
    /\ Kinds \subseteq {"text", "link", "file"}

Statuses == {"pending_validation", "processing", "ready", "metadata_unavailable", "failed",
    "superseded", "removed", "orphan_cleanup_needed"}
Revisions == 0 .. MaxRevision

VARIABLES
    pc,             \* where each actor is
    request,        \* what an editor's request asks and what it has read
    call,           \* what a confirmer or generator asks and what it has read
    revision,       \* video_source_folders.revision
    status,         \* ... status
    readyRevision,  \* ... ready_revision
    enqueue,        \* ... enqueue_status
    requestId,      \* ... generation_request_id
    source,         \* video_sources
    upload,         \* the upload session of a file, see MediaUpload
    handoff,        \* video_source_generation_handoffs
    jobs,           \* ids present in the job store
    answer,         \* the request id a generator reported as accepted
    log,            \* history: the edits that bumped the revision, in order
    confirmed,      \* history: the sources mark_ready saw when it confirmed a revision
    crashes

folderVars == <<revision, status, readyRevision, enqueue, requestId>>
sourceVars == <<source, upload>>
jobVars    == <<handoff, jobs, answer>>
history    == <<log, confirmed>>
vars == <<pc, request, call, folderVars, sourceVars, jobVars, history, crashes>>

NoSource  == [kind |-> "none", status |-> "none", text |-> None, replaces |-> None]
NoRequest == [op |-> "none", source |-> None, rev |-> 0, wasReady |-> FALSE, row |-> NoSource]
NoCall    == [rev |-> 0, key |-> None, listed |-> {}, id |-> None]
NoHandoff == [rev |-> 0, key |-> None, status |-> "none", sources |-> {}]

Row(k, s, t, r) == [kind |-> k, status |-> s, text |-> t, replaces |-> r]

(* list_sources: everything that is not removed or superseded. *)
Gone     == {"none", "removed", "superseded"}
Active   == {s \in Sources : source[s].status \notin Gone}
Blocking == {s \in Active : source[s].status # "ready"}

EditorPC == {"assert", "replay", "limits", "duplicate", "insert", "check", "write", "bump",
             "session", "finish"}
CallerPC == {"assert", "confirm", "list", "mark", "lookup", "collect", "insert", "pending",
             "reread", "dispatch", "complete", "complete_folder", "fail", "fail_folder"}
PCs == {"idle", "done"} \cup EditorPC \cup CallerPC

Busy(a) == pc[a] \notin {"idle", "done"}

Init ==
    /\ pc = [a \in Actors |-> "idle"]
    /\ request = [e \in Editors |-> NoRequest]
    /\ call = [a \in Callers |-> NoCall]
    /\ revision = 0 /\ status = "collecting" /\ readyRevision = None
    /\ enqueue = "not_requested" /\ requestId = None
    /\ source = [s \in Sources |-> NoSource]
    /\ upload = [s \in Sources |-> "none"]
    /\ handoff = [g \in Generators |-> NoHandoff]
    /\ jobs = {}
    /\ answer = [g \in Generators |-> None]
    /\ log = <<>>
    /\ confirmed = [r \in Revisions |-> {}]
    /\ crashes = 0

At(a, p)   == pc[a] = p
Goto(a, p) == pc' = [pc EXCEPT ![a] = p]
Move(a, from, to) == At(a, from) /\ Goto(a, to)

(* An editor's request has answered, with a result or an error. *)
Return(e) == Goto(e, "idle") /\ request' = [request EXCEPT ![e] = NoRequest]

(* update_source and the other UPDATEs of a row's status. *)
SetStatus(s, st) == source' = [source EXCEPT ![s].status = st]

SentRevisions == IF Resends THEN 0 .. revision ELSE {revision}

-------------------------------------------------------------------------------
(***************************************************************************)
(* Editing                                                                 *)
(***************************************************************************)

(* The row an addition would insert: what the text and link services make  *)
(* of the input, or a file whose bytes are still to come. A replaced file  *)
(* is checked before anything else.                                        *)
NewRows ==
    {Row("text", "ready", t, None) : t \in Texts}
    \cup {Row("text", "failed", None, None)}
    \cup {Row("link", st, None, None) : st \in {"ready", "metadata_unavailable", "failed"}}
    \cup {Row("file", "pending_validation", None, r) :
            r \in {None} \cup {s \in Active : source[s].kind = "file"}}

Ask(e, op, s, row) == \E r \in SentRevisions :
    request' = [request EXCEPT ![e] =
        [op |-> op, source |-> s, rev |-> r, wasReady |-> FALSE, row |-> row]]

(* retry_source refuses files before it reads anything that can change. *)
Begin(e) ==
    /\ revision < MaxRevision
    /\ Move(e, "idle", "assert")
    /\ \E s \in Sources :
         \/ \E n \in NewRows : n.kind \in Kinds /\ n.replaces # s /\ Ask(e, "add", s, n)
         \/ source[s].status # "none" /\ Ask(e, "remove", s, NoSource)
         \/ source[s].status # "none" /\ source[s].kind # "file" /\ Ask(e, "retry", s, NoSource)
    /\ UNCHANGED <<call, folderVars, sourceVars, jobVars, history, crashes>>

(* Mutant: the snapshot keeps the confirmed revision, not whether there is one. *)
AssertFreshRaw(e) ==
    /\ request[e].rev = revision
    /\ Goto(e, IF request[e].op = "add" THEN "replay" ELSE "check")
    /\ request' = [request EXCEPT ![e].wasReady = readyRevision]

(* _assert_revision, and the snapshot of the folder it returns. *)
AssertFresh(e) ==
    /\ request[e].rev = revision
    /\ Goto(e, IF request[e].op = "add" THEN "replay" ELSE "check")
    /\ request' = [request EXCEPT ![e].wasReady = readyRevision # None]

AssertStale(e) == request[e].rev # revision /\ Return(e)

AssertRevision(e) ==
    /\ At(e, "assert")
    /\ AssertFresh(e) \/ AssertStale(e)
    /\ UNCHANGED <<call, folderVars, sourceVars, jobVars, history, crashes>>

AddFindReplay(e) ==
    /\ At(e, "replay")
    /\ \/ source[request[e].source].status # "none" /\ Return(e)
       \/ /\ source[request[e].source].status = "none"
          /\ Goto(e, "limits")
          /\ UNCHANGED request
    /\ UNCHANGED <<call, folderVars, sourceVars, jobVars, history, crashes>>

(* Both counts; the hourly rate limit may refuse at any time. *)
AddLimits(e) ==
    /\ At(e, "limits")
    /\ \/ Return(e)
       \/ /\ Cardinality(Active) < MaxActive
          /\ Goto(e, IF request[e].row.text # None THEN "duplicate" ELSE "insert")
          /\ UNCHANGED request
    /\ UNCHANGED <<call, folderVars, sourceVars, jobVars, history, crashes>>

AddFindDuplicate(e) ==
    /\ At(e, "duplicate")
    /\ LET same == {s \in Active : source[s].text = request[e].row.text} IN
         \/ same # {} /\ Return(e)
         \/ same = {} /\ Goto(e, "insert") /\ UNCHANGED request
    /\ UNCHANGED <<call, folderVars, sourceVars, jobVars, history, crashes>>

(* The unique index on the idempotency key refuses a second row. *)
AddInsert(e) ==
    /\ At(e, "insert")
    /\ LET s == request[e].source IN
         \/ source[s].status # "none" /\ Return(e) /\ UNCHANGED source
         \/ /\ source[s].status = "none"
            /\ source' = [source EXCEPT ![s] = request[e].row]
            /\ Goto(e, "bump")
            /\ UNCHANGED request
    /\ UNCHANGED <<call, folderVars, upload, jobVars, history, crashes>>

Editable(op, st) ==
    \/ op = "remove" /\ st \notin Gone
    \/ op = "retry" /\ st \in {"failed", "metadata_unavailable", "orphan_cleanup_needed"}

EditCheck(e) ==
    /\ At(e, "check")
    /\ \/ /\ Editable(request[e].op, source[request[e].source].status)
          /\ Goto(e, "write")
          /\ UNCHANGED request
       \/ /\ ~Editable(request[e].op, source[request[e].source].status)
          /\ Return(e)
    /\ UNCHANGED <<call, folderVars, sourceVars, jobVars, history, crashes>>

EditWrite(e) ==
    /\ Move(e, "write", "bump")
    /\ SetStatus(request[e].source, IF request[e].op = "remove" THEN "removed" ELSE "processing")
    /\ UNCHANGED <<request, call, folderVars, upload, jobVars, history, crashes>>

(* Mutant: the revision is bumped without comparing it. *)
IncrementBlind(e) ==
    /\ revision' = revision + 1
    /\ status' = IF request[e].wasReady THEN "changed_after_ready" ELSE "collecting"
    /\ enqueue' = "not_requested" /\ requestId' = None
    /\ log' = Append(log, [op |-> request[e].op, source |-> request[e].source,
                           rev |-> request[e].rev])
    /\ UNCHANGED <<readyRevision, confirmed>>

(* _increment_revision: compare-and-set on the revision that was asserted. *)
Increment(e) ==
    /\ revision = request[e].rev
    /\ revision' = revision + 1
    /\ status' = IF request[e].wasReady THEN "changed_after_ready" ELSE "collecting"
    /\ enqueue' = "not_requested" /\ requestId' = None
    /\ log' = Append(log, [op |-> request[e].op, source |-> request[e].source,
                           rev |-> request[e].rev])
    /\ UNCHANGED <<readyRevision, confirmed>>

AfterBump(e) ==
    IF request[e].op = "retry" THEN "finish"
    ELSE IF request[e].row.kind = "file" THEN "session" ELSE "idle"

EditBump(e) ==
    /\ At(e, "bump")
    /\ \/ /\ Increment(e)
          /\ Goto(e, AfterBump(e))
          /\ request' = IF AfterBump(e) = "idle" THEN [request EXCEPT ![e] = NoRequest]
                        ELSE request
       \/ /\ revision # request[e].rev
          /\ Return(e)
          /\ UNCHANGED <<folderVars, history>>
    /\ UNCHANGED <<call, sourceVars, jobVars, crashes>>

(* create_upload_session after add_source: the session exists, or not. *)
OpenSession(e) ==
    /\ At(e, "session")
    /\ Return(e)
    /\ \/ upload' = [upload EXCEPT ![request[e].source] = "open"] /\ UNCHANGED source
       \/ SetStatus(request[e].source, "failed") /\ UNCHANGED upload
    /\ UNCHANGED <<call, folderVars, jobVars, history, crashes>>

(* Mutant: an inspection that fails leaves the source as it is. *)
RetryFinishSilent(e) ==
    /\ At(e, "finish")
    /\ Return(e)
    /\ SetStatus(request[e].source, "ready") \/ UNCHANGED source
    /\ UNCHANGED <<call, folderVars, upload, jobVars, history, crashes>>

(* A failed text has no body to retry with; a link is inspected again. *)
RetryFinish(e) ==
    /\ At(e, "finish")
    /\ Return(e)
    /\ \E st \in IF source[request[e].source].kind = "text" THEN {"failed"}
                 ELSE {"ready", "metadata_unavailable", "failed"} :
         SetStatus(request[e].source, st)
    /\ UNCHANGED <<call, folderVars, upload, jobVars, history, crashes>>

Edit(e) == Begin(e) \/ AssertRevision(e) \/ AddFindReplay(e) \/ AddLimits(e) \/ AddFindDuplicate(e)
           \/ AddInsert(e) \/ EditCheck(e) \/ EditWrite(e) \/ EditBump(e) \/ OpenSession(e)
           \/ RetryFinish(e)

-------------------------------------------------------------------------------
(***************************************************************************)
(* The upload of a file, as the folder sees it: update_source calls that   *)
(* look at neither the source's status nor the folder's revision.          *)
(***************************************************************************)
UploadStep(s, from, to, st) ==
    /\ upload[s] = from
    /\ upload' = [upload EXCEPT ![s] = to]
    /\ SetStatus(s, st)
    /\ UNCHANGED <<pc, request, call, folderVars, jobVars, history, crashes>>

UploadClaim(s)   == UploadStep(s, "open", "processing", "processing")
UploadClose(s)   == UploadStep(s, "open", "closed", "failed")
UploadFail(s)    == \E st \in {"failed", "orphan_cleanup_needed"} :
                      UploadStep(s, "processing", "closed", st)
UploadPublish(s) == UploadStep(s, "processing",
                      IF source[s].replaces = None THEN "closed" ELSE "published", "ready")

UploadSupersede(s) ==
    /\ upload[s] = "published"
    /\ upload' = [upload EXCEPT ![s] = "closed"]
    /\ IF source[s].status = "ready" /\ source[source[s].replaces].status \notin Gone
       THEN SetStatus(source[s].replaces, "superseded") ELSE UNCHANGED source
    /\ UNCHANGED <<pc, request, call, folderVars, jobVars, history, crashes>>

Upload(s) == UploadClaim(s) \/ UploadClose(s) \/ UploadFail(s) \/ UploadPublish(s)
             \/ UploadSupersede(s)

-------------------------------------------------------------------------------
(***************************************************************************)
(* mark_ready, on its own or inside create_generation_handoff              *)
(***************************************************************************)
Fail(a) == Goto(a, "done") /\ UNCHANGED call

Send(a) ==
    /\ Move(a, "idle", "assert")
    /\ \E r \in SentRevisions, k \in IF a \in Generators THEN Keys ELSE {None} :
         call' = [call EXCEPT ![a].rev = r, ![a].key = k]
    /\ UNCHANGED <<request, folderVars, sourceVars, jobVars, history, crashes>>

Settled(a) == readyRevision = call[a].rev /\ status = "ready"

(* The first _assert_revision, which for a generator also tells whether    *)
(* this revision is confirmed already.                                     *)
CallAssert(a) ==
    /\ At(a, "assert")
    /\ \/ call[a].rev # revision /\ Fail(a)
       \/ /\ call[a].rev = revision
          /\ Goto(a, IF a \in Confirmers THEN "list"
                               ELSE IF Settled(a) THEN "lookup" ELSE "confirm")
          /\ UNCHANGED call
    /\ UNCHANGED <<request, folderVars, sourceVars, jobVars, history, crashes>>

ConfirmAssert(g) ==
    /\ At(g, "confirm")
    /\ \/ call[g].rev # revision /\ Fail(g)
       \/ call[g].rev = revision /\ Goto(g, "list") /\ UNCHANGED call
    /\ UNCHANGED <<request, folderVars, sourceVars, jobVars, history, crashes>>

(* Mutant: only an empty folder is refused. *)
MarkListAny(a) ==
    /\ At(a, "list")
    /\ \/ Active = {} /\ Fail(a)
       \/ /\ Active # {}
          /\ Goto(a, "mark")
          /\ call' = [call EXCEPT ![a].listed = Active]
    /\ UNCHANGED <<request, folderVars, sourceVars, jobVars, history, crashes>>

MarkList(a) ==
    /\ At(a, "list")
    /\ \/ (Active = {} \/ Blocking # {}) /\ Fail(a)
       \/ /\ Active # {} /\ Blocking = {}
          /\ Goto(a, "mark")
          /\ call' = [call EXCEPT ![a].listed = Active]
    /\ UNCHANGED <<request, folderVars, sourceVars, jobVars, history, crashes>>

(* The compare-and-set of mark_ready. *)
MarkReady(a) ==
    /\ revision = call[a].rev
    /\ status' = "ready" /\ readyRevision' = call[a].rev
    /\ enqueue' = "not_requested" /\ requestId' = None
    /\ confirmed' = [confirmed EXCEPT ![call[a].rev] = call[a].listed]
    /\ UNCHANGED <<revision, log>>

Mark(a) ==
    /\ At(a, "mark")
    /\ \/ /\ MarkReady(a)
          /\ Goto(a, IF a \in Confirmers THEN "done" ELSE "lookup")
          /\ UNCHANGED call
       \/ revision # call[a].rev /\ Fail(a) /\ UNCHANGED <<folderVars, history>>
    /\ UNCHANGED <<request, sourceVars, jobVars, crashes>>

-------------------------------------------------------------------------------
(***************************************************************************)
(* create_generation_handoff. A handoff row is known by the generator that *)
(* inserted it; canonical_request_id is that id whenever it is set.        *)
(***************************************************************************)
RowsFor(r, k) == {h \in Generators : handoff[h].status # "none"
                                     /\ handoff[h].rev = r /\ handoff[h].key = k}

Accept(g, id) == answer' = [answer EXCEPT ![g] = id]

Lookup(g) ==
    /\ At(g, "lookup")
    /\ LET rows == RowsFor(call[g].rev, call[g].key) IN
         \/ rows = {} /\ Goto(g, "collect") /\ UNCHANGED <<call, answer>>
         \/ \E h \in rows :
              /\ call' = [call EXCEPT ![g].id = h]
              /\ \/ handoff[h].status = "enqueued" /\ Goto(g, "done") /\ Accept(g, h)
                 \/ handoff[h].status # "enqueued" /\ Goto(g, "dispatch")
                    /\ UNCHANGED answer
    /\ UNCHANGED <<request, folderVars, sourceVars, handoff, jobs, history, crashes>>

Collect(g) ==
    /\ Move(g, "collect", "insert")
    /\ call' = [call EXCEPT ![g].listed = Active \ Blocking]
    /\ UNCHANGED <<request, folderVars, sourceVars, jobVars, history, crashes>>

(* Mutant: no unique index on revision and key. *)
HandoffInsertTwice(g) ==
    /\ Move(g, "insert", "pending")
    /\ handoff' = [handoff EXCEPT ![g] = [rev |-> call[g].rev, key |-> call[g].key,
                     status |-> "enqueue_pending", sources |-> call[g].listed]]
    /\ call' = [call EXCEPT ![g].id = g]
    /\ UNCHANGED <<request, folderVars, sourceVars, jobs, answer, history, crashes>>

(* The unique index refuses a second row: the call starts over. *)
HandoffInsert(g) ==
    /\ At(g, "insert")
    /\ \/ /\ RowsFor(call[g].rev, call[g].key) # {}
          /\ Goto(g, "assert")
          /\ UNCHANGED <<call, handoff>>
       \/ /\ RowsFor(call[g].rev, call[g].key) = {}
          /\ handoff' = [handoff EXCEPT ![g] = [rev |-> call[g].rev, key |-> call[g].key,
                           status |-> "enqueue_pending", sources |-> call[g].listed]]
          /\ call' = [call EXCEPT ![g].id = g]
          /\ Goto(g, "pending")
    /\ UNCHANGED <<request, folderVars, sourceVars, jobs, answer, history, crashes>>

FolderPending(g) ==
    /\ Move(g, "pending", "reread")
    /\ enqueue' = "enqueue_pending"
    /\ UNCHANGED <<request, call, revision, status, readyRevision, requestId, sourceVars, jobVars,
                   history, crashes>>

(* The row is read back; a retry may have enqueued it meanwhile. *)
Reread(g) ==
    /\ At(g, "reread")
    /\ \/ handoff[g].status = "enqueued" /\ Goto(g, "done") /\ Accept(g, g)
       \/ handoff[g].status # "enqueued" /\ Goto(g, "dispatch") /\ UNCHANGED answer
    /\ UNCHANGED <<request, call, folderVars, sourceVars, handoff, jobs, history, crashes>>

(* Mutant: a job that could not be stored counts as accepted. *)
DispatchForgets(g) ==
    /\ At(g, "dispatch")
    /\ \/ Goto(g, "complete") /\ jobs' \in {jobs, jobs \cup {call[g].id}}
       \/ Goto(g, "fail") /\ UNCHANGED jobs
    /\ UNCHANGED <<request, call, folderVars, sourceVars, handoff, answer, history, crashes>>

(***************************************************************************)
(* generate: the job is upserted under the handoff's id; the call may also *)
(* raise, with the job stored or not.                                      *)
(***************************************************************************)
Dispatch(g) ==
    /\ At(g, "dispatch")
    /\ \/ Goto(g, "complete") /\ jobs' = jobs \cup {call[g].id}
       \/ Goto(g, "fail") /\ jobs' \in {jobs, jobs \cup {call[g].id}}
    /\ UNCHANGED <<request, call, folderVars, sourceVars, handoff, answer, history, crashes>>

SettleHandoff(g, st) == handoff' = [handoff EXCEPT ![call[g].id].status = st]

CompleteHandoff(g) ==
    /\ Move(g, "complete", "complete_folder")
    /\ SettleHandoff(g, "enqueued")
    /\ UNCHANGED <<request, call, folderVars, sourceVars, jobs, answer, history, crashes>>

CompleteFolder(g) ==
    /\ Move(g, "complete_folder", "done")
    /\ enqueue' = "enqueued" /\ requestId' = call[g].id
    /\ Accept(g, call[g].id)
    /\ UNCHANGED <<request, call, revision, status, readyRevision, sourceVars, handoff, jobs,
                   history, crashes>>

(* Mutant: a refused dispatch is recorded in the folder only. *)
FailHandoffSkipped(g) ==
    /\ Move(g, "fail", "fail_folder")
    /\ UNCHANGED <<request, call, folderVars, sourceVars, jobVars, history, crashes>>

FailHandoff(g) ==
    /\ Move(g, "fail", "fail_folder")
    /\ SettleHandoff(g, "enqueue_failed")
    /\ UNCHANGED <<request, call, folderVars, sourceVars, jobs, answer, history, crashes>>

FailFolder(g) ==
    /\ Move(g, "fail_folder", "done")
    /\ enqueue' = "enqueue_failed" /\ requestId' = None
    /\ UNCHANGED <<request, call, revision, status, readyRevision, sourceVars, jobVars, history,
                   crashes>>

Confirm(a) == Send(a) \/ CallAssert(a) \/ MarkList(a) \/ Mark(a)

Generate(g) == Confirm(g) \/ ConfirmAssert(g) \/ Lookup(g) \/ Collect(g) \/ HandoffInsert(g)
    \/ FolderPending(g) \/ Reread(g) \/ Dispatch(g) \/ CompleteHandoff(g) \/ CompleteFolder(g)
    \/ FailHandoff(g) \/ FailFolder(g)

(* A request stops between two statements; its client may try again. *)
Crash(a) ==
    /\ Busy(a) /\ crashes < MaxCrashes
    /\ crashes' = crashes + 1
    /\ pc' = [pc EXCEPT ![a] = IF a \in Editors THEN "idle" ELSE "done"]
    /\ request' = [e \in Editors |-> IF e = a THEN NoRequest ELSE request[e]]
    /\ UNCHANGED <<call, folderVars, sourceVars, jobVars, history>>

Next ==
    \/ \E e \in Editors : Edit(e)
    \/ \E a \in Confirmers : Confirm(a)
    \/ \E g \in Generators : Generate(g)
    \/ \E s \in Sources : Upload(s)
    \/ \E a \in Actors : Crash(a)

Spec == Init /\ [][Next]_vars

(* The server runs what it received to its end; nothing makes a client     *)
(* send a request.                                                         *)
Fairness ==
    /\ \A e \in Editors : WF_vars(Busy(e) /\ Edit(e))
    /\ \A a \in Confirmers : WF_vars(Busy(a) /\ Confirm(a))
    /\ \A g \in Generators : WF_vars(Busy(g) /\ Generate(g))

FairSpec == Spec /\ Fairness

-------------------------------------------------------------------------------
(***************************************************************************)
(* Properties                                                              *)
(***************************************************************************)

(* Every variable has the type of the column or local variable it models.  *)
SourceRow == [kind : {"none", "text", "link", "file"}, status : Statuses \cup {"none"},
              text : Texts \cup {None}, replaces : Sources \cup {None}]

ActorType == /\ pc \in [Actors -> PCs]
             /\ request \in [Editors -> [op : {"none", "add", "remove", "retry"},
                    source : Sources \cup {None}, rev : Nat, wasReady : BOOLEAN, row : SourceRow]]
             /\ call \in [Callers -> [rev : Nat, key : Keys \cup {None}, listed : SUBSET Sources,
                    id : Generators \cup {None}]]
FolderType == /\ revision \in Nat /\ readyRevision \in Nat \cup {None}
              /\ status \in {"collecting", "ready", "changed_after_ready"}
              /\ enqueue \in {"not_requested", "enqueue_pending", "enqueued", "enqueue_failed"}
              /\ requestId \in Generators \cup {None}
RowType == /\ source \in [Sources -> SourceRow]
           /\ upload \in [Sources -> {"none", "open", "processing", "published", "closed"}]
JobType == /\ handoff \in [Generators -> [rev : Nat, key : Keys \cup {None},
                  status : {"none", "enqueue_pending", "enqueued", "enqueue_failed"},
                  sources : SUBSET Sources]]
           /\ jobs \in SUBSET Generators
           /\ answer \in [Generators -> Generators \cup {None}]
HistoryType == /\ log \in Seq([op : {"add", "remove", "retry"}, source : Sources, rev : Nat])
               /\ confirmed \in [Revisions -> SUBSET Sources]
               /\ crashes \in 0 .. MaxCrashes
TypeOK == ActorType /\ FolderType /\ RowType /\ JobType /\ HistoryType

(* Edits are accepted one at a time, each against the very revision its    *)
(* client had asked to change: _increment_revision refuses all but one of  *)
(* the edits that passed _assert_revision together, and the revision       *)
(* counts the accepted ones.                                               *)
EditsAreSerial == /\ Len(log) = revision
                  /\ \A i \in DOMAIN log : log[i].rev = i - 1

(* An id reported to a client, or shown by the folder as its accepted      *)
(* generation request, is a job that exists; and requests with one key     *)
(* for one revision report one id (generate, complete_generation_handoff). *)
AnswersAgree ==
    /\ \A g \in Generators : answer[g] # None => answer[g] \in jobs
    /\ \A g, h \in Generators :
         /\ answer[g] # None /\ answer[h] # None
         /\ call[g].rev = call[h].rev /\ call[g].key = call[h].key
         => answer[g] = answer[h]
    /\ enqueue = "enqueued" => requestId \in jobs

(* Seen from outside, the folder keeps GenerationPromise: readiness holds  *)
(* for the current revision only, and a job exists only for a confirmed    *)
(* revision, once per revision and key.                                    *)
Confirmable == {r \in Revisions : confirmed[r] # {}}
Accepted    == {[rev |-> handoff[h].rev, key |-> handoff[h].key, id |-> h] : h \in jobs}
Promise == INSTANCE GenerationPromise WITH
    Ids <- Generators, ready <- status = "ready",
    confirmed <- Confirmable, accepted <- Accepted

KeepsPromise == Promise!Spec

(* When no edit is under way, a folder that is ready holds at least one    *)
(* source and none that blocks: mark_ready's two reads and its write are   *)
(* separate from the insertion and the bump of an addition.                *)
ReadyIsUsable ==
    status = "ready" /\ (\A e \in Editors : pc[e] = "idle") => Active # {} /\ Blocking = {}

(* Every handoff row a generate call inserts leaves enqueue_pending.       *)
HandoffSettles ==
    \A g \in Generators :
        handoff[g].status = "enqueue_pending"
        ~> handoff[g].status \in {"enqueued", "enqueue_failed"}

(* A link or text that a retry set to processing does not stay there.      *)
RetrySettles ==
    \A s \in Sources : source[s].kind # "file" /\ source[s].status = "processing"
                       ~> source[s].status # "processing"
===============================================================================
