--------------------------- MODULE MediaUpload_proofs ---------------------------
(* Theorems of MediaUpload and their proofs, for any numbers of actors.      *)
EXTENDS MediaUpload, TLAPS

(* Every program counter, by name. *)
LEMMA StepNames ==
    PCs = {"idle", "done", "adding", "provisioning", "recording", "discarding", "expiring",
           "expired", "loaded", "uploaded", "claimed", "working", "stored", "attached",
           "previewed", "completed", "readied", "raw_deleted", "superseded", "rollback",
           "deleting", "settling", "settled", "aborting", "cancelling", "cancelled",
           "removing", "detaching", "listed", "read", "expire", "finish_expired", "contain",
           "cleanup", "cleanup_assets", "finish_cleaned", "defer", "report",
           "report_exhausted"}
BY DEF PCs, CreatorPC, PublishingPC, PublishedPC, UndoingPC, OwningPC, UploaderPC, AborterPC,
       RemoverPC, ReconcilerPC

(* A move keeps the program counters of the right type. *)
LEMMA MoveType ==
    ASSUME TypeOK, NEW a \in Actors, NEW from, NEW to \in PCs, Move(a, from, to)
    PROVE  pc' \in [Actors -> PCs]
BY DEF Move, TypeOK

(* A step that leaves a tuple of variables alone leaves its type alone. *)
LEMMA FrameType ==
    ASSUME TypeOK
    PROVE  /\ UNCHANGED rowVars => RowType'
           /\ UNCHANGED sourceVars => SourceType'
           /\ UNCHANGED oldVars => OldType'
           /\ UNCHANGED storeVars => StoreType'
           /\ UNCHANGED localVars => LocalType'
           /\ UNCHANGED clockVars => ClockType'
           /\ UNCHANGED crashes => (crashes \in 0..MaxCrashes)'
BY DEF TypeOK, RowType, SourceType, OldType, StoreType, LocalType, ClockType, rowVars,
       sourceVars, oldVars, storeVars, localVars, clockVars

(* Each kind of actor keeps the types. *)
LEMMA CreateType ==
    ASSUME TypeOK, NEW c \in Creators, Create(c)
    PROVE  TypeOK'
<1> c \in Actors BY DEF Actors
<1> USE FrameType
<1>1. CASE CreateFindReplay(c)
  <2>1. pc' \in [Actors -> PCs] BY <1>1, MoveType, StepNames DEF CreateFindReplay
  <2> QED BY <1>1, <2>1 DEF CreateFindReplay, TypeOK
<1>2. CASE CreateAddSource(c)
  <2>1. pc' \in [Actors -> PCs] BY <1>2, MoveType, StepNames DEF CreateAddSource
  <2>2. SourceType' BY <1>2 DEF CreateAddSource, SourceType, UpdateSource, SourceStatuses,
        sourceVars, TypeOK
  <2> QED BY <1>2, <2>1, <2>2 DEF CreateAddSource, TypeOK
<1>3. CASE CreateProvision(c)
  <2>1. pc' \in [Actors -> PCs] BY <1>3, MoveType, StepNames DEF CreateProvision
  <2>2. StoreType' BY <1>3 DEF CreateProvision, StoreType, TypeOK
  <2> QED BY <1>3, <2>1, <2>2 DEF CreateProvision, TypeOK
<1>4. CASE CreateRecord(c)
  <2>1. pc' \in [Actors -> PCs] BY <1>4, MoveType, StepNames DEF CreateRecord
  <2>2. RowType' /\ ClockType' BY <1>4 DEF CreateRecord, RowType, ClockType, WriteStatus,
        SessionStatuses, TypeOK
  <2>3. StoreType' BY <1>4 DEF CreateRecord, StoreType, TypeOK
  <2> QED BY <1>4, <2>1, <2>2, <2>3 DEF CreateRecord, TypeOK
<1>5. CASE CreateDiscard(c)
  <2>1. pc' \in [Actors -> PCs] BY <1>5, MoveType, StepNames DEF CreateDiscard
  <2>2. SourceType' BY <1>5 DEF CreateDiscard, SourceType, UpdateSource, SourceStatuses,
        TypeOK
  <2> QED BY <1>5, <2>1, <2>2 DEF CreateDiscard, TypeOK
<1> QED BY <1>1, <1>2, <1>3, <1>4, <1>5 DEF Create

LEMMA UploadType ==
    ASSUME TypeOK, NEW u \in Uploaders, Upload(u)
    PROVE  TypeOK'
<1> u \in Actors BY DEF Actors
<1> USE FrameType
<1>1. CASE LoadSession(u)
  <2>1. pc' \in [Actors -> PCs] BY <1>1, MoveType, StepNames DEF LoadSession
  <2> QED BY <1>1, <2>1 DEF LoadSession, TypeOK
<1>2. CASE LoadExpire(u)
  <2>1. pc' \in [Actors -> PCs] BY <1>2, MoveType, StepNames DEF LoadExpire
  <2>2. RowType' /\ ClockType' BY <1>2 DEF LoadExpire, RowType, ClockType, Transition,
        WriteStatus, SessionStatuses, TypeOK
  <2> QED BY <1>2, <2>1, <2>2 DEF LoadExpire, TypeOK
<1>3. CASE LoadExpireSource(u)
  <2>1. pc' \in [Actors -> PCs] BY <1>3, MoveType, StepNames DEF LoadExpireSource
  <2>2. SourceType' BY <1>3 DEF LoadExpireSource, SourceType, UpdateSource,
        SourceStatuses, TypeOK
  <2> QED BY <1>3, <2>1, <2>2 DEF LoadExpireSource, TypeOK
<1>4. CASE UploadRaw(u)
  <2>1. pc' \in [Actors -> PCs] BY <1>4, MoveType, StepNames DEF UploadRaw
  <2>2. StoreType' BY <1>4 DEF UploadRaw, MayLeave, StoreType, Objects, TypeOK
  <2>3. LocalType' BY <1>4 DEF UploadRaw, LocalType, Objects, StoreType, TypeOK
  <2> QED BY <1>4, <2>1, <2>2, <2>3 DEF UploadRaw, TypeOK
<1>5. CASE Claim(u)
  <2>1. pc' \in [Actors -> PCs] BY <1>5, MoveType, StepNames DEF Claim
  <2>2. RowType' /\ ClockType' BY <1>5 DEF Claim, RowType, ClockType, Transition,
        WriteStatus, SessionStatuses, TypeOK
  <2> QED BY <1>5, <2>1, <2>2 DEF Claim, TypeOK
<1>6. CASE MarkProcessing(u)
  <2>1. pc' \in [Actors -> PCs] BY <1>6, MoveType, StepNames DEF MarkProcessing
  <2>2. SourceType' BY <1>6 DEF MarkProcessing, SourceType, UpdateSource, SourceStatuses,
        TypeOK
  <2> QED BY <1>6, <2>1, <2>2 DEF MarkProcessing, TypeOK
<1>7. CASE StoreCanonical(u)
  <2>1. pc' \in [Actors -> PCs] BY <1>7, MoveType, StepNames DEF StoreCanonical
  <2>2. StoreType' BY <1>7 DEF StoreCanonical, MayLeave, StoreType, Objects, TypeOK
  <2>3. LocalType' BY <1>7 DEF StoreCanonical, LocalType, Objects, TypeOK
  <2> QED BY <1>7, <2>1, <2>2, <2>3 DEF StoreCanonical, TypeOK
<1>8. CASE AttachAsset(u)
  <2>1. pc' \in [Actors -> PCs] BY <1>8, MoveType, StepNames DEF AttachAsset
  <2>2. StoreType' BY <1>8 DEF AttachAsset, StoreType, Assets, TypeOK
  <2>3. LocalType' BY <1>8 DEF AttachAsset, LocalType, Assets, TypeOK
  <2> QED BY <1>8, <2>1, <2>2, <2>3 DEF AttachAsset, TypeOK
<1>9. CASE AttachPreview(u)
  <2>1. pc' \in [Actors -> PCs] BY <1>9, MoveType, StepNames DEF AttachPreview
  <2>2. StoreType' BY <1>9 DEF AttachPreview, MayLeave, StoreType, Assets, Objects, TypeOK
  <2>3. LocalType' BY <1>9 DEF AttachPreview, LocalType, Assets, Objects, TypeOK
  <2> QED BY <1>9, <2>1, <2>2, <2>3 DEF AttachPreview, TypeOK
<1>10. CASE CompleteSession(u)
  <2>1. pc' \in [Actors -> PCs] BY <1>10, MoveType, StepNames DEF CompleteSession
  <2>2. RowType' /\ ClockType' BY <1>10 DEF CompleteSession, RowType, ClockType,
        WriteStatus, SessionStatuses, TypeOK
  <2> QED BY <1>10, <2>1, <2>2 DEF CompleteSession, TypeOK
<1>11. CASE PublishSource(u)
  <2>1. pc' \in [Actors -> PCs] BY <1>11, MoveType, StepNames DEF PublishSource
  <2>2. SourceType' BY <1>11 DEF PublishSource, SourceType, UpdateSource, SourceStatuses,
        sourceVars, TypeOK
  <2> QED BY <1>11, <2>1, <2>2 DEF PublishSource, TypeOK
<1>12. CASE DeleteRaw(u)
  <2>1. pc' \in [Actors -> PCs] BY <1>12, MoveType, StepNames DEF DeleteRaw
  <2>2. StoreType' BY <1>12 DEF DeleteRaw, StoreType, TypeOK
  <2> QED BY <1>12, <2>1, <2>2 DEF DeleteRaw, TypeOK
<1>13. CASE Supersede(u)
  <2>1. pc' \in [Actors -> PCs] BY <1>13, MoveType, StepNames DEF Supersede
  <2>2. OldType' BY <1>13 DEF Supersede, OldType, TypeOK
  <2> QED BY <1>13, <2>1, <2>2 DEF Supersede, TypeOK
<1>14. CASE DetachReplaced(u)
  <2>1. pc' \in [Actors -> PCs] BY <1>14, MoveType, StepNames DEF DetachReplaced
  <2>2. OldType' BY <1>14 DEF DetachReplaced, OldType, TypeOK
  <2> QED BY <1>14, <2>1, <2>2 DEF DetachReplaced, TypeOK
<1>15. CASE RollbackAssets(u)
  <2>1. pc' \in [Actors -> PCs] BY <1>15, MoveType, StepNames DEF RollbackAssets
  <2>2. StoreType' BY <1>15 DEF RollbackAssets, StoreType, TypeOK
  <2>3. LocalType' BY <1>15 DEF RollbackAssets, LocalType, TypeOK
  <2> QED BY <1>15, <2>1, <2>2, <2>3 DEF RollbackAssets, TypeOK
<1>16. CASE DeleteHeld(u)
  <2>1. pc' \in [Actors -> PCs] BY <1>16, MoveType, StepNames DEF DeleteHeld
  <2>2. StoreType' BY <1>16 DEF DeleteHeld, StoreType, TypeOK
  <2>3. LocalType' BY <1>16 DEF DeleteHeld, LocalType, TypeOK
  <2> QED BY <1>16, <2>1, <2>2, <2>3 DEF DeleteHeld, TypeOK
<1>17. CASE SettleSession(u)
  <2>1. pc' \in [Actors -> PCs] BY <1>17, MoveType, StepNames DEF SettleSession
  <2>2. RowType' /\ ClockType' BY <1>17 DEF SettleSession, RowType, ClockType,
        WriteStatus, SessionStatuses, LocalType, TypeOK
  <2> QED BY <1>17, <2>1, <2>2 DEF SettleSession, TypeOK
<1>18. CASE SettleSource(u)
  <2>1. pc' \in [Actors -> PCs] BY <1>18, MoveType, StepNames DEF SettleSource
  <2>2. SourceType' BY <1>18 DEF SettleSource, SourceType, UpdateSource, SourceStatuses,
        TypeOK
  <2> QED BY <1>18, <2>1, <2>2 DEF SettleSource, TypeOK
<1> QED BY <1>1, <1>2, <1>3, <1>4, <1>5, <1>6, <1>7, <1>8, <1>9, <1>10, <1>11, <1>12,
      <1>13, <1>14, <1>15, <1>16, <1>17, <1>18 DEF Upload

LEMMA AbortType ==
    ASSUME TypeOK, NEW a \in Aborters, Abort(a)
    PROVE  TypeOK'
<1> a \in Actors BY DEF Actors
<1> USE FrameType
<1>1. CASE AbortLoad(a)
  <2>1. pc' \in [Actors -> PCs] BY <1>1, MoveType, StepNames DEF AbortLoad
  <2> QED BY <1>1, <2>1 DEF AbortLoad, TypeOK
<1>2. CASE AbortProvider(a)
  <2>1. pc' \in [Actors -> PCs] BY <1>2, MoveType, StepNames DEF AbortProvider
  <2>2. StoreType' BY <1>2 DEF AbortProvider, StoreType, TypeOK
  <2> QED BY <1>2, <2>1, <2>2 DEF AbortProvider, TypeOK
<1>3. CASE AbortClaim(a)
  <2>1. pc' \in [Actors -> PCs] BY <1>3, MoveType, StepNames DEF AbortClaim
  <2>2. RowType' /\ ClockType' BY <1>3 DEF AbortClaim, RowType, ClockType, Transition,
        WriteStatus, SessionStatuses, TypeOK
  <2> QED BY <1>3, <2>1, <2>2 DEF AbortClaim, TypeOK
<1>4. CASE AbortSource(a)
  <2>1. pc' \in [Actors -> PCs] BY <1>4, MoveType, StepNames DEF AbortSource
  <2>2. SourceType' BY <1>4 DEF AbortSource, SourceType, UpdateSource, SourceStatuses,
        TypeOK
  <2> QED BY <1>4, <2>1, <2>2 DEF AbortSource, TypeOK
<1> QED BY <1>1, <1>2, <1>3, <1>4 DEF Abort

LEMMA RemoveType ==
    ASSUME TypeOK, NEW d \in Removers, Remove(d)
    PROVE  TypeOK'
<1> d \in Actors BY DEF Actors
<1> USE FrameType
<1>1. CASE RemoveRead(d)
  <2>1. pc' \in [Actors -> PCs] BY <1>1, MoveType, StepNames DEF RemoveRead
  <2>2. LocalType' BY <1>1 DEF RemoveRead, LocalType, TypeOK
  <2> QED BY <1>1, <2>1, <2>2 DEF RemoveRead, TypeOK
<1>2. CASE RemoveWrite(d)
  <2>1. pc' \in [Actors -> PCs] BY <1>2, MoveType, StepNames DEF RemoveWrite
  <2>2. SourceType' BY <1>2 DEF RemoveWrite, SourceType, SourceStatuses, TypeOK
  <2> QED BY <1>2, <2>1, <2>2 DEF RemoveWrite, TypeOK
<1>3. CASE RemoveDetach(d)
  <2>1. pc' \in [Actors -> PCs] BY <1>3, MoveType, StepNames DEF RemoveDetach
  <2>2. StoreType' BY <1>3 DEF RemoveDetach, StoreType, TypeOK
  <2> QED BY <1>3, <2>1, <2>2 DEF RemoveDetach, TypeOK
<1> QED BY <1>1, <1>2, <1>3 DEF Remove

(* A claimed candidate goes to one of the three repairs. *)
LEMMA BranchType == \A s : Branch(s) \in PCs
<1> SUFFICES ASSUME NEW s PROVE Branch(s) \in PCs OBVIOUS
<1>1. CASE s = "created" BY <1>1, StepNames DEF Branch
<1>2. CASE s = "processing" BY <1>2, StepNames DEF Branch
<1>3. CASE s # "created" /\ s # "processing" BY <1>3, StepNames DEF Branch
<1> QED BY <1>1, <1>2, <1>3

(* Counting an attempt stays within the ceiling. *)
LEMMA BumpType == \A n \in 0..MaxAttempts : Bump(n) \in 0..MaxAttempts
BY BoundsAssumption DEF Bump

LEMMA ReconcileType ==
    ASSUME TypeOK, NEW k \in Reconcilers, Reconcile(k)
    PROVE  TypeOK'
<1> k \in Actors BY DEF Actors
<1> USE FrameType
<1>1. CASE ListCandidates(k)
  <2>1. pc' \in [Actors -> PCs] BY <1>1, MoveType, StepNames DEF ListCandidates
  <2> QED BY <1>1, <2>1 DEF ListCandidates, TypeOK
<1>2. CASE ReadCandidate(k)
  <2>1. pc' \in [Actors -> PCs] BY <1>2, MoveType, StepNames DEF ReadCandidate
  <2>2. LocalType' BY <1>2 DEF ReadCandidate, LocalType, RowType, Snaps, TypeOK
  <2> QED BY <1>2, <2>1, <2>2 DEF ReadCandidate, TypeOK
<1>3. CASE TakeLease(k)
  <2>1. pc' \in [Actors -> PCs] BY <1>3, BranchType, MoveType, StepNames DEF TakeLease
  <2>2. RowType' BY <1>3, BumpType DEF TakeLease, RowType, TypeOK
  <2>3. ClockType'
    <3>1. CASE lapsed' = FALSE /\ stale' = FALSE BY <1>3, <3>1 DEF TakeLease, ClockType, TypeOK
    <3>2. CASE UNCHANGED <<lapsed, stale>> BY <1>3, <3>2 DEF TakeLease, ClockType, TypeOK
    <3> QED BY <1>3, <3>1, <3>2 DEF TakeLease
  <2>4. LocalType' BY <1>3, BumpType, BoundsAssumption DEF TakeLease, LocalType, NoSnap,
        Snaps, SessionStatuses, TypeOK
  <2> QED BY <1>3, <2>1, <2>2, <2>3, <2>4 DEF TakeLease, TypeOK
<1>4. CASE ExpireProvider(k)
  <2>1. pc' \in [Actors -> PCs] BY <1>4, MoveType, StepNames DEF ExpireProvider
  <2>2. StoreType' BY <1>4 DEF ExpireProvider, StoreType, TypeOK
  <2> QED BY <1>4, <2>1, <2>2 DEF ExpireProvider, TypeOK
<1>5. CASE CleanupObjects(k)
  <2>1. pc' \in [Actors -> PCs] BY <1>5, MoveType, StepNames DEF CleanupObjects
  <2>2. StoreType' BY <1>5 DEF CleanupObjects, StoreType, TypeOK
  <2> QED BY <1>5, <2>1, <2>2 DEF CleanupObjects, TypeOK
<1>6. CASE CleanupAssets(k)
  <2>1. pc' \in [Actors -> PCs] BY <1>6, MoveType, StepNames DEF CleanupAssets
  <2>2. StoreType' BY <1>6 DEF CleanupAssets, StoreType, TypeOK
  <2> QED BY <1>6, <2>1, <2>2 DEF CleanupAssets, TypeOK
<1>7. CASE FinishReconciliation(k)
  <2>1. pc' \in [Actors -> PCs] BY <1>7, MoveType, StepNames DEF FinishReconciliation,
        Finish
  <2>2. RowType' /\ ClockType' BY <1>7 DEF FinishReconciliation, RowType, ClockType,
        Finish, WriteStatus, SessionStatuses, TypeOK
  <2> QED BY <1>7, <2>1, <2>2 DEF FinishReconciliation, Finish, TypeOK
<1>8. CASE Defer(k)
  <2>1. pc' \in [Actors -> PCs] BY <1>8, MoveType, StepNames DEF Defer
  <2>2. RowType' /\ ClockType' BY <1>8 DEF Defer, RowType, ClockType, WriteStatus,
        SessionStatuses, Exhausted, TypeOK
  <2>3. LocalType' BY <1>8, BoundsAssumption DEF Defer, LocalType, NoSnap, Snaps,
        SessionStatuses, TypeOK
  <2> QED BY <1>8, <2>1, <2>2, <2>3 DEF Defer, TypeOK
<1>9. CASE Report(k)
  <2>1. pc' \in [Actors -> PCs] BY <1>9, MoveType, StepNames DEF Report
  <2>2. SourceType' BY <1>9 DEF Report, SourceType, UpdateSource, SourceStatuses, TypeOK
  <2>3. LocalType' BY <1>9, BoundsAssumption DEF Report, LocalType, NoSnap, Snaps,
        SessionStatuses, TypeOK
  <2> QED BY <1>9, <2>1, <2>2, <2>3 DEF Report, TypeOK
<1> QED BY <1>1, <1>2, <1>3, <1>4, <1>5, <1>6, <1>7, <1>8, <1>9 DEF Reconcile
LEMMA TimeType == ASSUME TypeOK, Time PROVE TypeOK'
<1> USE FrameType
<1>1. CASE Expire BY <1>1 DEF Expire, TypeOK, ClockType
<1>2. CASE GrowStale BY <1>2 DEF GrowStale, TypeOK, ClockType
<1>3. CASE LapseLease BY <1>3 DEF LapseLease, TypeOK, ClockType
<1>4. CASE EndBackoff BY <1>4 DEF EndBackoff, TypeOK, ClockType
<1> QED BY <1>1, <1>2, <1>3, <1>4 DEF Time

LEMMA CrashType == ASSUME TypeOK, NEW a \in Actors, Crash(a) PROVE TypeOK'
<1>1. pc' \in [Actors -> PCs] BY StepNames DEF Crash, TypeOK
<1>2. LocalType' BY BoundsAssumption DEF Crash, TypeOK, LocalType, NoSnap, Snaps, SessionStatuses
<1>3. (crashes \in 0..MaxCrashes)' BY BoundsAssumption DEF Crash, TypeOK
<1> QED BY <1>1, <1>2, <1>3, FrameType DEF Crash, TypeOK

(* The type invariant holds for any actors and bounds. *)
THEOREM TypeCorrect == Spec => []TypeOK
<1>1. Init => TypeOK
  <2> SUFFICES ASSUME Init PROVE TypeOK OBVIOUS
  <2>1. pc \in [Actors -> PCs] BY StepNames DEF Init
  <2>2. RowType BY BoundsAssumption DEF Init, RowType, SessionStatuses
  <2>3. SourceType /\ OldType BY BoundsAssumption DEF Init, SourceType, OldType, SourceStatuses
  <2>4. StoreType /\ ClockType BY DEF Init, StoreType, ClockType
  <2>5. NoSnap \in Snaps BY BoundsAssumption DEF NoSnap, Snaps, SessionStatuses
  <2>6. LocalType BY <2>5 DEF Init, LocalType
  <2>7. crashes \in 0..MaxCrashes BY BoundsAssumption DEF Init
  <2> QED BY <2>1, <2>2, <2>3, <2>4, <2>6, <2>7 DEF TypeOK
<1>2. TypeOK /\ [Next]_vars => TypeOK'
  <2> SUFFICES ASSUME TypeOK, [Next]_vars PROVE TypeOK' OBVIOUS
  <2>1. CASE Next
    BY <2>1, CreateType, UploadType, AbortType, RemoveType, ReconcileType, TimeType, CrashType
       DEF Next
  <2>2. CASE UNCHANGED vars BY <2>2, FrameType DEF vars, TypeOK
  <2> QED BY <2>1, <2>2
<1> QED BY <1>1, <1>2, PTL DEF Spec

-------------------------------------------------------------------------------
(* Inductive invariant of the exclusive claim: the session row is created   *)
(* once, nobody owns it before the created -> processing transition, and    *)
(* nothing ever makes it claimable again.                                   *)
Recording(c) == pc[c] \in {"provisioning", "recording"}

OneRecord == \A c \in Creators : Recording(c) =>
                /\ status = "none" /\ sourceStatus # "none"
                /\ \A b \in Creators : Recording(b) => b = c

SourceFirst == sourceStatus = "none" => status = "none"

QuietBefore == status = "none" => \A k \in Reconcilers : pc[k] = "idle"

Claimed == status \notin {"none", "created"}

OwnedClaimed == \A u \in Uploaders : pc[u] \in OwningPC => Claimed

ClaimParts == OneRecord /\ SourceFirst /\ QuietBefore /\ OwnedClaimed /\ ExclusiveCompletion

ClaimInv == TypeOK /\ ClaimParts


(* Each kind of step keeps the claim exclusive.                             *)
LEMMA ClaimCreate ==
    ASSUME ClaimInv, NEW c \in Creators, Create(c)
    PROVE  ClaimParts'
<1> c \in Actors BY DEF Actors
<1> USE ActorsAreDistinct DEF ClaimInv, ClaimParts, OneRecord, SourceFirst, QuietBefore,
        OwnedClaimed, ExclusiveCompletion, Claimed, Recording, TypeOK, Actors, Move, rowVars,
        sourceVars, OwningPC, PublishingPC, PublishedPC, UndoingPC
<1>1. CASE CreateFindReplay(c) BY <1>1 DEF CreateFindReplay
<1>2. CASE CreateAddSource(c) BY <1>2 DEF CreateAddSource, UpdateSource, sourceVars
<1>3. CASE CreateProvision(c) BY <1>3 DEF CreateProvision
<1>4. CASE CreateRecord(c) BY <1>4 DEF CreateRecord, WriteStatus
<1>5. CASE CreateDiscard(c) BY <1>5 DEF CreateDiscard, UpdateSource
<1> QED BY <1>1, <1>2, <1>3, <1>4, <1>5 DEF Create

LEMMA ClaimUpload ==
    ASSUME ClaimInv, NEW u \in Uploaders, Upload(u)
    PROVE  ClaimParts'
<1> u \in Actors BY DEF Actors
<1> USE ActorsAreDistinct DEF ClaimInv, ClaimParts, OneRecord, SourceFirst, QuietBefore,
        OwnedClaimed, ExclusiveCompletion, Claimed, Recording, TypeOK, Actors, Move, rowVars,
        sourceVars, OwningPC, PublishingPC, PublishedPC, UndoingPC
<1>1. CASE LoadSession(u) BY <1>1 DEF LoadSession
<1>2. CASE LoadExpire(u) BY <1>2 DEF LoadExpire, Transition, WriteStatus
<1>3. CASE LoadExpireSource(u) BY <1>3 DEF LoadExpireSource, UpdateSource
<1>4. CASE UploadRaw(u) BY <1>4 DEF UploadRaw
<1>5. CASE Claim(u) BY <1>5 DEF Claim, Transition, WriteStatus
<1>6. CASE MarkProcessing(u) BY <1>6 DEF MarkProcessing, UpdateSource
<1>7. CASE StoreCanonical(u) BY <1>7 DEF StoreCanonical
<1>8. CASE AttachAsset(u) BY <1>8 DEF AttachAsset
<1>9. CASE AttachPreview(u) BY <1>9 DEF AttachPreview
<1>10. CASE CompleteSession(u) BY <1>10 DEF CompleteSession, WriteStatus
<1>11. CASE PublishSource(u) BY <1>11 DEF PublishSource, UpdateSource, sourceVars
<1>12. CASE DeleteRaw(u) BY <1>12 DEF DeleteRaw
<1>13. CASE Supersede(u) BY <1>13 DEF Supersede
<1>14. CASE DetachReplaced(u) BY <1>14 DEF DetachReplaced
<1>15. CASE RollbackAssets(u) BY <1>15 DEF RollbackAssets
<1>16. CASE DeleteHeld(u) BY <1>16 DEF DeleteHeld
<1>17. CASE SettleSession(u) BY <1>17 DEF SettleSession, WriteStatus
<1>18. CASE SettleSource(u) BY <1>18 DEF SettleSource, UpdateSource
<1> QED BY <1>1, <1>2, <1>3, <1>4, <1>5, <1>6, <1>7, <1>8, <1>9, <1>10, <1>11, <1>12, <1>13,
        <1>14, <1>15, <1>16, <1>17, <1>18 DEF Upload

LEMMA ClaimAbort ==
    ASSUME ClaimInv, NEW a \in Aborters, Abort(a)
    PROVE  ClaimParts'
<1> a \in Actors BY DEF Actors
<1> USE ActorsAreDistinct DEF ClaimInv, ClaimParts, OneRecord, SourceFirst, QuietBefore,
        OwnedClaimed, ExclusiveCompletion, Claimed, Recording, TypeOK, Actors, Move, rowVars,
        sourceVars, OwningPC, PublishingPC, PublishedPC, UndoingPC
<1>1. CASE AbortLoad(a) BY <1>1 DEF AbortLoad
<1>2. CASE AbortProvider(a) BY <1>2 DEF AbortProvider
<1>3. CASE AbortClaim(a) BY <1>3 DEF AbortClaim, Transition, WriteStatus
<1>4. CASE AbortSource(a) BY <1>4 DEF AbortSource, UpdateSource
<1> QED BY <1>1, <1>2, <1>3, <1>4 DEF Abort

LEMMA ClaimRemove ==
    ASSUME ClaimInv, NEW d \in Removers, Remove(d)
    PROVE  ClaimParts'
<1> d \in Actors BY DEF Actors
<1> USE ActorsAreDistinct DEF ClaimInv, ClaimParts, OneRecord, SourceFirst, QuietBefore,
        OwnedClaimed, ExclusiveCompletion, Claimed, Recording, TypeOK, Actors, Move, rowVars,
        sourceVars, OwningPC, PublishingPC, PublishedPC, UndoingPC
<1>1. CASE RemoveRead(d) BY <1>1 DEF RemoveRead
<1>2. CASE RemoveWrite(d) BY <1>2 DEF RemoveWrite
<1>3. CASE RemoveDetach(d) BY <1>3 DEF RemoveDetach
<1> QED BY <1>1, <1>2, <1>3 DEF Remove

LEMMA ClaimReconcile ==
    ASSUME ClaimInv, NEW k \in Reconcilers, Reconcile(k)
    PROVE  ClaimParts'
<1> k \in Actors BY DEF Actors
<1> USE ActorsAreDistinct DEF ClaimInv, ClaimParts, OneRecord, SourceFirst, QuietBefore,
        OwnedClaimed, ExclusiveCompletion, Claimed, Recording, TypeOK, Actors, Move, rowVars,
        sourceVars, OwningPC, PublishingPC, PublishedPC, UndoingPC
<1>1. CASE ListCandidates(k) BY <1>1 DEF ListCandidates, Candidate
<1>2. CASE ReadCandidate(k) BY <1>2 DEF ReadCandidate
<1>3. CASE TakeLease(k) BY <1>3 DEF TakeLease, Branch
<1>4. CASE ExpireProvider(k) BY <1>4 DEF ExpireProvider
<1>5. CASE CleanupObjects(k) BY <1>5 DEF CleanupObjects
<1>6. CASE CleanupAssets(k) BY <1>6 DEF CleanupAssets
<1>7. CASE FinishReconciliation(k) BY <1>7 DEF FinishReconciliation, Finish, WriteStatus
<1>8. CASE Defer(k) BY <1>8 DEF Defer, WriteStatus
<1>9. CASE Report(k) BY <1>9 DEF Report, UpdateSource
<1> QED BY <1>1, <1>2, <1>3, <1>4, <1>5, <1>6, <1>7, <1>8, <1>9 DEF Reconcile
LEMMA ClaimTime == ASSUME ClaimInv, Time PROVE ClaimParts'
BY DEF Time, Expire, GrowStale, LapseLease, EndBackoff, ClaimInv, ClaimParts, OneRecord,
       SourceFirst, QuietBefore, OwnedClaimed, ExclusiveCompletion, Claimed, Recording, rowVars,
       sourceVars

LEMMA ClaimCrash == ASSUME ClaimInv, NEW a \in Actors, Crash(a) PROVE ClaimParts'
BY DEF Crash, ClaimInv, ClaimParts, OneRecord, SourceFirst, QuietBefore, OwnedClaimed,
       ExclusiveCompletion, Claimed, Recording, TypeOK, rowVars, sourceVars,
       OwningPC, PublishingPC, PublishedPC, UndoingPC

LEMMA ClaimStutter == ASSUME ClaimInv, UNCHANGED vars PROVE ClaimParts'
BY DEF vars, ClaimInv, ClaimParts, OneRecord, SourceFirst, QuietBefore, OwnedClaimed,
       ExclusiveCompletion, Claimed, Recording, rowVars, sourceVars

THEOREM ClaimInvariant == Spec => []ClaimInv
<1>1. Init => ClaimParts
  BY DEF Init, ClaimParts, OneRecord, SourceFirst, QuietBefore, OwnedClaimed,
         ExclusiveCompletion, Recording, Actors, OwningPC, PublishingPC, PublishedPC, UndoingPC
<1>2. ClaimInv /\ [Next]_vars => ClaimParts'
  <2> SUFFICES ASSUME ClaimInv, [Next]_vars PROVE ClaimParts' OBVIOUS
  <2>1. CASE Next
    BY <2>1, ClaimCreate, ClaimUpload, ClaimAbort, ClaimRemove, ClaimReconcile, ClaimTime,
       ClaimCrash DEF Next
  <2>2. CASE UNCHANGED vars BY <2>2, ClaimStutter
  <2> QED BY <2>1, <2>2
<1> QED BY <1>1, <1>2, TypeCorrect, PTL DEF Spec, ClaimInv

(* "exactly one worker owns the next side effects" among the completions:   *)
(* the claim of transition_upload_session is exclusive for ever, with any   *)
(* requests, reconcilers, crashes and lost replies.                         *)
THEOREM ExclusiveClaim == Spec => []ExclusiveCompletion
<1>1. ClaimInv => ExclusiveCompletion BY DEF ClaimInv, ClaimParts
<1> QED BY <1>1, ClaimInvariant, PTL

-------------------------------------------------------------------------------
(* Inductive invariant of ReadyBacked when no write raises after it was     *)
(* applied: whoever may take an asset or an object away works for an upload *)
(* that can no longer be published.                                         *)
Attached(u) == pc[u] \in {"attached", "previewed", "completed"}

HoldsUpload == \A u \in Uploaders :
    /\ Attached(u) \/ pc[u] = "stored" => <<"canonical", u>> \in objects
    /\ Attached(u) => <<"main", u>> \in usages

Decided == Claimed /\ \A u \in Uploaders : pc[u] \notin PublishingPC

Published == Decided /\ \A u \in Uploaders : pc[u] \notin UndoingPC

AssetPublished == /\ sourceStatus = "ready" => sourceAsset # None
                  /\ sourceAsset # None => Published
                  /\ \A d \in Removers : sawAsset[d] => Published

DetachRemoved == \A d \in Removers : pc[d] = "detaching" => sawAsset[d] /\ sourceStatus # "ready"

Dropped == Decided /\ sourceStatus # "ready"

PlanDropped == /\ plan \cup planAssets # {} => Dropped
               /\ \A k \in Reconcilers : snap[k].plan \cup snap[k].assets # {} => Dropped

BackedParts == HoldsUpload /\ AssetPublished /\ DetachRemoved /\ PlanDropped /\ ReadyBacked

BackedInv == ClaimInv /\ BackedParts

(* Each kind of step keeps a ready source backed.                           *)
LEMMA BackedCreate ==
    ASSUME ~LostReplies, BackedInv, ClaimInv', NEW c \in Creators, Create(c)
    PROVE  BackedParts'
<1> c \in Actors BY DEF Actors
<1> USE ActorsAreDistinct DEF ClaimInv, ClaimParts, OneRecord, OwnedClaimed,
        ExclusiveCompletion, Claimed, Recording, TypeOK, Actors, Move, rowVars, sourceVars,
        storeVars, localVars, RowType, SourceType, StoreType, LocalType, Snaps, BackedInv,
        BackedParts, HoldsUpload, AssetPublished, DetachRemoved, PlanDropped, ReadyBacked,
        Attached, Decided, Published, Dropped, OwningPC, PublishingPC, PublishedPC, UndoingPC
<1>1. CASE CreateFindReplay(c) BY <1>1 DEF CreateFindReplay
<1>2. CASE CreateAddSource(c) BY <1>2 DEF CreateAddSource, UpdateSource, sourceVars
<1>3. CASE CreateProvision(c) BY <1>3 DEF CreateProvision
<1>4. CASE CreateRecord(c) BY <1>4 DEF CreateRecord, WriteStatus
<1>5. CASE CreateDiscard(c) BY <1>5 DEF CreateDiscard, UpdateSource
<1> QED BY <1>1, <1>2, <1>3, <1>4, <1>5 DEF Create

LEMMA BackedUpload ==
    ASSUME ~LostReplies, BackedInv, ClaimInv', NEW u \in Uploaders, Upload(u)
    PROVE  BackedParts'
<1> u \in Actors BY DEF Actors
<1> USE ActorsAreDistinct DEF ClaimInv, ClaimParts, OneRecord, OwnedClaimed,
        ExclusiveCompletion, Claimed, Recording, TypeOK, Actors, Move, rowVars, sourceVars,
        storeVars, localVars, RowType, SourceType, StoreType, LocalType, Snaps, BackedInv,
        BackedParts, HoldsUpload, AssetPublished, DetachRemoved, PlanDropped, ReadyBacked,
        Attached, Decided, Published, Dropped, OwningPC, PublishingPC, PublishedPC, UndoingPC
<1>1. CASE LoadSession(u) BY <1>1 DEF LoadSession
<1>2. CASE LoadExpire(u) BY <1>2 DEF LoadExpire, Transition, WriteStatus
<1>3. CASE LoadExpireSource(u) BY <1>3 DEF LoadExpireSource, UpdateSource
<1>4. CASE UploadRaw(u) BY <1>4 DEF UploadRaw, MayLeave
<1>5. CASE Claim(u) BY <1>5 DEF Claim, Transition, WriteStatus
<1>6. CASE MarkProcessing(u) BY <1>6 DEF MarkProcessing, UpdateSource
<1>7. CASE StoreCanonical(u) BY <1>7 DEF StoreCanonical
<1>8. CASE AttachAsset(u) BY <1>8 DEF AttachAsset
<1>9. CASE AttachPreview(u) BY <1>9 DEF AttachPreview
<1>10. CASE CompleteSession(u) BY <1>10 DEF CompleteSession, WriteStatus
<1>11. CASE PublishSource(u) BY <1>11 DEF PublishSource, UpdateSource, sourceVars
<1>12. CASE DeleteRaw(u) BY <1>12 DEF DeleteRaw
<1>13. CASE Supersede(u) BY <1>13 DEF Supersede
<1>14. CASE DetachReplaced(u) BY <1>14 DEF DetachReplaced
<1>15. CASE RollbackAssets(u) BY <1>15 DEF RollbackAssets
<1>16. CASE DeleteHeld(u) BY <1>16 DEF DeleteHeld
<1>17. CASE SettleSession(u) BY <1>17 DEF SettleSession, WriteStatus
<1>18. CASE SettleSource(u) BY <1>18 DEF SettleSource, UpdateSource
<1> QED BY <1>1, <1>2, <1>3, <1>4, <1>5, <1>6, <1>7, <1>8, <1>9, <1>10, <1>11, <1>12, <1>13,
        <1>14, <1>15, <1>16, <1>17, <1>18 DEF Upload

LEMMA BackedAbort ==
    ASSUME ~LostReplies, BackedInv, ClaimInv', NEW a \in Aborters, Abort(a)
    PROVE  BackedParts'
<1> a \in Actors BY DEF Actors
<1> USE ActorsAreDistinct DEF ClaimInv, ClaimParts, OneRecord, OwnedClaimed,
        ExclusiveCompletion, Claimed, Recording, TypeOK, Actors, Move, rowVars, sourceVars,
        storeVars, localVars, RowType, SourceType, StoreType, LocalType, Snaps, BackedInv,
        BackedParts, HoldsUpload, AssetPublished, DetachRemoved, PlanDropped, ReadyBacked,
        Attached, Decided, Published, Dropped, OwningPC, PublishingPC, PublishedPC, UndoingPC
<1>1. CASE AbortLoad(a) BY <1>1 DEF AbortLoad
<1>2. CASE AbortProvider(a) BY <1>2 DEF AbortProvider
<1>3. CASE AbortClaim(a) BY <1>3 DEF AbortClaim, Transition, WriteStatus
<1>4. CASE AbortSource(a) BY <1>4 DEF AbortSource, UpdateSource
<1> QED BY <1>1, <1>2, <1>3, <1>4 DEF Abort

LEMMA BackedRemove ==
    ASSUME ~LostReplies, BackedInv, ClaimInv', NEW d \in Removers, Remove(d)
    PROVE  BackedParts'
<1> d \in Actors BY DEF Actors
<1> USE ActorsAreDistinct DEF ClaimInv, ClaimParts, OneRecord, OwnedClaimed,
        ExclusiveCompletion, Claimed, Recording, TypeOK, Actors, Move, rowVars, sourceVars,
        storeVars, localVars, RowType, SourceType, StoreType, LocalType, Snaps, BackedInv,
        BackedParts, HoldsUpload, AssetPublished, DetachRemoved, PlanDropped, ReadyBacked,
        Attached, Decided, Published, Dropped, OwningPC, PublishingPC, PublishedPC, UndoingPC
<1>1. CASE RemoveRead(d) BY <1>1 DEF RemoveRead
<1>2. CASE RemoveWrite(d) BY <1>2 DEF RemoveWrite
<1>3. CASE RemoveDetach(d) BY <1>3 DEF RemoveDetach
<1> QED BY <1>1, <1>2, <1>3 DEF Remove

LEMMA BackedReconcile ==
    ASSUME ~LostReplies, BackedInv, ClaimInv', NEW k \in Reconcilers, Reconcile(k)
    PROVE  BackedParts'
<1> k \in Actors BY DEF Actors
<1> USE ActorsAreDistinct DEF ClaimInv, ClaimParts, OneRecord, OwnedClaimed,
        ExclusiveCompletion, Claimed, Recording, TypeOK, Actors, Move, rowVars, sourceVars,
        storeVars, localVars, RowType, SourceType, StoreType, LocalType, Snaps, BackedInv,
        BackedParts, HoldsUpload, AssetPublished, DetachRemoved, PlanDropped, ReadyBacked,
        Attached, Decided, Published, Dropped, OwningPC, PublishingPC, PublishedPC, UndoingPC
<1>1. CASE ListCandidates(k) BY <1>1 DEF ListCandidates, Candidate
<1>2. CASE ReadCandidate(k) BY <1>2 DEF ReadCandidate
<1>3. CASE TakeLease(k) BY <1>3 DEF TakeLease, Branch, NoSnap
<1>4. CASE ExpireProvider(k) BY <1>4 DEF ExpireProvider
<1>5. CASE CleanupObjects(k) BY <1>5 DEF CleanupObjects
<1>6. CASE CleanupAssets(k) BY <1>6 DEF CleanupAssets
<1>7. CASE FinishReconciliation(k) BY <1>7 DEF FinishReconciliation, Finish, WriteStatus
<1>8. CASE Defer(k) BY <1>8 DEF Defer, WriteStatus, NoSnap
<1>9. CASE Report(k) BY <1>9 DEF Report, UpdateSource, NoSnap
<1> QED BY <1>1, <1>2, <1>3, <1>4, <1>5, <1>6, <1>7, <1>8, <1>9 DEF Reconcile
LEMMA BackedTime == ASSUME BackedInv, ClaimInv', Time PROVE BackedParts'
BY DEF Time, Expire, GrowStale, LapseLease, EndBackoff, BackedInv, BackedParts, HoldsUpload,
       AssetPublished, DetachRemoved, PlanDropped, ReadyBacked, Attached, Decided, Published,
       Dropped, Claimed, rowVars, sourceVars, storeVars, localVars

LEMMA BackedCrash == ASSUME BackedInv, ClaimInv', NEW a \in Actors, Crash(a) PROVE BackedParts'
BY DEF Crash, ClaimInv, TypeOK, LocalType, BackedInv, BackedParts, HoldsUpload, AssetPublished,
       DetachRemoved, PlanDropped, ReadyBacked, Attached, Decided, Published, Dropped, Claimed,
       NoSnap, rowVars, sourceVars, storeVars, OwningPC, PublishingPC, PublishedPC, UndoingPC

LEMMA BackedStutter == ASSUME BackedInv, UNCHANGED vars PROVE BackedParts'
BY DEF vars, BackedInv, BackedParts, HoldsUpload, AssetPublished, DetachRemoved, PlanDropped,
       ReadyBacked, Attached, Decided, Published, Dropped, Claimed, rowVars, sourceVars,
       storeVars, localVars

(* The invariant behind both ReadyBacked and the refinement.                *)
THEOREM BackedInvariant == ASSUME ~LostReplies PROVE Spec => []BackedInv
<1>1. Init => BackedParts
  BY DEF Init, BackedParts, HoldsUpload, AssetPublished, DetachRemoved, PlanDropped,
         ReadyBacked, Attached, NoSnap, Actors
<1>2. BackedParts /\ ClaimInv /\ ClaimInv' /\ [Next]_vars => BackedParts'
  <2> SUFFICES ASSUME BackedInv, ClaimInv', [Next]_vars PROVE BackedParts' BY DEF BackedInv
  <2>1. CASE Next
    BY <2>1, BackedCreate, BackedUpload, BackedAbort, BackedRemove, BackedReconcile,
       BackedTime, BackedCrash DEF Next
  <2>2. CASE UNCHANGED vars BY <2>2, BackedStutter
  <2> QED BY <2>1, <2>2
<1> QED BY <1>1, <1>2, ClaimInvariant, PTL DEF Spec, BackedInv

(* A source that says ready has its asset linked and its object stored,     *)
(* whatever removals, cancellations, reconcilers and crashes do, as long as *)
(* a write that raised was not applied.                                     *)
THEOREM ReadyStaysBacked == ASSUME ~LostReplies PROVE Spec => []ReadyBacked
<1>1. BackedInv => ReadyBacked BY DEF BackedInv, BackedParts
<1> QED BY <1>1, BackedInvariant, PTL

-------------------------------------------------------------------------------
(* Inductive invariant of the refinement: with requests only, the program   *)
(* counter of whoever closed or owns the session says what its status is.   *)
StatusOfOwner == \A u \in Uploaders :
    /\ pc[u] = "expired" => status = "expired"
    /\ pc[u] \in PublishingPC \ {"completed"} => status = "processing"
    /\ pc[u] \in PublishedPC \cup {"completed"} => status = "completed"
    /\ pc[u] \in UndoingPC \ {"settled"} => status \in {"processing", "completed"}
    /\ pc[u] = "settled" => status \in {"failed", "orphan_cleanup_needed"}

StatusOfOthers ==
    /\ \A a \in Aborters : pc[a] = "cancelled" => status = "aborted"
    /\ \A c \in Creators : pc[c] = "discarding" =>
          /\ status = "none" /\ sourceStatus # "none"
          /\ \A b \in Creators : ~Recording(b)

ReadyCompleted == sourceStatus = "ready" => status = "completed"

OutcomeParts == StatusOfOwner /\ StatusOfOthers /\ ReadyCompleted

OutcomeInv == BackedInv /\ OutcomeParts

OutcomeStep == [Outcome!Next]_<<status, sourceStatus = "ready">>

(* Each kind of step is a step of UploadOutcome, or none.                   *)
LEMMA OutcomeCreate ==
    ASSUME ~LostReplies, OutcomeInv, BackedInv', NEW c \in Creators, Create(c)
    PROVE  OutcomeParts' /\ OutcomeStep
<1> c \in Actors BY DEF Actors
<1> USE ActorsAreDistinct DEF ClaimInv, ClaimParts, OneRecord, SourceFirst, OwnedClaimed,
        ExclusiveCompletion, Claimed, Recording, TypeOK, Actors, Move, rowVars, sourceVars,
        BackedInv, BackedParts, AssetPublished, Decided, Published, OutcomeInv, OutcomeParts,
        StatusOfOwner, StatusOfOthers, ReadyCompleted, OwningPC, PublishingPC, PublishedPC,
        UndoingPC
<1>1. CASE CreateFindReplay(c)
  <2>1. OutcomeParts' BY <1>1 DEF CreateFindReplay
  <2>2. OutcomeStep BY <1>1 DEF CreateFindReplay, OutcomeStep, Outcome!Next, Outcome!Open,
        Outcome!Close, Outcome!Own, Outcome!Decide, Outcome!Withdraw, Outcome!Publish,
        Outcome!Move
  <2> QED BY <2>1, <2>2
<1>2. CASE CreateAddSource(c)
  <2>1. OutcomeParts' BY <1>2 DEF CreateAddSource, UpdateSource, sourceVars
    <2>2. OutcomeStep BY <1>2 DEF CreateAddSource, UpdateSource, sourceVars, OutcomeStep,
  Outcome!Next, Outcome!Open, Outcome!Close, Outcome!Own, Outcome!Decide, Outcome!Withdraw,
        Outcome!Publish, Outcome!Move
  <2> QED BY <2>1, <2>2
<1>3. CASE CreateProvision(c)
  <2>1. OutcomeParts' BY <1>3 DEF CreateProvision
  <2>2. OutcomeStep BY <1>3 DEF CreateProvision, OutcomeStep, Outcome!Next, Outcome!Open,
        Outcome!Close, Outcome!Own, Outcome!Decide, Outcome!Withdraw, Outcome!Publish,
        Outcome!Move
  <2> QED BY <2>1, <2>2
<1>4. CASE CreateRecord(c)
  <2>1. OutcomeParts' BY <1>4 DEF CreateRecord, WriteStatus
  <2>2. OutcomeStep BY <1>4 DEF CreateRecord, WriteStatus, OutcomeStep, Outcome!Next,
        Outcome!Open, Outcome!Close, Outcome!Own, Outcome!Decide, Outcome!Withdraw,
        Outcome!Publish, Outcome!Move
  <2> QED BY <2>1, <2>2
<1>5. CASE CreateDiscard(c)
  <2>1. OutcomeParts' BY <1>5 DEF CreateDiscard, UpdateSource
  <2>2. OutcomeStep BY <1>5 DEF CreateDiscard, UpdateSource, OutcomeStep, Outcome!Next,
        Outcome!Open, Outcome!Close, Outcome!Own, Outcome!Decide, Outcome!Withdraw,
        Outcome!Publish, Outcome!Move
  <2> QED BY <2>1, <2>2
<1> QED BY <1>1, <1>2, <1>3, <1>4, <1>5 DEF Create

LEMMA OutcomeUpload ==
    ASSUME ~LostReplies, OutcomeInv, BackedInv', NEW u \in Uploaders, Upload(u)
    PROVE  OutcomeParts' /\ OutcomeStep
<1> u \in Actors BY DEF Actors
<1> USE ActorsAreDistinct DEF ClaimInv, ClaimParts, OneRecord, SourceFirst, OwnedClaimed,
        ExclusiveCompletion, Claimed, Recording, TypeOK, Actors, Move, rowVars, sourceVars,
        BackedInv, BackedParts, AssetPublished, Decided, Published, OutcomeInv, OutcomeParts,
        StatusOfOwner, StatusOfOthers, ReadyCompleted, OwningPC, PublishingPC, PublishedPC,
        UndoingPC
<1>1. CASE LoadSession(u)
  <2>1. OutcomeParts' BY <1>1 DEF LoadSession
  <2>2. OutcomeStep BY <1>1 DEF LoadSession, OutcomeStep, Outcome!Next, Outcome!Open,
        Outcome!Close, Outcome!Own, Outcome!Decide, Outcome!Withdraw, Outcome!Publish,
        Outcome!Move
  <2> QED BY <2>1, <2>2
<1>2. CASE LoadExpire(u)
  <2>1. OutcomeParts' BY <1>2 DEF LoadExpire, Transition, WriteStatus
  <2>2. OutcomeStep BY <1>2 DEF LoadExpire, Transition, WriteStatus, OutcomeStep,
        Outcome!Next, Outcome!Open, Outcome!Close, Outcome!Own, Outcome!Decide,
        Outcome!Withdraw, Outcome!Publish, Outcome!Move
  <2> QED BY <2>1, <2>2
<1>3. CASE LoadExpireSource(u)
  <2>1. OutcomeParts' BY <1>3 DEF LoadExpireSource, UpdateSource
  <2>2. OutcomeStep BY <1>3 DEF LoadExpireSource, UpdateSource, OutcomeStep, Outcome!Next,
        Outcome!Open, Outcome!Close, Outcome!Own, Outcome!Decide, Outcome!Withdraw,
        Outcome!Publish, Outcome!Move
  <2> QED BY <2>1, <2>2
<1>4. CASE UploadRaw(u)
  <2>1. OutcomeParts' BY <1>4 DEF UploadRaw
  <2>2. OutcomeStep BY <1>4 DEF UploadRaw, OutcomeStep, Outcome!Next, Outcome!Open,
        Outcome!Close, Outcome!Own, Outcome!Decide, Outcome!Withdraw, Outcome!Publish,
        Outcome!Move
  <2> QED BY <2>1, <2>2
<1>5. CASE Claim(u)
  <2>1. OutcomeParts' BY <1>5 DEF Claim, Transition, WriteStatus
  <2>2. OutcomeStep BY <1>5 DEF Claim, Transition, WriteStatus, OutcomeStep, Outcome!Next,
        Outcome!Open, Outcome!Close, Outcome!Own, Outcome!Decide, Outcome!Withdraw,
        Outcome!Publish, Outcome!Move
  <2> QED BY <2>1, <2>2
<1>6. CASE MarkProcessing(u)
  <2>1. OutcomeParts' BY <1>6 DEF MarkProcessing, UpdateSource
  <2>2. OutcomeStep BY <1>6 DEF MarkProcessing, UpdateSource, OutcomeStep, Outcome!Next,
        Outcome!Open, Outcome!Close, Outcome!Own, Outcome!Decide, Outcome!Withdraw,
        Outcome!Publish, Outcome!Move
  <2> QED BY <2>1, <2>2
<1>7. CASE StoreCanonical(u)
  <2>1. OutcomeParts' BY <1>7 DEF StoreCanonical
  <2>2. OutcomeStep BY <1>7 DEF StoreCanonical, OutcomeStep, Outcome!Next, Outcome!Open,
        Outcome!Close, Outcome!Own, Outcome!Decide, Outcome!Withdraw, Outcome!Publish,
        Outcome!Move
  <2> QED BY <2>1, <2>2
<1>8. CASE AttachAsset(u)
  <2>1. OutcomeParts' BY <1>8 DEF AttachAsset
  <2>2. OutcomeStep BY <1>8 DEF AttachAsset, OutcomeStep, Outcome!Next, Outcome!Open,
        Outcome!Close, Outcome!Own, Outcome!Decide, Outcome!Withdraw, Outcome!Publish,
        Outcome!Move
  <2> QED BY <2>1, <2>2
<1>9. CASE AttachPreview(u)
  <2>1. OutcomeParts' BY <1>9 DEF AttachPreview
  <2>2. OutcomeStep BY <1>9 DEF AttachPreview, OutcomeStep, Outcome!Next, Outcome!Open,
        Outcome!Close, Outcome!Own, Outcome!Decide, Outcome!Withdraw, Outcome!Publish,
        Outcome!Move
  <2> QED BY <2>1, <2>2
<1>10. CASE CompleteSession(u)
  <2>1. OutcomeParts' BY <1>10 DEF CompleteSession, WriteStatus
  <2>2. OutcomeStep BY <1>10 DEF CompleteSession, WriteStatus, OutcomeStep, Outcome!Next,
        Outcome!Open, Outcome!Close, Outcome!Own, Outcome!Decide, Outcome!Withdraw,
        Outcome!Publish, Outcome!Move
  <2> QED BY <2>1, <2>2
<1>11. CASE PublishSource(u)
  <2>1. OutcomeParts' BY <1>11 DEF PublishSource, UpdateSource, sourceVars
    <2>2. OutcomeStep BY <1>11 DEF PublishSource, UpdateSource, sourceVars, OutcomeStep,
  Outcome!Next, Outcome!Open, Outcome!Close, Outcome!Own, Outcome!Decide, Outcome!Withdraw,
        Outcome!Publish, Outcome!Move
  <2> QED BY <2>1, <2>2
<1>12. CASE DeleteRaw(u)
  <2>1. OutcomeParts' BY <1>12 DEF DeleteRaw
  <2>2. OutcomeStep BY <1>12 DEF DeleteRaw, OutcomeStep, Outcome!Next, Outcome!Open,
        Outcome!Close, Outcome!Own, Outcome!Decide, Outcome!Withdraw, Outcome!Publish,
        Outcome!Move
  <2> QED BY <2>1, <2>2
<1>13. CASE Supersede(u)
  <2>1. OutcomeParts' BY <1>13 DEF Supersede
  <2>2. OutcomeStep BY <1>13 DEF Supersede, OutcomeStep, Outcome!Next, Outcome!Open,
        Outcome!Close, Outcome!Own, Outcome!Decide, Outcome!Withdraw, Outcome!Publish,
        Outcome!Move
  <2> QED BY <2>1, <2>2
<1>14. CASE DetachReplaced(u)
  <2>1. OutcomeParts' BY <1>14 DEF DetachReplaced
  <2>2. OutcomeStep BY <1>14 DEF DetachReplaced, OutcomeStep, Outcome!Next, Outcome!Open,
        Outcome!Close, Outcome!Own, Outcome!Decide, Outcome!Withdraw, Outcome!Publish,
        Outcome!Move
  <2> QED BY <2>1, <2>2
<1>15. CASE RollbackAssets(u)
  <2>1. OutcomeParts' BY <1>15 DEF RollbackAssets
  <2>2. OutcomeStep BY <1>15 DEF RollbackAssets, OutcomeStep, Outcome!Next, Outcome!Open,
        Outcome!Close, Outcome!Own, Outcome!Decide, Outcome!Withdraw, Outcome!Publish,
        Outcome!Move
  <2> QED BY <2>1, <2>2
<1>16. CASE DeleteHeld(u)
  <2>1. OutcomeParts' BY <1>16 DEF DeleteHeld
  <2>2. OutcomeStep BY <1>16 DEF DeleteHeld, OutcomeStep, Outcome!Next, Outcome!Open,
        Outcome!Close, Outcome!Own, Outcome!Decide, Outcome!Withdraw, Outcome!Publish,
        Outcome!Move
  <2> QED BY <2>1, <2>2
<1>17. CASE SettleSession(u)
  <2>1. OutcomeParts' BY <1>17 DEF SettleSession, WriteStatus
  <2>2. OutcomeStep BY <1>17 DEF SettleSession, WriteStatus, OutcomeStep, Outcome!Next,
        Outcome!Open, Outcome!Close, Outcome!Own, Outcome!Decide, Outcome!Withdraw,
        Outcome!Publish, Outcome!Move
  <2> QED BY <2>1, <2>2
<1>18. CASE SettleSource(u)
  <2>1. OutcomeParts' BY <1>18 DEF SettleSource, UpdateSource
  <2>2. OutcomeStep BY <1>18 DEF SettleSource, UpdateSource, OutcomeStep, Outcome!Next,
        Outcome!Open, Outcome!Close, Outcome!Own, Outcome!Decide, Outcome!Withdraw,
        Outcome!Publish, Outcome!Move
  <2> QED BY <2>1, <2>2
<1> QED BY <1>1, <1>2, <1>3, <1>4, <1>5, <1>6, <1>7, <1>8, <1>9, <1>10, <1>11, <1>12, <1>13,
        <1>14, <1>15, <1>16, <1>17, <1>18 DEF Upload

LEMMA OutcomeAbort ==
    ASSUME ~LostReplies, OutcomeInv, BackedInv', NEW a \in Aborters, Abort(a)
    PROVE  OutcomeParts' /\ OutcomeStep
<1> a \in Actors BY DEF Actors
<1> USE ActorsAreDistinct DEF ClaimInv, ClaimParts, OneRecord, SourceFirst, OwnedClaimed,
        ExclusiveCompletion, Claimed, Recording, TypeOK, Actors, Move, rowVars, sourceVars,
        BackedInv, BackedParts, AssetPublished, Decided, Published, OutcomeInv, OutcomeParts,
        StatusOfOwner, StatusOfOthers, ReadyCompleted, OwningPC, PublishingPC, PublishedPC,
        UndoingPC
<1>1. CASE AbortLoad(a)
  <2>1. OutcomeParts' BY <1>1 DEF AbortLoad
  <2>2. OutcomeStep BY <1>1 DEF AbortLoad, OutcomeStep, Outcome!Next, Outcome!Open,
        Outcome!Close, Outcome!Own, Outcome!Decide, Outcome!Withdraw, Outcome!Publish,
        Outcome!Move
  <2> QED BY <2>1, <2>2
<1>2. CASE AbortProvider(a)
  <2>1. OutcomeParts' BY <1>2 DEF AbortProvider
  <2>2. OutcomeStep BY <1>2 DEF AbortProvider, OutcomeStep, Outcome!Next, Outcome!Open,
        Outcome!Close, Outcome!Own, Outcome!Decide, Outcome!Withdraw, Outcome!Publish,
        Outcome!Move
  <2> QED BY <2>1, <2>2
<1>3. CASE AbortClaim(a)
  <2>1. OutcomeParts' BY <1>3 DEF AbortClaim, Transition, WriteStatus
  <2>2. OutcomeStep BY <1>3 DEF AbortClaim, Transition, WriteStatus, OutcomeStep,
        Outcome!Next, Outcome!Open, Outcome!Close, Outcome!Own, Outcome!Decide,
        Outcome!Withdraw, Outcome!Publish, Outcome!Move
  <2> QED BY <2>1, <2>2
<1>4. CASE AbortSource(a)
  <2>1. OutcomeParts' BY <1>4 DEF AbortSource, UpdateSource
  <2>2. OutcomeStep BY <1>4 DEF AbortSource, UpdateSource, OutcomeStep, Outcome!Next,
        Outcome!Open, Outcome!Close, Outcome!Own, Outcome!Decide, Outcome!Withdraw,
        Outcome!Publish, Outcome!Move
  <2> QED BY <2>1, <2>2
<1> QED BY <1>1, <1>2, <1>3, <1>4 DEF Abort
LEMMA OutcomeTime == ASSUME OutcomeInv, Time PROVE OutcomeParts' /\ OutcomeStep
BY DEF Time, Expire, GrowStale, LapseLease, EndBackoff, OutcomeInv, OutcomeParts, OutcomeStep,
       StatusOfOwner, StatusOfOthers, ReadyCompleted, Recording, rowVars, sourceVars

LEMMA OutcomeCrash ==
    ASSUME OutcomeInv, NEW a \in Actors, Crash(a)
    PROVE  OutcomeParts' /\ OutcomeStep
BY DEF Crash, BackedInv, ClaimInv, TypeOK, OutcomeInv, OutcomeParts, OutcomeStep, StatusOfOwner,
       StatusOfOthers, ReadyCompleted, Recording, rowVars, sourceVars,
       OwningPC, PublishingPC, PublishedPC, UndoingPC

LEMMA OutcomeStutter == ASSUME OutcomeInv, UNCHANGED vars PROVE OutcomeParts' /\ OutcomeStep
BY DEF vars, OutcomeInv, OutcomeParts, OutcomeStep, StatusOfOwner, StatusOfOthers,
       ReadyCompleted, Recording, rowVars, sourceVars

LEMMA OutcomeStart == Init => OutcomeParts /\ Outcome!Init
BY DEF Init, OutcomeParts, StatusOfOwner, StatusOfOthers, ReadyCompleted, Recording, Actors,
       Outcome!Init, OwningPC, PublishingPC, PublishedPC, UndoingPC

LEMMA OutcomeNext ==
    ASSUME ~LostReplies, Reconcilers = {}, Removers = {}, OutcomeInv, BackedInv', [Next]_vars
    PROVE  OutcomeParts' /\ OutcomeStep
<1>1. CASE Next
  BY <1>1, OutcomeCreate, OutcomeUpload, OutcomeAbort, OutcomeTime, OutcomeCrash DEF Next
<1>2. CASE UNCHANGED vars BY <1>2, OutcomeStutter
<1> QED BY <1>1, <1>2

LEMMA OutcomeInvariant ==
    ASSUME ~LostReplies, Reconcilers = {}, Removers = {}
    PROVE  Spec => []OutcomeInv
<1>1. Init => OutcomeParts BY OutcomeStart
<1>2. BackedInv /\ OutcomeParts /\ BackedInv' /\ [Next]_vars => OutcomeParts'
  BY OutcomeNext DEF OutcomeInv
<1> QED BY <1>1, <1>2, BackedInvariant, PTL DEF Spec, OutcomeInv

(* Any number of creations, completions and cancellations, with crashes and *)
(* no reconciler or removal, implement UploadOutcome: one path out of       *)
(* created, decided by the owner alone, and nothing changes once published. *)
THEOREM RequestsImplementOutcome ==
    ASSUME ~LostReplies, Reconcilers = {}, Removers = {}
    PROVE  Spec => ImplementsOutcome
<1>1. Init => Outcome!Init BY OutcomeStart
<1>2. OutcomeInv /\ OutcomeInv' /\ [Next]_vars => OutcomeStep
  BY OutcomeNext DEF OutcomeInv
<1> QED BY <1>1, <1>2, OutcomeInvariant, PTL DEF Spec, ImplementsOutcome, Outcome!Spec, OutcomeStep

-------------------------------------------------------------------------------
(* What the requests leave behind, with no reconciler and no removal and as *)
(* long as no write that raised was applied. First: a ready source stays.   *)
LEMMA ReadyStays ==
    ASSUME ~LostReplies, Reconcilers = {}, Removers = {}, OutcomeInv, [Next]_vars,
           sourceStatus = "ready"
    PROVE  UNCHANGED sourceVars
<1>1. /\ status = "completed" /\ Published
  BY DEF OutcomeInv, OutcomeParts, ReadyCompleted, BackedInv, BackedParts, AssetPublished
<1>2. ASSUME NEW c \in Creators, Create(c) PROVE UNCHANGED sourceVars
  BY <1>1, <1>2 DEF Create, CreateFindReplay, CreateAddSource, CreateProvision, CreateRecord,
     CreateDiscard, Move, OutcomeInv, OutcomeParts, StatusOfOthers
<1>3. ASSUME NEW u \in Uploaders, Upload(u) PROVE UNCHANGED sourceVars
  <2>1. pc[u] \notin {"expired", "claimed", "completed", "settled"}
    BY <1>1 DEF OutcomeInv, OutcomeParts, StatusOfOwner, Published, Decided, PublishingPC, UndoingPC
  <2> QED
    BY <1>3, <2>1 DEF Upload, LoadSession, LoadExpire, LoadExpireSource, UploadRaw, Claim,
       MarkProcessing, StoreCanonical, AttachAsset, AttachPreview, CompleteSession, PublishSource,
       DeleteRaw, Supersede, DetachReplaced, RollbackAssets, DeleteHeld, SettleSession,
       SettleSource, Move
<1>4. ASSUME NEW a \in Aborters, Abort(a) PROVE UNCHANGED sourceVars
  BY <1>1, <1>4 DEF Abort, AbortLoad, AbortProvider, AbortClaim, AbortSource, Move, OutcomeInv,
     OutcomeParts, StatusOfOthers
<1>5. ASSUME Time PROVE UNCHANGED sourceVars
  BY <1>5 DEF Time, Expire, GrowStale, LapseLease, EndBackoff
<1>6. ASSUME NEW a \in Actors, Crash(a) PROVE UNCHANGED sourceVars
  BY <1>6 DEF Crash
<1> QED BY <1>2, <1>3, <1>4, <1>5, <1>6 DEF Next, vars

(* The replaced source gives way to a ready one only, which stays ready.    *)
OldGone == oldStatus = "superseded" \/ (Replaces /\ ~oldUsage)

OldFollows == OldGone => sourceStatus = "ready"

SupersededFirst == \A u \in Uploaders : pc[u] = "superseded" => oldStatus = "superseded"

TakeoverParts == OldFollows /\ SupersededFirst

LEMMA TakeoverStep ==
    ASSUME ~LostReplies, Reconcilers = {}, Removers = {}, OutcomeInv, TakeoverParts, [Next]_vars
    PROVE  TakeoverParts'
<1>1. sourceStatus = "ready" => sourceStatus' = "ready"
  BY ReadyStays DEF sourceVars
<1>2. pc \in [Actors -> PCs] BY DEF OutcomeInv, BackedInv, ClaimInv, TypeOK
<1>3. Uploaders \subseteq Actors BY DEF Actors
<1>4. ASSUME UNCHANGED oldVars, \A u \in Uploaders : pc'[u] = "superseded" => pc[u] = "superseded"
      PROVE  TakeoverParts'
  BY <1>1, <1>4 DEF TakeoverParts, OldFollows, OldGone, SupersededFirst, oldVars
<1>5. ASSUME UNCHANGED oldVars, NEW a \in Actors, NEW to, to # "superseded",
              pc' = [pc EXCEPT ![a] = to]
       PROVE  TakeoverParts'
  BY <1>3, <1>2, <1>4, <1>5
<1>6. ASSUME NEW c \in Creators, Create(c) PROVE TakeoverParts'
  <2>1. UNCHANGED oldVars /\ \E to : to # "superseded" /\ pc' = [pc EXCEPT ![c] = to]
    BY <1>6 DEF Create, CreateFindReplay, CreateAddSource, CreateProvision, CreateRecord,
       CreateDiscard, Move
  <2> QED BY <1>5, <2>1 DEF Actors
<1>7. ASSUME NEW u \in Uploaders, Upload(u) PROVE TakeoverParts'
  <2>1. CASE Supersede(u)
    <3>1. CASE UNCHANGED oldStatus /\ Move(u, "raw_deleted", "done")
      <4>1. UNCHANGED oldVars BY <2>1, <3>1 DEF Supersede, oldVars
      <4> QED BY <1>3, <1>5, <3>1, <4>1 DEF Move
    <3>2. CASE oldStatus' = "superseded" /\ sourceStatus = "ready"
      BY <1>1, <3>2 DEF TakeoverParts, OldFollows, SupersededFirst
    <3> QED BY <2>1, <3>1, <3>2 DEF Supersede
  <2>2. CASE DetachReplaced(u)
    <3>1. pc[u] = "superseded" /\ oldStatus' = oldStatus /\ pc' = [pc EXCEPT ![u] = "done"]
      BY <2>2 DEF DetachReplaced, Move
    <3>2. oldStatus = "superseded" /\ sourceStatus = "ready"
      BY <3>1 DEF TakeoverParts, OldFollows, OldGone, SupersededFirst
    <3> QED BY <1>1, <3>1, <3>2 DEF TakeoverParts, OldFollows, SupersededFirst
  <2>3. CASE ~Supersede(u) /\ ~DetachReplaced(u)
    <3>1. UNCHANGED oldVars /\ \E to : to # "superseded" /\ pc' = [pc EXCEPT ![u] = to]
      BY <1>7, <2>3 DEF Upload, LoadSession, LoadExpire, LoadExpireSource, UploadRaw,
         Claim, MarkProcessing, StoreCanonical, AttachAsset, AttachPreview, CompleteSession,
         PublishSource, DeleteRaw, RollbackAssets, DeleteHeld, SettleSession, SettleSource, Move
    <3> QED BY <1>3, <1>5, <3>1
  <2> QED BY <2>1, <2>2, <2>3
<1>8. ASSUME NEW a \in Aborters, Abort(a) PROVE TakeoverParts'
  <2>1. UNCHANGED oldVars /\ \E to : to # "superseded" /\ pc' = [pc EXCEPT ![a] = to]
    BY <1>8 DEF Abort, AbortLoad, AbortProvider, AbortClaim, AbortSource, Move
  <2> QED BY <1>5, <2>1 DEF Actors
<1>9. ASSUME Time PROVE TakeoverParts'
  BY <1>4, <1>9 DEF Time, Expire, GrowStale, LapseLease, EndBackoff
<1>10. ASSUME NEW a \in Actors, Crash(a) PROVE TakeoverParts'
  <2>1. UNCHANGED oldVars /\ pc' = [pc EXCEPT ![a] = "done"] BY <1>10 DEF Crash
  <2> QED BY <1>5, <2>1
<1>11. ASSUME UNCHANGED vars PROVE TakeoverParts' BY <1>4, <1>11 DEF vars
<1> QED BY <1>6, <1>7, <1>8, <1>9, <1>10, <1>11 DEF Next

(* The order of _finalize_locator: an original is superseded, and its usage *)
(* detached, only once its replacement is ready, and the replacement is     *)
(* backed from then on.                                                     *)
THEOREM OriginalGivesWay ==
    ASSUME ~LostReplies, Reconcilers = {}, Removers = {}
    PROVE  Spec => []ReplacementTakesOver
<1>1. Init => TakeoverParts
  BY DEF Init, TakeoverParts, OldFollows, OldGone, SupersededFirst, Actors
<1>2. OutcomeInv /\ TakeoverParts /\ [Next]_vars => TakeoverParts' BY TakeoverStep
<1>3. OutcomeInv /\ TakeoverParts => ReplacementTakesOver
  BY DEF OutcomeInv, BackedInv, BackedParts, ReadyBacked, TakeoverParts, OldFollows, OldGone,
         ReplacementTakesOver
<1> QED BY <1>1, <1>2, <1>3, OutcomeInvariant, PTL DEF Spec

(* What an upload put is in its hands until it is published or the cleanup  *)
(* plan has it; the plan is the last thing an upload writes.                *)
HoldingPC == {"stored", "attached", "previewed", "completed", "rollback", "deleting", "settling"}

PlanLast == \A u \in Uploaders :
    pc[u] \in OwningPC \ {"settled"} => plan = {} /\ planAssets = {}

SettledAs == \A u \in Uploaders : pc[u] = "settled" =>
    status = IF CleanupFailed(u) THEN "orphan_cleanup_needed" ELSE "failed"

ObjectsHeld == \A u \in Uploaders : <<"canonical", u>> \in objects =>
    \/ pc[u] \in HoldingPC /\ <<"canonical", u>> \in held[u]
    \/ sourceStatus = "ready" /\ sourceAsset = u
    \/ <<"canonical", u>> \in plan

AssetsHeld == \A u \in Uploaders, kind \in {"main", "preview"} : <<kind, u>> \in usages =>
    \/ pc[u] \in HoldingPC /\ <<kind, u>> \in own[u]
    \/ sourceStatus = "ready" /\ sourceAsset = u
    \/ <<kind, u>> \in planAssets

HeldParts == PlanLast /\ SettledAs /\ (crashes = 0 => ObjectsHeld /\ AssetsHeld)

LEMMA HeldCreate ==
    ASSUME ~LostReplies, Reconcilers = {}, Removers = {}, OutcomeInv, OutcomeInv', HeldParts,
           NEW c \in Creators, Create(c)
    PROVE  HeldParts'
<1>0. sourceStatus = "ready" => UNCHANGED sourceVars
  BY ReadyStays DEF Next
<1> c \in Actors BY DEF Actors
<1> USE <1>0, ActorsAreDistinct DEF ClaimInv, ClaimParts, OneRecord, OwnedClaimed,
        ExclusiveCompletion, Claimed, Recording, TypeOK, Actors, Move, rowVars, sourceVars,
        storeVars, localVars, RowType, SourceType, StoreType, LocalType, BackedInv,
        BackedParts, AssetPublished, PlanDropped, Decided, Published, Dropped, OutcomeInv,
        OutcomeParts, StatusOfOwner, StatusOfOthers, ReadyCompleted, OwningPC, PublishingPC,
        PublishedPC, UndoingPC, HoldingPC, HeldParts, PlanLast, SettledAs, ObjectsHeld,
        AssetsHeld, CleanupFailed
<1>1. CASE CreateFindReplay(c) BY <1>1 DEF CreateFindReplay
<1>2. CASE CreateAddSource(c) BY <1>2 DEF CreateAddSource, UpdateSource
<1>3. CASE CreateProvision(c) BY <1>3 DEF CreateProvision
<1>4. CASE CreateRecord(c) BY <1>4 DEF CreateRecord, WriteStatus
<1>5. CASE CreateDiscard(c) BY <1>5 DEF CreateDiscard, UpdateSource
<1> QED BY <1>1, <1>2, <1>3, <1>4, <1>5 DEF Create

LEMMA HeldUpload ==
    ASSUME ~LostReplies, Reconcilers = {}, Removers = {}, OutcomeInv, OutcomeInv', HeldParts,
           NEW u \in Uploaders, Upload(u)
    PROVE  HeldParts'
<1>0. sourceStatus = "ready" => UNCHANGED sourceVars
  BY ReadyStays DEF Next
<1> u \in Actors BY DEF Actors
<1> USE <1>0, ActorsAreDistinct DEF ClaimInv, ClaimParts, OneRecord, OwnedClaimed,
        ExclusiveCompletion, Claimed, Recording, TypeOK, Actors, Move, rowVars, sourceVars,
        storeVars, localVars, RowType, SourceType, StoreType, LocalType, BackedInv,
        BackedParts, AssetPublished, PlanDropped, Decided, Published, Dropped, OutcomeInv,
        OutcomeParts, StatusOfOwner, StatusOfOthers, ReadyCompleted, OwningPC, PublishingPC,
        PublishedPC, UndoingPC, HoldingPC, HeldParts, PlanLast, SettledAs, ObjectsHeld,
        AssetsHeld, CleanupFailed
<1>1. CASE LoadSession(u) BY <1>1 DEF LoadSession
<1>2. CASE LoadExpire(u) BY <1>2 DEF LoadExpire, Transition, WriteStatus
<1>3. CASE LoadExpireSource(u) BY <1>3 DEF LoadExpireSource, UpdateSource
<1>4. CASE UploadRaw(u) BY <1>4 DEF UploadRaw, MayLeave
<1>5. CASE Claim(u) BY <1>5 DEF Claim, Transition, WriteStatus
<1>6. CASE MarkProcessing(u) BY <1>6 DEF MarkProcessing, UpdateSource
<1>7. CASE StoreCanonical(u) BY <1>7 DEF StoreCanonical, MayLeave
<1>8. CASE AttachAsset(u) BY <1>8 DEF AttachAsset
<1>9. CASE AttachPreview(u)
  <2>1. /\ pc[u] = "attached" /\ UNCHANGED <<rowVars, sourceVars, crashes>>
        /\ \A v \in Uploaders : v # u => pc'[v] = pc[v] /\ held'[v] = held[v] /\ own'[v] = own[v]
        /\ pc'[u] \in {"previewed", "rollback"}
        /\ held[u] \subseteq held'[u] /\ own[u] \subseteq own'[u]
    BY <1>9 DEF AttachPreview
  <2>2. \A v \in Uploaders : <<"canonical", v>> \in objects' => <<"canonical", v>> \in objects
    BY <1>9 DEF AttachPreview, MayLeave
  <2>3. \A v \in Uploaders, kind \in {"main", "preview"} : <<kind, v>> \in usages' =>
          <<kind, v>> \in usages \/ (v = u /\ <<kind, v>> \in own'[u])
    BY <1>9 DEF AttachPreview
  <2>4. PlanLast' /\ SettledAs' BY <2>1
  <2>5. crashes' = 0 => ObjectsHeld' BY <2>1, <2>2
  <2>6. crashes' = 0 => AssetsHeld' BY <2>1, <2>3
  <2> QED BY <2>4, <2>5, <2>6
<1>10. CASE CompleteSession(u) BY <1>10 DEF CompleteSession, WriteStatus
<1>11. CASE PublishSource(u) BY <1>11 DEF PublishSource, UpdateSource
<1>12. CASE DeleteRaw(u) BY <1>12 DEF DeleteRaw
<1>13. CASE Supersede(u) BY <1>13 DEF Supersede
<1>14. CASE DetachReplaced(u) BY <1>14 DEF DetachReplaced
<1>15. CASE RollbackAssets(u) BY <1>15 DEF RollbackAssets
<1>16. CASE DeleteHeld(u) BY <1>16 DEF DeleteHeld
<1>17. CASE SettleSession(u) BY <1>17 DEF SettleSession, WriteStatus
<1>18. CASE SettleSource(u) BY <1>18 DEF SettleSource, UpdateSource
<1> QED BY <1>1, <1>2, <1>3, <1>4, <1>5, <1>6, <1>7, <1>8, <1>9, <1>10, <1>11, <1>12, <1>13, <1>14, <1>15, <1>16, <1>17, <1>18 DEF Upload

LEMMA HeldAbort ==
    ASSUME ~LostReplies, Reconcilers = {}, Removers = {}, OutcomeInv, OutcomeInv', HeldParts,
           NEW a \in Aborters, Abort(a)
    PROVE  HeldParts'
<1>0. sourceStatus = "ready" => UNCHANGED sourceVars
  BY ReadyStays DEF Next
<1> a \in Actors BY DEF Actors
<1> USE <1>0, ActorsAreDistinct DEF ClaimInv, ClaimParts, OneRecord, OwnedClaimed,
        ExclusiveCompletion, Claimed, Recording, TypeOK, Actors, Move, rowVars, sourceVars,
        storeVars, localVars, RowType, SourceType, StoreType, LocalType, BackedInv,
        BackedParts, AssetPublished, PlanDropped, Decided, Published, Dropped, OutcomeInv,
        OutcomeParts, StatusOfOwner, StatusOfOthers, ReadyCompleted, OwningPC, PublishingPC,
        PublishedPC, UndoingPC, HoldingPC, HeldParts, PlanLast, SettledAs, ObjectsHeld,
        AssetsHeld, CleanupFailed
<1>1. CASE AbortLoad(a) BY <1>1 DEF AbortLoad
<1>2. CASE AbortProvider(a)
  <2>1. /\ \A v \in Uploaders : pc'[v] = pc[v]
        /\ UNCHANGED <<rowVars, sourceVars, objects, usages, localVars, crashes>>
    BY <1>2 DEF AbortProvider
  <2> QED BY <2>1
<1>3. CASE AbortClaim(a) BY <1>3 DEF AbortClaim, Transition, WriteStatus
<1>4. CASE AbortSource(a) BY <1>4 DEF AbortSource, UpdateSource
<1> QED BY <1>1, <1>2, <1>3, <1>4 DEF Abort

LEMMA HeldOthers ==
    ASSUME Reconcilers = {}, OutcomeInv, HeldParts,
           Time \/ UNCHANGED vars \/ \E a \in Actors : Crash(a)
    PROVE  HeldParts'
<1> USE DEF HeldParts, PlanLast, SettledAs, ObjectsHeld, AssetsHeld, CleanupFailed, rowVars,
        sourceVars, storeVars, localVars
<1>1. CASE Time BY <1>1 DEF Time, Expire, GrowStale, LapseLease, EndBackoff
<1>2. CASE UNCHANGED vars BY <1>2 DEF vars
<1>3. ASSUME NEW a \in Actors, Crash(a) PROVE HeldParts'
  <2>1. crashes \in 0 .. MaxCrashes /\ pc \in [Actors -> PCs]
    BY DEF OutcomeInv, BackedInv, ClaimInv, TypeOK
  <2>2. crashes' = crashes + 1 /\ pc' = [pc EXCEPT ![a] = "done"]
        /\ UNCHANGED <<status, plan, planAssets, held, own>>
    BY <1>3 DEF Crash
  <2>3. crashes' # 0 BY <2>1, <2>2, BoundsAssumption
  <2>4. \A v \in Uploaders : pc'[v] = pc[v] \/ pc'[v] = "done" BY <2>1, <2>2 DEF Actors
  <2>5. PlanLast' /\ SettledAs'
    BY <2>2, <2>4 DEF OwningPC, PublishingPC, PublishedPC, UndoingPC
  <2> QED BY <2>3, <2>5
<1> QED BY <1>1, <1>2, <1>3

LEMMA HeldInvariant ==
    ASSUME ~LostReplies, Reconcilers = {}, Removers = {}
    PROVE  Spec => []HeldParts
<1>1. Init => HeldParts
  BY DEF Init, HeldParts, PlanLast, SettledAs, ObjectsHeld, AssetsHeld, Actors, OwningPC,
         PublishingPC, PublishedPC, UndoingPC
<1>2. OutcomeInv /\ OutcomeInv' /\ HeldParts /\ [Next]_vars => HeldParts'
  BY HeldCreate, HeldUpload, HeldAbort, HeldOthers DEF Next
<1> QED BY <1>1, <1>2, OutcomeInvariant, PTL DEF Spec

(* "Failed compensation persists only exact locators": with requests alone, *)
(* what _compensate could not delete stands in the cleanup plan, and every  *)
(* other canonical object or linked asset belongs to the published source.  *)
THEOREM CompensationAccountedHolds ==
    ASSUME ~LostReplies, Reconcilers = {}, Removers = {}
    PROVE  Spec => []CompensationAccounted
<1>1. OutcomeInv /\ HeldParts => CompensationAccounted
  <2> SUFFICES ASSUME OutcomeInv, HeldParts, crashes = 0,
                      \A u \in Uploaders : pc[u] \notin OwningPC
               PROVE  /\ \A u \in Uploaders : <<"canonical", u>> \in objects =>
                           (sourceStatus = "ready" /\ sourceAsset = u) \/ <<"canonical", u>> \in plan
                      /\ \A x \in usages :
                           (sourceStatus = "ready" /\ sourceAsset = x[2]) \/ x \in planAssets
    BY DEF CompensationAccounted
  <2>1. \A u \in Uploaders : pc[u] \notin HoldingPC
    BY DEF HoldingPC, OwningPC, PublishingPC, UndoingPC
  <2>2. ASSUME NEW x \in usages
        PROVE  (sourceStatus = "ready" /\ sourceAsset = x[2]) \/ x \in planAssets
    <3>1. x \in Assets BY DEF OutcomeInv, BackedInv, ClaimInv, TypeOK, StoreType
    <3>2. PICK kind \in {"main", "preview"}, u \in Uploaders : x = <<kind, u>>
      BY <3>1 DEF Assets
    <3> QED BY <2>1, <3>2 DEF HeldParts, AssetsHeld
  <2> QED BY <2>1, <2>2 DEF HeldParts, ObjectsHeld
<1> QED BY <1>1, OutcomeInvariant, HeldInvariant, PTL

(* How far the source is from its session while someone has yet to tell it. *)
SourceWaits == \A c \in Creators : Recording(c) => sourceStatus = "pending_validation"

Left(S) == \E u \in Uploaders : pc[u] \in S

OpenFollowed ==
    /\ status = "created" => sourceStatus = "pending_validation"
    /\ status = "processing" => Left(OwningPC)
    /\ status = "completed" =>
          sourceStatus = "ready" \/ Left({"completed", "rollback", "deleting", "settling"})

ClosedFollowed ==
    /\ status = "expired" => sourceStatus = "failed" \/ Left({"expired"})
    /\ status = "failed" => sourceStatus = "failed" \/ Left({"settled"})
    /\ status = "orphan_cleanup_needed" =>
          /\ plan \cup planAssets # {}
          /\ sourceStatus = "orphan_cleanup_needed" \/ Left({"settled"})
    /\ status = "aborted" => sourceStatus = "failed" \/ \E a \in Aborters : pc[a] = "cancelled"

FollowedParts == crashes = 0 => SourceWaits /\ OpenFollowed /\ ClosedFollowed

LEMMA FollowedCreate ==
    ASSUME ~LostReplies, Reconcilers = {}, Removers = {}, OutcomeInv, OutcomeInv', HeldParts,
           FollowedParts,
           NEW c \in Creators, Create(c)
    PROVE  FollowedParts'
<1>0. sourceStatus = "ready" => UNCHANGED sourceVars
  BY ReadyStays DEF Next
<1> c \in Actors BY DEF Actors
<1> USE <1>0, ActorsAreDistinct DEF ClaimInv, ClaimParts, OneRecord, SourceFirst, OwnedClaimed,
        ExclusiveCompletion, Claimed, Recording, TypeOK, Actors, Move, rowVars, sourceVars,
        localVars, BackedInv, BackedParts, AssetPublished, PlanDropped, Decided, Published,
        Dropped, OutcomeInv, OutcomeParts, StatusOfOwner, StatusOfOthers, ReadyCompleted,
        OwningPC, PublishingPC, PublishedPC, UndoingPC, HeldParts, SettledAs, CleanupFailed,
        FollowedParts, SourceWaits, Left, OpenFollowed, ClosedFollowed
<1>1. CASE CreateFindReplay(c) BY <1>1 DEF CreateFindReplay
<1>2. CASE CreateAddSource(c) BY <1>2 DEF CreateAddSource, UpdateSource
<1>3. CASE CreateProvision(c) BY <1>3 DEF CreateProvision
<1>4. CASE CreateRecord(c) BY <1>4 DEF CreateRecord, WriteStatus
<1>5. CASE CreateDiscard(c) BY <1>5 DEF CreateDiscard, UpdateSource
<1> QED BY <1>1, <1>2, <1>3, <1>4, <1>5 DEF Create

LEMMA FollowedUpload ==
    ASSUME ~LostReplies, Reconcilers = {}, Removers = {}, OutcomeInv, OutcomeInv', HeldParts,
           FollowedParts,
           NEW u \in Uploaders, Upload(u)
    PROVE  FollowedParts'
<1>0. sourceStatus = "ready" => UNCHANGED sourceVars
  BY ReadyStays DEF Next
<1> u \in Actors BY DEF Actors
<1> USE <1>0, ActorsAreDistinct DEF ClaimInv, ClaimParts, OneRecord, SourceFirst, OwnedClaimed,
        ExclusiveCompletion, Claimed, Recording, TypeOK, Actors, Move, rowVars, sourceVars,
        localVars, BackedInv, BackedParts, AssetPublished, PlanDropped, Decided, Published,
        Dropped, OutcomeInv, OutcomeParts, StatusOfOwner, StatusOfOthers, ReadyCompleted,
        OwningPC, PublishingPC, PublishedPC, UndoingPC, HeldParts, SettledAs, CleanupFailed,
        FollowedParts, SourceWaits, Left, OpenFollowed, ClosedFollowed
<1>1. CASE LoadSession(u) BY <1>1 DEF LoadSession
<1>2. CASE LoadExpire(u) BY <1>2 DEF LoadExpire, Transition, WriteStatus
<1>3. CASE LoadExpireSource(u) BY <1>3 DEF LoadExpireSource, UpdateSource
<1>4. CASE UploadRaw(u) BY <1>4 DEF UploadRaw
<1>5. CASE Claim(u) BY <1>5 DEF Claim, Transition, WriteStatus
<1>6. CASE MarkProcessing(u) BY <1>6 DEF MarkProcessing, UpdateSource
<1>7. CASE StoreCanonical(u) BY <1>7 DEF StoreCanonical
<1>8. CASE AttachAsset(u) BY <1>8 DEF AttachAsset
<1>9. CASE AttachPreview(u) BY <1>9 DEF AttachPreview
<1>10. CASE CompleteSession(u) BY <1>10 DEF CompleteSession, WriteStatus
<1>11. CASE PublishSource(u) BY <1>11 DEF PublishSource, UpdateSource
<1>12. CASE DeleteRaw(u) BY <1>12 DEF DeleteRaw
<1>13. CASE Supersede(u) BY <1>13 DEF Supersede
<1>14. CASE DetachReplaced(u) BY <1>14 DEF DetachReplaced
<1>15. CASE RollbackAssets(u) BY <1>15 DEF RollbackAssets
<1>16. CASE DeleteHeld(u) BY <1>16 DEF DeleteHeld
<1>17. CASE SettleSession(u) BY <1>17 DEF SettleSession, WriteStatus
<1>18. CASE SettleSource(u) BY <1>18 DEF SettleSource, UpdateSource
<1> QED BY <1>1, <1>2, <1>3, <1>4, <1>5, <1>6, <1>7, <1>8, <1>9, <1>10, <1>11, <1>12, <1>13, <1>14, <1>15, <1>16, <1>17, <1>18 DEF Upload

LEMMA FollowedAbort ==
    ASSUME ~LostReplies, Reconcilers = {}, Removers = {}, OutcomeInv, OutcomeInv', HeldParts,
           FollowedParts,
           NEW a \in Aborters, Abort(a)
    PROVE  FollowedParts'
<1>0. sourceStatus = "ready" => UNCHANGED sourceVars
  BY ReadyStays DEF Next
<1> a \in Actors BY DEF Actors
<1> USE <1>0, ActorsAreDistinct DEF ClaimInv, ClaimParts, OneRecord, SourceFirst, OwnedClaimed,
        ExclusiveCompletion, Claimed, Recording, TypeOK, Actors, Move, rowVars, sourceVars,
        localVars, BackedInv, BackedParts, AssetPublished, PlanDropped, Decided, Published,
        Dropped, OutcomeInv, OutcomeParts, StatusOfOwner, StatusOfOthers, ReadyCompleted,
        OwningPC, PublishingPC, PublishedPC, UndoingPC, HeldParts, SettledAs, CleanupFailed,
        FollowedParts, SourceWaits, Left, OpenFollowed, ClosedFollowed
<1>1. CASE AbortLoad(a) BY <1>1 DEF AbortLoad
<1>2. CASE AbortProvider(a) BY <1>2 DEF AbortProvider
<1>3. CASE AbortClaim(a) BY <1>3 DEF AbortClaim, Transition, WriteStatus
<1>4. CASE AbortSource(a) BY <1>4 DEF AbortSource, UpdateSource
<1> QED BY <1>1, <1>2, <1>3, <1>4 DEF Abort

LEMMA FollowedOthers ==
    ASSUME Reconcilers = {}, OutcomeInv, FollowedParts,
           Time \/ UNCHANGED vars \/ \E a \in Actors : Crash(a)
    PROVE  FollowedParts'
<1> USE DEF FollowedParts, SourceWaits, Left, OpenFollowed, ClosedFollowed, Recording, rowVars,
        sourceVars
<1>1. CASE Time BY <1>1 DEF Time, Expire, GrowStale, LapseLease, EndBackoff
<1>2. CASE UNCHANGED vars BY <1>2 DEF vars
<1>3. ASSUME NEW a \in Actors, Crash(a) PROVE FollowedParts'
  <2>1. crashes \in 0 .. MaxCrashes /\ crashes' = crashes + 1
    BY <1>3 DEF Crash, OutcomeInv, BackedInv, ClaimInv, TypeOK
  <2>2. crashes' # 0 BY <2>1, BoundsAssumption
  <2> QED BY <2>2
<1> QED BY <1>1, <1>2, <1>3

LEMMA FollowedInvariant ==
    ASSUME ~LostReplies, Reconcilers = {}, Removers = {}
    PROVE  Spec => []FollowedParts
<1>1. Init => FollowedParts
  BY DEF Init, FollowedParts, SourceWaits, OpenFollowed, ClosedFollowed, Recording, Actors
<1>2. OutcomeInv /\ OutcomeInv' /\ HeldParts /\ FollowedParts /\ [Next]_vars => FollowedParts'
  BY FollowedCreate, FollowedUpload, FollowedAbort, FollowedOthers DEF Next
<1> QED BY <1>1, <1>2, OutcomeInvariant, HeldInvariant, PTL DEF Spec

(* Once every request has ended and none was cut short, source and session  *)
(* tell the same story, although each request writes the two rows in two    *)
(* statements and others run in between.                                    *)
THEOREM SourceFollowsSessionHolds ==
    ASSUME ~LostReplies, Reconcilers = {}, Removers = {}
    PROVE  Spec => []SourceFollowsSession
<1>1. OutcomeInv /\ FollowedParts => SourceFollowsSession
  <2> SUFFICES ASSUME OutcomeInv, FollowedParts, crashes = 0, \A a \in Actors : Ended(a)
               PROVE  SourceFollowsSession
    BY DEF SourceFollowsSession
  <2>1. \A u \in Uploaders : pc[u] \in {"idle", "done"} BY DEF Ended, Actors
  <2>2. \A a \in Aborters : pc[a] # "cancelled" BY DEF Ended, Actors
  <2>3. ~Left(OwningPC) /\ ~Left({"completed", "rollback", "deleting", "settling"})
        /\ ~Left({"expired"}) /\ ~Left({"settled"})
    BY <2>1 DEF Left, OwningPC, PublishingPC, PublishedPC, UndoingPC
  <2> HIDE DEF Left
  <2> QED
    BY <2>2, <2>3 DEF FollowedParts, OpenFollowed, ClosedFollowed, OutcomeInv, OutcomeParts,
       ReadyCompleted, SourceFollowsSession
<1> QED BY <1>1, OutcomeInvariant, FollowedInvariant, PTL
===============================================================================
