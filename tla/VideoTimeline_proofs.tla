-------------------------- MODULE VideoTimeline_proofs --------------------------
(* Theorems of VideoTimeline and their proofs, for any clients, keys, jobs   *)
(* and bounds, any number of requests cut short and of restarts.             *)
EXTENDS VideoTimeline, RenderWorker_proofs, FiniteSetTheorems

-------------------------------------------------------------------------------
(* The inductive invariant                                                   *)

RequestType == [op : Ops \cup {"none"}, base : Nat, seen : Nat, ok : BOOLEAN,
                key : Keys \cup {None}, target : Nat, parent : JobIds, found : JobIds]

VersionType == [approved : JobIds, key : Keys \cup {None}]

RowType == [mode : {"preview", "final"}, version : Nat, parent : JobIds,
            status : Active \cup Terminal, stale : BOOLEAN]

ClientsType == pc \in [Requests -> PCs] /\ req \in [Requests -> RequestType]

DraftType ==
    /\ exists \in BOOLEAN /\ revision \in Nat /\ edits \in Nat
    /\ current \in 0 .. Len(versions)

VersionsType == versions \in Seq(VersionType)

RowsType == rows \in Seq(RowType) /\ Len(rows) <= Cardinality(Jobs)

(* Every row belongs to a version that exists.                               *)
RowsOfVersions == \A j \in DOMAIN rows : rows[j].version \in DOMAIN versions

(* Every request that is about to insert a row finds a job id for it.        *)
Inserting == {r \in Requests : pc[r] = "create"}

RoomKept == Len(rows) + Cardinality(Inserting) <= Cardinality(Jobs)

(* Version v is approved and p is a preview of it that was rendered.         *)
Approved(v, p) == versions[v].approved # 0 /\ RestsOnPreview(v, p)

(* FinalWasApproved, in parts.                                               *)
ApprovalsRest == \A v \in DOMAIN versions :
    versions[v].approved # 0 => RestsOnPreview(v, versions[v].approved)

FinalsRest == \A j \in DOMAIN rows :
    rows[j].mode = "final" => Approved(rows[j].version, rows[j].parent)

Publishable(j) == j \in DOMAIN rows /\ rows[j].mode = "final" /\ file[j] # "none"

PublishedRest == \A j \in published : Publishable(j)

Rendering == {"find", "capacity", "create"}
Replies   == {"in_progress"} \cup Terminal
WithRow   == {"post", "settle", "fail", "get", "publish"} \cup Replies
OfVersion == {"point", "stale", "use", "version", "check", "approve"} \cup Rendering

(* What a request q at p knows of the rows, the versions and the files: the  *)
(* version it is about exists; a final that is looked for rests on a preview *)
(* that was approved; an approval is of a preview that was rendered; the job *)
(* that is written exists, and was rendered when it is shown as completed or *)
(* published.                                                                *)
Knows(p, q) ==
    /\ p \in OfVersion => q.target \in DOMAIN versions
    /\ p \in Rendering /\ q.op \in {"final", "publish"} => Approved(q.target, q.parent)
    /\ p = "version" => q.op = "publish" \/ (q.op = "final" /\ q.parent # 0)
    /\ p \in {"version", "check"} => q.parent \in DOMAIN rows \cup {0}
    /\ p = "check" => q.op = "publish" /\ q.parent # 0
    /\ p = "approve" => RestsOnPreview(q.target, q.parent)
    /\ p \in WithRow => q.found \in DOMAIN rows
    /\ p \in {"completed", "publish"} => file[q.found] # "none"
    /\ p = "publish" => rows[q.found].mode = "final"

AllKnow == \A r \in Requests : Knows(pc[r], req[r])

DataInv ==
    /\ DraftType /\ VersionsType /\ RowsType /\ RowsOfVersions
    /\ CompletedWasRendered
    /\ ApprovalsRest /\ FinalsRest /\ PublishedRest

TimelineInv ==
    /\ WorkerInv /\ CompletedIsStored
    /\ ClientsType /\ DataInv /\ RoomKept /\ AllKnow

LEMMA JobNumbers ==
    ASSUME RowsType
    PROVE  /\ DOMAIN rows = 1 .. Len(rows) /\ Len(rows) \in Nat /\ DOMAIN rows \subseteq Jobs
           /\ 0 \notin DOMAIN rows
           /\ \A j \in DOMAIN rows : rows[j] \in RowType
<1>1. DOMAIN rows = 1 .. Len(rows) /\ Len(rows) \in Nat /\ \A j \in DOMAIN rows : rows[j] \in RowType
  <2> DEFINE R == RowType
  <2>1. rows \in Seq(R) BY DEF RowsType
  <2> HIDE DEF R
  <2>2. DOMAIN rows = 1 .. Len(rows) /\ Len(rows) \in Nat /\ \A j \in DOMAIN rows : rows[j] \in R
    BY <2>1
  <2> QED BY <2>2 DEF R
<1>2. Cardinality(Jobs) \in Nat /\ Jobs = 1 .. Cardinality(Jobs)
  BY TimelineAssumption, FS_CardinalityType
<1> QED BY <1>1, <1>2 DEF RowsType

LEMMA VersionNumbers ==
    ASSUME VersionsType
    PROVE  /\ DOMAIN versions = 1 .. Len(versions) /\ Len(versions) \in Nat
           /\ \A n \in DOMAIN versions : versions[n] \in VersionType
<1> DEFINE V == VersionType
<1>1. versions \in Seq(V) BY DEF VersionsType
<1> HIDE DEF V
<1>2. /\ DOMAIN versions = 1 .. Len(versions) /\ Len(versions) \in Nat
      /\ \A n \in DOMAIN versions : versions[n] \in V
  BY <1>1
<1> QED BY <1>2 DEF V

LEMMA TypeOfInv == TimelineInv => TypeOK
<1> SUFFICES ASSUME TimelineInv PROVE TypeOK
  OBVIOUS
<1>1. /\ DOMAIN rows \subseteq Jobs /\ \A j \in DOMAIN rows : rows[j] \in RowType
      /\ \A n \in DOMAIN versions : versions[n] \in VersionType
  BY JobNumbers, VersionNumbers DEF TimelineInv, DataInv
<1>2. published \subseteq Jobs
  BY <1>1 DEF TimelineInv, DataInv, PublishedRest, Publishable
<1>3. \A j \in DOMAIN rows : rows[j] \in
        [mode : {"preview", "final"}, version : DOMAIN versions, parent : JobIds,
         status : Active \cup Terminal, stale : BOOLEAN]
  BY <1>1 DEF TimelineInv, DataInv, RowsOfVersions, RowType
<1> QED
  BY <1>1, <1>2, <1>3
     DEF TimelineInv, DataInv, ClientsType, DraftType, WorkerInv, TypeOK, RequestType, VersionType

LEMMA FinalOfInv == TimelineInv => FinalWasApproved
BY DEF TimelineInv, DataInv, ApprovalsRest, FinalsRest, PublishedRest, Publishable, Approved,
       FinalWasApproved

LEMMA Start == Init => TimelineInv
<1> SUFFICES ASSUME Init PROVE TimelineInv
  OBVIOUS
<1>1. WorkerInv /\ CompletedIsStored BY InitInv, StoredAtStart DEF Init
<1>2. ClientsType
  BY TimelineAssumption DEF Init, ClientsType, PCs, NoRequest, RequestType, JobIds
<1>3. /\ rows \in Seq(RowType) /\ Len(rows) = 0 /\ DOMAIN rows = {}
      /\ versions \in Seq(VersionType) /\ Len(versions) = 0 /\ DOMAIN versions = {}
  BY DEF Init
<1>4. Inserting = {} BY DEF Init, Inserting
<1>5. RowsType /\ RoomKept /\ VersionsType
  BY <1>3, <1>4, TimelineAssumption, FS_CardinalityType, FS_EmptySet
     DEF RowsType, RoomKept, VersionsType
<1>6. DraftType
  <2>1. exists \in BOOLEAN BY DEF Init
  <2> QED BY <1>3, <2>1 DEF Init, DraftType
<1>7. AllKnow
  BY DEF Init, AllKnow, Knows, NoRequest, OfVersion, Rendering, WithRow, Replies, Terminal
<1>8. RowsOfVersions /\ CompletedWasRendered /\ ApprovalsRest /\ FinalsRest /\ PublishedRest
  BY <1>3 DEF Init, RowsOfVersions, CompletedWasRendered, ApprovalsRest, FinalsRest, PublishedRest
<1> QED BY <1>1, <1>2, <1>5, <1>6, <1>7, <1>8 DEF TimelineInv, DataInv

-------------------------------------------------------------------------------
(* What every step keeps                                                     *)

(* Rows are added, never taken away, and only their status and staleness     *)
(* change; versions are added, and an approval may be replaced, not undone.  *)
RowsKept == \A j \in DOMAIN rows :
    /\ j \in DOMAIN rows' /\ rows'[j].mode = rows[j].mode
    /\ rows'[j].version = rows[j].version /\ rows'[j].parent = rows[j].parent

VersionsKept == \A n \in DOMAIN versions :
    n \in DOMAIN versions' /\ (versions[n].approved # 0 => versions'[n].approved # 0)

LEMMA RestsStays ==
    ASSUME RowsType, FilesKept, RowsKept, NEW v, NEW p, RestsOnPreview(v, p)
    PROVE  RestsOnPreview(v, p)'
BY JobNumbers DEF RestsOnPreview, FilesKept, RowsKept

LEMMA ApprovedStays ==
    ASSUME RowsType, FilesKept, RowsKept, VersionsKept,
           NEW v \in DOMAIN versions, NEW p, Approved(v, p)
    PROVE  Approved(v, p)'
BY RestsStays DEF Approved, VersionsKept

LEMMA KnowsStays ==
    ASSUME RowsType, FilesKept, RowsKept, VersionsKept, NEW p, NEW q, Knows(p, q)
    PROVE  Knows(p, q)'
<1>1. p \in OfVersion => q.target \in DOMAIN versions /\ q.target \in DOMAIN versions'
  BY DEF Knows, VersionsKept
<1>2. p \in Rendering /\ q.op \in {"final", "publish"} => Approved(q.target, q.parent)'
  BY <1>1, ApprovedStays DEF Knows, OfVersion
<1>3. p = "approve" => RestsOnPreview(q.target, q.parent)' BY RestsStays DEF Knows
<1>4. /\ p \in {"version", "check"} => q.parent \in DOMAIN rows' \cup {0}
      /\ p \in WithRow => q.found \in DOMAIN rows'
      /\ p = "publish" => rows'[q.found].mode = "final"
  BY DEF Knows, RowsKept, WithRow
<1>5. p \in {"completed", "publish"} => file'[q.found] # "none"
  BY JobNumbers DEF Knows, FilesKept, WithRow, Replies, Terminal
<1>6. /\ p = "version" => q.op = "publish" \/ (q.op = "final" /\ q.parent # 0)
      /\ p = "check" => q.op = "publish" /\ q.parent # 0
  BY DEF Knows
<1> QED BY <1>1, <1>2, <1>3, <1>4, <1>5, <1>6 DEF Knows

(* Finals that are there keep their previews, and so do approvals and what   *)
(* was published.                                                            *)
LEMMA FinalsStay ==
    ASSUME DataInv, FilesKept, RowsKept, VersionsKept, NEW j \in DOMAIN rows,
           rows'[j].mode = "final"
    PROVE  Approved(rows[j].version, rows[j].parent)'
<1>1. /\ rows[j].mode = "final" /\ rows'[j].version = rows[j].version
      /\ rows'[j].parent = rows[j].parent
  BY DEF RowsKept
<1>2. PICK v, p : v = rows[j].version /\ p = rows[j].parent OBVIOUS
<1>3. Approved(v, p) /\ v \in DOMAIN versions
  BY <1>1, <1>2 DEF DataInv, FinalsRest, RowsOfVersions
<1>4. Approved(v, p)' BY <1>3, ApprovedStays DEF DataInv
<1> QED BY <1>1, <1>2, <1>4 DEF Approved, RestsOnPreview

LEMMA ApprovalsStay ==
    ASSUME DataInv, FilesKept, RowsKept, NEW v \in DOMAIN versions,
           versions'[v].approved = versions[v].approved, versions[v].approved # 0
    PROVE  RestsOnPreview(v, versions[v].approved)'
<1>1. PICK p : p = versions[v].approved OBVIOUS
<1>2. RestsOnPreview(v, p) BY <1>1 DEF DataInv, ApprovalsRest
<1>3. RestsOnPreview(v, p)' BY <1>2, RestsStays DEF DataInv
<1> QED BY <1>1, <1>3 DEF RestsOnPreview

LEMMA PublishedStays ==
    ASSUME DataInv, FilesKept, RowsKept, \A j \in published' : j \in published \/ Publishable(j)
    PROVE  PublishedRest'
BY JobNumbers DEF DataInv, PublishedRest, Publishable, FilesKept, RowsKept

(* A step of one request.                                                    *)
LEMMA RequestMoves ==
    ASSUME TimelineInv, FilesKept, RowsKept, VersionsKept,
           NEW r \in Requests, NEW p \in PCs, NEW v \in RequestType,
           pc' = [pc EXCEPT ![r] = p], req' = [req EXCEPT ![r] = v], Knows(p, v)'
    PROVE  /\ ClientsType' /\ AllKnow'
           /\ \A d \in Requests : pc'[d] = IF d = r THEN p ELSE pc[d]
<1>1. ClientsType' BY DEF TimelineInv, ClientsType
<1>2. /\ \A d \in Requests : pc'[d] = IF d = r THEN p ELSE pc[d]
      /\ \A d \in Requests : req'[d] = IF d = r THEN v ELSE req[d]
  BY DEF TimelineInv, ClientsType
<1>3. ASSUME NEW d \in Requests PROVE Knows(pc[d], req[d])'
  <2>1. PICK a, b : a = pc'[d] /\ b = req'[d] OBVIOUS
  <2>2. Knows(a, b)'
    <3>1. CASE d = r
      BY <1>2, <2>1, <3>1
    <3>2. CASE d # r
      <4>1. a = pc[d] /\ b = req[d] BY <1>2, <2>1, <3>2
      <4>2. Knows(a, b) BY <4>1 DEF TimelineInv, AllKnow
      <4> QED BY <4>2, KnowsStays DEF TimelineInv, DataInv
    <3> QED BY <3>1, <3>2
  <2> QED BY <2>1, <2>2 DEF Knows
<1> QED BY <1>1, <1>2, <1>3 DEF AllKnow

LEMMA Finite ==
    /\ Cardinality(Jobs) \in Nat
    /\ IsFiniteSet(Inserting) /\ Cardinality(Inserting) \in Nat
    /\ IsFiniteSet(Inserting') /\ Cardinality(Inserting') \in Nat
<1>1. Inserting \in SUBSET Requests /\ Inserting' \in SUBSET Requests BY DEF Inserting
<1> QED BY <1>1, TimelineAssumption, FS_Subset, FS_CardinalityType

LEMMA RoomStays ==
    ASSUME RowsType, RoomKept, Len(rows') = Len(rows), Inserting' \subseteq Inserting
    PROVE  RoomKept'
<1>1. Cardinality(Inserting') <= Cardinality(Inserting) BY Finite, FS_Subset
<1> QED BY <1>1, Finite, JobNumbers DEF RoomKept

LEMMA RoomTaken ==
    ASSUME RowsType, RoomForJob, NEW r, Len(rows') = Len(rows),
           Inserting' \subseteq Inserting \cup {r}
    PROVE  RoomKept'
<1>1. Len(rows) + Cardinality(Inserting) < Cardinality(Jobs) BY DEF RoomForJob, Inserting
<1>2. /\ IsFiniteSet(Inserting \cup {r})
      /\ Cardinality(Inserting \cup {r}) \in Nat
      /\ Cardinality(Inserting \cup {r}) <= Cardinality(Inserting) + 1
  <2>1. r \in Inserting => Inserting \cup {r} = Inserting OBVIOUS
  <2>2. r \notin Inserting => /\ IsFiniteSet(Inserting \cup {r})
                             /\ Cardinality(Inserting \cup {r}) = Cardinality(Inserting) + 1
    BY Finite, FS_AddElement
  <2>3. CASE r \in Inserting
    <3>1. Cardinality(Inserting) <= Cardinality(Inserting) + 1 BY Finite
    <3> QED BY <2>1, <2>3, <3>1, Finite, Zenon
  <2>4. CASE r \notin Inserting
    BY <2>2, <2>4, Finite
  <2> QED BY <2>3, <2>4
<1>3. Cardinality(Inserting') <= Cardinality(Inserting \cup {r}) BY <1>2, FS_Subset
<1> QED BY <1>1, <1>2, <1>3, Finite, JobNumbers DEF RoomKept

LEMMA RoomUsed ==
    ASSUME RowsType, RoomKept, NEW r \in Inserting, Len(rows') = Len(rows) + 1,
           Inserting' \subseteq Inserting \ {r}
    PROVE  RoomKept' /\ Len(rows) + 1 <= Cardinality(Jobs)
<1>1. IsFiniteSet(Inserting \ {r}) /\ Cardinality(Inserting \ {r}) = Cardinality(Inserting) - 1
  BY Finite, FS_RemoveElement
<1>2. Cardinality(Inserting') <= Cardinality(Inserting \ {r}) BY <1>1, FS_Subset
<1>3. Cardinality(Inserting) >= 1
  <2>1. Cardinality(Inserting \ {r}) \in Nat BY <1>1, FS_CardinalityType
  <2> QED BY <1>1, <2>1, Finite
<1> QED BY <1>1, <1>2, <1>3, Finite, JobNumbers DEF RoomKept

(* A step that leaves rows and versions alone, whose files are kept.         *)
LEMMA DataStays ==
    ASSUME DataInv, FilesKept, UNCHANGED <<versions, rows>>, DraftType',
           \A j \in published' : j \in published \/ Publishable(j)
    PROVE  RowsKept /\ VersionsKept /\ DataInv'
<1>1. RowsKept /\ VersionsKept BY DEF RowsKept, VersionsKept
<1>2. VersionsType' /\ RowsType' /\ RowsOfVersions'
  BY DEF DataInv, VersionsType, RowsType, RowsOfVersions
<1>3. CompletedWasRendered'
  BY JobNumbers DEF CompletedWasRendered, DataInv, FilesKept
<1>4. PublishedRest' BY <1>1, PublishedStays
<1>5. ApprovalsRest' BY <1>1, ApprovalsStay DEF ApprovalsRest
<1>6. FinalsRest' BY <1>1, FinalsStay DEF FinalsRest
<1> QED BY <1>1, <1>2, <1>3, <1>4, <1>5, <1>6 DEF DataInv

(* A step of a request that leaves rows and versions alone: what it knows    *)
(* afterwards it knows already, and it comes to insert a row only with room. *)
LEMMA QuietStep ==
    ASSUME TimelineInv, WorkerInv', CompletedIsStored', FilesKept,
           UNCHANGED <<versions, rows>>, DraftType',
           \A j \in published' : j \in published \/ Publishable(j),
           NEW r \in Requests, NEW p \in PCs, NEW v \in RequestType,
           pc' = [pc EXCEPT ![r] = p], req' = [req EXCEPT ![r] = v],
           Knows(p, v), p = "create" => RoomForJob
    PROVE  TimelineInv'
<1>1. RowsKept /\ VersionsKept /\ DataInv' BY DataStays DEF TimelineInv
<1>2. Knows(p, v)' BY <1>1, KnowsStays DEF TimelineInv, DataInv
<1>3. ClientsType' /\ AllKnow' /\ \A d \in Requests : pc'[d] = IF d = r THEN p ELSE pc[d]
  <2>1. RowsKept /\ VersionsKept BY <1>1
  <2> HIDE DEF TimelineInv, Knows
  <2> QED BY <2>1, <1>2, RequestMoves, Zenon
<1>4. RoomKept'
  <2>1. CASE p = "create"
    <3>1. Inserting' \subseteq Inserting \cup {r} BY <1>3 DEF Inserting
    <3> QED BY <2>1, <3>1, RoomTaken DEF TimelineInv, DataInv
  <2>2. CASE p # "create"
    <3>1. Inserting' \subseteq Inserting BY <1>3, <2>2 DEF Inserting
    <3> QED BY <3>1, RoomStays DEF TimelineInv, DataInv
  <2> QED BY <2>1, <2>2
<1> QED BY <1>1, <1>3, <1>4 DEF TimelineInv

-------------------------------------------------------------------------------
(* The steps of a request that leave rows and versions alone                 *)

LEMMA RequestRecords == NoRequest \in RequestType /\ Knows("idle", NoRequest)
BY DEF NoRequest, RequestType, Knows, JobIds, OfVersion, Rendering, WithRow, Replies, Terminal

LEMMA AtRequest ==
    ASSUME TimelineInv, NEW r \in Requests
    PROVE  /\ req[r] \in RequestType /\ pc[r] \in PCs /\ Knows(pc[r], req[r])
           /\ pc \in [Requests -> PCs] /\ req \in [Requests -> RequestType]
BY DEF TimelineInv, ClientsType, AllKnow

(* What a step of the worker, or one that leaves the worker alone, grants.   *)
WorkerGood == WorkerInv' /\ CompletedIsStored' /\ FilesKept

Untouched == UNCHANGED <<versions, rows, published>> /\ DraftType'

LEMMA ReturnStep ==
    ASSUME TimelineInv, WorkerGood, UNCHANGED <<versions, rows>>, DraftType',
           \A j \in published' : j \in published \/ Publishable(j),
           NEW r \in Requests, Return(r)
    PROVE  TimelineInv'
<1>1. /\ pc' = [pc EXCEPT ![r] = "idle"] /\ req' = [req EXCEPT ![r] = NoRequest]
      /\ "idle" \in PCs
  BY DEF Return, GotoWith, PCs
<1> HIDE DEF TimelineInv
<1>2. PICK v : v = NoRequest OBVIOUS
<1>3. v \in RequestType /\ Knows("idle", v)
  BY <1>2, RequestRecords
<1> QED BY <1>1, <1>2, <1>3, QuietStep DEF WorkerGood

LEMMA GotoStep ==
    ASSUME TimelineInv, WorkerGood, Untouched,
           NEW r \in Requests, NEW p \in PCs, Goto(r, p), Knows(p, req[r]),
           p = "create" => RoomForJob
    PROVE  TimelineInv'
<1>1. PICK v \in RequestType : v = req[r] BY AtRequest
<1>2. pc' = [pc EXCEPT ![r] = p] /\ req' = [req EXCEPT ![r] = v]
  BY <1>1, AtRequest DEF Goto
<1>3. Knows(p, v) BY <1>1
<1> QED BY <1>2, <1>3, QuietStep DEF WorkerGood, Untouched

LEMMA GotoWithStep ==
    ASSUME TimelineInv, WorkerGood, Untouched,
           NEW r \in Requests, NEW p \in PCs \ {"create"}, NEW v \in RequestType, GotoWith(r, p, v),
           Knows(p, v)
    PROVE  TimelineInv'
BY QuietStep DEF WorkerGood, Untouched, GotoWith

(* Where a request knows nothing of the rows and versions.                   *)
Unknowing == {"idle", "find_timeline", "new_timeline", "load", "save", "reload", "load_base",
              "replay", "number", "insert"}

LEMMA KnowsNothing ==
    ASSUME NEW p \in Unknowing, NEW q
    PROVE  Knows(p, q) /\ p \in PCs \ {"create"}
BY DEF Unknowing, Knows, PCs, OfVersion, Rendering, WithRow, Replies, Terminal

LEMMA UntouchedByReads ==
    ASSUME TimelineInv, UNCHANGED dataVars
    PROVE  Untouched
BY DEF TimelineInv, DataInv, DraftType, Untouched, dataVars, timelineVars

LEMMA DraftNumbers ==
    ASSUME TimelineInv
    PROVE  /\ revision \in Nat /\ current \in Nat /\ current <= Len(versions)
           /\ Len(versions) \in Nat /\ edits \in Nat
BY VersionNumbers DEF TimelineInv, DataInv, DraftType

LEMMA BeginEditStep ==
    ASSUME TimelineInv, WorkerGood, NEW r \in Requests, BeginEdit(r)
    PROVE  TimelineInv'
<1>1. Untouched BY UntouchedByReads DEF BeginEdit, Reads
<1>2. PICK op, k, v, p :
        /\ op \in {"open", "save", "version", "branded"} /\ k \in Keys
        /\ p \in {"load", "load_base", "find_timeline"}
        /\ v = [NoRequest EXCEPT !.op = op, !.base = revision, !.seen = current,
                  !.key = IF op \in {"version", "branded"} THEN k ELSE None]
        /\ GotoWith(r, p, v)
  BY DEF BeginEdit
<1>3. v \in RequestType
  BY <1>2, DraftNumbers, RequestRecords DEF RequestType, Ops
<1>4. Knows(p, v) /\ p \in PCs \ {"create"}
  <2>1. p \in Unknowing BY <1>2 DEF Unknowing
  <2> QED BY <2>1, KnowsNothing
<1> QED BY <1>1, <1>2, <1>3, <1>4, GotoWithStep

LEMMA RebaseStep ==
    ASSUME TimelineInv, WorkerGood, Untouched, NEW r \in Requests, NEW p \in Unknowing, Rebase(r, p)
    PROVE  TimelineInv'
<1>1. PICK v \in RequestType : v = [req[r] EXCEPT !.base = revision, !.seen = current]
  BY AtRequest, DraftNumbers DEF RequestType
<1>2. GotoWith(r, p, v) BY <1>1 DEF Rebase
<1> QED BY <1>2, KnowsNothing, GotoWithStep

(* The steps of an edit up to the insertion of a version.                    *)
LEMMA DraftStep ==
    ASSUME TimelineInv, WorkerGood, NEW r \in Requests,
           \/ FindTimeline(r) \/ InsertTimeline(r) \/ LoadDraft(r) \/ SaveDraft(r)
           \/ ReloadTimeline(r) \/ LoadBase(r) \/ NextNumber(r)
    PROVE  TimelineInv'
<1>1. Untouched
  <2>1. CASE InsertTimeline(r)
    BY <2>1, DraftNumbers DEF InsertTimeline, Untouched, DraftType
  <2>2. CASE SaveDraft(r)
    <3>1. revision' \in Nat /\ edits' \in Nat
      BY <2>2, AtRequest, DraftNumbers DEF SaveDraft, WriteDraft, RequestType
    <3>2. exists' \in BOOLEAN BY <2>2 DEF SaveDraft, TimelineInv, DataInv, DraftType
    <3> QED BY <2>2, <3>1, <3>2, DraftNumbers DEF SaveDraft, Untouched, DraftType
  <2>3. ASSUME Reads PROVE Untouched BY <2>3, UntouchedByReads DEF Reads
  <2> QED BY <2>1, <2>2, <2>3 DEF FindTimeline, LoadDraft, ReloadTimeline, LoadBase, NextNumber
<1>2. CASE Return(r) BY <1>1, <1>2, ReturnStep DEF Untouched
<1>3. ASSUME NEW p \in Unknowing, Goto(r, p) \/ Rebase(r, p) PROVE TimelineInv'
  BY <1>1, <1>3, GotoStep, RebaseStep, KnowsNothing
<1>4. ASSUME NEW p \in Unknowing, NEW v \in RequestType, GotoWith(r, p, v) PROVE TimelineInv'
  BY <1>1, <1>4, GotoWithStep, KnowsNothing
<1> {"load", "new_timeline", "save", "reload", "load_base", "replay", "insert"} \subseteq Unknowing
  BY DEF Unknowing
<1>5. CASE LoadBase(r)
  <2>1. PICK v \in RequestType : v = [req[r] EXCEPT !.ok = BaseHolds(r)]
    <3>1. BaseHolds(r) \in BOOLEAN BY DEF BaseHolds
    <3> QED BY <3>1, AtRequest DEF RequestType
  <2> QED BY <1>4, <1>5, <2>1 DEF LoadBase
<1>6. CASE NextNumber(r)
  <2>1. PICK v \in RequestType : v = [req[r] EXCEPT !.target = Len(versions) + 1]
    <3>1. Len(versions) + 1 \in Nat BY DraftNumbers
    <3> QED BY <3>1, AtRequest DEF RequestType
  <2> QED BY <1>4, <1>6, <2>1 DEF NextNumber
<1> QED
  BY <1>2, <1>3, <1>5, <1>6 DEF FindTimeline, InsertTimeline, LoadDraft, SaveDraft, ReloadTimeline

LEMMA VersionsUntouched ==
    ASSUME TimelineInv, NEW n \in DOMAIN versions
    PROVE  n \in Nat /\ n <= Len(versions) /\ versions[n] \in VersionType
BY VersionNumbers DEF TimelineInv, DataInv

(* The steps of an edit around the version, but for those that write rows    *)
(* and versions.                                                             *)
LEMMA VersionStep ==
    ASSUME TimelineInv, WorkerGood, NEW r \in Requests,
           FindReplay(r) \/ PointVersion(r) \/ RecordUsages(r)
    PROVE  TimelineInv'
<1>1. Untouched
  <2>1. CASE PointVersion(r)
    <3>1. revision' \in Nat /\ edits' \in Nat
      BY <2>1, AtRequest, DraftNumbers DEF PointVersion, WriteDraft, RequestType
    <3>2. current' \in 0 .. Len(versions)
      <4>1. req[r].target \in DOMAIN versions
        BY <2>1, AtRequest DEF PointVersion, At, Knows, OfVersion
      <4> QED BY <2>1, <4>1, VersionsUntouched, DraftNumbers DEF PointVersion
    <3>3. exists' \in BOOLEAN BY <2>1 DEF PointVersion, TimelineInv, DataInv, DraftType
    <3> QED BY <2>1, <3>1, <3>2, <3>3 DEF PointVersion, Untouched, DraftType
  <2>2. ASSUME Reads PROVE Untouched BY <2>2, UntouchedByReads DEF Reads
  <2> QED BY <2>1, <2>2 DEF FindReplay, RecordUsages
<1>2. CASE Return(r) BY <1>1, <1>2, ReturnStep DEF Untouched
<1>3. CASE FindReplay(r)
  <2>1. ASSUME NEW n \in DOMAIN versions, GotoWith(r, "use", [req[r] EXCEPT !.target = n])
        PROVE  TimelineInv'
    <3>1. PICK v : v = [req[r] EXCEPT !.target = n] OBVIOUS
    <3>2. v \in RequestType /\ v.target = n
      BY <3>1, AtRequest, VersionsUntouched DEF RequestType
    <3>3. Knows("use", v) /\ "use" \in PCs \ {"create"}
      BY <3>2 DEF Knows, Rendering, WithRow, Replies, Terminal, PCs
    <3> QED BY <1>1, <2>1, <3>1, <3>2, <3>3, GotoWithStep
  <2>2. CASE Goto(r, "number")
    <3> "number" \in Unknowing BY DEF Unknowing
    <3> QED BY <1>1, <2>2, GotoStep, KnowsNothing
  <2> QED BY <1>2, <1>3, <2>1, <2>2 DEF FindReplay
<1>4. CASE PointVersion(r)
  <2>1. Goto(r, "stale") /\ pc[r] = "point" BY <1>4 DEF PointVersion, At
  <2>2. Knows("stale", req[r]) /\ "stale" \in PCs
    BY <2>1, AtRequest DEF Knows, OfVersion, Rendering, WithRow, Replies, Terminal, PCs
  <2> QED BY <1>1, <2>1, <2>2, GotoStep
<1>5. ASSUME RecordUsages(r), ~Return(r) PROVE TimelineInv'
  <2>1. Goto(r, "find") /\ pc[r] = "use" /\ req[r].op = "branded"
    BY <1>5 DEF RecordUsages, At
  <2>2. Knows("find", req[r]) /\ "find" \in PCs
    BY <2>1, AtRequest DEF Knows, OfVersion, Rendering, WithRow, Replies, Terminal, PCs
  <2> QED BY <1>1, <2>1, <2>2, GotoStep
<1> QED BY <1>2, <1>3, <1>4, <1>5

(* An approvable job is a preview of its version that was rendered.          *)
LEMMA ApprovableRests ==
    ASSUME TimelineInv, NEW v, NEW j \in DOMAIN rows, Approvable(v, j)
    PROVE  RestsOnPreview(v, j)
BY DEF Approvable, RestsOnPreview, TimelineInv, DataInv, CompletedWasRendered

LEMMA BeginRenderStep ==
    ASSUME TimelineInv, WorkerGood, NEW r \in Requests, BeginRender(r)
    PROVE  TimelineInv'
<1>1. Untouched BY UntouchedByReads DEF BeginRender, Reads
<1>2. PICK op, j, v, p :
        /\ op \in {"preview", "final", "publish"} /\ j \in {0} \cup DOMAIN rows
        /\ current # 0
        /\ op = "preview" <=> j = 0 /\ op # "publish"
        /\ p = IF op = "preview" THEN "find" ELSE "version"
        /\ v = [NoRequest EXCEPT !.op = op, !.target = current, !.parent = j]
        /\ GotoWith(r, p, v)
  BY DEF BeginRender
<1>3. j \in JobIds BY <1>2, JobNumbers DEF JobIds, TimelineInv, DataInv
<1>4. v \in RequestType /\ v.op = op /\ v.target = current /\ v.parent = j
  BY <1>2, <1>3, DraftNumbers, RequestRecords DEF RequestType, Ops
<1>5. current \in DOMAIN versions
  BY <1>2, DraftNumbers, VersionNumbers DEF TimelineInv, DataInv
<1>6. Knows(p, v) /\ p \in PCs \ {"create"}
  BY <1>2, <1>4, <1>5 DEF Knows, OfVersion, Rendering, WithRow, Replies, Terminal, PCs
<1> QED BY <1>1, <1>2, <1>4, <1>6, GotoWithStep

LEMMA BeginApproveStep ==
    ASSUME TimelineInv, WorkerGood, NEW r \in Requests, BeginApprove(r)
    PROVE  TimelineInv'
<1>1. Untouched BY UntouchedByReads DEF BeginApprove, Reads
<1>2. PICK n, j, v :
        /\ n \in DOMAIN versions /\ j \in DOMAIN rows /\ Approvable(n, j)
        /\ v = [NoRequest EXCEPT !.op = "approve", !.target = n, !.parent = j]
        /\ GotoWith(r, "approve", v)
  BY DEF BeginApprove
<1>3. j \in JobIds /\ RestsOnPreview(n, j)
  BY <1>2, ApprovableRests, JobNumbers DEF JobIds, TimelineInv, DataInv
<1>4. v \in RequestType /\ v.target = n /\ v.parent = j
  BY <1>2, <1>3, VersionsUntouched, RequestRecords DEF RequestType, Ops
<1>5. Knows("approve", v) /\ "approve" \in PCs \ {"create"}
  BY <1>2, <1>3, <1>4 DEF Knows, OfVersion, Rendering, WithRow, Replies, Terminal, PCs
<1> QED BY <1>1, <1>2, <1>4, <1>5, GotoWithStep

LEMMA BeginPollStep ==
    ASSUME TimelineInv, WorkerGood, NEW r \in Requests, NEW j \in DOMAIN rows, BeginPoll(r, j)
    PROVE  TimelineInv'
<1>1. Untouched BY UntouchedByReads DEF BeginPoll, Reads
<1>2. PICK v : v = [NoRequest EXCEPT !.op = "poll", !.found = j] OBVIOUS
<1>3. j \in JobIds BY JobNumbers DEF JobIds, TimelineInv, DataInv
<1>4. v \in RequestType /\ v.found = j BY <1>2, <1>3, RequestRecords DEF RequestType, Ops
<1>5. Knows("get", v) /\ "get" \in PCs \ {"create"}
  BY <1>4 DEF Knows, OfVersion, Rendering, WithRow, Replies, Terminal, PCs
<1> QED BY <1>1, <1>2, <1>4, <1>5, GotoWithStep DEF BeginPoll

(* The reading steps of a render request.                                    *)
LEMMA RequireVersionStep ==
    ASSUME TimelineInv, WorkerGood, NEW r \in Requests, RequireVersion(r)
    PROVE  TimelineInv'
<1>1. Untouched BY UntouchedByReads DEF RequireVersion, Reads
<1> DEFINE a == versions[req[r].target].approved
<1>2. /\ pc[r] = "version" /\ req[r].target \in DOMAIN versions /\ req[r] \in RequestType
      /\ Knows("version", req[r])
  BY AtRequest DEF RequireVersion, At, Knows, OfVersion
<1>3. a \in JobIds /\ (a # 0 => Approved(req[r].target, a))
  BY <1>2, VersionsUntouched DEF VersionType, TimelineInv, DataInv, ApprovalsRest, Approved
<1> USE DEF OfVersion, Rendering, WithRow, Replies, Terminal, PCs
<1>4. CASE Return(r) BY <1>1, <1>4, ReturnStep DEF Untouched
<1>5. CASE req[r].op = "final" /\ a = req[r].parent /\ Goto(r, "find")
  <2>1. Knows("find", req[r]) BY <1>2, <1>3, <1>5 DEF Knows
  <2> QED BY <1>1, <1>5, <2>1, GotoStep
<1>6. CASE a # 0 /\ GotoWith(r, "find", [req[r] EXCEPT !.parent = a])
  <2>1. PICK v : v = [req[r] EXCEPT !.parent = a] OBVIOUS
  <2>2. v \in RequestType /\ v.target = req[r].target /\ v.parent = a
    BY <1>2, <1>3, <2>1 DEF RequestType
  <2>3. Knows("find", v) BY <1>2, <1>3, <1>6, <2>2 DEF Knows
  <2> QED BY <1>1, <1>6, <2>1, <2>2, <2>3, GotoWithStep
<1>7. CASE req[r].op = "publish" /\ req[r].parent # 0 /\ Goto(r, "check")
  <2>1. Knows("check", req[r]) BY <1>2, <1>7 DEF Knows
  <2> QED BY <1>1, <1>7, <2>1, GotoStep
<1> QED BY <1>4, <1>5, <1>6, <1>7 DEF RequireVersion

LEMMA CheckPreviewStep ==
    ASSUME TimelineInv, WorkerGood, NEW r \in Requests, CheckPreview(r)
    PROVE  TimelineInv'
<1>1. Untouched BY UntouchedByReads DEF CheckPreview, Reads
<1>2. CASE Return(r) BY <1>1, <1>2, ReturnStep DEF Untouched
<1>3. CASE Approvable(req[r].target, req[r].parent) /\ Goto(r, "approve")
  <2>1. /\ pc[r] = "check" /\ Knows("check", req[r])
    BY AtRequest DEF CheckPreview, At
  <2>2. RestsOnPreview(req[r].target, req[r].parent)
    BY <1>3, <2>1, ApprovableRests DEF Knows
  <2>3. Knows("approve", req[r]) /\ "approve" \in PCs
    BY <2>1, <2>2 DEF Knows, OfVersion, Rendering, WithRow, Replies, Terminal, PCs
  <2> QED BY <1>1, <1>3, <2>3, GotoStep
<1> QED BY <1>2, <1>3 DEF CheckPreview

LEMMA FindJobStep ==
    ASSUME TimelineInv, WorkerGood, NEW r \in Requests, FindJob(r)
    PROVE  TimelineInv'
<1>1. Untouched BY UntouchedByReads DEF FindJob, Reads
<1>2. pc[r] = "find" /\ Knows("find", req[r]) /\ req[r] \in RequestType
  BY AtRequest DEF FindJob, At
<1> USE DEF OfVersion, Rendering, WithRow, Replies, Terminal, PCs
<1>3. CASE Return(r) BY <1>1, <1>3, ReturnStep DEF Untouched
<1>4. CASE Goto(r, "capacity")
  <2>1. Knows("capacity", req[r]) BY <1>2 DEF Knows
  <2> QED BY <1>1, <1>4, <2>1, GotoStep
<1>5. ASSUME NEW j \in Reusable(r), req[r].op = "publish", rows[j].status = "completed",
             GotoWith(r, "publish", [req[r] EXCEPT !.found = j])
      PROVE  TimelineInv'
  <2>1. PICK v : v = [req[r] EXCEPT !.found = j] OBVIOUS
  <2>2. j \in DOMAIN rows /\ rows[j].mode = "final" /\ file[j] # "none"
    BY <1>5 DEF Reusable, Mode, TimelineInv, DataInv, CompletedWasRendered
  <2>3. j \in JobIds BY <2>2, JobNumbers DEF JobIds, TimelineInv, DataInv
  <2>4. v \in RequestType /\ v.found = j BY <1>2, <2>1, <2>3 DEF RequestType
  <2>5. Knows("publish", v) BY <2>2, <2>4 DEF Knows
  <2> QED BY <1>1, <1>5, <2>1, <2>4, <2>5, GotoWithStep
<1> QED BY <1>3, <1>4, <1>5 DEF FindJob

LEMMA CapacityStep ==
    ASSUME TimelineInv, WorkerGood, NEW r \in Requests, EnforceCapacity(r)
    PROVE  TimelineInv'
<1>1. Untouched BY UntouchedByReads DEF EnforceCapacity, Reads
<1>2. CASE Return(r) BY <1>1, <1>2, ReturnStep DEF Untouched
<1>3. CASE RoomForJob /\ Goto(r, "create")
  <2>1. pc[r] = "capacity" BY DEF EnforceCapacity, At
  <2>2. Knows("create", req[r]) /\ "create" \in PCs
    BY <2>1, AtRequest DEF Knows, OfVersion, Rendering, WithRow, Replies, Terminal, PCs
  <2> QED BY <1>1, <1>3, <2>2, GotoStep
<1> QED BY <1>2, <1>3 DEF EnforceCapacity

(* The steps that talk to the worker, and those that end a request.          *)
LEMMA TalkStep ==
    ASSUME TimelineInv, WorkerGood, NEW r \in Requests,
           PostRender(r) \/ GetStatus(r) \/ GetUnavailable(r) \/ PublishFinal(r) \/ Crash(r)
    PROVE  TimelineInv'
<1> USE DEF OfVersion, Rendering, WithRow, Replies, Terminal, PCs
<1>1. ASSUME UNCHANGED dataVars PROVE Untouched
  BY <1>1, UntouchedByReads
<1>2. CASE PublishFinal(r)
  <2>1. UNCHANGED <<versions, rows>> /\ DraftType' /\ Return(r)
    BY <1>2 DEF PublishFinal, TimelineInv, DataInv, DraftType, timelineVars
  <2>2. Publishable(req[r].found)
    BY <1>2, AtRequest DEF PublishFinal, At, Knows, Publishable
  <2>3. \A j \in published' : j \in published \/ Publishable(j)
    <3>1. \A j \in published' : j \in published \/ j = req[r].found
      BY <1>2 DEF PublishFinal
    <3> QED BY <2>2, <3>1 DEF Publishable
  <2> QED BY <2>1, <2>3, ReturnStep
<1>3. CASE GetUnavailable(r) \/ Crash(r)
  <2>1. UNCHANGED dataVars /\ Return(r) BY <1>3 DEF GetUnavailable, Crash, Reads
  <2> QED BY <1>1, <2>1, ReturnStep DEF Untouched
<1>4. CASE PostRender(r)
  <2>1. PICK p \in {"settle", "fail"} : Goto(r, p) BY <1>4 DEF PostRender
  <2>2. pc[r] = "post" /\ UNCHANGED dataVars BY <1>4 DEF PostRender, At
  <2>3. Knows(p, req[r]) BY <2>1, <2>2, AtRequest DEF Knows
  <2> QED BY <1>1, <2>1, <2>2, <2>3, GotoStep
<1>5. CASE GetStatus(r)
  <2>1. pc[r] = "get" /\ UNCHANGED dataVars /\ Goto(r, StatusOf(req[r].found))
        /\ StatusOf(req[r].found) # "absent"
    BY <1>5 DEF GetStatus, At, Reads
  <2>2. req[r].found \in DOMAIN rows /\ req[r].found \in Jobs
    BY <2>1, AtRequest, JobNumbers DEF Knows, TimelineInv, DataInv
  <2>3. PICK p \in Replies : p = StatusOf(req[r].found)
    BY <2>1, <2>2 DEF StatusOf, TimelineInv, WorkerInv, WorkerTypeOK
  <2>4. p = "completed" => file[req[r].found] # "none"
    BY <2>2, <2>3 DEF TimelineInv, CompletedIsStored
  <2>5. Knows(p, req[r]) BY <2>2, <2>3, <2>4 DEF Knows
  <2> QED BY <1>1, <2>1, <2>3, <2>5, GotoStep
<1> QED BY <1>2, <1>3, <1>4, <1>5

-------------------------------------------------------------------------------
(* The steps that write rows and versions                                    *)

LEMMA OneMore ==
    ASSUME NEW S, NEW q \in Seq(S), NEW v \in S
    PROVE  /\ Append(q, v) \in Seq(S) /\ Len(Append(q, v)) = Len(q) + 1
           /\ DOMAIN Append(q, v) = DOMAIN q \cup {Len(q) + 1}
           /\ Append(q, v)[Len(q) + 1] = v /\ \A j \in DOMAIN q : Append(q, v)[j] = q[j]
OBVIOUS

LEMMA OneChanged ==
    ASSUME NEW S, NEW q \in Seq(S), NEW j \in DOMAIN q, NEW v \in S
    PROVE  /\ [q EXCEPT ![j] = v] \in Seq(S) /\ Len([q EXCEPT ![j] = v]) = Len(q)
           /\ DOMAIN [q EXCEPT ![j] = v] = DOMAIN q
           /\ \A k \in DOMAIN q : [q EXCEPT ![j] = v][k] = IF k = j THEN v ELSE q[k]
OBVIOUS

LEMMA WriteStep ==
    ASSUME TimelineInv, WorkerGood, RowsKept, VersionsKept, DataInv', Len(rows') = Len(rows),
           NEW r \in Requests, NEW p \in PCs \ {"create"}, NEW v \in RequestType,
           GotoWith(r, p, v), Knows(p, v)'
    PROVE  TimelineInv'
<1>1. ClientsType' /\ AllKnow' /\ \A d \in Requests : pc'[d] = IF d = r THEN p ELSE pc[d]
  <2>1. /\ pc' = [pc EXCEPT ![r] = p] /\ req' = [req EXCEPT ![r] = v] /\ p \in PCs
        /\ FilesKept
    BY DEF GotoWith, WorkerGood
  <2> HIDE DEF TimelineInv, Knows
  <2> QED BY <2>1, RequestMoves
<1>2. Inserting' \subseteq Inserting BY <1>1 DEF Inserting
<1>3. RoomKept' BY <1>2, RoomStays DEF TimelineInv, DataInv
<1> QED BY <1>1, <1>3 DEF TimelineInv, WorkerGood

(* Rows that are rewritten in place.                                         *)
LEMMA RowsRewritten ==
    ASSUME DataInv, FilesKept, RowsKept, RowsType', DOMAIN rows' = DOMAIN rows,
           UNCHANGED <<timelineVars, versions, published>>, CompletedWasRendered'
    PROVE  VersionsKept /\ DataInv'
<1>1. VersionsKept BY DEF VersionsKept
<1>2. FinalsRest' BY <1>1, FinalsStay DEF FinalsRest
<1>3. ApprovalsRest' BY ApprovalsStay DEF ApprovalsRest
<1>4. PublishedRest' BY PublishedStays
<1>5. RowsOfVersions' BY DEF RowsOfVersions, DataInv, RowsKept
<1>6. DraftType' /\ VersionsType' BY DEF DataInv, DraftType, VersionsType, timelineVars
<1> QED BY <1>1, <1>2, <1>3, <1>4, <1>5, <1>6 DEF DataInv

LEMMA StatusStep ==
    ASSUME TimelineInv, WorkerGood, NEW r \in Requests, NEW j \in DOMAIN rows,
           NEW s \in Active \cup Terminal, SetStatus(j, s), Return(r),
           s = "completed" => file[j] # "none", UNCHANGED <<timelineVars, versions, published>>
    PROVE  TimelineInv'
<1>1. rows[j] \in RowType /\ DOMAIN rows \subseteq Jobs
  BY JobNumbers DEF TimelineInv, DataInv
<1>2. PICK w \in RowType : w = [rows[j] EXCEPT !.status = s] BY <1>1 DEF RowType
<1>3. /\ w.status = s /\ w.mode = rows[j].mode /\ w.version = rows[j].version
      /\ w.parent = rows[j].parent
  BY <1>1, <1>2 DEF RowType
<1>4. rows' = [rows EXCEPT ![j] = w] BY <1>2 DEF SetStatus
<1>5. /\ rows' \in Seq(RowType) /\ Len(rows') = Len(rows) /\ DOMAIN rows' = DOMAIN rows
      /\ \A k \in DOMAIN rows : rows'[k] = IF k = j THEN w ELSE rows[k]
  BY <1>4, OneChanged DEF TimelineInv, DataInv, RowsType
<1>6. RowsKept /\ RowsType' BY <1>3, <1>5 DEF RowsKept, RowsType, TimelineInv, DataInv
<1>7. CompletedWasRendered'
  BY <1>1, <1>3, <1>5 DEF CompletedWasRendered, TimelineInv, DataInv, WorkerGood, FilesKept
<1>8. VersionsKept /\ DataInv'
  BY <1>5, <1>6, <1>7, RowsRewritten DEF TimelineInv, WorkerGood
<1>9. PICK v : v = NoRequest OBVIOUS
<1>10. /\ v \in RequestType /\ Knows("idle", v)' /\ GotoWith(r, "idle", v)
       /\ "idle" \in PCs \ {"create"}
  <2>1. v \in RequestType /\ GotoWith(r, "idle", v) BY <1>9, RequestRecords DEF Return
  <2>2. Knows("idle", v)'
    BY DEF Knows, OfVersion, Rendering, WithRow, Replies, Terminal
  <2> QED BY <2>1, <2>2 DEF PCs
<1> HIDE DEF TimelineInv
<1> QED BY <1>5, <1>6, <1>8, <1>10, WriteStep

LEMMA MarkStaleStep ==
    ASSUME TimelineInv, WorkerGood, NEW r \in Requests, MarkStale(r)
    PROVE  TimelineInv'
<1> DEFINE w(j) == [rows[j] EXCEPT !.stale = @ \/ rows[j].version # req[r].target]
<1>0. DOMAIN rows = 1 .. Len(rows) /\ Len(rows) \in Nat /\ DOMAIN rows \subseteq Jobs
  BY JobNumbers DEF TimelineInv, DataInv
<1>1. \A j \in DOMAIN rows : rows[j] \in RowType BY JobNumbers DEF TimelineInv, DataInv
<1>2. ASSUME NEW j \in DOMAIN rows
      PROVE  /\ w(j) \in RowType /\ w(j).status = rows[j].status /\ w(j).mode = rows[j].mode
             /\ w(j).version = rows[j].version /\ w(j).parent = rows[j].parent
  <2>1. (rows[j].stale \/ rows[j].version # req[r].target) \in BOOLEAN OBVIOUS
  <2> QED BY <1>1, <2>1 DEF RowType
<1>3. rows' = [j \in DOMAIN rows |-> w(j)] BY DEF MarkStale
<1> HIDE DEF w
<1>4. rows' \in Seq(RowType) /\ Len(rows') = Len(rows) /\ DOMAIN rows' = DOMAIN rows
  <2> DEFINE R == RowType
  <2>1. \A j \in DOMAIN rows : w(j) \in R BY <1>2
  <2> HIDE DEF R
  <2>2. rows' \in Seq(R) /\ Len(rows') = Len(rows) /\ DOMAIN rows' = DOMAIN rows
    BY <1>0, <1>3, <2>1
  <2> QED BY <2>2 DEF R
<1>5. \A j \in DOMAIN rows : /\ rows'[j].status = rows[j].status /\ rows'[j].mode = rows[j].mode
                             /\ rows'[j].version = rows[j].version
                             /\ rows'[j].parent = rows[j].parent
  BY <1>2, <1>3
<1>6. RowsKept /\ RowsType' BY <1>4, <1>5 DEF RowsKept, RowsType, TimelineInv, DataInv
<1>7. CompletedWasRendered'
  BY <1>0, <1>4, <1>5 DEF CompletedWasRendered, TimelineInv, DataInv, WorkerGood, FilesKept
<1>8. VersionsKept /\ DataInv'
  BY <1>4, <1>6, <1>7, RowsRewritten DEF TimelineInv, WorkerGood, MarkStale
<1>9. PICK v \in RequestType : v = req[r] BY AtRequest
<1>10. GotoWith(r, "use", v) BY <1>9, AtRequest DEF MarkStale, Goto, GotoWith
<1>11. Knows("use", v)' /\ "use" \in PCs \ {"create"}
  <2>1. v.target \in DOMAIN versions BY <1>9, AtRequest DEF MarkStale, At, Knows, OfVersion
  <2>2. Knows("use", v)
    BY <2>1 DEF Knows, OfVersion, Rendering, WithRow, Replies, Terminal
  <2> QED BY <1>6, <1>8, <2>2, KnowsStays DEF TimelineInv, DataInv, WorkerGood, PCs
<1> HIDE DEF TimelineInv
<1> QED BY <1>4, <1>6, <1>8, <1>10, <1>11, WriteStep

LEMMA InsertVersionStep ==
    ASSUME TimelineInv, WorkerGood, NEW r \in Requests, InsertVersion(r)
    PROVE  TimelineInv'
<1> DEFINE n == Len(versions) + 1
<1>0. /\ DOMAIN versions = 1 .. Len(versions) /\ Len(versions) \in Nat
      /\ DOMAIN rows \subseteq Jobs
  BY VersionNumbers, JobNumbers DEF TimelineInv, DataInv
<1>1. CASE Return(r) /\ UNCHANGED versions
  <2>1. Untouched
    BY <1>1 DEF InsertVersion, Untouched, TimelineInv, DataInv, DraftType, timelineVars
  <2> QED BY <1>1, <2>1, ReturnStep DEF Untouched
<1>2. ASSUME req[r].target = n, Goto(r, "point"),
             versions' = Append(versions, [approved |-> 0, key |-> req[r].key])
      PROVE  TimelineInv'
  <2>1. PICK x \in VersionType : x = [approved |-> 0, key |-> req[r].key]
    BY AtRequest DEF VersionType, RequestType, JobIds
  <2>2. /\ versions' \in Seq(VersionType) /\ Len(versions') = n
        /\ DOMAIN versions' = DOMAIN versions \cup {n} /\ versions'[n] = x
        /\ \A k \in DOMAIN versions : versions'[k] = versions[k]
    BY <1>2, <2>1, OneMore DEF TimelineInv, DataInv, VersionsType
  <2>3. RowsKept /\ VersionsKept /\ FilesKept /\ UNCHANGED <<rows, published, timelineVars>>
    BY <2>2 DEF InsertVersion, RowsKept, VersionsKept, WorkerGood
  <2>4. DraftType'
    <3> HIDE DEF n
    <3>1. current' \in 0 .. Len(versions') BY <1>0, <2>2, <2>3, DraftNumbers DEF timelineVars, n
    <3> QED BY <2>3, <3>1 DEF DraftType, TimelineInv, DataInv, timelineVars
  <2>5. RowsType' /\ RowsOfVersions' /\ VersionsType'
    BY <2>2, <2>3 DEF TimelineInv, DataInv, RowsType, RowsOfVersions, VersionsType
  <2>6. CompletedWasRendered'
    BY <1>0, <2>3 DEF CompletedWasRendered, TimelineInv, DataInv, FilesKept
  <2>7. ApprovalsRest'
    <3>1. versions'[n].approved = 0 BY <2>1, <2>2
    <3>2. ASSUME NEW k \in DOMAIN versions', versions'[k].approved # 0
          PROVE  RestsOnPreview(k, versions[k].approved)'
      <4>1. k \in DOMAIN versions /\ versions'[k].approved = versions[k].approved
        BY <2>2, <3>1, <3>2
      <4> QED BY <2>3, <3>2, <4>1, ApprovalsStay DEF TimelineInv
    <3> QED BY <3>2 DEF ApprovalsRest
  <2>8. FinalsRest' BY <2>3, FinalsStay DEF FinalsRest, TimelineInv
  <2>9. PublishedRest' BY <2>3, PublishedStays DEF TimelineInv
  <2>10. DataInv' BY <2>4, <2>5, <2>6, <2>7, <2>8, <2>9 DEF DataInv
  <2>11. PICK v \in RequestType : v = req[r] BY AtRequest
  <2>12. GotoWith(r, "point", v) BY <1>2, <2>11, AtRequest DEF Goto, GotoWith
  <2>13. Knows("point", v)' /\ "point" \in PCs \ {"create"}
    <3>1. v.target \in DOMAIN versions' BY <1>2, <2>2, <2>11
    <3> QED BY <3>1 DEF Knows, OfVersion, Rendering, WithRow, Replies, Terminal, PCs
  <2>14. Len(rows') = Len(rows) BY <2>3
  <2> HIDE DEF TimelineInv
  <2> QED BY <2>3, <2>10, <2>12, <2>13, <2>14, WriteStep
<1> QED BY <1>1, <1>2 DEF InsertVersion

LEMMA ApprovePreviewStep ==
    ASSUME TimelineInv, WorkerGood, NEW r \in Requests, ApprovePreview(r)
    PROVE  TimelineInv'
<1> DEFINE t == req[r].target
           p == req[r].parent
<1>0. /\ pc[r] = "approve" /\ req[r] \in RequestType /\ t \in DOMAIN versions
      /\ RestsOnPreview(t, p) /\ p \in DOMAIN rows
      /\ DOMAIN rows \subseteq Jobs /\ 0 \notin DOMAIN rows
  BY AtRequest, JobNumbers
     DEF ApprovePreview, At, Knows, OfVersion, RestsOnPreview, TimelineInv, DataInv
<1>1. PICK x : x = [versions[t] EXCEPT !.approved = p] OBVIOUS
<1>2. x \in VersionType /\ x.approved = p
  BY <1>0, <1>1, VersionsUntouched DEF VersionType, RequestType
<1>3. versions' = [versions EXCEPT ![t] = x] BY <1>1 DEF ApprovePreview
<1>4. /\ versions' \in Seq(VersionType) /\ Len(versions') = Len(versions)
      /\ DOMAIN versions' = DOMAIN versions
      /\ \A k \in DOMAIN versions : versions'[k] = IF k = t THEN x ELSE versions[k]
  BY <1>0, <1>2, <1>3, OneChanged DEF TimelineInv, DataInv, VersionsType
<1> HIDE DEF t, p
<1>5. RowsKept /\ VersionsKept /\ FilesKept /\ UNCHANGED <<rows, published, timelineVars>>
  BY <1>0, <1>2, <1>4 DEF ApprovePreview, RowsKept, VersionsKept, WorkerGood
<1>6. DraftType' /\ RowsType' /\ RowsOfVersions' /\ VersionsType'
  BY <1>4, <1>5
     DEF TimelineInv, DataInv, DraftType, RowsType, RowsOfVersions, VersionsType, timelineVars
<1>7. CompletedWasRendered'
  BY <1>0, <1>5 DEF CompletedWasRendered, TimelineInv, DataInv, FilesKept
<1>8. ApprovalsRest'
  <2>1. ASSUME NEW k \in DOMAIN versions', versions'[k].approved # 0
        PROVE  RestsOnPreview(k, versions[k].approved)'
    <3>1. CASE k = t
      <4>1. PICK a : a = p OBVIOUS
      <4>2. RestsOnPreview(k, a) BY <1>0, <3>1, <4>1
      <4>3. RestsOnPreview(k, a)' BY <1>5, <4>2, RestsStays DEF TimelineInv, DataInv
      <4>4. versions'[k].approved = a BY <1>0, <1>2, <1>4, <3>1, <4>1
      <4> QED BY <4>3, <4>4 DEF RestsOnPreview
    <3>2. CASE k # t
      <4>1. k \in DOMAIN versions /\ versions'[k].approved = versions[k].approved
        BY <1>4, <3>2
      <4> QED BY <1>5, <2>1, <4>1, ApprovalsStay DEF TimelineInv
    <3> QED BY <3>1, <3>2
  <2> QED BY <2>1 DEF ApprovalsRest
<1>9. FinalsRest' BY <1>5, FinalsStay DEF FinalsRest, TimelineInv
<1>10. PublishedRest' BY <1>5, PublishedStays DEF TimelineInv
<1>11. DataInv' BY <1>6, <1>7, <1>8, <1>9, <1>10 DEF DataInv
<1>12. PICK v \in RequestType, q \in {"version", "idle"} :
         GotoWith(r, q, v) /\ (q = "version" => v = req[r] /\ req[r].op = "publish")
  <2>1. CASE Return(r) BY <2>1, RequestRecords DEF Return
  <2>2. CASE req[r].op = "publish" /\ Goto(r, "version")
    <3>1. GotoWith(r, "version", req[r]) BY <2>2, AtRequest DEF Goto, GotoWith
    <3> QED BY <1>0, <2>2, <3>1
  <2> QED BY <2>1, <2>2 DEF ApprovePreview
<1>13. Knows(q, v)' /\ q \in PCs \ {"create"}
  <2>1. Knows(q, v)
    BY <1>0, <1>12 DEF Knows, OfVersion, Rendering, WithRow, Replies, Terminal, t, p
  <2> QED BY <1>5, <2>1, KnowsStays DEF TimelineInv, DataInv, PCs
<1>14. Len(rows') = Len(rows) BY <1>5
<1> HIDE DEF TimelineInv
<1> QED BY <1>5, <1>11, <1>12, <1>13, <1>14, WriteStep

LEMMA CreateJobStep ==
    ASSUME TimelineInv, WorkerGood, NEW r \in Requests, CreateJob(r)
    PROVE  TimelineInv'
<1> DEFINE n == Len(rows) + 1
           q == req[r]
<1>0. /\ pc[r] = "create" /\ q \in RequestType /\ q.target \in DOMAIN versions
      /\ Mode(r) \in {"preview", "final"}
      /\ Mode(r) = "final" => Approved(q.target, q.parent)
  BY AtRequest DEF CreateJob, At, Knows, OfVersion, Rendering, Mode
<1>1. PICK w : w = [mode |-> Mode(r), version |-> q.target,
                    parent |-> IF Mode(r) = "final" THEN q.parent ELSE 0,
                    status |-> "queued", stale |-> FALSE]
  OBVIOUS
<1>2. /\ w \in RowType /\ w.mode = Mode(r) /\ w.version = q.target /\ w.status = "queued"
      /\ w.mode = "final" => w.parent = q.parent
  <2>1. (IF Mode(r) = "final" THEN q.parent ELSE 0) \in JobIds /\ q.target \in Nat
    BY <1>0 DEF RequestType, JobIds
  <2> QED BY <1>0, <1>1, <2>1 DEF RowType, Active
<1>3. rows' = Append(rows, w) BY <1>1 DEF CreateJob
<1>4. /\ rows' \in Seq(RowType) /\ Len(rows') = n /\ DOMAIN rows' = DOMAIN rows \cup {n}
      /\ rows'[n] = w /\ \A j \in DOMAIN rows : rows'[j] = rows[j]
  BY <1>2, <1>3, OneMore DEF TimelineInv, DataInv, RowsType
<1>5. DOMAIN rows = 1 .. Len(rows) /\ n \notin DOMAIN rows /\ DOMAIN rows \subseteq Jobs
      /\ Len(rows) \in Nat
  BY JobNumbers DEF TimelineInv, DataInv
<1>6. PICK v : v = [q EXCEPT !.found = n] OBVIOUS
<1>7. GotoWith(r, "post", v) BY <1>6 DEF CreateJob
<1>8. r \in Inserting /\ Inserting' \subseteq Inserting \ {r}
  BY <1>0, <1>7, AtRequest DEF Inserting, GotoWith
<1>9. RoomKept' /\ n <= Cardinality(Jobs)
  <2> HIDE DEF n
  <2>1. Len(rows') = Len(rows) + 1 BY <1>4 DEF n
  <2> QED BY <1>8, <2>1, RoomUsed DEF TimelineInv, DataInv, n
<1>10. n \in Jobs /\ Len(rows') <= Cardinality(Jobs)
  BY <1>4, <1>5, <1>9, Finite, TimelineAssumption
<1>11. v \in RequestType /\ v.found = n BY <1>0, <1>6, <1>10 DEF RequestType, JobIds
<1> HIDE DEF n, q
<1>12. RowsKept /\ VersionsKept /\ FilesKept /\ UNCHANGED <<versions, published, timelineVars>>
  BY <1>4 DEF CreateJob, RowsKept, VersionsKept, WorkerGood
<1>13. Knows("post", v)' /\ "post" \in PCs
  <2>1. v.found \in DOMAIN rows' BY <1>4, <1>11
  <2> QED BY <2>1 DEF Knows, OfVersion, Rendering, WithRow, Replies, Terminal, PCs
<1>14. ClientsType' /\ AllKnow'
  <2>1. pc' = [pc EXCEPT ![r] = "post"] /\ req' = [req EXCEPT ![r] = v]
    BY <1>7 DEF GotoWith
  <2> HIDE DEF TimelineInv, Knows
  <2> QED BY <1>11, <1>12, <1>13, <2>1, RequestMoves
<1>15. DraftType' /\ RowsType' /\ VersionsType'
  BY <1>4, <1>10, <1>12 DEF TimelineInv, DataInv, DraftType, RowsType, VersionsType, timelineVars
<1>16. RowsOfVersions'
  BY <1>0, <1>2, <1>4, <1>12 DEF TimelineInv, DataInv, RowsOfVersions, q
<1>17. CompletedWasRendered'
  BY <1>2, <1>4, <1>5, <1>12 DEF CompletedWasRendered, TimelineInv, DataInv, FilesKept
<1>18. ApprovalsRest' BY <1>12, ApprovalsStay DEF ApprovalsRest, TimelineInv
<1>19. PublishedRest' BY <1>12, PublishedStays DEF TimelineInv
<1>20. FinalsRest'
  <2>1. ASSUME NEW j \in DOMAIN rows', rows'[j].mode = "final"
        PROVE  Approved(rows[j].version, rows[j].parent)'
    <3>1. CASE j \in DOMAIN rows BY <1>12, <2>1, <3>1, FinalsStay DEF TimelineInv
    <3>2. CASE j = n
      <4>1. PICK a, b : a = q.target /\ b = q.parent OBVIOUS
      <4>2. rows'[j].version = a /\ rows'[j].parent = b /\ Mode(r) = "final"
        BY <1>2, <1>4, <2>1, <3>2, <4>1
      <4>3. Approved(a, b) /\ a \in DOMAIN versions BY <1>0, <4>1, <4>2 DEF q
      <4>4. Approved(a, b)' BY <1>12, <4>3, ApprovedStays DEF TimelineInv, DataInv
      <4> QED BY <4>2, <4>4 DEF Approved, RestsOnPreview
    <3> QED BY <1>4, <3>1, <3>2
  <2> QED BY <2>1 DEF FinalsRest
<1> QED
  BY <1>9, <1>14, <1>15, <1>16, <1>17, <1>18, <1>19, <1>20 DEF TimelineInv, DataInv, WorkerGood

-------------------------------------------------------------------------------
(* The step, and the theorems                                                *)

(* Whatever the clients do, the worker takes a step of its own.              *)
LEMMA StepOfWorker ==
    ASSUME TimelineInv, [Next]_vars
    PROVE  [WorkerNext]_workerVars
<1>1. ASSUME NEW r \in Requests, RequestStep(r) PROVE [WorkerNext]_workerVars
  <2>1. CASE PostRender(r)
    <3>1. req[r].found \in Jobs
      BY <2>1, AtRequest, JobNumbers DEF PostRender, At, Knows, WithRow, TimelineInv, DataInv
    <3> QED BY <2>1, <3>1 DEF PostRender, WorkerNext
  <2>2. CASE EditStep(r)
    BY <2>2 DEF EditStep, FindTimeline, InsertTimeline, LoadDraft, SaveDraft, ReloadTimeline,
                LoadBase, FindReplay, NextNumber, InsertVersion, PointVersion, MarkStale,
                RecordUsages, Reads
  <2>3. CASE PollStep(r)
    BY <2>3 DEF PollStep, GetStatus, GetUnavailable, WriteStatus, Reads
  <2>4. CASE RenderStep(r) /\ ~PostRender(r)
    BY <2>4 DEF RenderStep, RequireVersion, CheckPreview, ApprovePreview, FindJob,
                EnforceCapacity, CreateJob, SettleJob, FailJob, PublishFinal, Reads
  <2> QED BY <1>1, <2>1, <2>2, <2>3, <2>4 DEF RequestStep
<1>2. ASSUME NEW r \in Requests, Crash(r) PROVE UNCHANGED workerVars
  BY <1>2 DEF Crash
<1>3. ASSUME NEW r \in Requests,
             BeginEdit(r) \/ BeginRender(r) \/ BeginApprove(r) \/ \E j \in DOMAIN rows : BeginPoll(r, j)
      PROVE  UNCHANGED workerVars
  BY <1>3 DEF BeginEdit, BeginRender, BeginApprove, BeginPoll, Reads
<1>4. CASE WorkerStep BY <1>4 DEF WorkerNext
<1>5. CASE UNCHANGED vars BY <1>5 DEF vars
<1> QED BY <1>1, <1>2, <1>3, <1>4, <1>5 DEF Next, Requests

LEMMA RequestStepKeeps ==
    ASSUME TimelineInv, WorkerGood, NEW r \in Requests, RequestStep(r)
    PROVE  TimelineInv'
<1>1. CASE EditStep(r)
  BY <1>1, DraftStep, VersionStep, InsertVersionStep, MarkStaleStep DEF EditStep
<1>2. CASE SettleJob(r) \/ FailJob(r)
  <2>1. PICK s \in {"queued", "failed"} : SetStatus(req[r].found, s)
    BY <1>2 DEF SettleJob, FailJob
  <2>2. /\ Return(r) /\ UNCHANGED <<timelineVars, versions, published>>
        /\ pc[r] \in {"settle", "fail"}
    BY <1>2 DEF SettleJob, FailJob, At
  <2>3. req[r].found \in DOMAIN rows BY <2>2, AtRequest DEF Knows, WithRow
  <2>4. s \in Active \cup Terminal /\ s # "completed" BY DEF Active, Terminal
  <2> QED BY <2>1, <2>2, <2>3, <2>4, StatusStep
<1>3. CASE RenderStep(r)
  BY <1>2, <1>3, RequireVersionStep, CheckPreviewStep, ApprovePreviewStep, FindJobStep,
     CapacityStep, CreateJobStep, TalkStep DEF RenderStep
<1>4. CASE WriteStatus(r)
  <2>1. PICK s \in Replies : s = pc[r] BY <1>4 DEF WriteStatus, Replies
  <2>2. /\ SetStatus(req[r].found, s) /\ Return(r)
        /\ UNCHANGED <<timelineVars, versions, published>>
    BY <1>4, <2>1 DEF WriteStatus
  <2>3. req[r].found \in DOMAIN rows /\ (s = "completed" => file[req[r].found] # "none")
    BY <2>1, AtRequest DEF Knows, WithRow
  <2>4. s \in Active \cup Terminal BY DEF Replies, Active
  <2> QED BY <2>2, <2>3, <2>4, StatusStep
<1>5. CASE PollStep(r) BY <1>4, <1>5, TalkStep DEF PollStep
<1> QED BY <1>1, <1>3, <1>5 DEF RequestStep

LEMMA InvStep == TimelineInv /\ [Next]_vars => TimelineInv'
<1> SUFFICES ASSUME TimelineInv, [Next]_vars PROVE TimelineInv'
  OBVIOUS
<1>0. WorkerGood
  <2>1. WorkerInv /\ CompletedIsStored /\ [WorkerNext]_workerVars
    BY StepOfWorker DEF TimelineInv
  <2> QED BY <2>1, NextInv, WorkerKeepsFiles, StoredStays DEF WorkerGood
<1>1. ASSUME NEW r \in Requests,
             BeginEdit(r) \/ BeginRender(r) \/ BeginApprove(r) \/ \E j \in DOMAIN rows : BeginPoll(r, j)
      PROVE  TimelineInv'
  BY <1>0, <1>1, BeginEditStep, BeginRenderStep, BeginApproveStep, BeginPollStep
<1>2. ASSUME NEW r \in Requests, RequestStep(r) \/ Crash(r) PROVE TimelineInv'
  BY <1>0, <1>2, RequestStepKeeps, TalkStep
<1>3. CASE UNCHANGED <<pc, req, dataVars>>
  <2>1. RowsKept /\ VersionsKept /\ DataInv'
    BY <1>0, <1>3, DataStays
       DEF TimelineInv, WorkerGood, DataInv, DraftType, dataVars, timelineVars
  <2>2. ClientsType' BY <1>3 DEF TimelineInv, ClientsType
  <2>3. RoomKept' BY <1>3 DEF TimelineInv, RoomKept, Inserting, dataVars
  <2>4. AllKnow'
    <3>1. ASSUME NEW r \in Requests PROVE Knows(pc[r], req[r])'
      <4>1. PICK a, b : a = pc[r] /\ b = req[r] OBVIOUS
      <4>2. Knows(a, b) BY <4>1, AtRequest
      <4>3. Knows(a, b)' BY <1>0, <2>1, <4>2, KnowsStays DEF TimelineInv, DataInv, WorkerGood
      <4> QED BY <1>3, <4>1, <4>3 DEF Knows
    <3> QED BY <3>1 DEF AllKnow
  <2> QED BY <1>0, <2>1, <2>2, <2>3, <2>4 DEF TimelineInv, WorkerGood
<1>4. CASE UNCHANGED vars BY <1>3, <1>4 DEF vars
<1> QED BY <1>1, <1>2, <1>3, <1>4 DEF Next, Requests

LEMMA InvHolds == Spec => []TimelineInv
BY Start, InvStep, PTL DEF Spec

(* Every reachable state has the stated types: the current version, and the  *)
(* version of every job, exists, and a request that was let through by the   *)
(* capacity check finds a job id (create_version, create_render_job).        *)
THEOREM TypeCorrect == Spec => []TypeOK
BY TypeOfInv, InvHolds, PTL

(* A job shown as completed has a video, whatever late replies to POST and   *)
(* GET are written over its status (_dispatch_render_job,                    *)
(* get_video_timeline_render_job).                                           *)
THEOREM CompletedWasRenderedHolds == Spec => []CompletedWasRendered
<1>1. TimelineInv => CompletedWasRendered BY DEF TimelineInv, DataInv
<1> QED BY <1>1, InvHolds, PTL

(* A final, and what is published, rests on a preview of the same version    *)
(* that was rendered and approved, whatever edits, approvals and polls ran   *)
(* between the checks and the insertion (render-final, swipe-publish).       *)
THEOREM FinalWasApprovedHolds == Spec => []FinalWasApproved
BY FinalOfInv, InvHolds, PTL

(* The timelines are clients of RenderWorker: they ask only for jobs of      *)
(* theirs, so every step of the two is a step of the worker or leaves it     *)
(* alone (remotion_render_client.py).                                        *)
THEOREM TimelineUsesWorker == Spec => WorkerSpec
<1>1. Init => WorkerInit BY DEF Init
<1>2. TimelineInv /\ [Next]_vars => [WorkerNext]_workerVars BY StepOfWorker
<1> QED BY <1>1, <1>2, InvHolds, PTL DEF Spec, WorkerSpec

(* The composition keeps RenderPromise: however timelines are edited and     *)
(* rendered, a job of theirs ends once and stays ended (executeRender).      *)
THEOREM TimelineKeepsPromise == Spec => KeepsPromise
BY TimelineUsesWorker, WorkerKeepsPromise
===============================================================================
