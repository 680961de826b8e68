--------------------------- MODULE ReelRenders_proofs ---------------------------
(* Theorems of ReelRenders and their proofs, for any clients, contents and   *)
(* jobs and any number of crashes and restarts.                              *)
EXTENDS ReelRenders, RenderWorker_proofs, FiniteSetTheorems

-------------------------------------------------------------------------------
(* The inductive invariant                                                   *)

DataType == [workerId : BOOLEAN, path : BOOLEAN]

RequestType == [op : {"none", "create", "export", "poll", "cancel"},
                content : Contents \cup {None}, parent : Jobs \cup {0}, job : Jobs \cup {0},
                write : {"none"} \cup Active \cup Terminal, data : DataType]

RowType == [mode : {"preview", "final"}, content : Contents, parent : Jobs \cup {0},
            status : Active \cup Terminal, data : DataType]

ClientsType ==
    /\ pc \in [Clients -> PCs] /\ req \in [Clients -> RequestType]
    /\ crashes \in 0 .. MaxCrashes

(* Every request that has room reserved, and may still insert a row, finds   *)
(* a job id for it.                                                          *)
MayInsertAt(p, q) ==
    \/ p \in {"list", "insert", "reread"}
    \/ p \in {"get", "read", "write"} /\ q.op = "export" /\ q.job = q.parent

Inserting == {c \in Creators : MayInsertAt(pc[c], req[c])}

RoomKept == Len(rows) + Cardinality(Inserting) <= Cardinality(Jobs)

RowsType == rows \in Seq(RowType) /\ Len(rows) <= Cardinality(Jobs)

(* What a request q at p knows of the rows and files: the job it reads or    *)
(* writes exists; it is about to write completed only for a job that has had *)
(* a video; an export names a preview of its content, which has had a video  *)
(* once the preview was found completed.                                     *)
Knows(p, q) ==
    /\ p \in {"post", "get", "cancel", "read", "write"} => q.job \in DOMAIN rows
    /\ p \in {"read", "write"} =>
         q.write # "none" /\ (q.write = "completed" => file[q.job] # "none")
    /\ p \in {"list", "reread"} => q.op = "export"
    /\ p \in {"post", "cancel"} => ~(q.op = "export" /\ q.job = q.parent)
    /\ p = "insert" => q.op \in {"create", "export"} /\ q.content \in Contents
    /\ q.op = "export" =>
         /\ q.parent \in DOMAIN rows
         /\ rows[q.parent].mode = "preview" /\ rows[q.parent].content = q.content
         /\ p \in {"list", "insert"} => file[q.parent] # "none"

(* Those who poll and cancel never come to insert a row.                     *)
OnlyCreatorsInsert == \A c \in Clients : MayInsertAt(pc[c], req[c]) => c \in Creators

AllKnow == \A c \in Clients : Knows(pc[c], req[c])

(* A final names a row.                                                      *)
ParentsExist == \A j \in DOMAIN rows : rows[j].mode = "final" => rows[j].parent \in DOMAIN rows

ReelInv ==
    /\ WorkerInv /\ ClientsType /\ RowsType /\ RoomKept
    /\ AllKnow /\ OnlyCreatorsInsert
    /\ CompletedHasVideo /\ ExportWasRendered /\ ParentsExist

LEMMA JobIds ==
    ASSUME RowsType
    PROVE  /\ DOMAIN rows = 1 .. Len(rows) /\ Len(rows) \in Nat /\ DOMAIN rows \subseteq Jobs
           /\ 0 \notin DOMAIN rows
           /\ \A j \in DOMAIN rows : rows[j] \in RowType
<1>1. DOMAIN rows = 1 .. Len(rows) /\ Len(rows) \in Nat /\ \A j \in DOMAIN rows : rows[j] \in RowType
  <2> DEFINE R == RowType
  <2>1. rows \in Seq(R) BY DEF RowsType
  <2> HIDE DEF R
  <2>2. DOMAIN rows = 1 .. Len(rows) /\ Len(rows) \in Nat /\ \A j \in DOMAIN rows : rows[j] \in R
    BY <2>1
  <2> QED BY <2>2 DEF R
<1>2. Cardinality(Jobs) \in Nat /\ Jobs = 1 .. Cardinality(Jobs)
  BY ReelsAssumption, FS_CardinalityType
<1> QED BY <1>1, <1>2 DEF RowsType

LEMMA TypeOfInv == ReelInv => TypeOK
<1> SUFFICES ASSUME ReelInv PROVE TypeOK
  OBVIOUS
<1>1. DOMAIN rows \subseteq Jobs /\ \A j \in DOMAIN rows : rows[j] \in RowType
  BY JobIds DEF ReelInv
<1> QED BY <1>1, Zenon DEF ReelInv, ClientsType, WorkerInv, TypeOK, RequestType, RowType, DataType

LEMMA Start == Init => ReelInv
<1> SUFFICES ASSUME Init PROVE ReelInv
  OBVIOUS
<1>1. WorkerInv BY InitInv DEF Init
<1>2. ClientsType
  BY ReelsAssumption DEF Init, ClientsType, PCs, NoRequest, NoData, RequestType, DataType
<1>3. rows \in Seq(RowType) /\ Len(rows) = 0 /\ DOMAIN rows = {} BY DEF Init
<1>4. Inserting = {} BY DEF Init, Inserting, MayInsertAt, Clients, NoRequest
<1>5. RowsType /\ RoomKept
  BY <1>3, <1>4, ReelsAssumption, FS_CardinalityType, FS_EmptySet DEF RowsType, RoomKept
<1>6. AllKnow /\ OnlyCreatorsInsert
  BY DEF Init, AllKnow, OnlyCreatorsInsert, MayInsertAt, Knows, NoRequest
<1>7. CompletedHasVideo /\ ExportWasRendered /\ ParentsExist
  BY <1>3 DEF CompletedHasVideo, ExportWasRendered, ParentsExist
<1> QED BY <1>1, <1>2, <1>5, <1>6, <1>7 DEF ReelInv

-------------------------------------------------------------------------------
(* What every step keeps                                                     *)

(* Rows are added, never taken away, and only their status and data change. *)
RowsKept == \A j \in DOMAIN rows :
    /\ j \in DOMAIN rows' /\ rows'[j].mode = rows[j].mode
    /\ rows'[j].content = rows[j].content /\ rows'[j].parent = rows[j].parent

LEMMA KnowsStays ==
    ASSUME RowsType, FilesKept, RowsKept, NEW p, NEW q, Knows(p, q)
    PROVE  Knows(p, q)'
BY JobIds DEF Knows, FilesKept, RowsKept

(* A step of one client. *)
LEMMA ClientMoves ==
    ASSUME ReelInv, FilesKept, RowsKept, NEW c \in Clients, NEW p \in PCs, NEW v \in RequestType,
           pc' = [pc EXCEPT ![c] = p], req' = [req EXCEPT ![c] = v],
           crashes' \in 0 .. MaxCrashes, Knows(p, v)'
    PROVE  /\ ClientsType' /\ AllKnow'
           /\ \A d \in Clients : pc'[d] = IF d = c THEN p ELSE pc[d]
           /\ \A d \in Clients : req'[d] = IF d = c THEN v ELSE req[d]
<1>1. ClientsType' BY DEF ReelInv, ClientsType
<1>2. /\ \A d \in Clients : pc'[d] = IF d = c THEN p ELSE pc[d]
      /\ \A d \in Clients : req'[d] = IF d = c THEN v ELSE req[d]
  BY DEF ReelInv, ClientsType
<1>3. ASSUME NEW d \in Clients PROVE Knows(pc[d], req[d])'
  <2>1. PICK a, b : a = pc'[d] /\ b = req'[d] OBVIOUS
  <2>2. Knows(a, b)'
    <3>1. CASE d = c
      BY <1>2, <2>1, <3>1
    <3>2. CASE d # c
      <4>1. a = pc[d] /\ b = req[d] BY <1>2, <2>1, <3>2
      <4>2. Knows(a, b) BY <4>1 DEF ReelInv, AllKnow
      <4> QED BY <4>2, KnowsStays DEF ReelInv
    <3> QED BY <3>1, <3>2
  <2> QED BY <2>1, <2>2 DEF Knows
<1> QED BY <1>1, <1>2, <1>3 DEF AllKnow

(* The room for rows: reserved when a request begins, used when it inserts.  *)
LEMMA Finite ==
    /\ IsFiniteSet(Creators) /\ Cardinality(Jobs) \in Nat
    /\ IsFiniteSet(Inserting) /\ Cardinality(Inserting) \in Nat
    /\ IsFiniteSet(Inserting') /\ Cardinality(Inserting') \in Nat
<1>1. Inserting \in SUBSET Creators /\ Inserting' \in SUBSET Creators BY DEF Inserting
<1> QED BY <1>1, ReelsAssumption, FS_Subset, FS_CardinalityType

LEMMA RoomStays ==
    ASSUME RowsType, RoomKept, Len(rows') = Len(rows), Inserting' \subseteq Inserting
    PROVE  RoomKept'
<1>1. Cardinality(Inserting') <= Cardinality(Inserting) BY Finite, FS_Subset
<1> QED BY <1>1, Finite, JobIds DEF RoomKept

LEMMA RoomTaken ==
    ASSUME RowsType, RoomForJob, NEW c \in Creators, pc[c] = "idle", Len(rows') = Len(rows),
           Inserting' \subseteq Inserting \cup {c}
    PROVE  RoomKept'
<1> DEFINE Busy == {d \in Creators : pc[d] # "idle"}
<1>1. Busy \in SUBSET Creators /\ Inserting' \subseteq Busy \cup {c} /\ c \notin Busy
  BY DEF Inserting, MayInsertAt
<1>2. Len(rows) + Cardinality(Busy) < Cardinality(Jobs) BY DEF RoomForJob
<1> HIDE DEF Busy
<1>3. IsFiniteSet(Busy) /\ Cardinality(Busy) \in Nat
  BY <1>1, Finite, FS_Subset, FS_CardinalityType
<1>4. IsFiniteSet(Busy \cup {c}) /\ Cardinality(Busy \cup {c}) = Cardinality(Busy) + 1
  BY <1>1, <1>3, FS_AddElement
<1>5. Cardinality(Inserting') <= Cardinality(Busy \cup {c})
  BY <1>1, <1>4, FS_Subset
<1> QED BY <1>2, <1>3, <1>4, <1>5, Finite, JobIds DEF RoomKept

LEMMA RoomUsed ==
    ASSUME RowsType, RoomKept, NEW c \in Inserting, Len(rows') = Len(rows) + 1,
           Inserting' \subseteq Inserting \ {c}
    PROVE  RoomKept' /\ Len(rows) + 1 <= Cardinality(Jobs)
<1>1. IsFiniteSet(Inserting \ {c}) /\ Cardinality(Inserting \ {c}) = Cardinality(Inserting) - 1
  BY Finite, FS_RemoveElement
<1>2. Cardinality(Inserting') <= Cardinality(Inserting \ {c}) BY <1>1, FS_Subset
<1>3. Cardinality(Inserting) >= 1
  <2>1. Cardinality(Inserting \ {c}) \in Nat BY <1>1, FS_CardinalityType
  <2> QED BY <1>1, <2>1, Finite
<1> QED BY <1>1, <1>2, <1>3, Finite, JobIds DEF RoomKept

(* A step that leaves the rows alone, whose files are kept.                  *)
LEMMA RowsStay ==
    ASSUME ReelInv, FilesKept, UNCHANGED rows
    PROVE  RowsKept /\ RowsType' /\ CompletedHasVideo' /\ ExportWasRendered' /\ ParentsExist'
<1> DOMAIN rows \subseteq Jobs BY JobIds DEF ReelInv
<1>1. RowsKept /\ RowsType' BY DEF RowsKept, RowsType, ReelInv
<1>2. ParentsExist' BY DEF ParentsExist, ReelInv
<1>3. CompletedHasVideo' BY DEF CompletedHasVideo, ReelInv, FilesKept
<1>4. ExportWasRendered'
  <2>1. \A j \in DOMAIN rows : rows[j].mode = "final" =>
          rows[j].parent \in Jobs /\ file'[rows[j].parent] # "none"
    BY DEF ReelInv, ParentsExist, ExportWasRendered, FilesKept
  <2> QED BY <2>1 DEF ExportWasRendered, ReelInv
<1> QED BY <1>1, <1>2, <1>3, <1>4

(* A step of a request that only reads the rows: what it knows afterwards it *)
(* knows already, and it does not come to insert a row if it could not.      *)
LEMMA QuietStep ==
    ASSUME ReelInv, WorkerInv', FilesKept, UNCHANGED rows,
           NEW c \in Clients, NEW p \in PCs, NEW v \in RequestType,
           pc' = [pc EXCEPT ![c] = p], req' = [req EXCEPT ![c] = v],
           crashes' \in 0 .. MaxCrashes, Knows(p, v),
           \/ MayInsertAt(p, v) => MayInsertAt(pc[c], req[c])
           \/ c \in Creators /\ pc[c] = "idle" /\ RoomForJob
    PROVE  ReelInv'
<1>1. RowsKept /\ RowsType' /\ CompletedHasVideo' /\ ExportWasRendered' /\ ParentsExist'
  BY RowsStay
<1>2. Knows(p, v)' BY <1>1, KnowsStays DEF ReelInv
<1>3. /\ ClientsType' /\ AllKnow'
      /\ \A d \in Clients : pc'[d] = IF d = c THEN p ELSE pc[d]
      /\ \A d \in Clients : req'[d] = IF d = c THEN v ELSE req[d]
  <2>1. RowsKept BY <1>1
  <2> HIDE DEF ReelInv, Knows
  <2> QED BY <2>1, <1>2, ClientMoves, Zenon
<1>4. Inserting' \subseteq Inserting \cup {c}
  BY <1>3 DEF Inserting, MayInsertAt, Clients
<1>5. RoomKept'
  <2>1. CASE MayInsertAt(p, v) => MayInsertAt(pc[c], req[c])
    <3>1. Inserting' \subseteq Inserting BY <1>3, <2>1 DEF Inserting, MayInsertAt, Clients
    <3> QED BY <3>1, RoomStays DEF ReelInv
  <2>2. CASE c \in Creators /\ pc[c] = "idle" /\ RoomForJob
    BY <1>4, <2>2, RoomTaken DEF ReelInv
  <2> QED BY <2>1, <2>2
<1>6. OnlyCreatorsInsert' BY <1>3 DEF OnlyCreatorsInsert, MayInsertAt, ReelInv
<1> QED BY <1>1, <1>3, <1>5, <1>6 DEF ReelInv

-------------------------------------------------------------------------------
(* The steps of a request that only read the rows                            *)

LEMMA RequestRecords ==
    /\ NoRequest \in RequestType /\ NoData \in DataType
    /\ Knows("idle", NoRequest) /\ ~MayInsertAt("idle", NoRequest)
BY DEF NoRequest, NoData, RequestType, DataType, Knows, MayInsertAt

LEMMA Requests ==
    ASSUME ReelInv, NEW c \in Clients
    PROVE  /\ req[c] \in RequestType /\ pc[c] \in PCs /\ Knows(pc[c], req[c])
           /\ pc \in [Clients -> PCs] /\ req \in [Clients -> RequestType]
BY DEF ReelInv, ClientsType, AllKnow

LEMMA ReturnStep ==
    ASSUME ReelInv, WorkerInv', FilesKept, UNCHANGED rows, crashes' \in 0 .. MaxCrashes,
           NEW c \in Clients, Return(c)
    PROVE  ReelInv'
<1>1. /\ pc' = [pc EXCEPT ![c] = "idle"] /\ req' = [req EXCEPT ![c] = NoRequest]
      /\ "idle" \in PCs
  BY DEF Return, GotoWith, PCs
<1> HIDE DEF ReelInv
<1>2. PICK v : v = NoRequest OBVIOUS
<1>3. v \in RequestType /\ Knows("idle", v) /\ ~MayInsertAt("idle", v)
  BY <1>2, RequestRecords
<1> QED BY <1>1, <1>2, <1>3, QuietStep

LEMMA GotoStep ==
    ASSUME ReelInv, WorkerInv', FilesKept, UNCHANGED rows, crashes' \in 0 .. MaxCrashes,
           NEW c \in Clients, NEW p \in PCs, Goto(c, p), Knows(p, req[c]),
           MayInsertAt(p, req[c]) => MayInsertAt(pc[c], req[c])
    PROVE  ReelInv'
<1>1. PICK v \in RequestType : v = req[c] BY Requests
<1>2. pc' = [pc EXCEPT ![c] = p] /\ req' = [req EXCEPT ![c] = v]
  BY <1>1, Requests DEF Goto
<1>3. Knows(p, v) /\ (MayInsertAt(p, v) => MayInsertAt(pc[c], req[c])) BY <1>1
<1> QED BY <1>2, <1>3, QuietStep

LEMMA UpdateStep ==
    ASSUME ReelInv, WorkerInv', FilesKept, UNCHANGED rows, crashes' \in 0 .. MaxCrashes,
           NEW c \in Clients, pc[c] \in {"post", "get", "cancel"},
           NEW s \in Active \cup Terminal, Update(c, s),
           s = "completed" => file[req[c].job] # "none"
    PROVE  ReelInv'
<1>1. PICK v \in RequestType : v = [req[c] EXCEPT !.write = s]
  BY Requests DEF RequestType
<1>2. pc' = [pc EXCEPT ![c] = "read"] /\ req' = [req EXCEPT ![c] = v]
  BY <1>1 DEF Update, GotoWith
<1>3. /\ v.op = req[c].op /\ v.job = req[c].job /\ v.parent = req[c].parent
      /\ v.content = req[c].content /\ v.write = s
  BY <1>1, Requests DEF RequestType
<1>4. Knows("read", v) BY <1>3, Requests DEF Knows, Active, Terminal
<1>5. MayInsertAt("read", v) => MayInsertAt(pc[c], req[c])
  BY <1>3, Requests DEF Knows, MayInsertAt
<1> "read" \in PCs BY DEF PCs
<1> QED BY <1>2, <1>4, <1>5, QuietStep

LEMMA BeginStep ==
    ASSUME ReelInv, WorkerInv', FilesKept, UNCHANGED <<rows, crashes>>, NEW c \in Clients,
           \/ c \in Creators /\ \E x \in Contents : BeginCreate(c, x)
           \/ c \in Creators /\ \E j \in DOMAIN rows : BeginExport(c, j)
           \/ \E j \in DOMAIN rows : BeginPoll(c, j) \/ BeginCancel(c, j)
    PROVE  ReelInv'
<1> USE RequestRecords
<1>0. crashes' \in 0 .. MaxCrashes BY DEF ReelInv, ClientsType
<1>1. ASSUME c \in Creators, NEW x \in Contents, BeginCreate(c, x) PROVE ReelInv'
  <2>1. PICK v \in RequestType : v = [NoRequest EXCEPT !.op = "create", !.content = x]
    BY DEF RequestType, NoRequest
  <2>2. pc' = [pc EXCEPT ![c] = "insert"] /\ req' = [req EXCEPT ![c] = v] /\ RoomForJob
        /\ pc[c] = "idle"
    BY <1>1, <2>1 DEF BeginCreate, GotoWith, At
  <2>3. Knows("insert", v) BY <2>1 DEF Knows, NoRequest
  <2> "insert" \in PCs BY DEF PCs
  <2> QED BY <1>0, <1>1, <2>2, <2>3, QuietStep
<1>2. ASSUME c \in Creators, NEW j \in DOMAIN rows, BeginExport(c, j) PROVE ReelInv'
  <2>0. j \in Jobs /\ j # 0 /\ rows[j] \in RowType BY JobIds DEF ReelInv
  <2>1. PICK v : v = [NoRequest EXCEPT !.op = "export", !.content = rows[j].content,
                                       !.parent = j, !.job = j]
    OBVIOUS
  <2>2. v \in RequestType BY <2>0, <2>1 DEF RequestType, NoRequest, RowType
  <2>3. PICK p \in {"list", "get"} :
          /\ pc' = [pc EXCEPT ![c] = p] /\ req' = [req EXCEPT ![c] = v]
          /\ p = "list" => rows[j].status = "completed"
    BY <1>2, <2>1 DEF BeginExport, GotoWith
  <2>4. RoomForJob /\ pc[c] = "idle" /\ rows[j].mode = "preview"
    BY <1>2 DEF BeginExport, At
  <2>5. p = "list" => file[j] # "none" BY <2>3 DEF ReelInv, CompletedHasVideo
  <2>6. Knows(p, v) BY <2>1, <2>3, <2>4, <2>5 DEF Knows, NoRequest
  <2>7. p \in PCs BY <2>3 DEF PCs
  <2> QED BY <1>0, <1>2, <2>2, <2>3, <2>4, <2>6, <2>7, QuietStep
<1>3. ASSUME NEW j \in DOMAIN rows, BeginPoll(c, j) \/ BeginCancel(c, j) PROVE ReelInv'
  <2>0. j \in Jobs BY JobIds DEF ReelInv
  <2>1. PICK v, p, o :
          /\ p \in {"get", "cancel"} /\ o \in {"poll", "cancel"}
          /\ v = [NoRequest EXCEPT !.op = o, !.job = j]
          /\ pc' = [pc EXCEPT ![c] = p] /\ req' = [req EXCEPT ![c] = v]
    BY <1>3 DEF BeginPoll, BeginCancel, GotoWith
  <2>2. v \in RequestType BY <2>0, <2>1 DEF RequestType, NoRequest
  <2>3. Knows(p, v) /\ ~MayInsertAt(p, v) BY <2>1 DEF Knows, MayInsertAt, NoRequest
  <2>4. p \in PCs BY <2>1 DEF PCs
  <2> QED BY <1>0, <2>1, <2>2, <2>3, <2>4, QuietStep
<1> QED BY <1>1, <1>2, <1>3

(* Request steps that leave the rows alone.                                  *)
LEMMA ReadingStep ==
    ASSUME ReelInv, WorkerInv', FilesKept, NEW c \in Clients,
           \/ RereadPreview(c) \/ ListFinals(c) \/ GetStatus(c) \/ GetUnavailable(c)
           \/ PostRender(c) \/ DeleteRender(c) \/ UpdateRead(c) \/ Crash(c)
    PROVE  ReelInv'
<1> USE Requests
<1>0. UNCHANGED rows /\ crashes' \in 0 .. MaxCrashes
  BY ReelsAssumption
     DEF RereadPreview, ListFinals, GetStatus, GetUnavailable, PostRender, DeleteRender,
         UpdateRead, Crash, Reads, ReelInv, ClientsType
<1>1. CASE Return(c) BY <1>0, <1>1, ReturnStep
<1>2. ASSUME RereadPreview(c), ~Return(c) PROVE ReelInv'
  <2>1. /\ Goto(c, "list") /\ pc[c] = "reread"
        /\ rows[req[c].parent].status = "completed"
    BY <1>2 DEF RereadPreview, At
  <2>2. Knows("list", req[c]) /\ MayInsertAt(pc[c], req[c])
    BY <2>1 DEF Knows, MayInsertAt, ReelInv, CompletedHasVideo
  <2> "list" \in PCs BY DEF PCs
  <2> QED BY <1>0, <2>1, <2>2, GotoStep
<1>3. ASSUME ListFinals(c), ~Return(c) PROVE ReelInv'
  <2>1. Goto(c, "insert") /\ pc[c] = "list" BY <1>3 DEF ListFinals, At
  <2>2. req[c].content \in Contents
    <3>1. req[c].parent \in DOMAIN rows /\ rows[req[c].parent].content = req[c].content
      BY <2>1 DEF Knows
    <3> QED BY <3>1, JobIds DEF ReelInv, RowType
  <2>3. Knows("insert", req[c]) /\ MayInsertAt(pc[c], req[c])
    BY <2>1, <2>2 DEF Knows, MayInsertAt
  <2> "insert" \in PCs BY DEF PCs
  <2> QED BY <1>0, <2>1, <2>3, GotoStep
<1>4. ASSUME GetStatus(c) PROVE ReelInv'
  <2>1. req[c].job \in Jobs BY <1>4, JobIds DEF GetStatus, At, Knows, ReelInv
  <2>2. PICK s \in Active \cup Terminal :
          Update(c, s) /\ (s = "completed" => file[req[c].job] # "none")
    <3> DEFINE j == req[c].job
    <3>1. PICK s : s = CASE StatusOf(j) = "absent" -> "failed"
                         [] StatusOf(j) = "completed" /\ file[j] # "kept" -> "failed"
                         [] OTHER -> StatusOf(j)
      OBVIOUS
    <3>2. Update(c, s) BY <1>4, <3>1, Zenon DEF GetStatus
    <3>3. StatusOf(j) \in {"absent", "in_progress"} \cup Terminal
      BY <2>1 DEF StatusOf, ReelInv, WorkerInv, WorkerTypeOK
    <3>4. s \in Active \cup Terminal /\ (s = "completed" => file[j] # "none")
      BY <3>1, <3>3 DEF Active, Terminal
    <3> QED BY <3>2, <3>4
  <2>3. pc[c] \in {"post", "get", "cancel"} BY <1>4 DEF GetStatus, At
  <2> QED BY <1>0, <2>2, <2>3, UpdateStep
<1>5. ASSUME PostRender(c) \/ DeleteRender(c), ~Return(c) PROVE ReelInv'
  <2>1. PICK s \in {"queued", "failed", "in_progress"} : Update(c, s)
    BY <1>5 DEF PostRender, DeleteRender
  <2>2. s \in Active \cup Terminal /\ s # "completed" BY DEF Active, Terminal
  <2>3. pc[c] \in {"post", "get", "cancel"} BY <1>5 DEF PostRender, DeleteRender, At
  <2> QED BY <1>0, <2>1, <2>2, <2>3, UpdateStep
<1>6. ASSUME UpdateRead(c) PROVE ReelInv'
  <2>1. pc[c] = "read" BY <1>6 DEF UpdateRead, At
  <2>2. rows[req[c].job].data \in DataType
    BY <2>1, JobIds DEF Knows, ReelInv, RowType
  <2>3. PICK v \in RequestType : v = [req[c] EXCEPT !.data = rows[req[c].job].data]
    BY <2>2 DEF RequestType
  <2>4. pc' = [pc EXCEPT ![c] = "write"] /\ req' = [req EXCEPT ![c] = v]
    BY <1>6, <2>3 DEF UpdateRead, GotoWith
  <2>5. /\ v.op = req[c].op /\ v.job = req[c].job /\ v.parent = req[c].parent
        /\ v.content = req[c].content /\ v.write = req[c].write
    BY <2>3 DEF RequestType
  <2>6. Knows("write", v) /\ (MayInsertAt("write", v) => MayInsertAt(pc[c], req[c]))
    BY <2>1, <2>5 DEF Knows, MayInsertAt
  <2> "write" \in PCs BY DEF PCs
  <2> QED BY <1>0, <2>4, <2>6, QuietStep
<1> QED BY <1>1, <1>2, <1>3, <1>4, <1>5, <1>6 DEF GetUnavailable, Crash

-------------------------------------------------------------------------------
(* The steps that write rows                                                 *)

LEMMA OneMore ==
    ASSUME NEW S, NEW q \in Seq(S), NEW v \in S
    PROVE  /\ Append(q, v) \in Seq(S) /\ Len(Append(q, v)) = Len(q) + 1
           /\ DOMAIN Append(q, v) = DOMAIN q \cup {Len(q) + 1}
           /\ Append(q, v)[Len(q) + 1] = v /\ \A j \in DOMAIN q : Append(q, v)[j] = q[j]
OBVIOUS

LEMMA OneChanged ==
    ASSUME NEW S, NEW q \in Seq(S), NEW j \in DOMAIN q, NEW v \in S
    PROVE  /\ [q EXCEPT ![j] = v] \in Seq(S) /\ Len([q EXCEPT ![j] = v]) = Len(q)
           /\ DOMAIN [q EXCEPT ![j] = v] = DOMAIN q
           /\ \A k \in DOMAIN q : [q EXCEPT ![j] = v][k] = IF k = j THEN v ELSE q[k]
OBVIOUS

LEMMA InsertStep ==
    ASSUME ReelInv, WorkerInv', UNCHANGED <<file, crashes>>, NEW c \in Creators, InsertJob(c)
    PROVE  ReelInv'
<1> c \in Clients BY DEF Clients
<1> DEFINE q == req[c]
           n == Len(rows) + 1
           mode == IF q.op = "create" THEN "preview" ELSE "final"
<1>0. /\ pc[c] = "insert" /\ q \in RequestType /\ q.op \in {"create", "export"}
      /\ q.content \in Contents /\ Knows("insert", q)
  BY Requests DEF InsertJob, At, Knows
<1>1. PICK r : r = [mode |-> mode, content |-> q.content, parent |-> q.parent,
                    status |-> "queued", data |-> NoData]
  OBVIOUS
<1>2. r \in RowType BY <1>0, <1>1, RequestRecords DEF RowType, RequestType, Active
<1>3. rows' = Append(rows, r) BY <1>1 DEF InsertJob
<1>4. PICK v : v = [q EXCEPT !.job = n] OBVIOUS
<1>5. pc' = [pc EXCEPT ![c] = "post"] /\ req' = [req EXCEPT ![c] = v]
  BY <1>4 DEF InsertJob, GotoWith
<1>6. /\ rows' \in Seq(RowType) /\ Len(rows') = n /\ DOMAIN rows' = DOMAIN rows \cup {n}
      /\ rows'[n] = r /\ \A j \in DOMAIN rows : rows'[j] = rows[j]
  BY <1>2, <1>3, OneMore DEF ReelInv, RowsType
<1>7. DOMAIN rows = 1 .. Len(rows) /\ n \notin DOMAIN rows /\ DOMAIN rows \subseteq Jobs
      /\ Len(rows) \in Nat
  BY JobIds DEF ReelInv
<1>8. c \in Inserting BY <1>0 DEF Inserting, MayInsertAt
<1>9. /\ v.op = q.op /\ v.job = n /\ v.parent = q.parent /\ v.content = q.content
  BY <1>0, <1>4 DEF RequestType
<1>10. q.op = "export" => q.parent \in DOMAIN rows /\ q.parent # n
  BY <1>0, <1>7 DEF Knows
<1>11. Inserting' \subseteq Inserting \ {c}
  <2>1. /\ \A d \in Clients : pc'[d] = IF d = c THEN "post" ELSE pc[d]
        /\ \A d \in Clients : req'[d] = IF d = c THEN v ELSE req[d]
    BY <1>5, Requests
  <2> QED BY <2>1 DEF Inserting, MayInsertAt, Clients
<1>12. RoomKept' /\ n <= Cardinality(Jobs)
  <2> HIDE DEF n
  <2>1. Len(rows') = Len(rows) + 1 BY <1>6 DEF n
  <2> QED BY <1>8, <1>11, <2>1, RoomUsed DEF ReelInv, n
<1>13. n \in Jobs /\ Len(rows') <= Cardinality(Jobs)
  BY <1>6, <1>7, <1>12, Finite, ReelsAssumption
<1>14. v \in RequestType BY <1>0, <1>4, <1>13 DEF RequestType
<1>15. RowsKept /\ FilesKept BY <1>6 DEF RowsKept, FilesKept
<1>16. Knows("post", v)'
  <2> HIDE DEF n, q
  <2>1. v.job \in DOMAIN rows' BY <1>6, <1>9
  <2>2. v.op = "export" => /\ v.parent \in DOMAIN rows' /\ v.parent # v.job
                           /\ rows'[v.parent].mode = "preview"
                           /\ rows'[v.parent].content = v.content
    BY <1>0, <1>6, <1>9, <1>10 DEF Knows
  <2> QED BY <2>1, <2>2 DEF Knows
<1>17. ClientsType' /\ AllKnow'
  <2>1. "post" \in PCs /\ crashes' \in 0 .. MaxCrashes BY DEF PCs, ReelInv, ClientsType
  <2> QED BY <1>5, <1>14, <1>15, <1>16, <2>1, ClientMoves
<1>18. r.status = "queued" /\ r.mode = mode /\ r.parent = q.parent /\ r.content = q.content
  BY <1>1
<1>19. CompletedHasVideo'
  <2> HIDE DEF n, q, mode
  <2> QED BY <1>6, <1>18 DEF CompletedHasVideo, ReelInv
<1>20. ParentsExist'
  <2>1. mode = "final" => q.parent \in DOMAIN rows BY <1>0, <1>10
  <2> HIDE DEF n, q, mode
  <2> QED BY <1>6, <1>18, <2>1 DEF ParentsExist, ReelInv
<1>21. ExportWasRendered'
  <2>1. mode = "final" => /\ q.parent \in DOMAIN rows /\ q.parent # 0 /\ file[q.parent] # "none"
                          /\ rows[q.parent].mode = "preview"
                          /\ rows[q.parent].content = q.content
    BY <1>0, <1>7, <1>10 DEF Knows
  <2> HIDE DEF n, q, mode
  <2>2. ASSUME NEW j \in DOMAIN rows', rows'[j].mode = "final"
        PROVE  /\ rows'[j].parent # 0 /\ rows'[rows'[j].parent].mode = "preview"
               /\ rows'[rows'[j].parent].content = rows'[j].content
               /\ file'[rows'[j].parent] # "none"
    <3>1. CASE j = n BY <1>6, <1>18, <2>1, <2>2, <3>1
    <3>2. CASE j \in DOMAIN rows
      <4>1. rows[j].parent \in DOMAIN rows BY <1>6, <2>2, <3>2 DEF ReelInv, ParentsExist
      <4> QED BY <1>6, <2>2, <3>2, <4>1 DEF ReelInv, ExportWasRendered
    <3> QED BY <1>6, <3>1, <3>2
  <2> QED BY <2>2 DEF ExportWasRendered
<1>22. OnlyCreatorsInsert'
  <2>1. /\ \A d \in Clients : pc'[d] = IF d = c THEN "post" ELSE pc[d]
        /\ \A d \in Clients : req'[d] = IF d = c THEN v ELSE req[d]
    BY <1>5, Requests
  <2> HIDE DEF n, q, mode
  <2> QED BY <2>1 DEF OnlyCreatorsInsert, MayInsertAt, ReelInv
<1> QED BY <1>6, <1>12, <1>13, <1>17, <1>19, <1>20, <1>21, <1>22 DEF ReelInv, RowsType

LEMMA WriteStep ==
    ASSUME ReelInv, WorkerInv', UNCHANGED <<file, crashes>>, NEW c \in Clients, UpdateWrite(c)
    PROVE  ReelInv'
<1> DEFINE j == req[c].job
<1>0. /\ pc[c] = "write" /\ req[c] \in RequestType /\ Knows("write", req[c])
      /\ j \in DOMAIN rows
  BY Requests DEF UpdateWrite, At, Knows
<1>1. rows[j] \in RowType /\ DOMAIN rows \subseteq Jobs BY <1>0, JobIds DEF ReelInv
<1>2. PICK d \in DataType : d = Merged(c) BY <1>0 DEF Merged, RequestType, DataType
<1>3. d.path = (req[c].data.path \/ req[c].write = "completed")
  BY <1>2 DEF Merged
<1>4. req[c].write \in Active \cup Terminal BY <1>0 DEF Knows, RequestType
<1>5. PICK r : r = [rows[j] EXCEPT !.status = req[c].write, !.data = d] OBVIOUS
<1>6. /\ r \in RowType /\ r.status = req[c].write /\ r.data = d /\ r.mode = rows[j].mode
      /\ r.content = rows[j].content /\ r.parent = rows[j].parent
  BY <1>1, <1>4, <1>5 DEF RowType
<1>7. rows' = [rows EXCEPT ![j] = r] BY <1>2, <1>5 DEF UpdateWrite
<1>8. /\ rows' \in Seq(RowType) /\ Len(rows') = Len(rows) /\ DOMAIN rows' = DOMAIN rows
      /\ \A k \in DOMAIN rows : rows'[k] = IF k = j THEN r ELSE rows[k]
  BY <1>0, <1>6, <1>7, OneChanged DEF ReelInv, RowsType
<1>9. PICK v, p :
        /\ p \in {"idle", "reread"}
        /\ pc' = [pc EXCEPT ![c] = p] /\ req' = [req EXCEPT ![c] = v]
        /\ \/ p = "idle" /\ v = NoRequest
           \/ p = "reread" /\ v = req[c] /\ req[c].op = "export" /\ req[c].job = req[c].parent
  BY Requests DEF UpdateWrite, Goto, Return, GotoWith
<1>10. v \in RequestType /\ p \in PCs BY <1>0, <1>9, RequestRecords DEF PCs
<1>11. Knows(p, v) BY <1>0, <1>9, RequestRecords DEF Knows
<1>12. MayInsertAt(p, v) => MayInsertAt(pc[c], req[c]) BY <1>0, <1>9 DEF MayInsertAt
<1> HIDE DEF j
<1>13. RowsKept /\ FilesKept BY <1>6, <1>8 DEF RowsKept, FilesKept
<1>14. Knows(p, v)' BY <1>11, <1>13, KnowsStays DEF ReelInv
<1>15. /\ ClientsType' /\ AllKnow'
       /\ \A e \in Clients : pc'[e] = IF e = c THEN p ELSE pc[e]
       /\ \A e \in Clients : req'[e] = IF e = c THEN v ELSE req[e]
  <2>1. crashes' \in 0 .. MaxCrashes BY DEF ReelInv, ClientsType
  <2> QED BY <1>9, <1>10, <1>13, <1>14, <2>1, ClientMoves
<1>16. RoomKept'
  <2>1. Inserting' \subseteq Inserting BY <1>12, <1>15 DEF Inserting, MayInsertAt, Clients
  <2> QED BY <1>8, <2>1, RoomStays DEF ReelInv
<1>17. CompletedHasVideo'
  <2>1. r.status = "completed" => r.data.path /\ file[j] # "none"
    BY <1>0, <1>3, <1>6 DEF Knows, j
  <2> QED BY <1>8, <2>1 DEF CompletedHasVideo, ReelInv
<1>18. ParentsExist' BY <1>6, <1>8 DEF ParentsExist, ReelInv
<1>19. ExportWasRendered'
  <2>1. ASSUME NEW k \in DOMAIN rows', rows'[k].mode = "final"
        PROVE  /\ rows'[k].parent # 0 /\ rows'[rows'[k].parent].mode = "preview"
               /\ rows'[rows'[k].parent].content = rows'[k].content
               /\ file'[rows'[k].parent] # "none"
    <3>1. /\ k \in DOMAIN rows /\ rows[k].mode = "final" /\ rows'[k].parent = rows[k].parent
          /\ rows'[k].content = rows[k].content
      BY <1>6, <1>8, <2>1
    <3>2. rows[k].parent \in DOMAIN rows BY <3>1 DEF ReelInv, ParentsExist
    <3>3. /\ rows'[rows[k].parent].mode = rows[rows[k].parent].mode
          /\ rows'[rows[k].parent].content = rows[rows[k].parent].content
      BY <1>6, <1>8, <3>2
    <3> QED BY <3>1, <3>3 DEF ReelInv, ExportWasRendered
  <2> QED BY <2>1 DEF ExportWasRendered
<1>20. OnlyCreatorsInsert'
  BY <1>12, <1>15 DEF OnlyCreatorsInsert, MayInsertAt, ReelInv
<1> QED BY <1>8, <1>15, <1>16, <1>17, <1>18, <1>19, <1>20 DEF ReelInv, RowsType

-------------------------------------------------------------------------------
(* The step, and the theorems                                                *)

(* Whatever the clients do, the worker takes a step of its own.              *)
LEMMA StepOfWorker ==
    ASSUME ReelInv, [Next]_vars
    PROVE  [WorkerNext]_workerVars
<1>1. CASE \E c \in Creators, x \in Contents : BeginCreate(c, x)
  BY <1>1 DEF BeginCreate, Reads
<1>2. CASE \E c \in Creators, j \in DOMAIN rows : BeginExport(c, j)
  BY <1>2 DEF BeginExport, Reads
<1>3. CASE \E c \in Watchers, j \in DOMAIN rows : BeginPoll(c, j) \/ BeginCancel(c, j)
  BY <1>3 DEF BeginPoll, BeginCancel, Reads
<1>4. ASSUME NEW c \in Clients, RequestStep(c) \/ Crash(c)
      PROVE  [WorkerNext]_workerVars
  <2>1. CASE PostRender(c) \/ DeleteRender(c)
    <3>1. req[c].job \in Jobs
      BY <2>1, Requests, JobIds DEF PostRender, DeleteRender, At, Knows, ReelInv
    <3> QED BY <2>1, <3>1 DEF PostRender, DeleteRender, WorkerNext
  <2>2. CASE ~(PostRender(c) \/ DeleteRender(c))
    BY <1>4, <2>2
       DEF RequestStep, RereadPreview, ListFinals, InsertJob, GetStatus, GetUnavailable,
           UpdateRead, UpdateWrite, Crash, Reads
  <2> QED BY <2>1, <2>2
<1>5. CASE WorkerStep \/ \E j \in Jobs : CleanupExpired(j)
  BY <1>5 DEF WorkerNext
<1>6. CASE UNCHANGED vars BY <1>6 DEF vars
<1> QED BY <1>1, <1>2, <1>3, <1>4, <1>5, <1>6 DEF Next

LEMMA InvStep == ReelInv /\ [Next]_vars => ReelInv'
<1> SUFFICES ASSUME ReelInv, [Next]_vars PROVE ReelInv'
  OBVIOUS
<1>0. WorkerInv' /\ FilesKept
  <2>1. WorkerInv /\ [WorkerNext]_workerVars BY StepOfWorker DEF ReelInv
  <2> QED BY <2>1, NextInv, WorkerKeepsFiles
<1>1. ASSUME NEW c \in Clients,
             \/ c \in Creators /\ \E x \in Contents : BeginCreate(c, x)
             \/ c \in Creators /\ \E j \in DOMAIN rows : BeginExport(c, j)
             \/ \E j \in DOMAIN rows : BeginPoll(c, j) \/ BeginCancel(c, j)
      PROVE  ReelInv'
  <2>1. UNCHANGED <<rows, crashes>>
    BY <1>1 DEF BeginCreate, BeginExport, BeginPoll, BeginCancel, Reads
  <2> HIDE DEF ReelInv
  <2> QED BY <1>0, <1>1, <2>1, BeginStep
<1>2. ASSUME NEW c \in Clients, RequestStep(c) \/ Crash(c) PROVE ReelInv'
  <2>1. CASE InsertJob(c)
    <3>1. Knows("insert", req[c]) /\ pc[c] = "insert" BY <2>1, Requests DEF InsertJob, At
    <3>2. c \in Creators BY <3>1 DEF ReelInv, OnlyCreatorsInsert, MayInsertAt
    <3>3. UNCHANGED <<file, crashes>> BY <2>1 DEF InsertJob, workerVars
    <3> QED BY <1>0, <2>1, <3>2, <3>3, InsertStep
  <2>2. CASE UpdateWrite(c)
    <3>1. UNCHANGED <<file, crashes>> BY <2>2 DEF UpdateWrite, workerVars
    <3> QED BY <1>0, <2>2, <3>1, WriteStep
  <2> QED BY <1>0, <1>2, <2>1, <2>2, ReadingStep DEF RequestStep
<1>3. CASE UNCHANGED <<pc, req, rows, crashes>>
  <2>1. RowsKept /\ RowsType' /\ CompletedHasVideo' /\ ExportWasRendered' /\ ParentsExist'
    BY <1>0, <1>3, RowsStay
  <2>2. ClientsType' BY <1>3 DEF ReelInv, ClientsType
  <2>3. RoomKept' /\ OnlyCreatorsInsert'
    BY <1>3 DEF ReelInv, RoomKept, OnlyCreatorsInsert, Inserting, MayInsertAt
  <2>4. AllKnow'
    <3>1. ASSUME NEW c \in Clients PROVE Knows(pc[c], req[c])'
      <4>1. PICK a, b : a = pc[c] /\ b = req[c] OBVIOUS
      <4>2. Knows(a, b) BY <4>1, Requests
      <4>3. Knows(a, b)' BY <1>0, <2>1, <4>2, KnowsStays DEF ReelInv
      <4> QED BY <1>3, <4>1, <4>3 DEF Knows
    <3> QED BY <3>1 DEF AllKnow
  <2> QED BY <1>0, <2>1, <2>2, <2>3, <2>4 DEF ReelInv
<1>4. CASE UNCHANGED vars BY <1>3, <1>4 DEF vars
<1> QED BY <1>1, <1>2, <1>3, <1>4 DEF Next, Clients

LEMMA InvHolds == Spec => []ReelInv
BY Start, InvStep, PTL DEF Spec

(* Every reachable state has the stated types: a request that was let in     *)
(* finds a job id, a row that is written exists, and a status that is        *)
(* written is one of the table's (InsertJob, JobStore.update).               *)
THEOREM TypeCorrect == Spec => []TypeOK
BY TypeOfInv, InvHolds, PTL

(* A row shown as completed was rendered and says where its video is,        *)
(* whatever late polls, cancellations and crashes do to it.                  *)
THEOREM CompletedHasVideoHolds == Spec => []CompletedHasVideo
<1>1. ReelInv => CompletedHasVideo BY DEF ReelInv
<1> QED BY <1>1, InvHolds, PTL

(* A final rests on a preview of its content that was rendered, although the *)
(* preview's row may have changed between the look and the insertion.        *)
THEOREM ExportWasRenderedHolds == Spec => []ExportWasRendered
<1>1. ReelInv => ExportWasRendered BY DEF ReelInv
<1> QED BY <1>1, InvHolds, PTL

(* The reel renders are clients of RenderWorker: they create and cancel only *)
(* jobs of theirs (remotion_render_client.py), so every step of the two is a *)
(* step of the worker or leaves it alone.                                    *)
THEOREM ReelsUseWorker == Spec => WorkerSpec
<1>1. Init => WorkerInit BY DEF Init
<1>2. ReelInv /\ [Next]_vars => [WorkerNext]_workerVars BY StepOfWorker
<1> QED BY <1>1, <1>2, InvHolds, PTL DEF Spec, WorkerSpec

(* The composition keeps RenderPromise: however reels are created, exported  *)
(* and cancelled, a job ends once, and not delivered when it was cancelled   *)
(* in time (executeRender, cancel_reel_render_job).                          *)
THEOREM ReelsKeepPromise == Spec => KeepsPromise
BY ReelsUseWorker, WorkerKeepsPromise
===============================================================================
