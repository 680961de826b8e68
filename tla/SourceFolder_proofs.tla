-------------------------- MODULE SourceFolder_proofs --------------------------
(* Theorems of SourceFolder and their proofs, for any numbers of actors,     *)
(* sources and keys, and any bounds.                                         *)
EXTENDS SourceFolder, TLAPS

-------------------------------------------------------------------------------
(* Types                                                                     *)

(* An editor's request names a source, and says what to do with it.          *)
Asked == \A e \in Editors : pc[e] # "idle" =>
    /\ request[e].source \in Sources
    /\ request[e].op \in {"add", "remove", "retry"}

(* A generator that has found or inserted a handoff knows its id.            *)
FoundPC == {"pending", "reread", "dispatch", "complete", "complete_folder", "fail",
            "fail_folder"}
Found == \A g \in Generators : pc[g] \in FoundPC => call[g].id \in Generators

TypeInv == TypeOK /\ Asked /\ Found

(* Every program counter, by name. *)
LEMMA StepNames ==
    PCs = {"idle", "done", "assert", "replay", "limits", "duplicate", "insert", "check", "write",
           "bump", "session", "finish", "confirm", "list", "mark", "lookup", "collect", "pending",
           "reread", "dispatch", "complete", "complete_folder", "fail", "fail_folder"}
BY DEF PCs, EditorPC, CallerPC

(* A step that leaves variables alone leaves their types alone. *)
LEMMA FrameType ==
    ASSUME TypeOK
    PROVE  /\ UNCHANGED folderVars => FolderType'
           /\ UNCHANGED sourceVars => RowType'
           /\ UNCHANGED jobVars => JobType'
           /\ UNCHANGED history /\ UNCHANGED crashes => HistoryType'
BY DEF TypeOK, FolderType, RowType, JobType, HistoryType, folderVars, sourceVars, jobVars,
       history

(* What an editor or a caller does when it moves on, answers or stops. *)
LEMMA GotoType ==
    ASSUME TypeInv, NEW a \in Actors, NEW p \in PCs, Goto(a, p)
    PROVE  /\ pc' \in [Actors -> PCs]
           /\ pc'[a] = p
           /\ \A b \in Actors : b # a => pc'[b] = pc[b]
BY DEF TypeInv, TypeOK, ActorType, Goto

(* The requests of editors keep their type. *)
RequestType == request \in [Editors -> [op : {"none", "add", "remove", "retry"},
    source : Sources \cup {None}, rev : Nat, wasReady : BOOLEAN, row : SourceRow]]
CallType == call \in [Callers -> [rev : Nat, key : Keys \cup {None}, listed : SUBSET Sources,
    id : Generators \cup {None}]]

LEMMA NoneTyped == NoSource \in SourceRow
                   /\ NoRequest \in [op : {"none", "add", "remove", "retry"},
                        source : Sources \cup {None}, rev : Nat, wasReady : BOOLEAN,
                        row : SourceRow]
BY DEF NoSource, NoRequest, SourceRow, Statuses

LEMMA ReturnType ==
    ASSUME TypeInv, NEW e \in Editors, Return(e), UNCHANGED call
    PROVE  ActorType' /\ Asked' /\ Found'
<1> e \in Actors /\ "idle" \in PCs BY StepNames DEF Actors
<1>1. Goto(e, "idle") BY DEF Return
<1>2. /\ pc' \in [Actors -> PCs] /\ pc'[e] = "idle"
      /\ \A b \in Actors : b # e => pc'[b] = pc[b]
  BY <1>1, GotoType
<1>3. RequestType' BY NoneTyped DEF RequestType, TypeInv, TypeOK, ActorType, Return
<1>4. Asked' BY <1>2 DEF Asked, TypeInv, TypeOK, ActorType, Return, Actors
<1>5. Found' BY <1>2, ActorsAreDistinct DEF Found, TypeInv, Actors, Callers
<1> QED BY <1>2, <1>3, <1>4, <1>5 DEF ActorType, RequestType, TypeInv, TypeOK

(* An editor that moves on without changing its request. *)
LEMMA EditorGotoType ==
    ASSUME TypeInv, NEW e \in Editors, pc[e] # "idle", NEW p \in PCs, Goto(e, p),
           UNCHANGED <<request, call>>
    PROVE  ActorType' /\ Asked' /\ Found'
<1> e \in Actors BY DEF Actors
<1>1. /\ pc' \in [Actors -> PCs] /\ pc'[e] = p
      /\ \A b \in Actors : b # e => pc'[b] = pc[b]
  BY GotoType
<1>2. Asked' BY <1>1 DEF Asked, TypeInv, Actors
<1>3. Found' BY <1>1, ActorsAreDistinct DEF Found, TypeInv, Actors, Callers
<1> QED BY <1>1, <1>2, <1>3 DEF ActorType, TypeInv, TypeOK

(* A confirmer or generator that moves on. *)
LEMMA CallerGotoType ==
    ASSUME TypeInv, NEW a \in Callers, NEW p \in PCs, Goto(a, p), UNCHANGED request,
           CallType', a \in Generators /\ p \in FoundPC => call'[a].id \in Generators,
           \A b \in Callers : b # a => call'[b] = call[b]
    PROVE  ActorType' /\ Asked' /\ Found'
<1> a \in Actors BY DEF Actors
<1>1. /\ pc' \in [Actors -> PCs] /\ pc'[a] = p
      /\ \A b \in Actors : b # a => pc'[b] = pc[b]
  BY GotoType
<1>2. Asked' BY <1>1, ActorsAreDistinct DEF Asked, TypeInv, Actors, Callers
<1>3. Found' BY <1>1 DEF Found, TypeInv, Actors, Callers
<1> QED BY <1>1, <1>2, <1>3 DEF ActorType, CallType, TypeInv, TypeOK

LEMMA EditType ==
    ASSUME TypeInv, NEW e \in Editors, Edit(e)
    PROVE  TypeInv'
<1> e \in Actors BY DEF Actors
<1> TypeOK BY DEF TypeInv
<1> USE FrameType
<1>1. CASE Begin(e)
  <2>1. /\ pc' \in [Actors -> PCs] /\ pc'[e] = "assert"
        /\ \A b \in Actors : b # e => pc'[b] = pc[b]
    BY <1>1, GotoType, StepNames DEF Begin, Move
  <2>2. NewRows \subseteq SourceRow BY DEF NewRows, Row, SourceRow, Statuses, Active
  <2>3. SentRevisions \subseteq Nat BY DEF SentRevisions, TypeInv, TypeOK, FolderType
  <2>4. PICK s \in Sources, row \in SourceRow, op \in {"add", "remove", "retry"} :
          Ask(e, op, s, row)
    BY <1>1, <2>2, NoneTyped DEF Begin
  <2>5. PICK r \in SentRevisions : request' = [request EXCEPT ![e] =
          [op |-> op, source |-> s, rev |-> r, wasReady |-> FALSE, row |-> row]]
    BY <2>4 DEF Ask
  <2>6. RequestType' BY <2>3, <2>5 DEF RequestType, TypeInv, TypeOK, ActorType
  <2>7. Asked' BY <2>1, <2>5 DEF Asked, TypeInv, TypeOK, ActorType, Actors
  <2>8. Found' BY <1>1, <2>1, ActorsAreDistinct DEF Begin, Found, TypeInv, Actors, Callers
  <2>9. ActorType' BY <1>1, <2>1, <2>6 DEF Begin, ActorType, RequestType, TypeOK
  <2> QED BY <1>1, <2>7, <2>8, <2>9 DEF Begin, TypeInv, TypeOK
<1>2. CASE AssertRevision(e)
  <2>1. CASE AssertStale(e)
    BY <1>2, <2>1, ReturnType DEF AssertRevision, AssertStale, TypeInv, TypeOK
  <2>2. CASE AssertFresh(e)
    <3>1. /\ pc' \in [Actors -> PCs] /\ pc'[e] # "idle"
          /\ \A b \in Actors : b # e => pc'[b] = pc[b]
      BY <2>2, GotoType, StepNames DEF AssertFresh
    <3>2. RequestType' BY <2>2 DEF AssertFresh, RequestType, TypeInv, TypeOK, ActorType
    <3>3. Asked' BY <1>2, <2>2, <3>1
      DEF AssertRevision, AssertFresh, At, Asked, TypeInv, TypeOK, ActorType, Actors
    <3>4. Found' BY <1>2, <3>1, ActorsAreDistinct
      DEF AssertRevision, Found, TypeInv, Actors, Callers
    <3> QED BY <1>2, <3>1, <3>2, <3>3, <3>4
      DEF AssertRevision, ActorType, RequestType, TypeInv, TypeOK
  <2> QED BY <1>2, <2>1, <2>2 DEF AssertRevision
<1>3. CASE AddFindReplay(e)
  <2>1. ActorType' /\ Asked' /\ Found'
    BY <1>3, ReturnType, EditorGotoType, StepNames DEF AddFindReplay, At
  <2> QED BY <1>3, <2>1 DEF AddFindReplay, TypeInv, TypeOK
<1>4. CASE AddLimits(e)
  <2>1. ActorType' /\ Asked' /\ Found'
    BY <1>4, ReturnType, EditorGotoType, StepNames DEF AddLimits, At
  <2> QED BY <1>4, <2>1 DEF AddLimits, TypeInv, TypeOK
<1>5. CASE AddFindDuplicate(e)
  <2>1. ActorType' /\ Asked' /\ Found'
    BY <1>5, ReturnType, EditorGotoType, StepNames DEF AddFindDuplicate, At
  <2> QED BY <1>5, <2>1 DEF AddFindDuplicate, TypeInv, TypeOK
<1>6. CASE AddInsert(e)
  <2>1. ActorType' /\ Asked' /\ Found'
    BY <1>6, ReturnType, EditorGotoType, StepNames DEF AddInsert, At
  <2>2. RowType' BY <1>6 DEF AddInsert, RowType, TypeOK, ActorType
  <2> QED BY <1>6, <2>1, <2>2 DEF AddInsert, TypeInv, TypeOK
<1>7. CASE EditCheck(e)
  <2>1. ActorType' /\ Asked' /\ Found'
    BY <1>7, ReturnType, EditorGotoType, StepNames DEF EditCheck, At
  <2> QED BY <1>7, <2>1 DEF EditCheck, TypeInv, TypeOK
<1>8. CASE EditWrite(e)
  <2>1. ActorType' /\ Asked' /\ Found'
    BY <1>8, EditorGotoType, StepNames DEF EditWrite, Move, At
  <2>2. RowType' BY <1>8 DEF EditWrite, SetStatus, RowType, SourceRow, Statuses, TypeOK
  <2> QED BY <1>8, <2>1, <2>2 DEF EditWrite, TypeInv, TypeOK
<1>9. CASE EditBump(e)
  <2> pc[e] = "bump" /\ UNCHANGED <<call, sourceVars, jobVars, crashes>>
    BY <1>9 DEF EditBump, At
  <2>1. CASE Return(e) /\ UNCHANGED <<folderVars, history>>
    BY <2>1, ReturnType DEF TypeInv, TypeOK
  <2>2. CASE /\ Increment(e) /\ Goto(e, AfterBump(e))
             /\ request' = IF AfterBump(e) = "idle" THEN [request EXCEPT ![e] = NoRequest]
                           ELSE request
    <3>1. ActorType' /\ Asked' /\ Found'
      <4>1. CASE AfterBump(e) = "idle" BY <2>2, <4>1, ReturnType DEF Return
      <4>2. CASE AfterBump(e) # "idle"
        BY <2>2, <4>2, EditorGotoType, StepNames DEF AfterBump
      <4> QED BY <4>1, <4>2
    <3>2. FolderType' BY <2>2 DEF Increment, FolderType, TypeOK
    <3>3. HistoryType'
      <4>1. [op |-> request[e].op, source |-> request[e].source, rev |-> request[e].rev]
              \in [op : {"add", "remove", "retry"}, source : Sources, rev : Nat]
        BY DEF Asked, TypeInv, TypeOK, ActorType
      <4> QED BY <2>2, <4>1 DEF Increment, HistoryType, TypeOK
    <3> QED BY <3>1, <3>2, <3>3 DEF TypeInv, TypeOK
  <2> QED BY <1>9, <2>1, <2>2 DEF EditBump
<1>10. CASE OpenSession(e)
  <2>1. ActorType' /\ Asked' /\ Found' BY <1>10, ReturnType DEF OpenSession
  <2>2. RowType' BY <1>10 DEF OpenSession, SetStatus, RowType, SourceRow, Statuses, TypeOK
  <2> QED BY <1>10, <2>1, <2>2 DEF OpenSession, TypeInv, TypeOK
<1>11. CASE RetryFinish(e)
  <2>1. ActorType' /\ Asked' /\ Found' BY <1>11, ReturnType DEF RetryFinish
  <2>2. PICK st \in {"ready", "metadata_unavailable", "failed"} :
          SetStatus(request[e].source, st)
    BY <1>11 DEF RetryFinish
  <2>3. RowType' BY <1>11, <2>2 DEF RetryFinish, SetStatus, RowType, SourceRow, Statuses, TypeOK
  <2> QED BY <1>11, <2>1, <2>3 DEF RetryFinish, TypeInv, TypeOK
<1> QED BY <1>1, <1>2, <1>3, <1>4, <1>5, <1>6, <1>7, <1>8, <1>9, <1>10, <1>11 DEF Edit

LEMMA UploadType ==
    ASSUME TypeInv, NEW s \in Sources, Upload(s)
    PROVE  TypeInv'
<1> TypeOK BY DEF TypeInv
<1> USE FrameType
<1>1. ASSUME NEW from, NEW to \in {"processing", "published", "closed"}, NEW st \in Statuses,
             UploadStep(s, from, to, st)
      PROVE  TypeInv'
  <2>1. RowType' BY <1>1 DEF UploadStep, SetStatus, RowType, SourceRow, TypeOK
  <2> QED BY <1>1, <2>1 DEF UploadStep, ActorType, Asked, Found, TypeInv, TypeOK
<1>2. CASE UploadClaim(s) BY <1>1, <1>2 DEF UploadClaim, Statuses
<1>3. CASE UploadClose(s) BY <1>1, <1>3 DEF UploadClose, Statuses
<1>4. CASE UploadFail(s) BY <1>1, <1>4 DEF UploadFail, Statuses
<1>5. CASE UploadPublish(s) BY <1>1, <1>5 DEF UploadPublish, Statuses
<1>6. CASE UploadSupersede(s)
  <2>1. RowType' BY <1>6 DEF UploadSupersede, SetStatus, RowType, SourceRow, Statuses, TypeOK
  <2> QED BY <1>6, <2>1 DEF UploadSupersede, ActorType, Asked, Found, TypeInv, TypeOK
<1> QED BY <1>2, <1>3, <1>4, <1>5, <1>6 DEF Upload

LEMMA CallerType ==
    ASSUME TypeInv, NEW a \in Callers, (a \in Generators /\ Generate(a)) \/ Confirm(a)
    PROVE  TypeInv'
<1> a \in Actors BY DEF Actors
<1> TypeOK BY DEF TypeInv
<1> USE FrameType
<1>0. ASSUME NEW p \in PCs, Goto(a, p), UNCHANGED <<request, call>>,
             a \in Generators /\ p \in FoundPC => call[a].id \in Generators
      PROVE  ActorType' /\ Asked' /\ Found'
  BY <1>0, CallerGotoType DEF CallType, TypeOK, ActorType
<1>1. CASE Send(a)
  <2>1. CallType' BY <1>1
    DEF Send, SentRevisions, CallType, TypeOK, ActorType, FolderType, Callers
  <2>2. \A b \in Callers : b # a => call'[b] = call[b] BY <1>1 DEF Send, TypeOK, ActorType
  <2>3. ActorType' /\ Asked' /\ Found'
    BY <1>1, <2>1, <2>2, CallerGotoType, StepNames DEF Send, Move, FoundPC
  <2> QED BY <1>1, <2>3 DEF Send, TypeInv, TypeOK
<1>2. CASE CallAssert(a)
  <2>1. ActorType' /\ Asked' /\ Found'
    BY <1>0, <1>2, StepNames DEF CallAssert, Fail, FoundPC
  <2> QED BY <1>2, <2>1 DEF CallAssert, TypeInv, TypeOK
<1>3. CASE MarkList(a)
  <2>1. CASE Fail(a)
    BY <1>0, <1>3, <2>1, StepNames DEF MarkList, Fail, FoundPC, TypeInv, TypeOK
  <2>2. CASE Goto(a, "mark") /\ call' = [call EXCEPT ![a].listed = Active]
    <3>1. CallType' BY <2>2 DEF CallType, TypeOK, ActorType, Active
    <3>2. \A b \in Callers : b # a => call'[b] = call[b] BY <2>2 DEF TypeOK, ActorType
    <3>3. ActorType' /\ Asked' /\ Found'
      BY <1>3, <2>2, <3>1, <3>2, CallerGotoType, StepNames DEF MarkList, FoundPC
    <3> QED BY <1>3, <3>3 DEF MarkList, TypeInv, TypeOK
  <2> QED BY <1>3, <2>1, <2>2 DEF MarkList
<1>4. CASE Mark(a)
  <2>1. ActorType' /\ Asked' /\ Found' BY <1>0, <1>4, StepNames DEF Mark, Fail, FoundPC
  <2>2. CASE MarkReady(a)
    <3>1. FolderType' BY <2>2 DEF MarkReady, FolderType, TypeOK, ActorType
    <3>2. HistoryType' BY <1>4, <2>2 DEF Mark, MarkReady, HistoryType, TypeOK, ActorType
    <3> QED BY <1>4, <2>1, <3>1, <3>2 DEF Mark, TypeInv, TypeOK
  <2>3. CASE UNCHANGED <<folderVars, history>> BY <1>4, <2>1, <2>3 DEF Mark, TypeInv, TypeOK
  <2> QED BY <1>4, <2>2, <2>3 DEF Mark
<1>5. CASE a \in Generators /\ ConfirmAssert(a)
  <2>1. ActorType' /\ Asked' /\ Found'
    BY <1>0, <1>5, StepNames DEF ConfirmAssert, Fail, FoundPC
  <2> QED BY <1>5, <2>1 DEF ConfirmAssert, TypeInv, TypeOK
<1>6. CASE a \in Generators /\ Lookup(a)
  <2>1. CASE Goto(a, "collect") /\ UNCHANGED <<call, answer>>
    <3>1. ActorType' /\ Asked' /\ Found' BY <1>0, <1>6, <2>1, StepNames DEF Lookup, FoundPC
    <3> QED BY <1>6, <2>1, <3>1 DEF Lookup, JobType, TypeInv, TypeOK
  <2>2. ASSUME NEW h \in Generators, call' = [call EXCEPT ![a].id = h],
               \/ Goto(a, "done") /\ Accept(a, h)
               \/ Goto(a, "dispatch") /\ UNCHANGED answer
        PROVE  TypeInv'
    <3>1. CallType' BY <2>2 DEF CallType, TypeOK, ActorType
    <3>2. \A b \in Callers : b # a => call'[b] = call[b] BY <2>2 DEF TypeOK, ActorType
    <3>3. call'[a].id \in Generators BY <2>2 DEF TypeOK, ActorType
    <3>4. ActorType' /\ Asked' /\ Found'
      BY <1>6, <2>2, <3>1, <3>2, <3>3, CallerGotoType, StepNames DEF Lookup
    <3>5. JobType' BY <1>6, <2>2 DEF Lookup, Accept, JobType, TypeOK
    <3> QED BY <1>6, <3>4, <3>5 DEF Lookup, TypeInv, TypeOK
  <2>3. CASE \E h \in RowsFor(call[a].rev, call[a].key) :
               /\ call' = [call EXCEPT ![a].id = h]
               /\ \/ handoff[h].status = "enqueued" /\ Goto(a, "done") /\ Accept(a, h)
                  \/ handoff[h].status # "enqueued" /\ Goto(a, "dispatch") /\ UNCHANGED answer
    <3>1. PICK h \in RowsFor(call[a].rev, call[a].key) :
            /\ call' = [call EXCEPT ![a].id = h]
            /\ \/ Goto(a, "done") /\ Accept(a, h)
               \/ Goto(a, "dispatch") /\ UNCHANGED answer
      BY <2>3
    <3>2. h \in Generators BY DEF RowsFor
    <3> QED BY <2>2, <3>1, <3>2
  <2> QED BY <1>6, <2>1, <2>3 DEF Lookup
<1>7. CASE a \in Generators /\ Collect(a)
  <2>1. CallType' BY <1>7 DEF Collect, CallType, TypeOK, ActorType, Active
  <2>2. \A b \in Callers : b # a => call'[b] = call[b] BY <1>7 DEF Collect, TypeOK, ActorType
  <2>3. ActorType' /\ Asked' /\ Found'
    BY <1>7, <2>1, <2>2, CallerGotoType, StepNames DEF Collect, Move, FoundPC
  <2> QED BY <1>7, <2>3 DEF Collect, TypeInv, TypeOK
<1>8. CASE a \in Generators /\ HandoffInsert(a)
  <2>1. CASE Goto(a, "assert") /\ UNCHANGED <<call, handoff>>
    <3>1. ActorType' /\ Asked' /\ Found' BY <1>0, <1>8, <2>1, StepNames DEF HandoffInsert, FoundPC
    <3> QED BY <1>8, <2>1, <3>1 DEF HandoffInsert, JobType, TypeInv, TypeOK
  <2>2. CASE /\ handoff' = [handoff EXCEPT ![a] = [rev |-> call[a].rev, key |-> call[a].key,
                              status |-> "enqueue_pending", sources |-> call[a].listed]]
             /\ call' = [call EXCEPT ![a].id = a] /\ Goto(a, "pending")
    <3>1. CallType' BY <1>8, <2>2 DEF CallType, TypeOK, ActorType
    <3>2. \A b \in Callers : b # a => call'[b] = call[b] BY <2>2 DEF TypeOK, ActorType
    <3>3. call'[a].id \in Generators BY <1>8, <2>2 DEF TypeOK, ActorType
    <3>4. ActorType' /\ Asked' /\ Found'
      BY <1>8, <2>2, <3>1, <3>2, <3>3, CallerGotoType, StepNames DEF HandoffInsert
    <3>5. JobType' BY <1>8, <2>2 DEF HandoffInsert, JobType, TypeOK, ActorType
    <3> QED BY <1>8, <3>4, <3>5 DEF HandoffInsert, TypeInv, TypeOK
  <2> QED BY <1>8, <2>1, <2>2 DEF HandoffInsert
<1> DEFINE Id == call[a].id
<1>9. CASE a \in Generators /\ FolderPending(a)
  <2>1. ActorType' /\ Asked' /\ Found'
    BY <1>0, <1>9, StepNames DEF FolderPending, Move, At, Found, FoundPC, TypeInv
  <2>2. FolderType' BY <1>9 DEF FolderPending, FolderType, TypeOK
  <2> QED BY <1>9, <2>1, <2>2 DEF FolderPending, TypeInv, TypeOK
<1>10. CASE a \in Generators /\ Reread(a)
  <2>1. ActorType' /\ Asked' /\ Found'
    BY <1>0, <1>10, StepNames DEF Reread, At, Found, FoundPC, TypeInv
  <2>2. JobType' BY <1>10 DEF Reread, Accept, JobType, TypeOK
  <2> QED BY <1>10, <2>1, <2>2 DEF Reread, TypeInv, TypeOK
<1>11. CASE a \in Generators /\ Dispatch(a)
  <2>0. Id \in Generators BY <1>11 DEF Dispatch, At, Found, FoundPC, TypeInv
  <2>1. ActorType' /\ Asked' /\ Found' BY <1>0, <1>11, <2>0, StepNames DEF Dispatch
  <2>2. JobType' BY <1>11, <2>0 DEF Dispatch, JobType, TypeOK
  <2> QED BY <1>11, <2>1, <2>2 DEF Dispatch, TypeInv, TypeOK
<1>12. CASE a \in Generators /\ CompleteHandoff(a)
  <2>1. ActorType' /\ Asked' /\ Found'
    BY <1>0, <1>12, StepNames DEF CompleteHandoff, Move, At, Found, FoundPC, TypeInv
  <2>2. JobType' BY <1>12 DEF CompleteHandoff, SettleHandoff, JobType, TypeOK
  <2> QED BY <1>12, <2>1, <2>2 DEF CompleteHandoff, TypeInv, TypeOK
<1>13. CASE a \in Generators /\ CompleteFolder(a)
  <2>0. Id \in Generators BY <1>13 DEF CompleteFolder, Move, At, Found, FoundPC, TypeInv
  <2>1. ActorType' /\ Asked' /\ Found' BY <1>0, <1>13, <2>0, StepNames DEF CompleteFolder, Move
  <2>2. FolderType' BY <1>13, <2>0 DEF CompleteFolder, FolderType, TypeOK
  <2>3. JobType' BY <1>13, <2>0 DEF CompleteFolder, Accept, JobType, TypeOK
  <2> QED BY <1>13, <2>1, <2>2, <2>3 DEF CompleteFolder, TypeInv, TypeOK
<1>14. CASE a \in Generators /\ FailHandoff(a)
  <2>1. ActorType' /\ Asked' /\ Found'
    BY <1>0, <1>14, StepNames DEF FailHandoff, Move, At, Found, FoundPC, TypeInv
  <2>2. JobType' BY <1>14 DEF FailHandoff, SettleHandoff, JobType, TypeOK
  <2> QED BY <1>14, <2>1, <2>2 DEF FailHandoff, TypeInv, TypeOK
<1>15. CASE a \in Generators /\ FailFolder(a)
  <2>1. ActorType' /\ Asked' /\ Found'
    BY <1>0, <1>15, StepNames DEF FailFolder, Move, FoundPC
  <2>2. FolderType' BY <1>15 DEF FailFolder, FolderType, TypeOK
  <2> QED BY <1>15, <2>1, <2>2 DEF FailFolder, TypeInv, TypeOK
<1> QED BY <1>1, <1>2, <1>3, <1>4, <1>5, <1>6, <1>7, <1>8, <1>9, <1>10, <1>11, <1>12, <1>13,
           <1>14, <1>15 DEF Confirm, Generate

LEMMA CrashType ==
    ASSUME TypeInv, NEW a \in Actors, Crash(a)
    PROVE  TypeInv'
<1> TypeOK BY DEF TypeInv
<1> USE FrameType
<1>1. /\ pc' \in [Actors -> PCs] /\ pc'[a] = IF a \in Editors THEN "idle" ELSE "done"
      /\ \A b \in Actors : b # a => pc'[b] = pc[b]
  BY StepNames DEF Crash, TypeOK, ActorType
<1>2. request' \in [Editors -> [op : {"none", "add", "remove", "retry"},
    source : Sources \cup {None}, rev : Nat, wasReady : BOOLEAN, row : SourceRow]]
  BY NoneTyped DEF Crash, TypeOK, ActorType
<1>3. Asked' BY <1>1 DEF Crash, Asked, TypeInv, Actors
<1>4. Found' BY <1>1, ActorsAreDistinct DEF Crash, Found, FoundPC, TypeInv, Actors, Callers
<1>5. ActorType' BY <1>1, <1>2 DEF Crash, ActorType, TypeOK
<1>6. HistoryType' BY BoundsAssumption DEF Crash, HistoryType, history, TypeOK
<1> QED BY <1>3, <1>4, <1>5, <1>6 DEF Crash, TypeInv, TypeOK

LEMMA InitType == Init => TypeInv
<1> SUFFICES ASSUME Init PROVE TypeInv
  OBVIOUS
<1>1. ActorType
  BY NoneTyped, StepNames DEF Init, ActorType, NoCall
<1>2. FolderType /\ RowType BY NoneTyped DEF Init, FolderType, RowType
<1>3. JobType /\ HistoryType BY BoundsAssumption DEF Init, JobType, HistoryType, NoHandoff
<1>4. Asked /\ Found BY DEF Init, Asked, Found, FoundPC, Actors, Callers
<1> QED BY <1>1, <1>2, <1>3, <1>4 DEF TypeInv, TypeOK

LEMMA NextType == TypeInv /\ [Next]_vars => TypeInv'
<1> SUFFICES ASSUME TypeInv, [Next]_vars PROVE TypeInv'
  OBVIOUS
<1>1. ASSUME NEW e \in Editors, Edit(e) PROVE TypeInv' BY <1>1, EditType
<1>2. ASSUME NEW a \in Confirmers, Confirm(a) PROVE TypeInv' BY <1>2, CallerType DEF Callers
<1>3. ASSUME NEW g \in Generators, Generate(g) PROVE TypeInv' BY <1>3, CallerType DEF Callers
<1>4. ASSUME NEW s \in Sources, Upload(s) PROVE TypeInv' BY <1>4, UploadType
<1>5. ASSUME NEW a \in Actors, Crash(a) PROVE TypeInv' BY <1>5, CrashType
<1>6. CASE UNCHANGED vars
  BY <1>6 DEF vars, folderVars, sourceVars, jobVars, history, TypeInv, TypeOK, ActorType,
     FolderType, RowType, JobType, HistoryType, Asked, Found
<1> QED BY <1>1, <1>2, <1>3, <1>4, <1>5, <1>6 DEF Next

LEMMA TypeInvariant == Spec => []TypeInv
BY InitType, NextType, PTL DEF Spec

(* Every reachable state of the folder has the stated types, for any sets of *)
(* actors, sources, texts and keys and any bounds.                           *)
THEOREM TypeCorrect == Spec => []TypeOK
BY TypeInvariant, PTL DEF TypeInv

-------------------------------------------------------------------------------
(* The steps of an editor, as callers and the folder see them               *)

(* An editor's step leaves callers, handoffs, jobs and confirmations alone,  *)
(* and touches the folder by a bump only.                                    *)
LEMMA EditEffect ==
    ASSUME TypeInv, NEW e \in Editors, Edit(e)
    PROVE  /\ UNCHANGED <<call, handoff, jobs, answer, confirmed, crashes>>
           /\ \A b \in Actors : b # e => pc'[b] = pc[b]
           /\ \A d \in Editors : d # e => request'[d] = request[d]
           /\ \/ UNCHANGED <<folderVars, log>>
              \/ (pc[e] = "bump" /\ Increment(e))
<1> e \in Actors BY DEF Actors
<1> pc \in [Actors -> PCs] /\ request \in [Editors -> [op : {"none", "add", "remove", "retry"},
                    source : Sources \cup {None}, rev : Nat, wasReady : BOOLEAN, row : SourceRow]]
  BY DEF TypeInv, TypeOK, ActorType
<1> USE DEF history, folderVars, sourceVars, jobVars, Move, At, Goto, Return
<1>1. CASE Begin(e)
  <2>1. \A d \in Editors : d # e => request'[d] = request[d]
    BY <1>1 DEF Begin, Ask
  <2> QED BY <1>1, <2>1 DEF Begin
<1>2. CASE AssertRevision(e) BY <1>2 DEF AssertRevision, AssertFresh, AssertStale
<1>3. CASE AddFindReplay(e) BY <1>3 DEF AddFindReplay
<1>4. CASE AddLimits(e) BY <1>4 DEF AddLimits
<1>5. CASE AddFindDuplicate(e) BY <1>5 DEF AddFindDuplicate
<1>6. CASE AddInsert(e) BY <1>6 DEF AddInsert
<1>7. CASE EditCheck(e) BY <1>7 DEF EditCheck
<1>8. CASE EditWrite(e) BY <1>8 DEF EditWrite
<1>9. CASE EditBump(e)
  <2>1. CASE Increment(e) BY <1>9, <2>1 DEF EditBump, Increment
  <2>2. CASE UNCHANGED <<folderVars, history>> BY <1>9, <2>2 DEF EditBump
  <2> QED BY <1>9, <2>1, <2>2 DEF EditBump
<1>10. CASE OpenSession(e) BY <1>10 DEF OpenSession
<1>11. CASE RetryFinish(e) BY <1>11 DEF RetryFinish
<1> QED BY <1>1, <1>2, <1>3, <1>4, <1>5, <1>6, <1>7, <1>8, <1>9, <1>10, <1>11 DEF Edit

(* Nothing but a bump touches the revision or the log of edits. *)
LEMMA BumpsOnly ==
    ASSUME TypeInv, [Next]_vars
    PROVE  UNCHANGED <<revision, log>> \/ (\E e \in Editors : pc[e] = "bump" /\ Increment(e))
<1> USE DEF history, folderVars
<1>1. ASSUME NEW e \in Editors, Edit(e)
      PROVE  UNCHANGED <<revision, log>> \/ (pc[e] = "bump" /\ Increment(e))
  BY <1>1, EditEffect
<1>2. ASSUME NEW a \in Callers, Confirm(a) PROVE UNCHANGED <<revision, log>>
  BY <1>2 DEF Confirm, Send, CallAssert, MarkList, Mark, MarkReady
<1>3. ASSUME NEW g \in Generators, Generate(g) PROVE UNCHANGED <<revision, log>>
  BY <1>2, <1>3 DEF Callers, Generate, ConfirmAssert, Lookup, Collect, HandoffInsert,
     FolderPending, Reread, Dispatch, CompleteHandoff, CompleteFolder, FailHandoff, FailFolder
<1>4. ASSUME NEW s \in Sources, Upload(s) PROVE UNCHANGED <<revision, log>>
  BY <1>4 DEF Upload, UploadClaim, UploadClose, UploadFail, UploadPublish, UploadStep,
     UploadSupersede
<1>5. ASSUME NEW a \in Actors, Crash(a) PROVE UNCHANGED <<revision, log>> BY <1>5 DEF Crash
<1> QED BY <1>1, <1>2, <1>3, <1>4, <1>5 DEF Next, Callers, vars

(* Edits are accepted one at a time, each against the revision its client    *)
(* asked to change, whatever the interleaving (_increment_revision).         *)
THEOREM SerialEdits == Spec => []EditsAreSerial
<1>1. Init => EditsAreSerial BY DEF Init, EditsAreSerial
<1>2. TypeInv /\ EditsAreSerial /\ [Next]_vars => EditsAreSerial'
  <2> SUFFICES ASSUME TypeInv, EditsAreSerial, [Next]_vars PROVE EditsAreSerial'
    OBVIOUS
  <2>1. CASE UNCHANGED <<revision, log>> BY <2>1 DEF EditsAreSerial
  <2>2. ASSUME NEW e \in Editors, Increment(e) PROVE EditsAreSerial'
    <3> DEFINE entry == [op |-> request[e].op, source |-> request[e].source,
                         rev |-> request[e].rev]
    <3>1. log' = Append(log, entry) /\ revision' = revision + 1 /\ entry.rev = revision
      BY <2>2 DEF Increment
    <3>2. log \in Seq([op : {"add", "remove", "retry"}, source : Sources, rev : Nat])
          /\ revision \in Nat
      BY DEF TypeInv, TypeOK, HistoryType, FolderType
    <3> HIDE DEF entry
    <3>3. Len(log') = revision' /\ DOMAIN log' = 1 .. revision' BY <3>1, <3>2 DEF EditsAreSerial
    <3>4. \A i \in 1 .. revision : log'[i] = log[i] /\ log[i].rev = i - 1
      BY <3>1, <3>2 DEF EditsAreSerial
    <3>5. log'[revision + 1] = entry BY <3>1, <3>2 DEF EditsAreSerial
    <3> QED BY <3>1, <3>2, <3>3, <3>4, <3>5 DEF EditsAreSerial
  <2> QED BY <2>1, <2>2, BumpsOnly
<1> QED BY <1>1, <1>2, TypeInvariant, PTL DEF Spec

-------------------------------------------------------------------------------
(***************************************************************************)
(* What SourceFolder promises to whoever asks for a video: it implements   *)
(* GenerationPromise, and its answers agree.                               *)
(***************************************************************************)

-------------------------------------------------------------------------------
(* The invariant                                                             *)

(* Requests never name a revision that is still to come, and an editor's     *)
(* leaves room for one more.                                                 *)
Bounded == /\ revision \in Revisions
           /\ \A e \in Editors : pc[e] # "idle" => request[e].rev < MaxRevision
           /\ \A a \in Callers : call[a].rev \in 0 .. revision

(* A ready folder, and a generator beyond its confirmation, have a confirmed *)
(* revision; mark_ready has seen a source before it writes.                  *)
PastConfirm == {"lookup", "collect", "insert"} \cup FoundPC
ReadyConfirmed ==
    /\ status = "ready" => confirmed[revision] # {}
    /\ \A a \in Callers : pc[a] = "mark" => call[a].listed # {}
    /\ \A g \in Generators : pc[g] # "idle" => call[g].key \in Keys
    /\ \A g \in Generators : pc[g] \in PastConfirm => confirmed[call[g].rev] # {}

(* A handoff row is for a confirmed revision, and is the only one for its    *)
(* revision and key; a job has a row.                                        *)
Present(h) == handoff[h].status # "none"
RowsConfirmed ==
    /\ \A h \in Generators : Present(h) =>
         handoff[h].rev \in Revisions /\ confirmed[handoff[h].rev] # {} /\ handoff[h].key \in Keys
    /\ \A h \in jobs : Present(h)
RowsUnique == \A g, h \in Generators :
    Present(g) /\ Present(h) /\ handoff[g].rev = handoff[h].rev
    /\ handoff[g].key = handoff[h].key => g = h

(* A generator that has not inserted a row owns none, and the row it found   *)
(* or inserted is the one for its revision and key.                          *)
BeforeRow == {"idle", "assert", "confirm", "list", "mark", "lookup", "collect", "insert"}
RowOf(g, id) == /\ Present(id)
                /\ handoff[id].rev = call[g].rev /\ handoff[id].key = call[g].key
OwnRows ==
    /\ \A g \in Generators : pc[g] \in BeforeRow => ~Present(g)
    /\ \A g \in Generators : pc[g] \in FoundPC => RowOf(g, call[g].id)
    /\ \A g \in Generators : pc[g] \in {"pending", "reread"} => call[g].id = g

(* A row is enqueued, and an id reported, only when its job exists.          *)
AnswerInv ==
    /\ \A g \in Generators : pc[g] \in {"complete", "complete_folder"} => call[g].id \in jobs
    /\ \A h \in Generators : handoff[h].status = "enqueued" => h \in jobs
    /\ \A g \in Generators : pc[g] # "done" => answer[g] = None
    /\ \A g \in Generators : answer[g] # None => answer[g] \in jobs /\ RowOf(g, answer[g])
    /\ enqueue = "enqueued" => requestId \in jobs

HandoffInv == Bounded /\ ReadyConfirmed /\ RowsConfirmed /\ RowsUnique /\ OwnRows /\ AnswerInv

LEMMA InitHandoff == Init => HandoffInv
<1> SUFFICES ASSUME Init PROVE HandoffInv
  OBVIOUS
<1>1. Bounded BY BoundsAssumption DEF Init, Bounded, Revisions, NoCall, Actors
<1>2. ReadyConfirmed BY DEF Init, ReadyConfirmed, PastConfirm, FoundPC, Actors, Callers
<1>3. RowsConfirmed /\ RowsUnique /\ OwnRows
  BY DEF Init, RowsConfirmed, RowsUnique, OwnRows, Present, NoHandoff, FoundPC, Actors, Callers
<1>4. AnswerInv BY DEF Init, AnswerInv, NoHandoff, Actors, Callers
<1> QED BY <1>1, <1>2, <1>3, <1>4 DEF HandoffInv

-------------------------------------------------------------------------------
(* Every step keeps it                                                       *)

LEMMA EditHandoff ==
    ASSUME TypeInv, HandoffInv, NEW e \in Editors, Edit(e)
    PROVE  HandoffInv'
<1>1. /\ UNCHANGED <<call, handoff, jobs, answer, confirmed>>
      /\ \A a \in Callers : pc'[a] = pc[a]
      /\ \A d \in Editors : d # e => pc'[d] = pc[d] /\ request'[d] = request[d]
  BY EditEffect, ActorsAreDistinct DEF Actors, Callers
<1>2. \/ UNCHANGED <<revision, status, enqueue, requestId>>
      \/ /\ pc[e] = "bump" /\ revision = request[e].rev /\ revision' = revision + 1
         /\ status' # "ready" /\ enqueue' = "not_requested"
  BY EditEffect DEF folderVars, Increment
<1>3. pc'[e] # "idle" => request'[e].rev < MaxRevision
  <2> e \in Actors BY DEF Actors
  <2> pc \in [Actors -> PCs] /\ request \in [Editors -> [op : {"none", "add", "remove", "retry"},
        source : Sources \cup {None}, rev : Nat, wasReady : BOOLEAN, row : SourceRow]]
      /\ revision \in Nat
    BY DEF TypeInv, TypeOK, ActorType, FolderType
  <2>1. CASE Begin(e)
    <3>0. PICK op, s, row : Ask(e, op, s, row) BY <2>1 DEF Begin
    <3>1. PICK r \in SentRevisions : request' = [request EXCEPT ![e] =
            [op |-> op, source |-> s, rev |-> r, wasReady |-> FALSE, row |-> row]]
      BY <3>0 DEF Ask
    <3>2. request'[e].rev = r /\ r <= revision /\ revision < MaxRevision /\ r \in Nat
      BY <2>1, <3>1 DEF Begin, SentRevisions
    <3> QED BY <3>2, BoundsAssumption
  <2>2. CASE ~Begin(e)
    <3>1. pc[e] # "idle" /\ (pc'[e] # "idle" => request'[e].rev = request[e].rev)
      <4> USE DEF Move, At, Goto, Return
      <4>1. CASE AssertRevision(e) BY <4>1 DEF AssertRevision, AssertFresh, AssertStale
      <4>2. CASE AddFindReplay(e) \/ AddLimits(e) \/ AddFindDuplicate(e) \/ AddInsert(e)
        BY <4>2 DEF AddFindReplay, AddLimits, AddFindDuplicate, AddInsert
      <4>3. CASE EditCheck(e) \/ EditWrite(e) BY <4>3 DEF EditCheck, EditWrite
      <4>4. CASE EditBump(e) BY <4>4 DEF EditBump
      <4>5. CASE OpenSession(e) \/ RetryFinish(e) BY <4>5 DEF OpenSession, RetryFinish
      <4> QED BY <2>2, <4>1, <4>2, <4>3, <4>4, <4>5 DEF Edit
    <3> QED BY <3>1 DEF HandoffInv, Bounded
  <2> QED BY <2>1, <2>2
<1>4. Bounded'
  <2>1. revision' \in Revisions
    BY <1>2, BoundsAssumption DEF HandoffInv, Bounded, Revisions
  <2>2. \A a \in Callers : call'[a].rev \in 0 .. revision'
    BY <1>1, <1>2, BoundsAssumption DEF HandoffInv, Bounded, Revisions
  <2>3. \A d \in Editors : pc'[d] # "idle" => request'[d].rev < MaxRevision
    BY <1>1, <1>3 DEF HandoffInv, Bounded
  <2> QED BY <2>1, <2>2, <2>3 DEF Bounded
<1>5. ReadyConfirmed' BY <1>1, <1>2 DEF HandoffInv, ReadyConfirmed, Callers
<1>6. RowsConfirmed' /\ RowsUnique' BY <1>1 DEF HandoffInv, RowsConfirmed, RowsUnique, Present
<1>7. OwnRows' /\ AnswerInv'
  BY <1>1, <1>2 DEF HandoffInv, OwnRows, AnswerInv, Present, RowOf, Callers
<1> QED BY <1>4, <1>5, <1>6, <1>7 DEF HandoffInv

LEMMA UploadHandoff ==
    ASSUME HandoffInv, NEW s \in Sources, Upload(s)
    PROVE  HandoffInv'
<1>1. UNCHANGED <<pc, request, call, folderVars, handoff, jobs, answer, history>>
  BY DEF Upload, UploadClaim, UploadClose, UploadFail, UploadPublish, UploadStep,
     UploadSupersede, jobVars
<1> QED BY <1>1 DEF folderVars, history, HandoffInv, Bounded, ReadyConfirmed, RowsConfirmed,
       RowsUnique, OwnRows, AnswerInv, Present, RowOf

LEMMA CrashHandoff ==
    ASSUME TypeInv, HandoffInv, NEW a \in Actors, Crash(a)
    PROVE  HandoffInv'
<1>1. UNCHANGED <<call, folderVars, handoff, jobs, answer, history>> BY DEF Crash, jobVars
<1>2. /\ \A b \in Actors : b # a => pc'[b] = pc[b]
      /\ pc[a] # "idle"
      /\ \A e \in Editors : pc'[e] # "idle" => pc[e] # "idle" /\ request'[e] = request[e]
      /\ \A b \in Callers : pc'[b] = "done" \/ pc'[b] = pc[b]
      /\ \A b \in Callers : pc'[b] # "done" => pc[b] # "done"
      /\ \A b \in Callers : pc'[b] # "idle" => pc[b] # "idle"
  BY ActorsAreDistinct DEF Crash, Busy, TypeInv, TypeOK, ActorType, Actors, Callers
<1>3. Bounded' BY <1>1, <1>2 DEF HandoffInv, Bounded, folderVars
<1>4. ReadyConfirmed'
  BY <1>1, <1>2 DEF HandoffInv, ReadyConfirmed, folderVars, history, PastConfirm, FoundPC, Callers
<1>5. RowsConfirmed' /\ RowsUnique'
  BY <1>1 DEF HandoffInv, RowsConfirmed, RowsUnique, Present, history
<1>6. OwnRows'
  BY <1>1, <1>2 DEF HandoffInv, OwnRows, Present, RowOf, FoundPC, BeforeRow, Callers
<1>7. AnswerInv' BY <1>1, <1>2 DEF HandoffInv, AnswerInv, Present, RowOf, folderVars, Callers
<1> QED BY <1>3, <1>4, <1>5, <1>6, <1>7 DEF HandoffInv

(* What a caller may move to without touching what others see. *)
Fits(a, p, c) ==
    /\ c.rev \in 0 .. revision
    /\ p = "mark" => c.listed # {}
    /\ a \in Generators =>
         /\ c.key \in Keys
         /\ p \in PastConfirm => confirmed[c.rev] # {}
         /\ p \in BeforeRow => ~Present(a)
         /\ p \in FoundPC => Present(c.id) /\ handoff[c.id].rev = c.rev /\ handoff[c.id].key = c.key
         /\ p \in {"pending", "reread"} => c.id = a
         /\ p \in {"complete", "complete_folder"} => c.id \in jobs

LEMMA CallerMoves ==
    ASSUME TypeInv, HandoffInv, NEW a \in Callers, NEW p \in PCs, NEW c,
           Goto(a, p), call' = [call EXCEPT ![a] = c], Fits(a, p, c), pc[a] # "done",
           UNCHANGED <<request, folderVars, handoff, jobs, answer, confirmed>>
    PROVE  HandoffInv'
<1> a \in Actors BY DEF Actors
<1>1. /\ pc'[a] = p /\ call'[a] = c
      /\ \A b \in Actors : b # a => pc'[b] = pc[b]
      /\ \A b \in Callers : b # a => call'[b] = call[b]
      /\ \A e \in Editors : pc'[e] = pc[e]
  BY GotoType, ActorsAreDistinct DEF TypeInv, TypeOK, ActorType, Actors, Callers
<1>2. Bounded' BY <1>1 DEF HandoffInv, Bounded, folderVars, Fits
<1>3. ReadyConfirmed'
  BY <1>1 DEF HandoffInv, ReadyConfirmed, folderVars, Fits, Actors, Callers, PastConfirm, FoundPC
<1>4. RowsConfirmed' /\ RowsUnique' BY DEF HandoffInv, RowsConfirmed, RowsUnique, Present
<1>5. OwnRows' BY <1>1 DEF HandoffInv, OwnRows, Present, RowOf, Fits, Actors, Callers
<1>6. AnswerInv'
  <2>1. a \in Generators => answer[a] = None BY DEF HandoffInv, AnswerInv
  <2>2. (\A g \in Generators : answer[g] # None => answer[g] \in jobs /\ RowOf(g, answer[g]))'
    BY <1>1, <2>1 DEF HandoffInv, AnswerInv, RowOf, Present, Callers
  <2> QED BY <1>1, <2>1, <2>2 DEF HandoffInv, AnswerInv, folderVars, Fits, Actors, Callers
<1> QED BY <1>2, <1>3, <1>4, <1>5, <1>6 DEF HandoffInv

(* The steps of mark_ready. *)
LEMMA ConfirmHandoff ==
    ASSUME TypeInv, HandoffInv, NEW a \in Callers, Confirm(a)
    PROVE  HandoffInv'
<1> a \in Actors BY DEF Actors
<1> USE DEF jobVars, history
<1> call \in [Callers -> [rev : Nat, key : Keys \cup {None}, listed : SUBSET Sources,
                    id : Generators \cup {None}]]
    /\ pc \in [Actors -> PCs] /\ revision \in Nat
  BY DEF TypeInv, TypeOK, ActorType, FolderType
<1>0. ASSUME NEW p \in PCs, Goto(a, p), UNCHANGED call, Fits(a, p, call[a]), pc[a] # "done",
             UNCHANGED <<request, folderVars, handoff, jobs, answer, confirmed>>
      PROVE  HandoffInv'
  <2>1. call' = [call EXCEPT ![a] = call[a]] BY <1>0
  <2> QED BY <1>0, <2>1, CallerMoves
<1>1. CASE Send(a)
  <2>1. PICK r \in SentRevisions, k \in IF a \in Generators THEN Keys ELSE {None} :
          call' = [call EXCEPT ![a].rev = r, ![a].key = k]
    BY <1>1 DEF Send
  <2> DEFINE c == [call[a] EXCEPT !.rev = r, !.key = k]
  <2>2. call' = [call EXCEPT ![a] = c] BY <2>1
  <2>3. Fits(a, "assert", c)
    <3>1. c.rev \in 0 .. revision BY DEF SentRevisions
    <3>2. a \in Generators => c.key \in Keys OBVIOUS
    <3>3. a \in Generators => ~Present(a)
      BY <1>1 DEF Send, Move, At, HandoffInv, OwnRows, BeforeRow
    <3> HIDE DEF c
    <3> QED BY <3>1, <3>2, <3>3 DEF Fits, PastConfirm, FoundPC
  <2>4. pc[a] = "idle" /\ Goto(a, "assert") BY <1>1 DEF Send, Move, At
  <2> HIDE DEF c
  <2> QED BY <1>1, <2>2, <2>3, <2>4, CallerMoves, StepNames DEF Send
<1>2. CASE CallAssert(a)
  <2>1. Fits(a, "done", call[a])
    BY <1>2 DEF Fits, HandoffInv, Bounded, ReadyConfirmed, PastConfirm, FoundPC, BeforeRow,
       CallAssert, At, Callers
  <2>2. CASE Fail(a) BY <1>0, <1>2, <2>1, <2>2, StepNames DEF CallAssert, Fail, At
  <2>3. ASSUME NEW p \in {"list", "confirm", "lookup"}, Goto(a, p), UNCHANGED call,
               call[a].rev = revision, p = "lookup" => status = "ready"
        PROVE  HandoffInv'
    <3>1. Fits(a, p, call[a])
      BY <1>2, <2>3 DEF Fits, HandoffInv, Bounded, ReadyConfirmed, OwnRows, PastConfirm, FoundPC,
         BeforeRow, CallAssert, At, Callers
    <3> QED BY <1>0, <1>2, <2>3, <3>1, StepNames DEF CallAssert, At
  <2> QED BY <1>2, <2>2, <2>3 DEF CallAssert, Settled
<1>3. CASE MarkList(a)
  <2>1. CASE Fail(a)
    <3>1. Fits(a, "done", call[a])
      BY <1>3 DEF Fits, HandoffInv, Bounded, ReadyConfirmed, PastConfirm, FoundPC, BeforeRow,
         MarkList, At, Callers
    <3> QED BY <1>0, <1>3, <2>1, <3>1, StepNames DEF MarkList, Fail, At
  <2>2. CASE /\ Active # {} /\ Goto(a, "mark") /\ call' = [call EXCEPT ![a].listed = Active]
    <3> DEFINE c == [call[a] EXCEPT !.listed = Active]
    <3>1. call' = [call EXCEPT ![a] = c] BY <2>2
    <3>2. c.rev = call[a].rev /\ c.key = call[a].key /\ c.listed # {} BY <2>2
    <3> HIDE DEF c
    <3>3. Fits(a, "mark", c)
      BY <1>3, <3>2 DEF Fits, HandoffInv, Bounded, ReadyConfirmed, OwnRows, PastConfirm, FoundPC,
         BeforeRow, MarkList, At, Callers
    <3> QED BY <1>3, <2>2, <3>1, <3>3, CallerMoves, StepNames DEF MarkList, At
  <2> QED BY <1>3, <2>1, <2>2 DEF MarkList
<1>4. CASE Mark(a)
  <2>0. pc[a] = "mark" /\ call[a].rev \in 0 .. revision /\ call[a].listed # {}
        /\ (a \in Generators => call[a].key \in Keys /\ ~Present(a))
    BY <1>4 DEF Mark, At, HandoffInv, Bounded, ReadyConfirmed, OwnRows, BeforeRow
  <2>1. CASE Fail(a) /\ UNCHANGED <<folderVars, history>>
    <3>1. Fits(a, "done", call[a]) BY <2>0 DEF Fits, PastConfirm, FoundPC, BeforeRow
    <3> QED BY <1>0, <1>4, <2>0, <2>1, <3>1, StepNames DEF Mark, Fail
  <2>2. CASE /\ MarkReady(a) /\ UNCHANGED call
             /\ Goto(a, IF a \in Confirmers THEN "done" ELSE "lookup")
    <3> DEFINE p == IF a \in Confirmers THEN "done" ELSE "lookup"
    <3>1. /\ pc'[a] = p
          /\ \A b \in Actors : b # a => pc'[b] = pc[b]
          /\ \A e \in Editors : pc'[e] = pc[e]
          /\ a \in Generators => p = "lookup"
      BY <2>2, GotoType, StepNames, ActorsAreDistinct DEF Actors, Callers
    <3>2. /\ call[a].rev = revision /\ revision \in Revisions
          /\ confirmed'[revision] = call[a].listed
          /\ \A r \in Revisions : r # revision => confirmed'[r] = confirmed[r]
          /\ \A r \in Revisions : confirmed[r] # {} => confirmed'[r] # {}
          /\ UNCHANGED <<request, revision, handoff, jobs, answer>> /\ enqueue' = "not_requested"
      BY <1>4, <2>0, <2>2
      DEF Mark, MarkReady, HandoffInv, Bounded, TypeInv, TypeOK, HistoryType, sourceVars
    <3>3. Bounded' BY <2>2, <3>1, <3>2 DEF HandoffInv, Bounded
    <3>4. ReadyConfirmed'
      <4>1. \A b \in Callers : call[b].rev \in Revisions
        BY <3>2, BoundsAssumption DEF HandoffInv, Bounded, Revisions
      <4>2. \A g \in Generators : pc'[g] \in PastConfirm => confirmed'[call[g].rev] # {}
        BY <2>0, <3>1, <3>2, <4>1 DEF HandoffInv, ReadyConfirmed, Actors, Callers
      <4> QED BY <2>0, <2>2, <3>1, <3>2, <4>2 DEF HandoffInv, ReadyConfirmed, Actors, Callers
    <3>5. RowsConfirmed' /\ RowsUnique'
      BY <3>2 DEF HandoffInv, RowsConfirmed, RowsUnique, Present
    <3>6. OwnRows'
      BY <2>0, <2>2, <3>1, <3>2
      DEF HandoffInv, OwnRows, Present, RowOf, BeforeRow, FoundPC, Actors, Callers
    <3>7. AnswerInv'
      BY <2>0, <2>2, <3>1, <3>2 DEF HandoffInv, AnswerInv, Present, RowOf, Actors, Callers
    <3> QED BY <3>3, <3>4, <3>5, <3>6, <3>7 DEF HandoffInv
  <2> QED BY <1>4, <2>1, <2>2 DEF Mark
<1> QED BY <1>1, <1>2, <1>3, <1>4 DEF Confirm

(* The steps of create_generation_handoff and generate that move on by       *)
(* themselves.                                                               *)
LEMMA GeneratorMoves ==
    ASSUME TypeInv, HandoffInv, NEW g \in Generators,
           \/ ConfirmAssert(g) \/ Collect(g)
           \/ Lookup(g) /\ UNCHANGED answer
           \/ HandoffInsert(g) /\ UNCHANGED handoff
           \/ Reread(g) /\ UNCHANGED answer
    PROVE  HandoffInv'
<1> g \in Callers /\ g \in Actors BY DEF Actors, Callers
<1> USE DEF jobVars, history
<1> call \in [Callers -> [rev : Nat, key : Keys \cup {None}, listed : SUBSET Sources,
                    id : Generators \cup {None}]]
    /\ pc \in [Actors -> PCs] /\ revision \in Nat
  BY DEF TypeInv, TypeOK, ActorType, FolderType
<1> call[g].rev \in 0 .. revision BY DEF HandoffInv, Bounded
<1>0. ASSUME NEW p \in PCs, Goto(g, p), UNCHANGED call, Fits(g, p, call[g]), pc[g] # "done",
             UNCHANGED <<request, folderVars, handoff, jobs, answer, confirmed>>
      PROVE  HandoffInv'
  <2>1. call' = [call EXCEPT ![g] = call[g]] BY <1>0
  <2> QED BY <1>0, <2>1, CallerMoves
<1>1. CASE ConfirmAssert(g)
  <2>1. pc[g] = "confirm" /\ call[g].key \in Keys /\ ~Present(g)
    BY <1>1 DEF ConfirmAssert, At, HandoffInv, ReadyConfirmed, OwnRows, BeforeRow
  <2>2. Fits(g, "done", call[g]) /\ Fits(g, "list", call[g])
    BY <2>1 DEF Fits, PastConfirm, FoundPC, BeforeRow
  <2> QED BY <1>0, <1>1, <2>1, <2>2, StepNames DEF ConfirmAssert, Fail
<1>2. CASE Collect(g)
  <2> DEFINE c == [call[g] EXCEPT !.listed = Active \ Blocking]
  <2>1. call' = [call EXCEPT ![g] = c] BY <1>2 DEF Collect
  <2>2. c.rev = call[g].rev /\ c.key = call[g].key OBVIOUS
  <2> HIDE DEF c
  <2>3. pc[g] = "collect" /\ call[g].key \in Keys /\ ~Present(g) /\ confirmed[call[g].rev] # {}
    BY <1>2 DEF Collect, Move, At, HandoffInv, ReadyConfirmed, OwnRows, BeforeRow, PastConfirm
  <2>4. Fits(g, "insert", c) BY <2>2, <2>3 DEF Fits, PastConfirm, FoundPC, BeforeRow
  <2> QED BY <1>2, <2>1, <2>3, <2>4, CallerMoves, StepNames DEF Collect, Move
<1>3. CASE Lookup(g) /\ UNCHANGED answer
  <2>1. pc[g] = "lookup" /\ call[g].key \in Keys /\ ~Present(g) /\ confirmed[call[g].rev] # {}
        /\ answer[g] = None
    BY <1>3 DEF Lookup, At, HandoffInv, ReadyConfirmed, OwnRows, AnswerInv, BeforeRow, PastConfirm
  <2>2. CASE Goto(g, "collect") /\ UNCHANGED <<call, answer>>
    <3>1. Fits(g, "collect", call[g]) BY <2>1 DEF Fits, PastConfirm, FoundPC, BeforeRow
    <3> QED BY <1>0, <1>3, <2>1, <2>2, <3>1, StepNames DEF Lookup
  <2>3. CASE \E h \in RowsFor(call[g].rev, call[g].key) :
               /\ call' = [call EXCEPT ![g].id = h]
               /\ \/ handoff[h].status = "enqueued" /\ Goto(g, "done") /\ Accept(g, h)
                  \/ handoff[h].status # "enqueued" /\ Goto(g, "dispatch") /\ UNCHANGED answer
    <3>1. PICK h \in RowsFor(call[g].rev, call[g].key) :
            /\ call' = [call EXCEPT ![g].id = h]
            /\ \/ handoff[h].status = "enqueued" /\ Goto(g, "done") /\ Accept(g, h)
               \/ handoff[h].status # "enqueued" /\ Goto(g, "dispatch") /\ UNCHANGED answer
      BY <2>3
    <3>2. PICK p \in {"done", "dispatch"} : Goto(g, p) BY <3>1
    <3> DEFINE c == [call[g] EXCEPT !.id = h]
    <3>3. call' = [call EXCEPT ![g] = c] BY <3>1
    <3>4. c.rev = call[g].rev /\ c.key = call[g].key /\ c.id = h OBVIOUS
    <3> HIDE DEF c
    <3>5. Present(h) /\ handoff[h].rev = c.rev /\ handoff[h].key = c.key
      BY <3>4 DEF RowsFor, Present
    <3>6. Fits(g, p, c) BY <2>1, <3>4, <3>5 DEF Fits, PastConfirm, FoundPC, BeforeRow
    <3> QED BY <1>3, <2>1, <3>2, <3>3, <3>6, CallerMoves, StepNames DEF Lookup
  <2> QED BY <1>3, <2>2, <2>3 DEF Lookup
<1>4. CASE HandoffInsert(g) /\ UNCHANGED handoff
  <2>1. pc[g] = "insert" /\ call[g].key \in Keys /\ ~Present(g)
    BY <1>4 DEF HandoffInsert, At, HandoffInv, ReadyConfirmed, OwnRows, BeforeRow
  <2>2. CASE Goto(g, "assert") /\ UNCHANGED call
    <3>1. Fits(g, "assert", call[g]) BY <2>1 DEF Fits, PastConfirm, FoundPC, BeforeRow
    <3> QED BY <1>0, <1>4, <2>1, <2>2, <3>1, StepNames DEF HandoffInsert
  <2>3. CASE handoff' = [handoff EXCEPT ![g] = [rev |-> call[g].rev, key |-> call[g].key,
                           status |-> "enqueue_pending", sources |-> call[g].listed]]
    <3>1. handoff'[g].status = "enqueue_pending" BY <2>3 DEF TypeInv, TypeOK, JobType
    <3> QED BY <1>4, <2>1, <3>1 DEF Present
  <2> QED BY <1>4, <2>2, <2>3 DEF HandoffInsert
<1>5. CASE Reread(g) /\ UNCHANGED answer
  <2>1. pc[g] = "reread" /\ call[g].key \in Keys /\ RowOf(g, call[g].id) /\ call[g].id = g
        /\ confirmed[call[g].rev] # {} /\ answer[g] = None
    BY <1>5 DEF Reread, At, HandoffInv, ReadyConfirmed, OwnRows, AnswerInv, FoundPC, PastConfirm
  <2>2. Fits(g, "done", call[g]) /\ Fits(g, "dispatch", call[g])
    BY <2>1 DEF Fits, RowOf, PastConfirm, FoundPC, BeforeRow
  <2> QED BY <1>0, <1>5, <2>1, <2>2, StepNames DEF Reread
<1> QED BY <1>1, <1>2, <1>3, <1>4, <1>5

(* The steps that write a row, the folder or the job store, or answer.       *)
LEMMA GeneratorWrites ==
    ASSUME TypeInv, HandoffInv, NEW g \in Generators,
           \/ HandoffInsert(g) /\ handoff' # handoff
           \/ FolderPending(g) \/ Dispatch(g) \/ CompleteHandoff(g) \/ CompleteFolder(g)
           \/ FailHandoff(g) \/ FailFolder(g)
           \/ Lookup(g) /\ answer' # answer
           \/ Reread(g) /\ answer' # answer
    PROVE  HandoffInv'
<1> g \in Callers /\ g \in Actors BY DEF Actors, Callers
<1> USE DEF jobVars, history
<1>t. /\ call \in [Callers -> [rev : Nat, key : Keys \cup {None}, listed : SUBSET Sources,
                    id : Generators \cup {None}]]
      /\ handoff \in [Generators -> [rev : Nat, key : Keys \cup {None},
                  status : {"none", "enqueue_pending", "enqueued", "enqueue_failed"},
                  sources : SUBSET Sources]]
      /\ jobs \in SUBSET Generators /\ None \notin Generators
      /\ answer \in [Generators -> Generators \cup {None}]
  BY ActorsAreDistinct DEF TypeInv, TypeOK, ActorType, JobType, Actors, Callers
<1>g. ASSUME NEW p \in PCs, Goto(g, p)
      PROVE  /\ pc'[g] = p
             /\ \A a \in Actors : a # g => pc'[a] = pc[a]
             /\ \A e \in Editors : pc'[e] = pc[e]
  BY <1>g, GotoType, ActorsAreDistinct DEF Actors, Callers
<1>f. call[g].rev \in Revisions
  BY BoundsAssumption DEF HandoffInv, Bounded, Revisions
<1> USE StepNames
<1>1. CASE HandoffInsert(g) /\ handoff' # handoff
  <2> DEFINE row == [rev |-> call[g].rev, key |-> call[g].key, status |-> "enqueue_pending",
                     sources |-> call[g].listed]
  <2>1. /\ pc[g] = "insert" /\ RowsFor(call[g].rev, call[g].key) = {} /\ Goto(g, "pending")
        /\ handoff' = [handoff EXCEPT ![g] = row] /\ call' = [call EXCEPT ![g].id = g]
        /\ UNCHANGED <<request, folderVars, jobs, answer, confirmed>>
    BY <1>1 DEF HandoffInsert, At
  <2>2. /\ pc'[g] = "pending"
        /\ \A a \in Actors : a # g => pc'[a] = pc[a]
        /\ \A e \in Editors : pc'[e] = pc[e]
    BY <1>g, <2>1
  <2>3. /\ call'[g].id = g /\ \A a \in Callers : a # g => call'[a] = call[a]
        /\ \A a \in Callers : call'[a].rev = call[a].rev /\ call'[a].key = call[a].key
                              /\ call'[a].listed = call[a].listed
    BY <1>t, <2>1
  <2>4. /\ handoff'[g].rev = call[g].rev /\ handoff'[g].key = call[g].key
        /\ handoff'[g].status = "enqueue_pending"
        /\ \A h \in Generators : h # g => handoff'[h] = handoff[h]
    BY <1>t, <2>1
  <2>5. ~Present(g) /\ call[g].key \in Keys /\ confirmed[call[g].rev] # {} /\ answer[g] = None
        /\ \A h \in Generators : Present(h) =>
             ~(handoff[h].rev = call[g].rev /\ handoff[h].key = call[g].key)
    BY <2>1 DEF HandoffInv, OwnRows, ReadyConfirmed, AnswerInv, BeforeRow, PastConfirm, RowsFor,
       Present
  <2>6. Bounded' BY <2>1, <2>2, <2>3 DEF HandoffInv, Bounded, folderVars
  <2>7. ReadyConfirmed'
    BY <2>1, <2>2, <2>3, <2>5
    DEF HandoffInv, ReadyConfirmed, folderVars, Actors, Callers
  <2>8. RowsConfirmed'
    BY <1>t, <1>f, <2>1, <2>4, <2>5 DEF HandoffInv, RowsConfirmed, Present
  <2>9. RowsUnique' BY <2>4, <2>5 DEF HandoffInv, RowsUnique, Present
  <2>10. \A h \in Generators : Present(h) => h # g /\ handoff'[h] = handoff[h]
    BY <2>4, <2>5
  <2>11. OwnRows'
    <3>1. \A h \in Generators : pc'[h] \in BeforeRow => ~Present(h)'
      BY <2>2, <2>4 DEF HandoffInv, OwnRows, Present, BeforeRow, Actors, Callers
    <3>2. ASSUME NEW h \in Generators, pc'[h] \in FoundPC PROVE RowOf(h, call[h].id)'
      <4>1. CASE h = g BY <2>3, <2>4, <4>1 DEF RowOf, Present
      <4>2. CASE h # g
        <5>1. RowOf(h, call[h].id) /\ call[h].id \in Generators /\ call'[h] = call[h]
          BY <2>2, <2>3, <3>2, <4>2 DEF HandoffInv, OwnRows, TypeInv, Found, Actors, Callers
        <5> QED BY <2>10, <5>1 DEF RowOf, Present
      <4> QED BY <4>1, <4>2
    <3>3. \A h \in Generators : pc'[h] \in {"pending", "reread"} => call'[h].id = h
      BY <2>2, <2>3 DEF HandoffInv, OwnRows, Actors, Callers
    <3> QED BY <3>1, <3>2, <3>3 DEF OwnRows
  <2>12. AnswerInv'
    <3>1. ASSUME NEW h \in Generators, answer[h] # None
          PROVE  answer[h] \in jobs /\ RowOf(h, answer[h])'
      <4>1. answer[h] \in Generators /\ answer[h] \in jobs /\ RowOf(h, answer[h])
        BY <1>t, <3>1 DEF HandoffInv, AnswerInv
      <4>2. handoff'[answer[h]] = handoff[answer[h]] BY <2>10, <4>1 DEF RowOf
      <4> QED BY <2>1, <2>3, <4>1, <4>2 DEF RowOf, Present, Callers
    <3>2. \A h \in Generators : pc'[h] \in {"complete", "complete_folder"} => call'[h].id \in jobs
      BY <2>2, <2>3 DEF HandoffInv, AnswerInv, Actors, Callers
    <3>3. \A h \in Generators : handoff'[h].status = "enqueued" => h \in jobs
      BY <2>4 DEF HandoffInv, AnswerInv
    <3>4. \A h \in Generators : pc'[h] # "done" => answer[h] = None
      BY <2>2, <2>5 DEF HandoffInv, AnswerInv, Actors, Callers
    <3>5. enqueue = "enqueued" => requestId \in jobs BY DEF HandoffInv, AnswerInv
    <3> QED BY <2>1, <3>1, <3>2, <3>3, <3>4, <3>5 DEF AnswerInv, folderVars
  <2> QED BY <2>6, <2>7, <2>8, <2>9, <2>11, <2>12 DEF HandoffInv
<1>2. CASE FolderPending(g)
  <2>1. /\ pc[g] = "pending" /\ Goto(g, "reread") /\ enqueue' = "enqueue_pending"
        /\ UNCHANGED <<request, call, revision, status, handoff, jobs, answer, confirmed>>
    BY <1>2 DEF FolderPending, Move, At
  <2>2. pc'[g] = "reread" /\ (\A a \in Actors : a # g => pc'[a] = pc[a])
        /\ \A e \in Editors : pc'[e] = pc[e]
    BY <1>g, <2>1
  <2>3. Bounded' BY <2>1, <2>2 DEF HandoffInv, Bounded
  <2>4. ReadyConfirmed'
    BY <2>1, <2>2 DEF HandoffInv, ReadyConfirmed, PastConfirm, FoundPC, Actors, Callers
  <2>5. RowsConfirmed' /\ RowsUnique' BY <2>1 DEF HandoffInv, RowsConfirmed, RowsUnique, Present
  <2>6. OwnRows' /\ AnswerInv'
    BY <2>1, <2>2
    DEF HandoffInv, OwnRows, AnswerInv, Present, RowOf, BeforeRow, FoundPC, Actors, Callers
  <2> QED BY <2>3, <2>4, <2>5, <2>6 DEF HandoffInv
<1>3. CASE Dispatch(g)
  <2>1. PICK p \in {"complete", "fail"} : Goto(g, p) /\ (p = "complete" => call[g].id \in jobs')
    BY <1>3 DEF Dispatch
  <2>2. /\ pc[g] = "dispatch" /\ RowOf(g, call[g].id) /\ call[g].id \in Generators
        /\ jobs' \in {jobs, jobs \cup {call[g].id}}
        /\ UNCHANGED <<request, call, folderVars, handoff, answer, confirmed>>
    BY <1>3 DEF Dispatch, At, HandoffInv, OwnRows, FoundPC, TypeInv, Found
  <2>3. pc'[g] = p /\ (\A a \in Actors : a # g => pc'[a] = pc[a])
        /\ \A e \in Editors : pc'[e] = pc[e]
    BY <1>g, <2>1
  <2>4. Bounded' BY <2>2, <2>3 DEF HandoffInv, Bounded, folderVars
  <2>5. ReadyConfirmed'
    BY <2>2, <2>3
    DEF HandoffInv, ReadyConfirmed, PastConfirm, FoundPC, folderVars, Actors, Callers
  <2>6. RowsConfirmed' /\ RowsUnique'
    BY <2>2 DEF HandoffInv, RowsConfirmed, RowsUnique, Present, RowOf
  <2>7. OwnRows'
    BY <2>2, <2>3 DEF HandoffInv, OwnRows, Present, RowOf, BeforeRow, FoundPC, Actors, Callers
  <2>8. AnswerInv'
    BY <2>1, <2>2, <2>3 DEF HandoffInv, AnswerInv, Present, RowOf, folderVars, Actors, Callers
  <2> QED BY <2>4, <2>5, <2>6, <2>7, <2>8 DEF HandoffInv
<1>4. ASSUME NEW st \in {"enqueued", "enqueue_failed"},
             NEW p \in {"complete_folder", "fail_folder"},
             SettleHandoff(g, st), Goto(g, p), pc[g] \in {"complete", "fail"},
             st = "enqueued" => pc[g] = "complete", p = "complete_folder" => pc[g] = "complete",
             UNCHANGED <<request, call, folderVars, jobs, answer, confirmed>>
      PROVE  HandoffInv'
  <2>1. RowOf(g, call[g].id) /\ call[g].id \in Generators
        /\ (pc[g] = "complete" => call[g].id \in jobs)
    BY <1>4 DEF HandoffInv, OwnRows, AnswerInv, FoundPC, TypeInv, Found
  <2>2. /\ \A h \in Generators : handoff'[h].rev = handoff[h].rev
                                 /\ handoff'[h].key = handoff[h].key
        /\ \A h \in Generators : h # call[g].id => handoff'[h] = handoff[h]
        /\ handoff'[call[g].id].status = st
    BY <1>t, <1>4, <2>1 DEF SettleHandoff
  <2>3. \A h \in Generators : Present(h)' <=> Present(h) BY <2>1, <2>2 DEF Present, RowOf
  <2>4. pc'[g] = p /\ (\A a \in Actors : a # g => pc'[a] = pc[a])
        /\ \A e \in Editors : pc'[e] = pc[e]
    BY <1>g, <1>4
  <2>5. Bounded' BY <1>4, <2>4 DEF HandoffInv, Bounded, folderVars
  <2>6. ReadyConfirmed'
    BY <1>4, <2>4
    DEF HandoffInv, ReadyConfirmed, PastConfirm, FoundPC, folderVars, Actors, Callers
  <2>7. RowsConfirmed' /\ RowsUnique'
    BY <1>t, <1>4, <2>2, <2>3 DEF HandoffInv, RowsConfirmed, RowsUnique
  <2>8. OwnRows'
    BY <1>4, <2>1, <2>2, <2>3, <2>4
    DEF HandoffInv, OwnRows, RowOf, BeforeRow, FoundPC, TypeInv, Found, Actors, Callers
  <2>9. AnswerInv'
    BY <1>t, <1>4, <2>1, <2>2, <2>3, <2>4
    DEF HandoffInv, AnswerInv, RowOf, folderVars, Actors, Callers
  <2> QED BY <2>5, <2>6, <2>7, <2>8, <2>9 DEF HandoffInv
<1>5. CASE CompleteHandoff(g) BY <1>4, <1>5 DEF CompleteHandoff, Move, At
<1>6. CASE FailHandoff(g) BY <1>4, <1>6 DEF FailHandoff, Move, At
<1>7. ASSUME NEW id \in jobs, RowOf(g, id), pc[g] # "done", pc[g] # "idle", Goto(g, "done"),
             Accept(g, id), enqueue' = "enqueued" => requestId' \in jobs,
             \A a \in Callers : call'[a].rev = call[a].rev /\ call'[a].key = call[a].key,
             \A a \in Callers : a # g => call'[a] = call[a],
             UNCHANGED <<request, revision, status, handoff, jobs, confirmed>>
      PROVE  HandoffInv'
  <2>1. pc'[g] = "done" /\ (\A a \in Actors : a # g => pc'[a] = pc[a])
        /\ \A e \in Editors : pc'[e] = pc[e]
    BY <1>g, <1>7
  <2>2. answer'[g] = id /\ \A h \in Generators : h # g => answer'[h] = answer[h]
    BY <1>t, <1>7 DEF Accept
  <2>3. Bounded' BY <1>7, <2>1 DEF HandoffInv, Bounded
  <2>4. ReadyConfirmed'
    BY <1>7, <2>1 DEF HandoffInv, ReadyConfirmed, PastConfirm, FoundPC, Actors, Callers
  <2>5. RowsConfirmed' /\ RowsUnique' BY <1>7 DEF HandoffInv, RowsConfirmed, RowsUnique, Present
  <2>6. OwnRows'
    BY <1>7, <2>1 DEF HandoffInv, OwnRows, Present, RowOf, BeforeRow, FoundPC, Actors, Callers
  <2>7. AnswerInv'
    BY <1>7, <2>1, <2>2 DEF HandoffInv, AnswerInv, Present, RowOf, Actors, Callers
  <2> QED BY <2>3, <2>4, <2>5, <2>6, <2>7 DEF HandoffInv
<1>8. CASE CompleteFolder(g)
  <2>1. pc[g] = "complete_folder" /\ call[g].id \in jobs /\ RowOf(g, call[g].id)
    BY <1>8 DEF CompleteFolder, Move, At, HandoffInv, OwnRows, AnswerInv, FoundPC
  <2> QED BY <1>7, <1>8, <2>1 DEF CompleteFolder, Move
<1>9. CASE FailFolder(g)
  <2>1. /\ pc[g] = "fail_folder" /\ Goto(g, "done") /\ enqueue' = "enqueue_failed"
        /\ UNCHANGED <<request, call, revision, status, handoff, jobs, answer, confirmed>>
    BY <1>9 DEF FailFolder, Move, At
  <2>2. pc'[g] = "done" /\ (\A a \in Actors : a # g => pc'[a] = pc[a])
        /\ \A e \in Editors : pc'[e] = pc[e]
    BY <1>g, <2>1
  <2>3. Bounded' BY <2>1, <2>2 DEF HandoffInv, Bounded
  <2>4. ReadyConfirmed'
    BY <2>1, <2>2 DEF HandoffInv, ReadyConfirmed, PastConfirm, FoundPC, Actors, Callers
  <2>5. RowsConfirmed' /\ RowsUnique' BY <2>1 DEF HandoffInv, RowsConfirmed, RowsUnique, Present
  <2>6. OwnRows' /\ AnswerInv'
    BY <2>1, <2>2
    DEF HandoffInv, OwnRows, AnswerInv, Present, RowOf, BeforeRow, FoundPC, Actors, Callers
  <2> QED BY <2>3, <2>4, <2>5, <2>6 DEF HandoffInv
<1>10. CASE Lookup(g) /\ answer' # answer
  <2>1. PICK h \in RowsFor(call[g].rev, call[g].key) :
          /\ call' = [call EXCEPT ![g].id = h]
          /\ handoff[h].status = "enqueued" /\ Goto(g, "done") /\ Accept(g, h)
    BY <1>10 DEF Lookup
  <2>2. h \in jobs /\ RowOf(g, h)
    BY <2>1 DEF RowsFor, RowOf, Present, HandoffInv, AnswerInv
  <2>3. /\ \A a \in Callers : call'[a].rev = call[a].rev /\ call'[a].key = call[a].key
        /\ \A a \in Callers : a # g => call'[a] = call[a]
    BY <1>t, <2>1
  <2>4. UNCHANGED <<request, revision, status, enqueue, requestId, handoff, jobs, confirmed>>
        /\ pc[g] = "lookup"
    BY <1>10 DEF Lookup, At, folderVars
  <2>5. enqueue' = "enqueued" => requestId' \in jobs BY <2>4 DEF HandoffInv, AnswerInv
  <2> QED BY <1>7, <2>1, <2>2, <2>3, <2>4, <2>5
<1>11. CASE Reread(g) /\ answer' # answer
  <2>1. /\ pc[g] = "reread" /\ Goto(g, "done") /\ Accept(g, g) /\ handoff[g].status = "enqueued"
        /\ UNCHANGED <<request, call, revision, status, enqueue, requestId, handoff, jobs,
                       confirmed>>
    BY <1>11 DEF Reread, At, folderVars
  <2>2. g \in jobs /\ RowOf(g, g)
    BY <2>1 DEF HandoffInv, OwnRows, AnswerInv, FoundPC
  <2>3. enqueue' = "enqueued" => requestId' \in jobs BY <2>1 DEF HandoffInv, AnswerInv
  <2> QED BY <1>7, <2>1, <2>2, <2>3
<1> QED BY <1>1, <1>2, <1>3, <1>5, <1>6, <1>8, <1>9, <1>10, <1>11

LEMMA NextHandoff == TypeInv /\ HandoffInv /\ [Next]_vars => HandoffInv'
<1> SUFFICES ASSUME TypeInv, HandoffInv, [Next]_vars PROVE HandoffInv'
  OBVIOUS
<1>1. ASSUME NEW e \in Editors, Edit(e) PROVE HandoffInv' BY <1>1, EditHandoff
<1>2. ASSUME NEW a \in Callers, Confirm(a) PROVE HandoffInv' BY <1>2, ConfirmHandoff
<1>3. ASSUME NEW g \in Generators, Generate(g) PROVE HandoffInv'
  <2>1. CASE Confirm(g) BY <1>2, <2>1 DEF Callers
  <2>2. CASE HandoffInsert(g) BY <2>2, GeneratorMoves, GeneratorWrites
  <2>3. CASE ~Confirm(g) /\ ~HandoffInsert(g)
    BY <1>3, <2>3, GeneratorMoves, GeneratorWrites DEF Generate
  <2> QED BY <2>1, <2>2, <2>3
<1>4. ASSUME NEW s \in Sources, Upload(s) PROVE HandoffInv' BY <1>4, UploadHandoff
<1>5. ASSUME NEW a \in Actors, Crash(a) PROVE HandoffInv' BY <1>5, CrashHandoff
<1>6. CASE UNCHANGED vars
  BY <1>6 DEF vars, folderVars, sourceVars, jobVars, history, HandoffInv, Bounded,
     ReadyConfirmed, RowsConfirmed, RowsUnique, OwnRows, AnswerInv, Present, RowOf
<1> QED BY <1>1, <1>2, <1>3, <1>4, <1>5, <1>6 DEF Next, Callers

LEMMA HandoffInvariant == Spec => [](TypeInv /\ HandoffInv)
BY InitHandoff, NextHandoff, TypeInvariant, PTL DEF Spec

-------------------------------------------------------------------------------
(* Theorems                                                                  *)

(* Every id reported to a client, or shown by the folder as its accepted     *)
(* request, is a job that exists; requests with one key for one revision are *)
(* all told the same id (generate, complete_generation_handoff).             *)
THEOREM AnswersHold == Spec => []AnswersAgree
<1>1. TypeInv /\ HandoffInv => AnswersAgree
  BY DEF HandoffInv, AnswerInv, RowsConfirmed, RowsUnique, RowOf, AnswersAgree, TypeInv, TypeOK,
     JobType
<1> QED BY <1>1, HandoffInvariant, PTL

promiseVars == <<revision, status = "ready", Confirmable, Accepted>>

LEMMA PromiseStep ==
    ASSUME TypeInv, HandoffInv, HandoffInv', [Next]_vars
    PROVE  Promise!Next \/ UNCHANGED promiseVars
<1> USE DEF promiseVars, folderVars, jobVars, history
<1>0. ASSUME UNCHANGED <<revision, status, confirmed, jobs>>,
             \A h \in jobs : handoff'[h].rev = handoff[h].rev /\ handoff'[h].key = handoff[h].key
      PROVE  UNCHANGED promiseVars
  BY <1>0 DEF Confirmable, Accepted
<1>1. ASSUME NEW e \in Editors, Edit(e) PROVE Promise!Next \/ UNCHANGED promiseVars
  <2>1. UNCHANGED <<handoff, jobs, confirmed>> BY <1>1, EditEffect
  <2>2. UNCHANGED <<Confirmable, Accepted>> BY <2>1 DEF Confirmable, Accepted
  <2>3. CASE UNCHANGED folderVars BY <2>2, <2>3
  <2>4. CASE Increment(e)
    <3>1. revision' = revision + 1 /\ status' # "ready" BY <2>4 DEF Increment
    <3>2. (status = "ready")' = FALSE BY <3>1
    <3>3. Promise!Edit BY <2>2, <3>1, <3>2 DEF Promise!Edit
    <3> QED BY <3>3 DEF Promise!Next
  <2> QED BY <1>1, <2>3, <2>4, EditEffect
<1>2. ASSUME NEW a \in Callers, Confirm(a) PROVE Promise!Next \/ UNCHANGED promiseVars
  <2>1. CASE Send(a) \/ CallAssert(a) \/ MarkList(a)
    BY <1>0, <2>1 DEF Send, CallAssert, MarkList
  <2>2. CASE Mark(a) /\ ~MarkReady(a) BY <1>0, <2>2 DEF Mark, sourceVars
  <2>3. CASE Mark(a) /\ MarkReady(a)
    <3>1. call[a].listed # {} /\ revision \in Revisions /\ call[a].rev = revision
      BY <2>3 DEF Mark, MarkReady, At, HandoffInv, Bounded, ReadyConfirmed
    <3>2. confirmed' = [confirmed EXCEPT ![revision] = call[a].listed]
          /\ UNCHANGED <<revision, handoff, jobs>> /\ status' = "ready"
      BY <2>3, <3>1 DEF Mark, MarkReady
    <3>3. Confirmable' = Confirmable \cup {revision}
      BY <3>1, <3>2 DEF Confirmable, TypeInv, TypeOK, HistoryType
    <3>4. UNCHANGED Accepted BY <3>2 DEF Accepted
    <3>5. (status = "ready")' = TRUE BY <3>2
    <3>6. Promise!Confirm BY <3>2, <3>3, <3>4, <3>5 DEF Promise!Confirm
    <3> QED BY <3>6 DEF Promise!Next
  <2> QED BY <1>2, <2>1, <2>2, <2>3 DEF Confirm
<1>3. ASSUME NEW g \in Generators, Generate(g) PROVE Promise!Next \/ UNCHANGED promiseVars
  <2>1. CASE Confirm(g) BY <1>2, <2>1 DEF Callers
  <2>2. CASE ConfirmAssert(g) \/ Lookup(g) \/ Collect(g) \/ FolderPending(g) \/ Reread(g)
             \/ CompleteFolder(g) \/ FailFolder(g)
    BY <1>0, <2>2
    DEF ConfirmAssert, Lookup, Collect, FolderPending, Reread, CompleteFolder, FailFolder
  <2>3. CASE HandoffInsert(g)
    <3>1. UNCHANGED <<revision, status, confirmed, jobs>>
      BY <2>3 DEF HandoffInsert
    <3>2. \A h \in jobs : handoff'[h] = handoff[h]
      <4>1. pc[g] = "insert" BY <2>3 DEF HandoffInsert, At
      <4>2. g \notin jobs
        BY <4>1 DEF HandoffInv, OwnRows, RowsConfirmed, BeforeRow
      <4> QED BY <2>3, <4>2 DEF HandoffInsert, TypeInv, TypeOK, JobType
    <3> QED BY <1>0, <3>1, <3>2
  <2>4. CASE CompleteHandoff(g) \/ FailHandoff(g)
    <3>1. UNCHANGED <<revision, status, confirmed, jobs>>
      BY <2>4 DEF CompleteHandoff, FailHandoff
    <3>2. \A h \in Generators : handoff'[h].rev = handoff[h].rev
                                /\ handoff'[h].key = handoff[h].key
      BY <2>4 DEF CompleteHandoff, FailHandoff, SettleHandoff, TypeInv, TypeOK, JobType
    <3> QED BY <1>0, <3>1, <3>2 DEF TypeInv, TypeOK, JobType
  <2>5. CASE Dispatch(g)
    <3> DEFINE id == call[g].id
               entry == [rev |-> handoff[id].rev, key |-> handoff[id].key, id |-> id]
    <3>1. UNCHANGED <<revision, status, confirmed, handoff>> /\ jobs' \in {jobs, jobs \cup {id}}
      BY <2>5 DEF Dispatch
    <3>2. id \in Generators /\ Present(id)
      BY <2>5 DEF Dispatch, At, TypeInv, Found, FoundPC, HandoffInv, OwnRows, RowOf
    <3>3. CASE jobs' = jobs BY <1>0, <3>1, <3>3
    <3>4. CASE id \notin jobs /\ jobs' = jobs \cup {id}
      <4>1. handoff[id].rev \in Confirmable /\ handoff[id].key \in Keys
        BY <3>2 DEF HandoffInv, RowsConfirmed, Confirmable
      <4>2. Accepted' = Accepted \cup {entry} BY <3>1, <3>4 DEF Accepted
      <4>3. \A x \in Accepted : x.rev # handoff[id].rev \/ x.key # handoff[id].key
        <5> SUFFICES ASSUME NEW h \in jobs
                     PROVE  handoff[h].rev # handoff[id].rev \/ handoff[h].key # handoff[id].key
          BY DEF Accepted
        <5>1. h \in Generators /\ Present(h) /\ h # id
          BY <3>4 DEF HandoffInv, RowsConfirmed, TypeInv, TypeOK, JobType
        <5> QED BY <3>2, <5>1 DEF HandoffInv, RowsUnique
      <4>4. UNCHANGED <<revision, status = "ready", Confirmable>> BY <3>1 DEF Confirmable
      <4>5. Promise!Accept BY <3>2, <4>1, <4>2, <4>3, <4>4 DEF Promise!Accept
      <4> QED BY <4>5 DEF Promise!Next
    <3> QED BY <3>1, <3>3, <3>4
  <2> QED BY <1>3, <2>1, <2>2, <2>3, <2>4, <2>5 DEF Generate
<1>4. ASSUME NEW s \in Sources, Upload(s) PROVE UNCHANGED promiseVars
  BY <1>0, <1>4 DEF Upload, UploadClaim, UploadClose, UploadFail, UploadPublish, UploadStep,
     UploadSupersede
<1>5. ASSUME NEW a \in Actors, Crash(a) PROVE UNCHANGED promiseVars BY <1>0, <1>5 DEF Crash
<1>6. CASE UNCHANGED vars BY <1>0, <1>6 DEF vars
<1> QED BY <1>1, <1>2, <1>3, <1>4, <1>5, <1>6 DEF Next, Callers

(* The folder implements GenerationPromise: readiness is a claim about the   *)
(* current revision that every edit withdraws, and a job is accepted only    *)
(* for a confirmed revision, once per revision and key - whatever the        *)
(* interleaving of edits, confirmations, generations and crashes.            *)
THEOREM PromiseKept == Spec => KeepsPromise
<1>1. Init => Promise!Init
  <2> SUFFICES ASSUME Init PROVE Promise!Init
    OBVIOUS
  <2>1. revision = 0 /\ (status = "ready") = FALSE BY DEF Init
  <2>2. Confirmable = {} /\ Accepted = {} BY DEF Init, Confirmable, Accepted
  <2> QED BY <2>1, <2>2 DEF Promise!Init
<1>2. TypeInv /\ HandoffInv /\ HandoffInv' /\ [Next]_vars
      => [Promise!Next]_<<revision, status = "ready", Confirmable, Accepted>>
  BY PromiseStep DEF promiseVars
<1> QED BY <1>1, <1>2, HandoffInvariant, PTL DEF Spec, KeepsPromise, Promise!Spec

-------------------------------------------------------------------------------
(***************************************************************************)
(* What it takes for a ready folder to be usable: one editor at a time, no *)
(* file uploads and no request that is cut short.                          *)
(***************************************************************************)
Usable  == Active # {} /\ Blocking = {}
Bumping == \E e \in Editors : pc[e] = "bump"

(* The folder is ready, or a request is about to declare it so.              *)
Claimed == status = "ready" \/ \E a \in Callers : pc[a] = "mark" /\ call[a].rev = revision

(* A claim holds unless an edit that invalidates it is about to bump.        *)
ClaimHolds == Claimed => Usable \/ Bumping

(* The only editor works on the revision it asserted until it bumps it.      *)
BeforeBump == {"replay", "limits", "duplicate", "insert", "check", "write", "bump"}
Alone == /\ \A e \in Editors : pc[e] \in BeforeBump => request[e].rev = revision
         /\ \A a \in Callers : call[a].rev \in 0 .. revision

(* A retry keeps its source in processing until it has inspected it.         *)
Adding == {"replay", "limits", "duplicate", "insert"}
RetryHolds == \A e \in Editors :
    /\ pc[e] \in Adding => request[e].op = "add"
    /\ pc[e] = "bump" /\ request[e].op = "retry" => source[request[e].source].status = "processing"
    /\ pc[e] = "finish" => source[request[e].source].status = "processing"

NoFiles == /\ \A s \in Sources : upload[s] = "none"
           /\ \A e \in Editors : request[e].row.kind # "file" /\ pc[e] # "session"

ReadyInv == ClaimHolds /\ Alone /\ RetryHolds /\ NoFiles

LEMMA InitReady == Init => ReadyInv
<1> SUFFICES ASSUME Init PROVE ReadyInv
  OBVIOUS
<1>1. ClaimHolds BY DEF Init, ClaimHolds, Claimed, Actors, Callers
<1>2. Alone BY DEF Init, Alone, BeforeBump, NoCall, Actors
<1>3. RetryHolds /\ NoFiles
  BY DEF Init, RetryHolds, Adding, NoFiles, NoRequest, NoSource, Actors
<1> QED BY <1>1, <1>2, <1>3 DEF ReadyInv

(* Callers neither change a source nor claim what they have not seen. *)
LEMMA CallerReady ==
    ASSUME TypeInv, ReadyInv, NEW a \in Callers, (a \in Generators /\ Generate(a)) \/ Confirm(a)
    PROVE  ReadyInv'
<1> a \in Actors BY DEF Actors
<1> USE DEF jobVars, history, sourceVars, folderVars
<1>t. /\ pc \in [Actors -> PCs] /\ revision \in Nat
      /\ call \in [Callers -> [rev : Nat, key : Keys \cup {None}, listed : SUBSET Sources,
                    id : Generators \cup {None}]]
  BY DEF TypeInv, TypeOK, ActorType, FolderType
<1>1. /\ UNCHANGED <<request, revision, source, upload>>
      /\ \A b \in Actors : b # a => pc'[b] = pc[b]
      /\ \A b \in Callers : b # a => call'[b] = call[b]
      /\ call'[a].rev \in 0 .. revision
      /\ status' = status \/ (Mark(a) /\ revision = call[a].rev)
      /\ pc'[a] = "mark" => MarkList(a)
  <2> call[a].rev \in 0 .. revision BY DEF ReadyInv, Alone
  <2> USE <1>t DEF Move, At, Goto, Fail
  <2>1. CASE Send(a) BY <2>1 DEF Send, SentRevisions
  <2>2. CASE CallAssert(a) BY <2>2 DEF CallAssert
  <2>3. CASE MarkList(a) BY <2>3 DEF MarkList
  <2>4. CASE Mark(a) BY <2>4 DEF Mark, MarkReady
  <2>5. CASE a \in Generators /\ (ConfirmAssert(a) \/ Lookup(a) \/ Collect(a))
    BY <2>5 DEF ConfirmAssert, Lookup, Collect
  <2>6. CASE a \in Generators /\ HandoffInsert(a) BY <2>6 DEF HandoffInsert
  <2>7. CASE a \in Generators /\ (FolderPending(a) \/ Reread(a) \/ Dispatch(a))
    BY <2>7 DEF FolderPending, Reread, Dispatch
  <2>8. CASE a \in Generators /\ (CompleteHandoff(a) \/ CompleteFolder(a) \/ FailHandoff(a)
                                  \/ FailFolder(a))
    BY <2>8 DEF CompleteHandoff, CompleteFolder, FailHandoff, FailFolder
  <2> QED BY <2>1, <2>2, <2>3, <2>4, <2>5, <2>6, <2>7, <2>8 DEF Generate, Confirm
<1>2. \A e \in Editors : pc'[e] = pc[e] BY <1>1, ActorsAreDistinct DEF Actors, Callers
<1>3. ClaimHolds'
  <2>1. (Usable \/ Bumping) => (Usable \/ Bumping)'
    BY <1>1, <1>2 DEF Usable, Bumping, Active, Blocking
  <2>2. CASE MarkList(a) /\ pc'[a] = "mark"
    <3>1. Usable BY <1>t, <2>2 DEF MarkList, Goto, Fail, Usable
    <3> QED BY <2>1, <3>1 DEF ClaimHolds
  <2>3. CASE pc'[a] # "mark"
    <3>1. Claimed' => Claimed BY <1>1, <2>3 DEF Claimed, Mark, At, Actors
    <3> QED BY <2>1, <3>1 DEF ClaimHolds, ReadyInv
  <2> QED BY <1>1, <2>2, <2>3
<1>4. Alone' BY <1>1, <1>2 DEF ReadyInv, Alone
<1>5. RetryHolds' /\ NoFiles' BY <1>1, <1>2 DEF ReadyInv, RetryHolds, NoFiles
<1> QED BY <1>3, <1>4, <1>5 DEF ReadyInv

(* A step of the only editor. *)
LEMMA EditorReady ==
    ASSUME \A d, e \in Editors : d = e, "file" \notin Kinds,
           TypeInv, ReadyInv, NEW e \in Editors, Edit(e)
    PROVE  ReadyInv'
<1> e \in Actors BY DEF Actors
<1>t. /\ pc \in [Actors -> PCs] /\ revision \in Nat
      /\ request \in [Editors -> [op : {"none", "add", "remove", "retry"},
            source : Sources \cup {None}, rev : Nat, wasReady : BOOLEAN, row : SourceRow]]
      /\ source \in [Sources -> SourceRow]
  BY DEF TypeInv, TypeOK, ActorType, FolderType, RowType
<1>a. \A d \in Editors : d = e OBVIOUS
<1>c. UNCHANGED call /\ \A a \in Callers : pc'[a] = pc[a]
  BY EditEffect, ActorsAreDistinct DEF Actors, Callers
<1>n. request[e].row.kind # "file" /\ pc[e] # "session" /\ \A s \in Sources : upload[s] = "none"
  BY DEF ReadyInv, NoFiles
<1> USE DEF jobVars, history, sourceVars, folderVars
(* A step that leaves folder and sources alone, before and after the bump. *)
<1>0. ASSUME UNCHANGED <<folderVars, source, upload>>, pc[e] # "bump",
             request'[e].row.kind # "file", pc'[e] # "session",
             pc'[e] \in BeforeBump => request'[e].rev = revision,
             pc'[e] \in Adding => request'[e].op = "add", pc'[e] \notin {"bump", "finish"}
      PROVE  ReadyInv'
  <2>1. Claimed' <=> Claimed BY <1>0, <1>c DEF Claimed
  <2>2. ~Bumping BY <1>0, <1>a DEF Bumping
  <2>3. Usable' <=> Usable BY <1>0 DEF Usable, Active, Blocking
  <2>4. ClaimHolds' BY <2>1, <2>2, <2>3 DEF ClaimHolds, ReadyInv
  <2>5. Alone' BY <1>0, <1>a, <1>c DEF ReadyInv, Alone
  <2>6. RetryHolds' /\ NoFiles' BY <1>0, <1>a, <1>n DEF RetryHolds, NoFiles
  <2> QED BY <2>4, <2>5, <2>6 DEF ReadyInv
(* A step that makes the bump due. *)
<1>b. ASSUME UNCHANGED <<folderVars, upload, request>>, pc'[e] = "bump", pc[e] \in BeforeBump,
             request[e].op = "retry" => source'[request[e].source].status = "processing"
      PROVE  ReadyInv'
  <2>1. ClaimHolds' BY <1>b DEF ClaimHolds, Bumping
  <2>2. Alone' BY <1>a, <1>b, <1>c DEF ReadyInv, Alone
  <2>3. RetryHolds' /\ NoFiles' BY <1>a, <1>b, <1>n DEF RetryHolds, Adding, NoFiles
  <2> QED BY <2>1, <2>2, <2>3 DEF ReadyInv
<1>r. ASSUME Return(e) PROVE pc'[e] = "idle" /\ request'[e].row.kind # "file"
  BY <1>r, <1>t DEF Return, Goto, NoRequest, NoSource
<1>g. ASSUME NEW p, Goto(e, p) PROVE pc'[e] = p BY <1>g, <1>t DEF Goto
<1>1. CASE Begin(e)
  <2>1. UNCHANGED <<folderVars, source, upload>> /\ pc[e] = "idle" /\ pc'[e] = "assert"
    BY <1>1, <1>g DEF Begin, Move, At
  <2>2. request'[e].row.kind # "file"
    <3>1. PICK op, s, row : Ask(e, op, s, row) /\ row.kind # "file"
      BY <1>1 DEF Begin, NoSource
    <3> QED BY <3>1, <1>t DEF Ask
  <2> QED BY <1>0, <2>1, <2>2 DEF BeforeBump, Adding
<1>2. CASE AssertRevision(e)
  <2>1. UNCHANGED <<folderVars, source, upload>> /\ pc[e] = "assert"
    BY <1>2 DEF AssertRevision, At
  <2>2. CASE AssertStale(e) BY <1>0, <1>r, <2>1, <2>2 DEF AssertStale, BeforeBump, Adding
  <2>3. CASE AssertFresh(e)
    <3>1. /\ pc'[e] \in {"replay", "check"} /\ request'[e].rev = revision
          /\ request'[e].row = request[e].row
          /\ pc'[e] = "replay" => request'[e].op = "add"
      BY <1>g, <1>t, <2>3 DEF AssertFresh
    <3> QED BY <1>0, <1>n, <2>1, <3>1 DEF Adding
  <2> QED BY <1>2, <2>2, <2>3 DEF AssertRevision
<1>3. CASE AddFindReplay(e) \/ AddLimits(e) \/ AddFindDuplicate(e) \/ EditCheck(e)
  <2>1. UNCHANGED <<folderVars, source, upload>> /\ pc[e] \in BeforeBump /\ pc[e] # "bump"
    BY <1>3 DEF AddFindReplay, AddLimits, AddFindDuplicate, EditCheck, At, BeforeBump
  <2>2. request[e].rev = revision BY <2>1 DEF ReadyInv, Alone
  <2>3. \/ Return(e)
        \/ UNCHANGED request /\ pc[e] \in Adding /\ \E p \in Adding : Goto(e, p)
        \/ UNCHANGED request /\ Goto(e, "write")
    BY <1>3 DEF AddFindReplay, AddLimits, AddFindDuplicate, EditCheck, At, Adding
  <2>4. CASE Return(e) BY <1>0, <1>r, <2>1, <2>4 DEF BeforeBump, Adding
  <2>5. ASSUME UNCHANGED request, NEW p \in Adding \cup {"write"}, Goto(e, p),
               p \in Adding => request[e].op = "add"
        PROVE  ReadyInv'
    <3>1. pc'[e] = p BY <1>g, <2>5
    <3> QED BY <1>0, <1>n, <2>1, <2>2, <2>5, <3>1 DEF Adding
  <2>6. pc[e] \in Adding => request[e].op = "add" BY DEF ReadyInv, RetryHolds
  <2> QED BY <2>3, <2>4, <2>5, <2>6 DEF Adding
<1>4. CASE AddInsert(e)
  <2>1. UNCHANGED <<folderVars, upload>> /\ pc[e] = "insert" BY <1>4 DEF AddInsert, At
  <2>2. CASE Return(e) /\ UNCHANGED source BY <1>0, <1>r, <2>1, <2>2 DEF BeforeBump, Adding
  <2>3. CASE Goto(e, "bump") /\ UNCHANGED request
    <3>1. request[e].op # "retry" BY <2>1 DEF ReadyInv, RetryHolds, Adding
    <3> QED BY <1>b, <1>g, <2>1, <2>3, <3>1 DEF BeforeBump
  <2> QED BY <1>4, <2>2, <2>3 DEF AddInsert
<1>5. CASE EditWrite(e)
  <2>1. /\ UNCHANGED <<folderVars, upload, request>> /\ pc[e] = "write" /\ pc'[e] = "bump"
    BY <1>5, <1>g DEF EditWrite, Move, At
  <2>2. request[e].op = "retry" => source'[request[e].source].status = "processing"
    BY <1>5, <1>t DEF EditWrite, Move, At, SetStatus, TypeInv, Asked
  <2> QED BY <1>b, <2>1, <2>2 DEF BeforeBump
<1>6. CASE EditBump(e)
  <2>1. pc[e] = "bump" /\ UNCHANGED <<source, upload>> BY <1>6 DEF EditBump, At
  <2>2. request[e].rev = revision BY <2>1 DEF ReadyInv, Alone, BeforeBump
  <2>3. /\ Increment(e) /\ Goto(e, AfterBump(e))
        /\ request' = IF AfterBump(e) = "idle" THEN [request EXCEPT ![e] = NoRequest] ELSE request
    BY <1>6, <2>2 DEF EditBump
  <2>4. /\ revision' = revision + 1 /\ status' # "ready" /\ pc'[e] = AfterBump(e)
        /\ AfterBump(e) \in {"idle", "finish"}
        /\ AfterBump(e) = "finish" => request[e].op = "retry"
    BY <1>g, <1>n, <2>3 DEF Increment, AfterBump
  <2>5. ClaimHolds'
    <3>1. \A a \in Callers : call'[a].rev # revision'
      BY <1>t, <1>c, <2>4 DEF ReadyInv, Alone
    <3> QED BY <2>4, <3>1 DEF ClaimHolds, Claimed
  <2>6. Alone' BY <1>t, <1>a, <1>c, <2>4 DEF ReadyInv, Alone, BeforeBump
  <2>7. RetryHolds' BY <1>a, <2>1, <2>3, <2>4 DEF ReadyInv, RetryHolds, Adding
  <2>8. NoFiles'
    <3>1. request'[e].row.kind # "file" BY <1>t, <1>n, <2>3 DEF NoRequest, NoSource
    <3> QED BY <1>a, <1>n, <2>1, <2>4, <3>1 DEF NoFiles
  <2> QED BY <2>5, <2>6, <2>7, <2>8 DEF ReadyInv
<1>7. CASE OpenSession(e) BY <1>7, <1>n DEF OpenSession, At
<1>8. CASE RetryFinish(e)
  <2> DEFINE s == request[e].source
  <2>1. UNCHANGED <<folderVars, upload>> /\ pc[e] = "finish" /\ Return(e)
    BY <1>8 DEF RetryFinish, At
  <2>2. s \in Blocking /\ s \in Sources
    BY <2>1 DEF ReadyInv, RetryHolds, Blocking, Active, Gone, TypeInv, Asked
  <2>3. ~Claimed BY <1>a, <2>1, <2>2 DEF ReadyInv, ClaimHolds, Usable, Bumping
  <2>4. ~Claimed' BY <1>c, <2>1, <2>3 DEF Claimed
  <2>5. pc'[e] = "idle" /\ request'[e].row.kind # "file" BY <1>r, <2>1
  <2>6. Alone' BY <1>a, <1>c, <2>1, <2>5 DEF ReadyInv, Alone, BeforeBump
  <2>7. RetryHolds' /\ NoFiles' BY <1>a, <1>n, <2>1, <2>5 DEF RetryHolds, Adding, NoFiles
  <2> QED BY <2>4, <2>6, <2>7 DEF ReadyInv, ClaimHolds
<1> QED BY <1>1, <1>2, <1>3, <1>4, <1>5, <1>6, <1>7, <1>8 DEF Edit

(* With one editor at a time, no file uploads and no request cut short, a    *)
(* folder that is ready while nobody edits holds a source and none that      *)
(* blocks: an edit between the reads and the write of mark_ready is caught   *)
(* by its compare-and-set (add_source, retry_source, mark_ready).            *)
THEOREM OneEditorReady ==
    ASSUME \A d, e \in Editors : d = e, "file" \notin Kinds, MaxCrashes = 0
    PROVE  Spec => []ReadyIsUsable
<1>1. TypeInv /\ ReadyInv /\ [Next]_vars => ReadyInv'
  <2> SUFFICES ASSUME TypeInv, ReadyInv, [Next]_vars PROVE ReadyInv'
    OBVIOUS
  <2>1. ASSUME NEW e \in Editors, Edit(e) PROVE ReadyInv' BY <2>1, EditorReady
  <2>2. ASSUME NEW a \in Confirmers, Confirm(a) PROVE ReadyInv' BY <2>2, CallerReady DEF Callers
  <2>3. ASSUME NEW g \in Generators, Generate(g) PROVE ReadyInv' BY <2>3, CallerReady DEF Callers
  <2>4. ASSUME NEW s \in Sources, Upload(s) PROVE FALSE
    BY <2>4 DEF Upload, UploadClaim, UploadClose, UploadFail, UploadPublish, UploadStep,
       UploadSupersede, ReadyInv, NoFiles
  <2>5. ASSUME NEW a \in Actors, Crash(a) PROVE FALSE
    BY <2>5 DEF Crash, TypeInv, TypeOK, HistoryType
  <2>6. CASE UNCHANGED vars
    BY <2>6 DEF vars, folderVars, sourceVars, ReadyInv, ClaimHolds, Claimed, Usable, Bumping,
       Active, Blocking, Alone, RetryHolds, NoFiles
  <2> QED BY <2>1, <2>2, <2>3, <2>4, <2>5, <2>6 DEF Next
<1>2. ReadyInv => ReadyIsUsable
  BY DEF ReadyInv, ClaimHolds, Claimed, Usable, Bumping, ReadyIsUsable
<1> QED BY <1>1, <1>2, InitReady, TypeInvariant, PTL DEF Spec
===============================================================================
