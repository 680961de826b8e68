-------------------------- MODULE RenderWorker_proofs --------------------------
(* Theorems of RenderWorker and their proofs, for any jobs and any number of *)
(* restarts: the worker keeps RenderPromise.                                 *)
EXTENDS RenderWorker, TLAPS

-------------------------------------------------------------------------------
(* The inductive invariant                                                   *)

(* A job is in progress as long as executeRender runs; an id that the map    *)
(* does not hold was not asked for; and a render whose cancellation was      *)
(* accepted early has its signal fired and has not come to storing. Without  *)
(* the last line a doomed job could still be stored.                         *)
RunsWhileInProgress(j) ==
    /\ StatusOf(j) = "in_progress" <=> render[j] # "none"
    /\ StatusOf(j) = "absent" => asked[j] = "no"
    /\ render[j] # "none" /\ asked[j] = "early" =>
           job[j].cancelledByRequest /\ render[j] \in {"composing", "rendering"}

WorkerInv == WorkerTypeOK /\ \A j \in Jobs : RunsWhileInProgress(j)

JobRecord == [status : {"absent", "in_progress"} \cup Terminal, cancelledByRequest : BOOLEAN]

(* A step on job j that leaves the others alone. *)
OnlyJob(j) == \A k \in Jobs : k # j => /\ job'[k] = job[k] /\ render'[k] = render[k]
                                       /\ asked'[k] = asked[k]

LEMMA AtOneJob ==
    ASSUME WorkerInv, WorkerTypeOK', NEW j \in Jobs, OnlyJob(j), RunsWhileInProgress(j)'
    PROVE  WorkerInv'
<1>1. \A k \in Jobs : k # j => RunsWhileInProgress(k)'
  BY DEF WorkerInv, OnlyJob, RunsWhileInProgress, StatusOf
<1> QED BY <1>1 DEF WorkerInv

LEMMA InitInv == WorkerInit => WorkerInv
BY RestartsAssumption
   DEF WorkerInit, WorkerInv, WorkerTypeOK, RunsWhileInProgress, StatusOf, Absent, Terminal

(* The phase of one job after each step. *)
LEMMA CreateStep ==
    ASSUME WorkerInv, NEW j \in Jobs, CreateRender(j)
    PROVE  /\ WorkerInv' /\ OnlyJob(j)
           /\ Phase(j) = "none" /\ Phase(j)' = "running"
<1>1. PICK v \in JobRecord : v = [job[j] EXCEPT !.status = "in_progress"]
  BY DEF WorkerInv, WorkerTypeOK, JobRecord
<1>2. job' = [job EXCEPT ![j] = v] /\ v.status = "in_progress"
  BY <1>1 DEF CreateRender, WorkerInv, WorkerTypeOK
<1>3. WorkerTypeOK'
  BY <1>2 DEF CreateRender, WorkerInv, WorkerTypeOK, JobRecord
<1>4. OnlyJob(j) BY <1>2 DEF CreateRender, OnlyJob, WorkerInv, WorkerTypeOK
<1>5. asked[j] = "no" BY DEF WorkerInv, RunsWhileInProgress, CreateRender
<1>6. /\ StatusOf(j)' = "in_progress" /\ render'[j] = "composing" /\ asked'[j] = "no"
  BY <1>2, <1>5 DEF CreateRender, StatusOf, WorkerInv, WorkerTypeOK
<1>7. RunsWhileInProgress(j)' BY <1>6 DEF RunsWhileInProgress
<1>8. Phase(j) = "none" BY DEF CreateRender, Phase
<1>9. Phase(j)' = "running" BY <1>6 DEF Phase
<1> QED BY <1>3, <1>4, <1>7, <1>8, <1>9, AtOneJob

LEMMA CancelStep ==
    ASSUME WorkerInv, NEW j \in Jobs, CancelRender(j)
    PROVE  /\ WorkerInv' /\ OnlyJob(j)
           /\ \/ Phase(j) = "running" /\ Phase(j)' = "doomed"
              \/ Phase(j)' = Phase(j)
<1>1. PICK v \in JobRecord : v = [job[j] EXCEPT !.cancelledByRequest = TRUE]
  BY DEF WorkerInv, WorkerTypeOK, JobRecord
<1>2. /\ job' = [job EXCEPT ![j] = v] /\ v.status = "in_progress" /\ v.cancelledByRequest
  BY <1>1 DEF CancelRender, StatusOf, WorkerInv, WorkerTypeOK
<1>3. WorkerTypeOK'
  BY <1>2 DEF CancelRender, WorkerInv, WorkerTypeOK, JobRecord
<1>4. OnlyJob(j) BY <1>2 DEF CancelRender, OnlyJob, WorkerInv, WorkerTypeOK
<1>5. /\ StatusOf(j) = "in_progress" /\ StatusOf(j)' = "in_progress" /\ job'[j].cancelledByRequest
      /\ render'[j] = render[j] /\ render[j] \in {"composing", "rendering", "storing"}
      /\ asked'[j] = IF asked[j] # "no" THEN asked[j]
                     ELSE IF render[j] = "storing" THEN "late" ELSE "early"
  BY <1>2 DEF CancelRender, StatusOf, WorkerInv, WorkerTypeOK, RunsWhileInProgress
<1>6. RunsWhileInProgress(j)' BY <1>5 DEF RunsWhileInProgress, WorkerInv
<1>7. \/ Phase(j) = "running" /\ Phase(j)' = "doomed"
      \/ Phase(j)' = Phase(j)
  BY <1>5 DEF Phase
<1> QED BY <1>3, <1>4, <1>6, <1>7, AtOneJob

LEMMA EndStep ==
    ASSUME WorkerInv, NEW j \in Jobs, render[j] # "none", EndUnrendered(j),
           UNCHANGED <<asked, restarts>>
    PROVE  /\ WorkerInv' /\ OnlyJob(j)
           /\ Phase(j) \in {"running", "doomed"} /\ Phase(j)' = "dropped"
<1>1. PICK v \in JobRecord :
        v = [job[j] EXCEPT !.status = IF job[j].cancelledByRequest THEN "cancelled" ELSE "failed"]
  BY DEF WorkerInv, WorkerTypeOK, JobRecord, Terminal
<1>2. /\ job' = [job EXCEPT ![j] = v] /\ v.status \in {"cancelled", "failed"}
  BY <1>1 DEF EndUnrendered, WorkerInv, WorkerTypeOK
<1>3. WorkerTypeOK'
  BY <1>2 DEF EndUnrendered, WorkerInv, WorkerTypeOK, JobRecord
<1>4. OnlyJob(j) BY <1>2 DEF EndUnrendered, OnlyJob, WorkerInv, WorkerTypeOK
<1>5. /\ StatusOf(j) = "in_progress" /\ StatusOf(j)' \in {"cancelled", "failed"}
      /\ render'[j] = "none"
  BY <1>2 DEF EndUnrendered, StatusOf, WorkerInv, WorkerTypeOK, RunsWhileInProgress
<1>6. RunsWhileInProgress(j)' BY <1>5 DEF RunsWhileInProgress
<1>7. Phase(j) \in {"running", "doomed"} /\ Phase(j)' = "dropped" BY <1>5 DEF Phase
<1> QED BY <1>3, <1>4, <1>6, <1>7, AtOneJob

LEMMA ExecuteStep ==
    ASSUME WorkerInv, NEW j \in Jobs, ExecuteRender(j)
    PROVE  /\ WorkerInv' /\ OnlyJob(j)
           /\ \/ Phase(j) \in {"running", "doomed"} /\ Phase(j)' = "dropped"
              \/ Phase(j) = "running" /\ Phase(j)' = "delivered"
              \/ Phase(j)' = Phase(j)
<1>1. CASE EndUnrendered(j)
  <2>1. render[j] # "none" /\ UNCHANGED <<asked, restarts>>
    BY DEF ExecuteRender, SelectComposition, RenderMedia, StoreArtifact
  <2> QED BY <1>1, <2>1, EndStep
<1>2. ASSUME NEW s \in {"rendering", "storing"}, render' = [render EXCEPT ![j] = s],
             UNCHANGED <<job, file, asked, restarts>>, render[j] # "none",
             s = "storing" => ~job[j].cancelledByRequest
      PROVE  WorkerInv' /\ OnlyJob(j) /\ Phase(j)' = Phase(j)
  <2>1. WorkerTypeOK' BY <1>2 DEF WorkerInv, WorkerTypeOK
  <2>2. OnlyJob(j) BY <1>2 DEF OnlyJob, WorkerInv, WorkerTypeOK
  <2>3. RunsWhileInProgress(j)'
    BY <1>2 DEF WorkerInv, WorkerTypeOK, RunsWhileInProgress, StatusOf
  <2>4. Phase(j)' = Phase(j) BY <1>2 DEF Phase, StatusOf
  <2> QED BY <2>1, <2>2, <2>3, <2>4, AtOneJob
<1>3. CASE /\ render[j] = "storing"
           /\ job' = [job EXCEPT ![j] = [status |-> "completed", cancelledByRequest |-> FALSE]]
           /\ render' = [render EXCEPT ![j] = "none"]
           /\ file' = [file EXCEPT ![j] = "kept"]
           /\ UNCHANGED <<asked, restarts>>
  <2>1. WorkerTypeOK' BY <1>3 DEF WorkerInv, WorkerTypeOK, Terminal
  <2>2. OnlyJob(j) BY <1>3 DEF OnlyJob, WorkerInv, WorkerTypeOK
  <2>3. StatusOf(j)' = "completed" /\ render'[j] = "none"
    BY <1>3 DEF StatusOf, WorkerInv, WorkerTypeOK
  <2>4. RunsWhileInProgress(j)' BY <2>3 DEF RunsWhileInProgress
  <2>5. StatusOf(j) = "in_progress" /\ asked[j] # "early"
    BY <1>3 DEF WorkerInv, RunsWhileInProgress
  <2>6. Phase(j) = "running" BY <2>5 DEF Phase
  <2>7. Phase(j)' = "delivered" BY <2>3 DEF Phase
  <2> QED BY <2>1, <2>2, <2>4, <2>6, <2>7, AtOneJob
<1> QED
  BY <1>1, <1>2, <1>3 DEF ExecuteRender, SelectComposition, RenderMedia, StoreArtifact

LEMMA CleanupStep ==
    ASSUME WorkerInv, NEW j \in Jobs, CleanupExpired(j)
    PROVE  WorkerInv' /\ \A k \in Jobs : Phase(k)' = Phase(k)
BY DEF CleanupExpired, WorkerInv, WorkerTypeOK, RunsWhileInProgress, StatusOf, Phase

LEMMA RestartStep ==
    ASSUME WorkerInv, Restart
    PROVE  WorkerInv' /\ \A k \in Jobs : Phase(k)' = "none"
<1>1. WorkerTypeOK'
  BY RestartsAssumption DEF Restart, WorkerInv, WorkerTypeOK, Absent, Terminal
<1>2. \A k \in Jobs : StatusOf(k)' = "absent" /\ render'[k] = "none" /\ asked'[k] = "no"
  BY DEF Restart, StatusOf, Absent
<1> QED BY <1>1, <1>2 DEF WorkerInv, RunsWhileInProgress, Phase

LEMMA NextInv == WorkerInv /\ [WorkerNext]_workerVars => WorkerInv'
<1> SUFFICES ASSUME WorkerInv, [WorkerNext]_workerVars PROVE WorkerInv'
  OBVIOUS
<1>1. CASE UNCHANGED workerVars
  BY <1>1 DEF workerVars, WorkerInv, WorkerTypeOK, RunsWhileInProgress, StatusOf
<1> QED
  BY <1>1, CreateStep, CancelStep, ExecuteStep, CleanupStep, RestartStep
     DEF WorkerNext, WorkerStep

LEMMA WorkerInvHolds == WorkerSpec => []WorkerInv
<1>1. WorkerInit => WorkerInv BY InitInv
<1>2. WorkerInv /\ [WorkerNext]_workerVars => WorkerInv' BY NextInv
<1> QED BY <1>1, <1>2, PTL DEF WorkerSpec

(* The types of the worker hold in every reachable state.                    *)
THEOREM WorkerTypeCorrect == WorkerSpec => []WorkerTypeOK
<1>1. WorkerInv => WorkerTypeOK BY DEF WorkerInv
<1> QED BY <1>1, WorkerInvHolds, PTL

-------------------------------------------------------------------------------
(* What the clients of the worker may rely on                                *)

(* A file that was stored once is never unmade: it may expire.               *)
FilesKept == \A j \in Jobs : file[j] # "none" => file'[j] # "none"

LEMMA WorkerKeepsFiles ==
    ASSUME WorkerInv, [WorkerNext]_workerVars
    PROVE  FilesKept
BY DEF WorkerInv, WorkerTypeOK, WorkerNext, WorkerStep, workerVars, FilesKept, CreateRender,
       CancelRender, ExecuteRender, SelectComposition, RenderMedia, StoreArtifact, EndUnrendered,
       CleanupExpired, Restart

(* The worker says completed of a job only when it has stored its file, and  *)
(* when it restarts it forgets the job before the file.                      *)
CompletedIsStored == \A j \in Jobs : StatusOf(j) = "completed" => file[j] # "none"

LEMMA StoredAtStart == WorkerInit => CompletedIsStored
BY DEF WorkerInit, CompletedIsStored, StatusOf, Absent

LEMMA StoredStays ==
    ASSUME WorkerInv, CompletedIsStored, [WorkerNext]_workerVars
    PROVE  CompletedIsStored'
<1>1. ASSUME NEW j \in Jobs, CreateRender(j) \/ CancelRender(j) PROVE CompletedIsStored'
  <2>1. /\ UNCHANGED file
        /\ \A k \in Jobs : job'[k].status = "completed" => job[k].status = "completed"
    BY <1>1 DEF CreateRender, CancelRender, StatusOf, WorkerInv, WorkerTypeOK
  <2> QED BY <2>1 DEF CompletedIsStored, StatusOf
<1>2. ASSUME NEW j \in Jobs, EndUnrendered(j) PROVE CompletedIsStored'
  <2>1. /\ UNCHANGED file
        /\ \A k \in Jobs : job'[k].status = "completed" => job[k].status = "completed"
    BY <1>2 DEF EndUnrendered, WorkerInv, WorkerTypeOK
  <2> QED BY <2>1 DEF CompletedIsStored, StatusOf
<1>3. ASSUME NEW j \in Jobs, ExecuteRender(j), ~EndUnrendered(j) PROVE CompletedIsStored'
  BY <1>3 DEF ExecuteRender, SelectComposition, RenderMedia, StoreArtifact, CompletedIsStored,
              StatusOf, WorkerInv, WorkerTypeOK
<1>4. ASSUME NEW j \in Jobs, CleanupExpired(j) PROVE CompletedIsStored'
  BY <1>4 DEF CleanupExpired, CompletedIsStored, StatusOf, WorkerInv, WorkerTypeOK
<1>5. CASE Restart
  BY <1>5 DEF Restart, CompletedIsStored, StatusOf, Absent
<1>6. CASE UNCHANGED workerVars
  BY <1>6 DEF workerVars, CompletedIsStored, StatusOf
<1> QED BY <1>1, <1>2, <1>3, <1>4, <1>5, <1>6 DEF WorkerNext, WorkerStep

-------------------------------------------------------------------------------
(* The refinement                                                            *)

PhaseMap == [j \in Jobs |-> Phase(j)]

LEMMA PhaseUpdate ==
    ASSUME WorkerInv, NEW j \in Jobs, OnlyJob(j), NEW to, Phase(j)' = to
    PROVE  PhaseMap' = [PhaseMap EXCEPT ![j] = to]
<1>1. \A k \in Jobs : k # j => Phase(k)' = Phase(k)
  BY DEF OnlyJob, Phase, StatusOf
<1>2. PhaseMap' = [k \in Jobs |-> Phase(k)'] BY DEF PhaseMap
<1>3. [PhaseMap EXCEPT ![j] = to] = [k \in Jobs |-> IF k = j THEN to ELSE Phase(k)]
  BY DEF PhaseMap
<1> HIDE DEF PhaseMap
<1> QED BY <1>1, <1>2, <1>3

LEMMA StepPromised ==
    ASSUME WorkerInv, [WorkerNext]_workerVars
    PROVE  [Promise!Next]_PhaseMap
<1>1. ASSUME NEW j \in Jobs, OnlyJob(j), Phase(j)' = Phase(j) PROVE UNCHANGED PhaseMap
  <2>1. PhaseMap' = [PhaseMap EXCEPT ![j] = Phase(j)] BY <1>1, PhaseUpdate
  <2>2. PhaseMap[j] = Phase(j) /\ PhaseMap = [k \in Jobs |-> PhaseMap[k]] BY DEF PhaseMap
  <2> HIDE DEF PhaseMap
  <2> QED BY <2>1, <2>2
<1>2. ASSUME NEW j \in Jobs, OnlyJob(j),
             \/ Phase(j) = "none" /\ Phase(j)' = "running"
             \/ Phase(j) = "running" /\ Phase(j)' = "doomed"
             \/ Phase(j) = "running" /\ Phase(j)' = "delivered"
             \/ Phase(j) \in {"running", "doomed"} /\ Phase(j)' = "dropped"
      PROVE  Promise!Next
  <2>1. PhaseMap[j] = Phase(j) BY DEF PhaseMap
  <2>2. Promise!Accept(j) \/ Promise!Doom(j) \/ Promise!Deliver(j) \/ Promise!Drop(j)
    BY <1>2, <2>1, PhaseUpdate
       DEF Promise!Accept, Promise!Doom, Promise!Deliver, Promise!Drop, Promise!Become, PhaseMap
  <2> QED BY <2>2 DEF Promise!Next
<1>3. ASSUME NEW j \in Jobs, CreateRender(j) PROVE Promise!Next
  BY <1>2, <1>3, CreateStep
<1>4. ASSUME NEW j \in Jobs, CancelRender(j) PROVE [Promise!Next]_PhaseMap
  BY <1>1, <1>2, <1>4, CancelStep
<1>5. ASSUME NEW j \in Jobs, ExecuteRender(j) PROVE [Promise!Next]_PhaseMap
  BY <1>1, <1>2, <1>5, ExecuteStep
<1>6. ASSUME NEW j \in Jobs, CleanupExpired(j) PROVE UNCHANGED PhaseMap
  BY <1>6, CleanupStep DEF PhaseMap
<1>7. CASE Restart
  <2>1. PhaseMap' = [k \in Jobs |-> "none"] BY <1>7, RestartStep DEF PhaseMap
  <2> QED BY <2>1 DEF Promise!Next, Promise!Forget, PhaseMap
<1>8. CASE UNCHANGED workerVars
  BY <1>8 DEF workerVars, PhaseMap, Phase, StatusOf
<1> QED BY <1>3, <1>4, <1>5, <1>6, <1>7, <1>8 DEF WorkerNext, WorkerStep

(* The worker keeps RenderPromise whatever its clients ask, and when: a job  *)
(* ends once and stays ended, and is not delivered when its cancellation was *)
(* accepted before the video was rendered (executeRender, DELETE).           *)
THEOREM WorkerKeepsPromise == WorkerSpec => KeepsPromise
<1>1. WorkerInit => Promise!Init
  BY DEF WorkerInit, Promise!Init, Phase, StatusOf, Absent
<1>2. WorkerInv /\ [WorkerNext]_workerVars => [Promise!Next]_PhaseMap
  BY StepPromised
<1> QED BY <1>1, <1>2, WorkerInvHolds, PTL DEF WorkerSpec, KeepsPromise, Promise!Spec, PhaseMap
===============================================================================
