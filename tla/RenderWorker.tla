----------------------------- MODULE RenderWorker -----------------------------
(***************************************************************************)
(* The Remotion render worker (worker/server/index.ts): an in-memory map   *)
(* of jobs and one executeRender per job. One thread runs the handlers, so *)
(* a step is what happens between two awaits. POST /renders starts         *)
(* executeRender before it answers: a job is in progress from the start,   *)
(* although the answer says queued, and neither the check of               *)
(* cancelledByRequest at its top nor the queued branch of DELETE can run.  *)
(* The clients of the worker conjoin CreateRender and CancelRender with    *)
(* what they do themselves; the other steps are the worker's own.          *)
(***************************************************************************)
EXTENDS Naturals

CONSTANTS
    Jobs,         \* job ids
    MaxRestarts   \* bound: how often the worker process may restart

ASSUME RestartsAssumption == MaxRestarts \in Nat

VARIABLES
    job,       \* the jobs map; "absent" is an id it does not hold
    render,    \* the await at which executeRender is suspended
    file,      \* the stored artifact of a job that completed
    asked,     \* history: what the render was doing when DELETE was accepted
    restarts

workerVars == <<job, render, file, asked, restarts>>

Terminal == {"completed", "failed", "cancelled"}
Absent   == [status |-> "absent", cancelledByRequest |-> FALSE]

WorkerTypeOK ==
    /\ job \in [Jobs -> [status : {"absent", "in_progress"} \cup Terminal,
                         cancelledByRequest : BOOLEAN]]
    /\ render \in [Jobs -> {"none", "composing", "rendering", "storing"}]
    /\ file \in [Jobs -> {"none", "kept", "expired"}]
    /\ asked \in [Jobs -> {"no", "early", "late"}]
    /\ restarts \in 0 .. MaxRestarts

WorkerInit ==
    /\ job = [j \in Jobs |-> Absent]
    /\ render = [j \in Jobs |-> "none"]
    /\ file = [j \in Jobs |-> "none"]
    /\ asked = [j \in Jobs |-> "no"]
    /\ restarts = 0

(* The status of job j as GET /renders/j answers it. *)
StatusOf(j) == job[j].status

-------------------------------------------------------------------------------
(* POST /renders; an id the map holds is refused with 409. *)
CreateRender(j) ==
    /\ StatusOf(j) = "absent"
    /\ job' = [job EXCEPT ![j].status = "in_progress"]
    /\ render' = [render EXCEPT ![j] = "composing"]
    /\ UNCHANGED <<file, asked, restarts>>

(* DELETE /renders/j of a job in progress: the signal fires and the map    *)
(* remembers the request; the status is left to executeRender.             *)
CancelRender(j) ==
    /\ StatusOf(j) = "in_progress"
    /\ job' = [job EXCEPT ![j].cancelledByRequest = TRUE]
    /\ asked' = [asked EXCEPT ![j] =
         IF @ # "no" THEN @ ELSE IF render[j] = "storing" THEN "late" ELSE "early"]
    /\ UNCHANGED <<render, file, restarts>>

(* The catch clause of executeRender. *)
EndUnrendered(j) ==
    /\ job' = [job EXCEPT ![j].status =
         IF job[j].cancelledByRequest THEN "cancelled" ELSE "failed"]
    /\ render' = [render EXCEPT ![j] = "none"]
    /\ UNCHANGED file

(* selectComposition does not watch the signal. *)
SelectComposition(j) ==
    /\ render[j] = "composing"
    /\ \/ render' = [render EXCEPT ![j] = "rendering"] /\ UNCHANGED <<job, file>>
       \/ EndUnrendered(j)
    /\ UNCHANGED <<asked, restarts>>

(* Mutant: the signal is not handed to renderMedia. *)
RenderMediaDeaf(j) ==
    /\ render[j] = "rendering"
    /\ \/ render' = [render EXCEPT ![j] = "storing"] /\ UNCHANGED <<job, file>>
       \/ EndUnrendered(j)
    /\ UNCHANGED <<asked, restarts>>

(* renderMedia rejects when the signal fires, or for reasons of its own. *)
RenderMedia(j) ==
    /\ render[j] = "rendering"
    /\ \/ /\ ~job[j].cancelledByRequest
          /\ render' = [render EXCEPT ![j] = "storing"]
          /\ UNCHANGED <<job, file>>
       \/ EndUnrendered(j)
    /\ UNCHANGED <<asked, restarts>>

(* storeRenderedArtifact, and the job written from renderingJob: the copy  *)
(* taken before the first await, which knows of no cancellation.           *)
StoreArtifact(j) ==
    /\ render[j] = "storing"
    /\ \/ /\ job' = [job EXCEPT ![j] = [status |-> "completed", cancelledByRequest |-> FALSE]]
          /\ render' = [render EXCEPT ![j] = "none"]
          /\ file' = [file EXCEPT ![j] = "kept"]
       \/ EndUnrendered(j)
    /\ UNCHANGED <<asked, restarts>>

ExecuteRender(j) == SelectComposition(j) \/ RenderMedia(j) \/ StoreArtifact(j)

(* The daily cleanup deletes artifacts past their retention; their jobs    *)
(* still say completed.                                                    *)
CleanupExpired(j) ==
    /\ file[j] = "kept"
    /\ file' = [file EXCEPT ![j] = "expired"]
    /\ UNCHANGED <<job, render, asked, restarts>>

(* A restart forgets the map and what was being rendered. *)
Restart ==
    /\ restarts < MaxRestarts
    /\ restarts' = restarts + 1
    /\ job' = [j \in Jobs |-> Absent]
    /\ render' = [j \in Jobs |-> "none"]
    /\ asked' = [j \in Jobs |-> "no"]
    /\ UNCHANGED file

WorkerStep == (\E j \in Jobs : ExecuteRender(j)) \/ Restart

(* The worker with clients that call it in any order. *)
WorkerNext ==
    WorkerStep \/ \E j \in Jobs : CreateRender(j) \/ CancelRender(j) \/ CleanupExpired(j)
WorkerSpec == WorkerInit /\ [][WorkerNext]_workerVars

-------------------------------------------------------------------------------
(* Seen from outside a job keeps RenderPromise: it ends once and stays     *)
(* ended, and is not delivered when its cancellation was accepted before   *)
(* the video was rendered (executeRender, DELETE).                         *)
Phase(j) ==
    CASE StatusOf(j) = "absent" -> "none"
      [] StatusOf(j) = "completed" -> "delivered"
      [] StatusOf(j) \in {"failed", "cancelled"} -> "dropped"
      [] OTHER -> IF asked[j] = "early" THEN "doomed" ELSE "running"

Promise == INSTANCE RenderPromise WITH phase <- [j \in Jobs |-> Phase(j)]
KeepsPromise == Promise!Spec
===============================================================================
