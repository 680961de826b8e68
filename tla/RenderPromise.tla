----------------------------- MODULE RenderPromise -----------------------------
(***************************************************************************)
(* What the render worker promises of each job: it runs once, it is        *)
(* delivered or dropped, that is final, and a job whose cancellation was   *)
(* accepted in time is doomed to be dropped. A restart forgets every job.  *)
(***************************************************************************)
CONSTANT Jobs
VARIABLE phase

Init == phase = [j \in Jobs |-> "none"]

Become(j, from, to) == phase[j] \in from /\ phase' = [phase EXCEPT ![j] = to]

Accept(j)  == Become(j, {"none"}, "running")
Doom(j)    == Become(j, {"running"}, "doomed")
Deliver(j) == Become(j, {"running"}, "delivered")
Drop(j)    == Become(j, {"running", "doomed"}, "dropped")
Forget     == phase' = [j \in Jobs |-> "none"]

Next == Forget \/ \E j \in Jobs : Accept(j) \/ Doom(j) \/ Deliver(j) \/ Drop(j)
Spec == Init /\ [][Next]_phase
===============================================================================
