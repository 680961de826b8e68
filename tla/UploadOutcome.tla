----------------------------- MODULE UploadOutcome -----------------------------
(***************************************************************************)
(* What the upload requests promise about one upload session, seen from    *)
(* outside: the session leaves "created" once, along one path; only the    *)
(* request that owns "processing" decides the outcome; and once the source *)
(* is published as ready, nothing about the upload changes any more.       *)
(***************************************************************************)
VARIABLES outcome, published

Init == outcome = "none" /\ published = FALSE

Move(from, to) == outcome \in from /\ outcome' \in to /\ UNCHANGED published

Open    == Move({"none"}, {"created"})
Close   == Move({"created"}, {"aborted", "expired"})
Own     == Move({"created"}, {"processing"})
Decide  == Move({"processing"}, {"completed", "failed", "orphan_cleanup_needed"})
Withdraw == ~published /\ Move({"completed"}, {"failed", "orphan_cleanup_needed"})
Publish == outcome = "completed" /\ ~published /\ published' = TRUE /\ UNCHANGED outcome

Next == Open \/ Close \/ Own \/ Decide \/ Withdraw \/ Publish

Spec == Init /\ [][Next]_<<outcome, published>>
===============================================================================
