--------------------------- MODULE ContentLifecycle ---------------------------
(***************************************************************************)
(* The lifecycle of a content record (status/schemas.py): its statuses and *)
(* the matrix of the moves StatusService.transition accepts. The service   *)
(* is synchronous: a transition, with the row of status_changes it writes, *)
(* is one step of the server.                                              *)
(***************************************************************************)

(* ContentLifecycleStatus *)
Statuses == {"todo", "in_progress", "generated", "pending_review", "approved", "rejected",
             "scheduled", "publishing", "published", "failed", "archived"}

(* VALID_TRANSITIONS *)
ValidTransitions == [
    todo           |-> {"in_progress", "archived"},
    in_progress    |-> {"generated", "failed"},
    generated      |-> {"pending_review", "in_progress"},
    pending_review |-> {"approved", "rejected", "in_progress"},
    approved       |-> {"scheduled", "publishing", "archived"},
    rejected       |-> {"todo", "in_progress", "archived"},
    scheduled      |-> {"publishing", "approved"},
    publishing     |-> {"published", "failed"},
    published      |-> {"archived"},
    failed         |-> {"todo", "in_progress", "archived"},
    archived       |-> {"todo"}]

(* What StatusService.transition does to a status: it raises, and changes  *)
(* nothing, when the matrix has no such move.                              *)
CanMove(from, to) == to \in ValidTransitions[from]

(* MUTANT: a timeout is taken for a publication.                           *)
AdvanceTimeout(from, result) ==
    LET begun == IF from \in {"approved", "scheduled"} THEN "publishing" ELSE from
    IN  CASE result = "scheduled" -> IF from = "approved" THEN "scheduled" ELSE from
          [] begun = "publishing" /\ result \in {"published", "reconciliation_pending"} -> "published"
          [] begun = "publishing" /\ result = "failed" -> result
          [] OTHER -> begun

(* _persist_publish_result: the moves of the lifecycle for the result of a  *)
(* publication, from the record as it is by the time of the answer.        *)
Advance(from, result) ==
    LET begun == IF from \in {"approved", "scheduled"} THEN "publishing" ELSE from
    IN  CASE result = "scheduled" -> IF from = "approved" THEN "scheduled" ELSE from
          [] begun = "publishing" /\ result \in {"published", "failed"} -> result
          [] OTHER -> begun
===============================================================================
