-------------------------- MODULE GenerationPromise --------------------------
(***************************************************************************)
(* What a source folder promises to whoever asks for a video: readiness is *)
(* a claim about the current revision and every edit withdraws it; a       *)
(* generation request is accepted for a revision that was confirmed, and   *)
(* at most once per revision and idempotency key.                          *)
(***************************************************************************)
EXTENDS Naturals

CONSTANTS Keys, Ids

VARIABLES revision, ready, confirmed, accepted

Init == revision = 0 /\ ready = FALSE /\ confirmed = {} /\ accepted = {}

Edit == /\ revision' = revision + 1
        /\ ready' = FALSE
        /\ UNCHANGED <<confirmed, accepted>>

Confirm == /\ ready' = TRUE
           /\ confirmed' = confirmed \cup {revision}
           /\ UNCHANGED <<revision, accepted>>

Accept == \E r \in confirmed, k \in Keys, i \in Ids :
    /\ \A a \in accepted : a.rev # r \/ a.key # k
    /\ accepted' = accepted \cup {[rev |-> r, key |-> k, id |-> i]}
    /\ UNCHANGED <<revision, ready, confirmed>>

Next == Edit \/ Confirm \/ Accept

Spec == Init /\ [][Next]_<<revision, ready, confirmed, accepted>>
===============================================================================
