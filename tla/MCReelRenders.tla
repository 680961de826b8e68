----------------------------- MODULE MCReelRenders -----------------------------
(* Instances of ReelRenders for TLC: clients and contents are interchangeable. *)
EXTENDS ReelRenders, TLC

ReelSymmetry == Permutations(Creators) \cup Permutations(Watchers) \cup Permutations(Contents)
===============================================================================
