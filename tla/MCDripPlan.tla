------------------------------ MODULE MCDripPlan ------------------------------
(* Instances of DripPlan for TLC.                                          *)
EXTENDS DripPlan, TLC

FileSymmetry == Permutations(Files)
===============================================================================
