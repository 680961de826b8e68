----------------------------- MODULE MCPublishing -----------------------------
(* Instances of Publishing for TLC.                                        *)
EXTENDS Publishing, TLC

PublishSymmetry == Permutations(Publishers) \cup Permutations(Completers)
===============================================================================
