------------------------- MODULE MCProjectIntelligence -------------------------
(* Instances of ProjectIntelligence for TLC.                               *)
EXTENDS ProjectIntelligence, TLC

IntelligenceSymmetry == Permutations(Ingesters) \cup Permutations(Removers)
                        \cup Permutations(Files)
===============================================================================
