---------------------------- MODULE MCSourceFolder ----------------------------
(* Instances of SourceFolder for TLC: actors of one kind, source keys and    *)
(* generation keys are interchangeable.                                      *)
EXTENDS SourceFolder, TLC

FolderSymmetry == Permutations(Editors) \cup Permutations(Confirmers)
                  \cup Permutations(Generators) \cup Permutations(Sources)
                  \cup Permutations(Keys) \cup Permutations(Texts)
===============================================================================
