----------------------------- MODULE MCMediaUpload -----------------------------
(* Instances of MediaUpload for TLC: actors are model values, and actors of  *)
(* one kind are interchangeable.                                             *)
EXTENDS MediaUpload, TLC

ActorSymmetry == Permutations(Creators) \cup Permutations(Uploaders)
                 \cup Permutations(Reconcilers)
===============================================================================
