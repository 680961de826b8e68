---------------------------- MODULE MCVideoTimeline ----------------------------
(* Instances of VideoTimeline for TLC: clients of one kind and request keys  *)
(* are interchangeable; job and version numbers are not.                     *)
EXTENDS VideoTimeline, TLC

TimelineSymmetry == Permutations(Editors) \cup Permutations(Renderers)
                    \cup Permutations(Pollers) \cup Permutations(Keys \ {None})
===============================================================================
