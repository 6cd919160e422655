----------------------------- MODULE MCLifecycle -----------------------------
(* Lifecycle on small instances: model values for the ids and actors come   *)
(* from the configurations; epics and milestones are interchangeable.       *)
EXTENDS Lifecycle, TLC

Symmetry == Permutations(Epics) \cup Permutations(Milestones)

\* The last answer decides nothing and is read in the step that gives it.
View == <<disk, head>>
=============================================================================
