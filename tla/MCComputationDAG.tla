---- MODULE MCComputationDAG ----
(* Instances of ComputationDAG for TLC; the bounds are in the .cfg files. *)
EXTENDS ComputationDAG, TLC

\* Ids are interchangeable: nothing orders them.
Symmetry == Permutations(Ids)
====
