---- MODULE MCRebuild ----
(* Instances of Rebuild for TLC; the bounds are in the .cfg file. *)
EXTENDS Rebuild, TLC

Symmetry == Permutations(Ids)
====
