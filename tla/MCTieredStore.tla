---- MODULE MCTieredStore ----
(* An instance of TieredStore for TLC; the bounds are in the .cfg file. *)
EXTENDS TieredStore, TLC

\* Ids are interchangeable: only the order of their writes matters.
Symmetry == Permutations(Ids)
====
