---- MODULE MCPebbleManager ----
(* Instances of PebbleManager for TLC; the bounds are in the .cfg files. *)
EXTENDS PebbleManager, TLC

\* Ids are interchangeable: only the order of their creation matters.
Symmetry == Permutations(Ids)
====
