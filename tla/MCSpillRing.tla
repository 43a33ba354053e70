---- MODULE MCSpillRing ----
(* Instances of SpillRing for TLC; the bounds are in the .cfg files. *)
EXTENDS SpillRing
====
