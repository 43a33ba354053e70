---- MODULE MCFanIn ----
(* Instances of FanIn for TLC; the bounds are in the .cfg files. *)
EXTENDS FanIn
====
