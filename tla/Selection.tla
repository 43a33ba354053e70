------------------------------ MODULE Selection ------------------------------
(***************************************************************************)
(* The items of a sequence that are in a set, in their order: what SelectSeq *)
(* gives for the test \in.  It is defined by the positions of the items and  *)
(* not by recursion, so that proofs can reason about it.                     *)
(***************************************************************************)
EXTENDS Integers, Sequences, FiniteSets

Elements(s) == {s[i] : i \in DOMAIN s}

\* How many of the positions A there are up to i.
Rank(A, i) == Cardinality({j \in A : j <= i})

Only(s, P) ==
  LET at == {i \in DOMAIN s : s[i] \in P}
  IN  [k \in 1 .. Cardinality(at) |-> s[CHOOSE i \in at : Rank(at, i) = k]]

Without(s, P) == Only(s, Elements(s) \ P)
===============================================================================
