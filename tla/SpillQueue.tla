------------------------------ MODULE SpillQueue ------------------------------
(***************************************************************************)
(* What a SpillRing promises its user: a FIFO queue of at most N items in   *)
(* which a push never fails.  An arrival that does not fit moves the oldest *)
(* items to the spout, which therefore receives items in arrival order.     *)
(*                                                                         *)
(* Items are the numbers 1, 2, 3, ... in the order in which the user hands  *)
(* them over, so that order and identity are the same thing.                *)
(***************************************************************************)
EXTENDS Integers, Sequences

CONSTANTS
  N,         \* the capacity of the queue
  MaxItems   \* bound of the model: how many items the user ever hands over

VARIABLES
  offered,   \* number of items handed over so far
  queue,     \* the items held, oldest first
  spilled,   \* what the spout has received, in order
  taken      \* what the user has got back, in order

vars == <<offered, queue, spilled, taken>>

Init ==
  /\ offered = 0
  /\ queue = <<>>
  /\ spilled = <<>>
  /\ taken = <<>>

\* The next n items, in order.
Arriving(n) == [i \in 1 .. n |-> offered + i]

First(q, k) == SubSeq(q, 1, k)
Rest(q, k)  == SubSeq(q, k + 1, Len(q))

\* n items arrive at once and exactly as many of the oldest leave as do not fit.
Push(n) ==
  LET all    == queue \o Arriving(n)
      excess == IF Len(all) > N THEN Len(all) - N ELSE 0
  IN  /\ offered + n <= MaxItems
      /\ offered' = offered + n
      /\ queue' = Rest(all, excess)
      /\ spilled' = spilled \o First(all, excess)
      /\ UNCHANGED taken

\* One item arrives and everything leaves.
PushAndFlush ==
  /\ offered < MaxItems
  /\ offered' = offered + 1
  /\ queue' = <<>>
  /\ spilled' = spilled \o queue \o Arriving(1)
  /\ UNCHANGED taken

Flush ==
  /\ queue # <<>>
  /\ queue' = <<>>
  /\ spilled' = spilled \o queue
  /\ UNCHANGED <<offered, taken>>

\* The user takes the k oldest items.
Take(k) ==
  /\ k <= Len(queue)
  /\ queue' = Rest(queue, k)
  /\ taken' = taken \o First(queue, k)
  /\ UNCHANGED <<offered, spilled>>

Next ==
  \/ \E n \in 1 .. MaxItems : Push(n)
  \/ PushAndFlush
  \/ Flush
  \/ \E k \in 1 .. N : Take(k)

Spec == Init /\ [][Next]_vars
===============================================================================
