------------------------------- MODULE ColdLog -------------------------------
(***************************************************************************)
(* What every cold tier promises, whatever it buffers: checkpoints reach    *)
(* storage in the order in which store() took them, none is skipped and     *)
(* none comes twice; a crash only loses the latest of them.  remove() acts on   *)
(* what has reached storage.                                                *)
(***************************************************************************)
EXTENDS Sequences, Integers

CONSTANTS Ids, Versions

VARIABLES
  queue,    \* taken by store() and not yet in storage, as [id, ver]
  visible,  \* the version of each id in storage, 0 for none
  hidden    \* a copy that remove() has failed to delete, 0 for none

vars == <<queue, visible, hidden>>

None == [id \in Ids |-> 0]

Init == queue = <<>> /\ visible = None /\ hidden = None

\* The versions after the entries of es have been written one after the other.
Written(v, es) ==
  [id \in Ids |->
     LET at == {i \in DOMAIN es : es[i].id = id}
     IN  IF at = {} THEN v[id] ELSE es[CHOOSE i \in at : \A j \in at : j <= i].ver]

\* The first n entries of q reach storage.
Deliver(q, n) ==
  LET es == SubSeq(q, 1, n)
  IN  /\ visible' = Written(visible, es)
      /\ hidden' = [id \in Ids |->
                      IF \E i \in DOMAIN es : es[i].id = id THEN 0 ELSE hidden[id]]

Store(e) ==
  LET q == Append(queue, e)
  IN  \E n \in 0 .. Len(q) : Deliver(q, n) /\ queue' = SubSeq(q, n + 1, Len(q))

Flush == Deliver(queue, Len(queue)) /\ queue' = <<>>

Remove(S) ==
  /\ UNCHANGED queue
  /\ visible' = [id \in Ids |-> IF id \in S THEN 0 ELSE visible[id]]
  /\ \E F \in SUBSET S :
       hidden' = [id \in Ids |-> IF id \in F /\ visible[id] # 0 THEN visible[id]
                                 ELSE hidden[id]]

\* The tier goes away: a prefix of the queue has been written, the rest is lost.
\* A storage in memory goes with it.
Stop ==
  /\ queue' = <<>>
  /\ \/ \E n \in 0 .. Len(queue) : Deliver(queue, n)
     \/ visible' = None /\ hidden' = None

\* A storage that lists its files finds those that could not be deleted.
Reopen ==
  /\ queue = <<>> /\ UNCHANGED queue
  /\ visible' = [id \in Ids |-> IF hidden[id] # 0 THEN hidden[id] ELSE visible[id]]
  /\ hidden' = None

Next ==
  \/ \E id \in Ids : \E v \in Versions : Store([id |-> id, ver |-> v])
  \/ Flush
  \/ \E S \in SUBSET Ids : Remove(S)
  \/ Stop
  \/ Reopen

Spec == Init /\ [][Next]_vars
==============================================================================
