---------------------------- MODULE CheckpointStore ----------------------------
(***************************************************************************)
(* What a PebbleManager promises its user: a map from ids to checkpoints     *)
(* with their dependencies.  Tiers do not show.  Closing the manager keeps   *)
(* the map; a crash may lose checkpoints, but never part of one, never one   *)
(* of a surviving checkpoint's dependencies, and it brings nothing back.     *)
(***************************************************************************)
EXTENDS Integers

CONSTANTS
  Ids,      \* checkpoint ids
  MaxAdds   \* bound of the model: adds per id

VARIABLES
  live,     \* content (0: none) and dependencies of each id
  status    \* "up": a manager is open; else how the last one ended:
            \* "closed" with success, or "down"

vars == <<live, status>>

None == [ver |-> 0, deps |-> {}]
Present == {id \in Ids : live[id].ver # 0}

Init ==
  /\ live = [id \in Ids |-> None]
  /\ status = "up"

Add(id, ds, v) ==
  /\ status = "up"
  /\ id \notin Present
  /\ ds \subseteq Present
  /\ live' = [live EXCEPT ![id] = [ver |-> v, deps |-> ds]]
  /\ UNCHANGED status

\* Checkpoints leave; the others no longer depend on them.
RemoveAll(S) ==
  /\ status = "up"
  /\ S \subseteq Present
  /\ live' = [id \in Ids |-> IF id \in S THEN None
                             ELSE [live[id] EXCEPT !.deps = @ \ S]]
  /\ UNCHANGED status

\* Only what depended on something removed may go with it: a purge never takes
\* a checkpoint that still has a dependency.
Remove(id) == RemoveAll({id})
Purge(S) ==
  /\ \A id \in S : live[id].deps \subseteq S
  /\ RemoveAll(S)

Close ==
  /\ status = "up"
  /\ status' = "closed"
  /\ UNCHANGED live

Crash(S) ==
  /\ status = "up"
  /\ status' = "down"
  /\ S \subseteq Present
  /\ \A id \in S : live[id].deps \subseteq S
  /\ live' = [id \in Ids |-> IF id \in S THEN live[id] ELSE None]

Open ==
  /\ status # "up"
  /\ status' = "up"
  /\ UNCHANGED live

Next ==
  \/ \E id \in Ids : \E ds \in SUBSET Ids : \E v \in 1 .. MaxAdds : Add(id, ds, v)
  \/ \E id \in Ids : Remove(id)
  \/ \E S \in SUBSET Ids : Purge(S)
  \/ Close
  \/ \E S \in SUBSET Ids : Crash(S)
  \/ Open

Spec == Init /\ [][Next]_vars
===============================================================================
