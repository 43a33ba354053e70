-------------------------------- MODULE FanIn --------------------------------
(***************************************************************************)
(* spill-ring/src/mpsc/tpc: fan_in.rs, collector.rs, merger.rs, streaming.rs  *)
(* and the SequencedSpout they deliver to.  The owner of a worker pool        *)
(* dispatches rounds and, between two calls, lets one or several mergers      *)
(* flush: each takes the batches published in its own slots, submits them     *)
(* under the number it reads from the slot and gives the rings back.          *)
(*                                                                         *)
(* A sequenced collector emits a batch that is due, buffers one that is       *)
(* early and emits one that is late; the end of a flush makes the next        *)
(* number due.  Numbers are stamped on slots by dispatch, not on batches.     *)
(*                                                                         *)
(* Wake-ups, panics and shutdown are WorkerPool's; here a worker has the     *)
(* steps that decide what its slot holds.  The k-th item of worker w is   *)
(* <<w, k>>, and rings are large enough (WorkerPool models their overflow).   *)
(***************************************************************************)
EXTENDS Selection

CONSTANTS
  NumWorkers,  \* num_workers
  MaxMergers,  \* the largest number of mergers a caller asks for
  OutFails,    \* whether the inner spout may refuse an item
  None,        \* a null batch pointer
  MaxRounds,   \* bound of the model: rounds dispatched
  MaxFlushes   \* bound of the model: flushes

ASSUME FanInAssumption ==
  /\ NumWorkers \in Nat \ {0}
  /\ MaxMergers \in 1 .. NumWorkers
  /\ OutFails \in BOOLEAN
  /\ MaxRounds \in Nat
  /\ MaxFlushes \in Nat
  /\ None \notin Seq((0 .. NumWorkers - 1) \X Nat)

Workers == 0 .. NumWorkers - 1

VARIABLES
  \* the pool
  round,      \* rounds dispatched: the next batch_seq
  stamp,      \* batch_seq of the slots, as dispatch() stamps them all alike
  unjoined,   \* dispatch() has not been followed by a join() that returned Ok
  go, done,   \* the workers' signals
  \* the workers
  pc,         \* "wait", "take" or "publish"
  ran,        \* the round each item of a worker belongs to
  active,     \* the ring a worker pushes to
  batch,      \* the published ring, or None
  recycle,    \* whether an empty ring waits in the recycle slot
  \* the collectors
  mergers,    \* their number; 1 is a FanInSpout
  ordered,    \* SequencedCollector or UnorderedCollector
  mpc,        \* "idle", "take", "recycle" or "finish"
  at,         \* the slot a merger is at
  next,       \* next_expected
  pending,    \* pending[m][s]: what is buffered under the number s
  out,        \* what the inner spout of each merger has received
  \* observation
  flushes,
  lost,       \* items dropped by a failed send or with a collector
  steady,     \* the caller has joined and then flushed every round, once
  fresh       \* no round since the last complete flush of every merger

pool    == <<round, stamp, unjoined, go, done>>
workers == <<pc, ran, active, batch, recycle>>
chosen  == <<mergers, ordered>>
merging == <<mpc, at, next, pending, out>>
history == <<flushes, lost, steady, fresh>>
vars    == <<pool, workers, chosen, merging, history>>

Mergers  == 0 .. mergers - 1
Merger(w) == w % mergers     \* merger m has the slots m, m + M, m + 2M, ...
Flushing == \E m \in Mergers : mpc[m] # "idle"

Init ==
  /\ round = 0 /\ stamp = 0 /\ unjoined = FALSE
  /\ go = [w \in Workers |-> FALSE]
  /\ done = [w \in Workers |-> FALSE]
  /\ pc = [w \in Workers |-> "wait"]
  /\ ran = [w \in Workers |-> <<>>]
  /\ active = [w \in Workers |-> <<>>]
  /\ batch = [w \in Workers |-> None]
  /\ recycle = [w \in Workers |-> TRUE]
  /\ mergers \in 1 .. MaxMergers /\ ordered \in BOOLEAN
  /\ mpc = [m \in Mergers |-> "idle"]
  /\ at = [m \in Mergers |-> 0]
  /\ next = [m \in Mergers |-> 0]
  /\ pending = [m \in Mergers |-> [s \in 0 .. MaxRounds |-> <<>>]]
  /\ out = [m \in Mergers |-> <<>>]
  /\ flushes = 0 /\ lost = {} /\ steady = TRUE /\ fresh = TRUE

-------------------------------------------------------------------------------
(* The owner of the pool.  &mut self: no call while mergers flush. *)

Dispatch ==
  /\ ~Flushing
  /\ round < MaxRounds
  /\ stamp' = round
  /\ round' = round + 1
  /\ unjoined' = TRUE
  /\ go' = [w \in Workers |-> TRUE]
  /\ steady' = (steady /\ fresh /\ ~unjoined)
  /\ fresh' = FALSE
  /\ UNCHANGED <<done, workers, chosen, merging, flushes, lost>>

RoundDone == \A w \in Workers : done[w]
\* join returns once every worker is done.
Join ==
  /\ ~Flushing
  /\ RoundDone
  /\ done' = [w \in Workers |-> FALSE]
  /\ unjoined' = FALSE
  /\ UNCHANGED <<round, stamp, go, workers, chosen, merging, history>>

FirstSlot(m) == m

\* mergers().iter_mut(), each flushing in a thread of its own, or some of them.
Flush(S) ==
  /\ ~Flushing /\ flushes < MaxFlushes
  /\ mpc' = [m \in Mergers |-> IF m \in S THEN "take" ELSE "idle"]
  /\ at' = [m \in Mergers |-> FirstSlot(m)]
  /\ flushes' = flushes + 1
  /\ steady' = (steady /\ ~fresh /\ ~unjoined /\ S = Mergers)
  /\ fresh' = (S = Mergers)
  /\ UNCHANGED <<pool, workers, chosen, next, pending, out, lost>>

Buffered(m) == UNION {Elements(pending[m][s]) : s \in DOMAIN pending[m]}

\* with_fan_in, with_mergers: the collectors of a new scope start at number 0, and
\* what the old ones still buffer is dropped with them.
NewCollectors ==
  /\ ~Flushing /\ ordered
  /\ \E m \in Mergers : next[m] # 0
  /\ next' = [m \in Mergers |-> 0]
  /\ pending' = [m \in Mergers |-> [s \in 0 .. MaxRounds |-> <<>>]]
  /\ lost' = lost \union UNION {Buffered(m) : m \in Mergers}
  /\ steady' = FALSE
  /\ UNCHANGED <<pool, workers, chosen, mpc, at, out, flushes, fresh>>

-------------------------------------------------------------------------------
(* worker_loop *)

\* wait_for_go, clear_go and the work function, which pushes an item for the round
\* whose arguments are current.
Work(w) ==
  /\ pc[w] = "wait" /\ go[w]
  /\ go' = [go EXCEPT ![w] = FALSE]
  /\ ran' = [ran EXCEPT ![w] = Append(@, round - 1)]
  /\ active' = [active EXCEPT ![w] = Append(@, <<w, Len(ran[w]) + 1>>)]
  /\ pc' = [pc EXCEPT ![w] = "take"]
  /\ UNCHANGED <<round, stamp, unjoined, done, batch, recycle, chosen, merging, history>>

\* take_recycle; without a ring the worker keeps its own and is done.
TakeRecycle(w) ==
  /\ pc[w] = "take"
  /\ recycle' = [recycle EXCEPT ![w] = FALSE]
  /\ pc' = [pc EXCEPT ![w] = IF recycle[w] THEN "publish" ELSE "wait"]
  /\ done' = [done EXCEPT ![w] = done[w] \/ ~recycle[w]]
  /\ UNCHANGED <<round, stamp, unjoined, go, ran, active, batch, chosen, merging, history>>

\* publish and signal_done; a batch nobody has collected is merged into the new ring.
Publish(w) ==
  /\ pc[w] = "publish"
  /\ batch' = [batch EXCEPT ![w] = active[w]]
  /\ active' = [active EXCEPT ![w] = IF batch[w] = None THEN <<>> ELSE batch[w]]
  /\ done' = [done EXCEPT ![w] = TRUE]
  /\ pc' = [pc EXCEPT ![w] = "wait"]
  /\ UNCHANGED <<round, stamp, unjoined, go, ran, recycle, chosen, merging, history>>

-------------------------------------------------------------------------------
(* FanInSpout::flush, in the thread of merger m *)

Onward(m) == IF at[m] + mergers \in Workers THEN "take" ELSE "finish"

\* An empty slot is passed over.
SkipSlot(m) ==
  /\ mpc[m] = "take"
  /\ batch[at[m]] = None
  /\ mpc' = [mpc EXCEPT ![m] = Onward(m)]
  /\ at' = [at EXCEPT ![m] = @ + mergers]
  /\ UNCHANGED <<pool, workers, chosen, next, pending, out, history>>

\* Mutant of Due: a late batch is buffered.
DueExactly(m) == ~ordered \/ stamp = next[m]
\* SequencedSpout::submit emits what is due or late; the unordered collector all.
Due(m) == ~ordered \/ stamp <= next[m]

\* slot.collect(), read_seq() and deliver().
Collect(m) ==
  LET w == at[m]
  IN  /\ mpc[m] = "take"
      /\ batch[w] # None
      /\ batch' = [batch EXCEPT ![w] = None]
      /\ IF Due(m)
           THEN /\ out' = [out EXCEPT ![m] = @ \o batch[w]]
                /\ UNCHANGED pending
           ELSE /\ pending' = [pending EXCEPT ![m][stamp] = @ \o batch[w]]
                /\ UNCHANGED out
      /\ mpc' = [mpc EXCEPT ![m] = "recycle"]
      /\ UNCHANGED <<pool, pc, ran, active, recycle, chosen, at, next, history>>

\* The inner spout refuses the item after the first k: the rest goes with the
\* ring, the ring is not given back, and the flush ends without finish().
CollectFails(m, k) ==
  LET w == at[m]
  IN  /\ OutFails /\ mpc[m] = "take"
      /\ batch[w] # None /\ Due(m)
      /\ k < Len(batch[w])
      /\ batch' = [batch EXCEPT ![w] = None]
      /\ out' = [out EXCEPT ![m] = @ \o SubSeq(batch[w], 1, k)]
      /\ lost' = lost \union Elements(SubSeq(batch[w], k + 1, Len(batch[w])))
      /\ mpc' = [mpc EXCEPT ![m] = "idle"]
      /\ steady' = FALSE
      /\ UNCHANGED <<pool, pc, ran, active, recycle, chosen, at, next, pending, flushes, fresh>>

\* Mutant of Recycle: the emptied ring is not offered back.
RecycleNot(m) ==
  /\ mpc[m] = "recycle"
  /\ mpc' = [mpc EXCEPT ![m] = Onward(m)]
  /\ at' = [at EXCEPT ![m] = @ + mergers]
  /\ UNCHANGED <<pool, workers, chosen, next, pending, out, history>>

Recycle(m) ==
  /\ mpc[m] = "recycle"
  /\ recycle' = [recycle EXCEPT ![at[m]] = TRUE]
  /\ mpc' = [mpc EXCEPT ![m] = Onward(m)]
  /\ at' = [at EXCEPT ![m] = @ + mergers]
  /\ UNCHANGED <<pool, pc, ran, active, batch, chosen, next, pending, out, history>>

\* The numbers from n on that are buffered without a gap.
Run(m, n) == {s \in n .. MaxRounds : \A t \in n .. s : pending[m][t] # <<>>}
\* advance(): the numbers whose batches leave the buffer.
Drained(m) == Run(m, next[m] + 1)

\* The n batches of a buffer from the number lo on, one after the other.
Joined(buffer, lo, n) ==
  LET first[k \in 0 .. n] == IF k = 0 THEN <<>> ELSE first[k - 1] \o buffer[lo + k - 1]
  IN  first[n]

\* Mutant of Emptied: what has been emitted stays in the buffer.
EmptiedNot(m, D) == pending[m]
Emptied(m, D) == [s \in DOMAIN pending[m] |-> IF s \in D THEN <<>> ELSE pending[m][s]]

\* finish(): advance() the sequencer and flush the inner spout.
Finish(m) ==
  LET first == next[m] + 1
      D     == Drained(m)
      n     == Cardinality(D)
  IN  /\ mpc[m] = "finish"
      /\ mpc' = [mpc EXCEPT ![m] = "idle"]
      /\ IF ordered
           THEN /\ next' = [next EXCEPT ![m] = first + n]
                /\ out' = [out EXCEPT ![m] = @ \o Joined(pending[m], first, n)]
                /\ pending' = [pending EXCEPT ![m] = Emptied(m, D)]
           ELSE UNCHANGED <<next, out, pending>>
      /\ UNCHANGED <<pool, workers, chosen, at, history>>

\* The inner spout refuses an item of the batch s: the batch has left the buffer,
\* its rest is dropped, and the number s stays due.
FinishFails(m, s, k) ==
  LET first == next[m] + 1
  IN  /\ OutFails /\ ordered /\ mpc[m] = "finish"
      /\ s \in Drained(m) /\ k < Len(pending[m][s])
      /\ mpc' = [mpc EXCEPT ![m] = "idle"]
      /\ next' = [next EXCEPT ![m] = s]
      /\ out' = [out EXCEPT ![m] = @ \o Joined(pending[m], first, s - first)
                                      \o SubSeq(pending[m][s], 1, k)]
      /\ pending' = [pending EXCEPT ![m] = Emptied(m, first .. s)]
      /\ lost' = lost \union Elements(SubSeq(pending[m][s], k + 1, Len(pending[m][s])))
      /\ steady' = FALSE
      /\ UNCHANGED <<pool, workers, chosen, at, flushes, fresh>>

Next ==
  \/ Dispatch \/ Join \/ NewCollectors
  \/ \E S \in (SUBSET Mergers) \ {{}} : Flush(S)
  \/ \E w \in Workers : Work(w) \/ TakeRecycle(w) \/ Publish(w)
  \/ \E m \in Mergers :
       \/ SkipSlot(m) \/ Collect(m) \/ Recycle(m) \/ Finish(m)
       \/ \E k \in 0 .. MaxRounds : CollectFails(m, k) \/ \E s \in 0 .. MaxRounds : FinishFails(m, s, k)

Spec == Init /\ [][Next]_vars

-------------------------------------------------------------------------------
(* Properties *)

AllItems == {<<w, k>> : w \in Workers, k \in 1 .. MaxRounds}

TypeOK ==
  /\ round \in 0 .. MaxRounds /\ stamp \in 0 .. MaxRounds
  /\ unjoined \in BOOLEAN
  /\ go \in [Workers -> BOOLEAN] /\ done \in [Workers -> BOOLEAN]
  /\ pc \in [Workers -> {"wait", "take", "publish"}]
  /\ recycle \in [Workers -> BOOLEAN]
  /\ mergers \in 1 .. MaxMergers /\ ordered \in BOOLEAN
  /\ mpc \in [Mergers -> {"idle", "take", "recycle", "finish"}]
  /\ \A m \in Mergers : mpc[m] \in {"take", "recycle"} => at[m] \in Workers /\ Merger(at[m]) = m
  /\ next \in [Mergers -> 0 .. MaxRounds + MaxFlushes + 1]
  /\ lost \subseteq AllItems

Of(w, s) == Only(s, {w} \X Nat)
\* Everything worker w has produced and that is still on its way or has arrived,
\* in the order in which it arrives or will.
Path(w) ==
  LET m == Merger(w)
  IN  Of(w, out[m]) \o Of(w, Joined(pending[m], 0, MaxRounds + 1))
        \o (IF batch[w] = None THEN <<>> ELSE batch[w]) \o active[w]

\* Whatever the caller does and whatever fails, what one worker pushed arrives in
\* the order it was pushed, no item twice.
PerWorkerOrder ==
  \A w \in Workers : \A i, j \in DOMAIN Path(w) : i < j => Path(w)[i][2] < Path(w)[j][2]

\* An item has arrived, is in a ring, a batch or a buffer, or was dropped by a
\* failed send or with its collector; never two of these.
Conservation ==
  \A w \in Workers :
    LET made == {<<w, k>> : k \in 1 .. Len(ran[w])}
    IN  /\ Elements(Path(w)) \union (lost \intersect {<<w, k>> : k \in 1 .. MaxRounds}) = made
        /\ Elements(Path(w)) \intersect lost = {}

\* From a worker's ring to the end every item goes one way, once and in order.
Delivery == TypeOK /\ PerWorkerOrder /\ Conservation

\* Nothing is buffered under a number that is due or past, where advance() would
\* never look for it again, nor under one dispatch has not reached.
BufferIsAhead ==
  \A m \in Mergers : \A s \in DOMAIN pending[m] :
    pending[m][s] # <<>> => next[m] < s /\ s < round

RoundOf(x) == ran[x[1]][x[2]]

\* The loop of StreamingFanIn and StreamingMergers, dispatch, join, flush: "emits in
\* strict sequence order".
LoopEmitsByRound ==
  steady => \A m \in Mergers : \A i, j \in DOMAIN out[m] :
              i < j => RoundOf(out[m][i]) <= RoundOf(out[m][j])

Sequenced == BufferIsAhead /\ LoopEmitsByRound

\* After each flush of that loop everything has arrived and nothing is buffered: the
\* collector can be taken apart without losing a batch.
LoopDelivers ==
  steady /\ fresh /\ ~Flushing =>
    /\ \A w \in Workers : Len(Of(w, out[Merger(w)])) = round
    /\ \A m \in Mergers : Buffered(m) = {} /\ (ordered => next[m] = round)

\* Statements of the source that hold in that loop only.

\* "With N workers, at most N-1 batches can be buffered at any time".
BufferBound ==
  \A m \in Mergers : Cardinality({s \in DOMAIN pending[m] : pending[m][s] # <<>>}) < NumWorkers

\* "buffers out-of-order batches and emits in strict sequence order".
EmitsByRound ==
  ordered => \A m \in Mergers : \A i, j \in DOMAIN out[m] :
               i < j => RoundOf(out[m][i]) <= RoundOf(out[m][j])

\* "Collect all available batches from handoff slots into the collector": with_fan_in
\* and a sequenced collector, for a caller that joins before it flushes.
FlushDelivers ==
  fresh /\ ~unjoined /\ ~Flushing /\ lost = {} => \A m \in Mergers : Buffered(m) = {}

===============================================================================
