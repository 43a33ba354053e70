------------------------------- MODULE ColdTier -------------------------------
(***************************************************************************)
(* pebble/src/manager/cold and pebble/src/storage: the three cold tiers and *)
(* the storages below them.  DirectStorage sends every checkpoint at once,  *)
(* RingCold buffers in a SpillRing, ParallelCold in a batch and in the      *)
(* rings of a WorkerPool.  The kind of tier and of storage is chosen once:  *)
(*   "memory"  InMemoryStorage: dies with the process, a clone is a copy    *)
(*   "file"    DebugFileStorage: one file per id, and a set of ids written  *)
(*   "shared"  a storage of the user's that survives and whose clones are   *)
(*             handles to one store; alone it may refuse a write            *)
(*                                                                         *)
(* One caller, &mut self: an operation is one step, a crash inside one is   *)
(* Cut.  Dependencies travel with the version and are left out, as is       *)
(* serialization, which fails before anything changes.  A worker has two    *)
(* rings: between two calls it keeps one, and the slot has the other, as the*)
(* batch published last or, once collected, as the spare.                   *)
(***************************************************************************)
EXTENDS Integers, Sequences, FiniteSets
SeqOps == INSTANCE SequencesExt

CONSTANTS
  Ids,
  Versions,      \* what a checkpoint can hold; 0 is none
  RingCapacity,  \* N of RingCold
  PoolCapacity,  \* N of ParallelCold, per worker
  MaxWorkers     \* bound of the model: num_workers of ParallelCold

ASSUME ColdAssumption ==
  /\ Versions \subseteq Nat \ {0}
  /\ RingCapacity \in Nat \ {0}
  /\ PoolCapacity \in Nat \ {0}
  /\ MaxWorkers \in Nat \ {0}

VARIABLES
  kind,      \* "direct", "ring" or "parallel"
  backend,   \* "memory", "file" or "shared"
  numWorkers,  \* num_workers of ParallelCold
  storage,   \* version of each id in storage
  written,   \* the ids storage says it contains
  ring,      \* RingCold: entries in the ring, oldest first
  pending,   \* ParallelCold: entries not yet handed to the workers
  active,    \* what is in each worker's own ring
  slot,      \* what is in the batch of each worker's slot
  published, \* whether the slot has a batch, be it an empty one
  spare,     \* whether the slot has a ring for the worker to go on with
  strayed,   \* entries that went to a worker's clone of a storage in memory
  swallowed  \* versions whose last send failed, the error ignored

coldVars == <<kind, backend, numWorkers, storage, written, ring, pending,
              active, slot, published, spare, strayed, swallowed>>
buffers  == <<ring, pending, active, slot, published, spare>>

Workers == 1 .. numWorkers
Empty   == [w \in Workers |-> <<>>]

EmptyBuffers ==
  /\ ring' = <<>> /\ pending' = <<>>
  /\ active' = Empty /\ slot' = Empty
  /\ published' = [w \in Workers |-> FALSE]
  /\ spare' = [w \in Workers |-> TRUE]

ColdInit ==
  /\ kind \in {"direct", "ring", "parallel"}
  /\ backend \in {"memory", "file", "shared"}
  /\ numWorkers \in IF kind = "parallel" THEN 1 .. MaxWorkers ELSE {1}
  /\ kind = "parallel" => backend # "file"    \* DebugFileStorage is not Clone
  /\ storage = [id \in Ids |-> 0]
  /\ written = {}
  /\ ring = <<>> /\ pending = <<>>
  /\ active = Empty /\ slot = Empty
  /\ published = [w \in Workers |-> FALSE]
  /\ spare = [w \in Workers |-> TRUE]
  /\ strayed = <<>> /\ swallowed = {}

\* send() of the entries es, one after the other: the last one of an id stays.
Applied(st, es) ==
  [id \in Ids |->
     LET at == {i \in DOMAIN es : es[i].id = id}
     IN  IF at = {} THEN st[id]
         ELSE es[CHOOSE i \in at : \A j \in at : j <= i].ver]

Deliver(es) ==
  /\ storage' = Applied(storage, es)
  /\ written' = written \union {es[i].id : i \in DOMAIN es}

Prefix(s, n) == SubSeq(s, 1, n)
Suffix(s, n) == SubSeq(s, n + 1, Len(s))
Overflow(s, cap) == IF Len(s) > cap THEN Len(s) - cap ELSE 0

-------------------------------------------------------------------------------
(* DirectStorage and RingCold *)

\* store(): the outcome of the send is dropped.
DirectStore(e) ==
  /\ kind = "direct"
  /\ \/ Deliver(<<e>>) /\ swallowed' = swallowed \ {e.ver}
     \/ /\ backend = "shared"
        /\ swallowed' = swallowed \union {e.ver}
        /\ UNCHANGED <<storage, written>>
  /\ UNCHANGED <<buffers, strayed>>

\* Mutant of RingStore: what does not fit in is what is written.
RingStoreNewest(e) ==
  /\ kind = "ring"
  /\ IF Len(ring) < RingCapacity
       THEN ring' = Append(ring, e) /\ UNCHANGED <<storage, written>>
       ELSE Deliver(<<e>>) /\ UNCHANGED ring
  /\ UNCHANGED <<pending, active, slot, published, spare, strayed, swallowed>>

\* push_mut(): what does not fit spills into storage, the oldest first.
RingStore(e) ==
  LET full == Append(ring, e)
      n    == Overflow(full, RingCapacity)
  IN  /\ kind = "ring"
      /\ Deliver(Prefix(full, n))
      /\ ring' = Suffix(full, n)
      /\ UNCHANGED <<pending, active, slot, published, spare, strayed, swallowed>>

-------------------------------------------------------------------------------
(* ParallelCold *)

\* io_work: every worker takes the items of the batch that are its turn.
Share(batch, w) ==
  LET mine == {i \in DOMAIN batch : (i - 1) % numWorkers = w - 1}
  IN  [k \in 1 .. Cardinality(mine) |-> batch[w + (k - 1) * numWorkers]]

\* What the workers' rings hold once the batch has been pushed into them.
Pushed(batch) == [w \in Workers |-> active[w] \o Share(batch, w)]

\* What does not fit goes to the worker's own clone of the storage.
Spilt(batch) ==
  SeqOps!FlattenSeq([w \in Workers |->
    Prefix(Pushed(batch)[w], Overflow(Pushed(batch)[w], PoolCapacity))])
Kept(batch) ==
  [w \in Workers |->
    Suffix(Pushed(batch)[w], Overflow(Pushed(batch)[w], PoolCapacity))]

\* Mutant of Collected: the rings that were collected are not given back.
CollectedKept == spare

\* What collect() leaves of the slots: no batch, and the ring of each batch that was
\* there, emptied, as the spare.
Collected == [w \in Workers |-> spare[w] \/ published[w]]

\* pool.run() right after a collect: a worker that finds a spare in its slot takes it
\* and publishes the ring it has filled; one that finds none keeps that ring.
Left(batch)   == [w \in Workers |-> IF Collected[w] THEN <<>> ELSE Kept(batch)[w]]
Handed(batch) == [w \in Workers |-> IF Collected[w] THEN Kept(batch)[w] ELSE <<>>]
Run(batch) ==
  /\ active' = Left(batch)
  /\ slot' = Handed(batch)
  /\ published' = Collected
  /\ spare' = [w \in Workers |-> FALSE]

\* run_batch: collect what the slots hold, then run the workers on the batch.
RunBatch(batch) ==
  /\ Deliver(SeqOps!FlattenSeq(slot) \o IF backend = "shared" THEN Spilt(batch) ELSE <<>>)
  /\ strayed' = IF backend = "shared" THEN strayed ELSE strayed \o Spilt(batch)
  /\ Run(batch)
  /\ pending' = <<>>

ParallelStore(e) ==
  LET batch == Append(pending, e)
  IN  /\ kind = "parallel"
      /\ IF Len(batch) >= numWorkers
           THEN RunBatch(batch)
           ELSE /\ pending' = batch
                /\ UNCHANGED <<storage, written, active, slot, published, spare, strayed>>
      /\ UNCHANGED <<ring, swallowed>>

\* Everything store() has taken that is not in storage yet, in the order in which
\* it will get there.
Buffered == ring \o SeqOps!FlattenSeq(slot) \o SeqOps!FlattenSeq(active) \o pending

\* Mutant of ParallelFlush: nothing to do without a pending batch.
ParallelFlushPending ==
  /\ kind = "parallel"
  /\ IF pending = <<>>
       THEN UNCHANGED <<storage, written, pending, active, slot, published, spare,
                        strayed>>
       ELSE RunBatch(pending)
  /\ UNCHANGED <<ring, swallowed>>

\* flush(): run_batch, which does nothing without a pending item, then collect.
ParallelFlush ==
  LET ran  == pending # <<>>
      last == IF ran THEN Handed(pending) ELSE slot
  IN  /\ kind = "parallel"
      /\ Deliver((IF ran THEN SeqOps!FlattenSeq(slot) ELSE <<>>)
                   \o (IF ran /\ backend = "shared" THEN Spilt(pending) ELSE <<>>)
                   \o SeqOps!FlattenSeq(last))
      /\ strayed' = IF ran /\ backend # "shared" THEN strayed \o Spilt(pending)
                                                 ELSE strayed
      /\ active' = IF ran THEN Left(pending) ELSE active
      /\ slot' = Empty
      /\ published' = [w \in Workers |-> FALSE]
      /\ spare' = Collected
      /\ pending' = <<>>
      /\ UNCHANGED <<ring, swallowed>>

-------------------------------------------------------------------------------
(* The ColdTier trait *)

ColdStore(e) ==
  /\ DirectStore(e) \/ RingStore(e) \/ ParallelStore(e)
  /\ UNCHANGED <<kind, backend, numWorkers>>

RingFlush ==
  /\ kind = "ring"
  /\ Deliver(ring)
  /\ ring' = <<>>
  /\ UNCHANGED <<pending, active, slot, published, spare, strayed, swallowed>>
DirectFlush ==
  /\ kind = "direct"
  /\ UNCHANGED <<storage, written, buffers, strayed, swallowed>>
ColdFlush ==
  /\ DirectFlush \/ RingFlush \/ ParallelFlush
  /\ UNCHANGED <<kind, backend, numWorkers>>

\* remove() of the ids in S.  An id that is not in written is left alone; a file
\* that cannot be deleted (F) is no error.
ColdRemove(S) ==
  LET there == S \intersect written
  IN  /\ written' = written \ S
      /\ \E F \in SUBSET there :
           /\ F # {} => backend = "file"
           /\ storage' = [id \in Ids |-> IF id \in there \ F THEN 0 ELSE storage[id]]
      /\ UNCHANGED <<kind, backend, numWorkers, buffers, strayed, swallowed>>

\* buffered_count()
BufferedCount ==
  CASE kind = "direct"   -> 0
    [] kind = "ring"     -> Len(ring)
    [] kind = "parallel" -> Len(pending)

\* contains() and load() look at storage alone.
ColdContains(id) == id \in written
Loaded(id)   == storage[id]

\* The process dies when n of the buffered entries have been written; memory is
\* gone with it.
Cut(n) ==
  /\ n \in 0 .. Len(Buffered)
  /\ IF backend = "memory"
       THEN storage' = [id \in Ids |-> 0] /\ written' = {}
       ELSE Deliver(Prefix(Buffered, n))
  /\ EmptyBuffers
  /\ UNCHANGED <<kind, backend, numWorkers, strayed, swallowed>>

\* The tier is dropped without a flush.  The rings write out what they hold, the
\* workers' into their clones; the pending batch is lost.
ColdDrop ==
  LET saved == ring \o SeqOps!FlattenSeq(slot) \o SeqOps!FlattenSeq(active)
  IN  /\ IF backend = "memory"
           THEN storage' = [id \in Ids |-> 0] /\ written' = {}
           ELSE Deliver(saved)
      /\ EmptyBuffers
      /\ UNCHANGED <<kind, backend, numWorkers, strayed, swallowed>>

\* with_dir: every file found counts as written.
Reopened ==
  /\ written' = {id \in Ids : storage[id] # 0}
  /\ UNCHANGED <<kind, backend, numWorkers, storage, buffers, strayed, swallowed>>
==============================================================================
