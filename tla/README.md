# Models of abmac-lib

TLA+ specifications of the stateful parts of this workspace, the TLC runs that
check them on small instances, and TLAPS proofs that many of the properties hold
for every value of the constants. Every
definition is translated from the Rust source; `PROJECT.json` maps each one to
the lines it stands for.

## The system

| crate | component | state | operations | interacts by |
|---|---|---|---|---|
| spill-ring | `SpillRing` | N slots, wrapping `head` and `tail`, a spout | push, push_slice, pop, pop_slice, flush, drop, peeks | evicted items are sent to the spout |
| spill-ring | `WorkerPool` | per worker: a thread with its ring, a handoff slot, a recycle slot, go/done/shutdown flags | start, dispatch, join, collect, shutdown, into_consumer | atomics shared by the main thread and one worker |
| spill-ring | `FanInSpout`, `MergerSpout`, collectors, streaming | the slots of several workers, a collector with the number it expects | flush, dispatch, join | collects from slots, delivers to spouts, gives rings back |
| spill-ring | `Producer`, `Consumer` | a ring each | push, drop, collect, drain | a ring is handed over when its producer is done |
| pebble | `PebbleManager` | hot, warm and cold tiers, dirty and tombstone sets, DAG, manifest | add, insert, load, compress, remove, flush, compact, close, recover, resize | calls the DAG, the tiers, the strategy, the manifest |
| pebble | rebuild, branches | a workspace; branches by name, a branch of each checkpoint | rebuild, enable_branching, fork, switch_branch | reads and moves what the tiers hold; called by add, remove and compact |
| pebble | `ComputationDAG` | nodes, dependencies, dependents, roots, leaves, depths, critical paths | add, add unchecked, remove, repair, candidates, rebuild order | owned by the manager; strategies read the critical paths |
| pebble | cold tiers (`DirectStorage`, `RingCold`, `ParallelCold`) | a storage; a ring; a batch and a pool of workers | store, load, contains, flush, remove | SpillRing and WorkerPool inside, a storage below |
| pebble | `Manifest`, verify | a ring of 64 entries over a spout, the next number | record, record_tombstone, flush, verify | SpillRing inside |
| spout | adapters | buffers, counters, a reorder buffer | send, send_all, flush | wrap other spouts |
| verdict | `Context`, `with_retry` | frames and the count of evicted ones, a status; attempts, delays | with_ctx, resolve, exhaust; the retry loop | calls the operation; contexts cross the wire |
| bytecast, abmac-macros | serialisation, derive macros | none | to_bytes, from_bytes, to_vec | used by spouts, contexts and checkpoints |

Hard behaviour, in one line each: index arithmetic that wraps, and spouts that
panic half way (`SpillRing`); a protocol of three flags and two pointer slots
between threads, with panics and shutdown in the middle (`WorkerPool`); numbers
stamped on slots and not on batches, read by flushes at any moment (`FanIn`);
cascading evictions with an undo, flushes and removals that storage failures
and crashes may cut short, recovery from what storage happens to hold
(`PebbleManager`); what the manager calls stored and a buffer still has
(`ColdTier`, `TieredStore`); derived data kept up to date step by step
(`ComputationDAG`); batches that an error has taken out of one buffer and not put in
another (`Spouts`); a status that is a type on one side of the wire and a value on the
other (`Verdict`). `PROJECT.json` lists the hazards line by line with the
properties that cover them.

## Modules

| module | models |
|---|---|
| `SpillQueue` | what a ring promises: a FIFO queue of at most N items whose overflow is passed on in order |
| `SpillRing` | `ring.rs`, `read.rs`: slots, wrapping indices, every operation, panics of the spout |
| `SpillRing_proofs` | theorems of `SpillRing`: its window; order, conservation and the refinement of `SpillQueue` |
| `WorkerPool` | `pool/mod.rs`, `handoff.rs`: the main thread and the workers, one atomic access per step |
| `WorkerPool_proofs` | theorems of `WorkerPool` |
| `FanIn` | `fan_in.rs`, `merger.rs`, `collector.rs`, `streaming.rs`, `sequenced.rs`: who collects which batch under which number |
| `FanIn_proofs` | theorems of `FanIn` |
| `CheckpointStore` | what a manager promises: live checkpoints stay, closed ones are durable |
| `Selection` | the items of a sequence that are in a set, in their order |
| `PebbleManager` | `pebble_manager.rs`, `eviction.rs`, `recovery.rs`, the warm tiers, the DAG's part in them |
| `DataFacts` | lemmas about sequences, selections, induction and remainders |
| `PebbleManager_proofs` | theorems of `PebbleManager` |
| `Rebuild` | `rebuild.rs`, `branch.rs`, `branching.rs`; extends `PebbleManager` |
| `Rebuild_proofs` | theorems of `Rebuild` |
| `ComputationDAG` | `pebble/src/dag`: links, depths, critical paths, repair, the rebuild order |
| `ComputationDAG_proofs` | theorems of `ComputationDAG` |
| `ColdLog` | what a cold tier promises: an ordered log into storage |
| `ColdTier` | `manager/cold`, `storage`: the three tiers over three kinds of storage |
| `Manifest` | `manifest.rs`, `verify.rs` |
| `TieredStore` | a manager over `ColdTier` and `Manifest`, with crashes and recovery |
| `TieredStore_proofs` | theorems of `TieredStore` |
| `ByteCast` | `bytecast` and what the derive macros generate: encoding, sizes, decoding |
| `Spouts` | `core_impls.rs`, `std_impls.rs`, `bytecast_impls.rs`, `Producer`, `Consumer`; extends `ByteCast` |
| `Verdict` | `verdict/src/heap`, `status.rs`: contexts, retries, the wire; extends `ByteCast` |
| `MC*` | instances for TLC |

How they compose: `TieredStore` is a manager over `ColdTier`, whose `ParallelCold` has the
two rings and the slot of `WorkerPool` as they are between two calls; `Rebuild` adds its
operations to those of `PebbleManager`; `FanIn` has of `WorkerPool` the steps that decide
what a slot holds; `Spouts` and `Verdict` send the bytes that `ByteCast` makes.

### SpillRing

`head` and `tail` are counters modulo `Modulus` (2^w in the code) and `slots` is
the buffer: a slot keeps its last content, or `Uninit`, and only the window from
head to tail says which contents are live. Item i is the i-th item handed to the
ring, so that order, loss and duplication can be stated: `taken` is what pop and
pop_slice returned, `spilled` what the spout received. A ring is `!Sync`, so
each public operation is one action; with `SpoutPanics` the actions that end in
`Panic` stop at the k-th send and leave what the unwinding leaves (`lost`: items
destroyed on the way, `replayable`: items sent that are still in the window, since
push_slice moves head only after its sends). `ImplementsQueue` maps the window to
the sequence of `SpillQueue`; a step a panic cuts short is excepted, the steps after it
are not.

* `spillring`: `WindowInOrder` (the window holds initialised items in the order
  of pushing), `OrderKept` (first in, first out; spilled once and in order; the peeks are the
  ends), `Conservation` (every item is in the window, taken, spilled or lost to a panic),
  `ImplementsQueue`, `TypeOK`.

Bounds: N = 4, indices modulo 8, 10 items: the indices wrap, a slice can be
longer than the ring, and every alignment of the two-segment copy occurs.

### WorkerPool

The main thread is at `mpc`, worker w at `pc[w]`; a step is one access to an atomic the
other thread can observe (the flags `go`, `done`, `shutdown`, the pointers `batch` and
`recycle`, the arguments). Accesses to one flag are totally ordered and the data they
guard is handed over by Release/Acquire pairs, so the steps interleave on one memory.
The work of a round pushes one item into the worker's ring; a worker has two rings, its
active one and the spare, whose owner can be stated. `Joined` says whether the caller
joins every round (`run`, `try_run`) or calls in any order; `WorkPanics` and `OutFails`
let the work function panic and the collecting spout fail.

* `pool_run` (three workers, three rounds, joined, no panics): `Handoff` (a ring is in one
  place, and a publish finds its slot empty), `Delivery` (every item is in a ring, delivered,
  evicted, or lost to a named failure, and the delivered ones are in order),
  `RoundsAreSeparate` (a round is over for all before the next, the arguments outlive the
  work, a worker exits with an empty slot), `ShutdownCompletes`.
* `pool_free` (two workers, two rounds, calls in any order, panics): `Handoff` and `Delivery`
  still hold, and `JoinReturns`.

Fairness (`FairSpec`): weak fairness of main's steps inside a call and of each worker's
steps, since threads are scheduled and the work function returns or panics. Which call
main makes next, if any, is not fair, nor is a panic.

Two workers are enough for one to be ahead of, or to outlive, another; the third round is
the first that merges a ring which was recycled.

### FanIn

The owner of a pool dispatches rounds, joins or not, and lets one merger (`FanInSpout`) or
several (`MergerSpout`, in parallel) flush; a merger goes through its slots one by one, so a
worker publishes before, between or after. `stamp` is the `batch_seq` dispatch writes on all
slots: the number belongs to the slot, not to the batch that lies in it, and a merger
reads it when it collects. A sequenced collector has `next` (`next_expected`) and `pending`;
one that is unordered delivers at once. The inner spout may refuse any item (`OutFails`); what
is lost with it is `lost`. `steady` says that the caller has so far done what
`StreamingFanIn` and `StreamingMergers` do, dispatch, join, flush.

* `fanin`: `Delivery` (from the worker's ring to the spout every item goes one way, once, in
  order, or is lost to a refused send), `Sequenced` (nothing is buffered under a number that
  is due or past, where it would wait for ever; the streaming loop emits by rounds),
  `LoopDelivers` (that loop leaves nothing buffered).

Two workers, three rounds, two flushes, one merger or two: enough for a flush before a
worker has published, a batch that arrives late, and one under a number that is not its own.

### PebbleManager

The manager is used through `&mut self`, so an operation is one step with a write that may fail
inside it, and a flush may be cut by a crash between two writes. `red`, `warm` (oldest first),
`blue`, `dirty` and `tombstoned` are the code's fields; `order`, `deps` and `derived` are the DAG;
`store` is what cold storage holds, with the dependencies it was given; `logged` is the last
manifest entry of an id and `drained` the last one that left the manifest's ring. The content of a
checkpoint is the number of the add that brought it. Bounds: `MaxAdds` adds of an id, `MaxFailures`
failed writes, `MaxStops` times closed, dropped or killed. `Divisor` is `EVICTION_BATCH_DIVISOR`: 4
in the code, 1 in `pebble_fail` so that a hot tier of 2 evicts in batches of 2, as one of 8 does in
the code. Which leaves a strategy picks is left open. `resize_hot` evicts in batches, each a step in
the state "resizing" (`Resizes` are the capacities asked for, `resize_optimal`'s besides); the
manager is built without `auto_resize`, which cannot grow a hot tier before there are four
checkpoints. An insert() that the DAG refuses, for an id that is a node or a dependency that is
none, has made room in the hot tier before (`InsertFails`); a refused add() has changed nothing.
Recovery may add checkpoints in any order its rounds allow. Ids are interchangeable, and only safety
is checked, so symmetry is sound.

* `pebble_run` (removals, resizes to 1 and 3, and one stop, no failed writes): `TiersAgree` (a checkpoint is in
  one tier, none outgrows its capacity), `OrderIsTopological`, `CloseIsDurable` (the marks by
  which flush chooses what to write suffice for what close confirms), and `StepsUntilStop`:
  up to the first stop each step is one of `CheckpointStore`.
* `pebble_close` (no removals, two stops): `ImplementsStore`, the manager implements
  `CheckpointStore`; `FlushStoresParentsFirst`.
* `pebble_fail` (a failed write anywhere): `OthersKeepContent`, `TiersAgree`, `StorageAgrees`
  (cold checkpoints read back, and the log claims nothing storage does not have).

Three checkpoints make a chain with a middle and put one in each tier.

### Rebuild

`rebuild` computes a cold checkpoint from its dependencies: the plan is all it needs and the
hot tier lacks (`Needed`), ordered by depth; each node takes a base from warm or cold and its
dependencies from the workspace or a tier, those in cold alone being moved to hot
(`Computed`); then the deepest of the workspace are promoted (`Promotions`) and leave the cold
tier, but not the warm one. What compute_from_dependencies makes of them is the caller's; it may also
return an error, and so may any load from the cold tier, at any node of the plan (`Interrupted`).
Branches are the code's `BranchTracker`, with HEAD as branch 1.

* `rebuild` (removals, resizes to 1, no failed writes or stops): `RebuildWorks` (if nothing the plan
  needs has been lost, it finds everything and moves nothing into the hot tier on the way; the hot
  tier overflows only when nothing in it can be evicted),
  `BranchesAgree` (what lives has a branch and nothing that was removed has one; a head that
  lives is its branch's newest; a fork point that lives is on the parent).

`Divisor` is 2 so that a hot tier of 2 has a promotion budget of 1. With three ids a plan in
which a dependency's dependency is missing does not arise; `RebuildOrderIsComplete` (below)
covers that on four. Branches are not persisted: recovery starts without them, so the manager
is not stopped here. Writes to the cold tier do not fail here (`RebuildAssumption`), reads do: what a
failed eviction leaves is modelled in `PebbleManager` for checkpoints that are in one tier, and a
promotion puts one in two.

That a promotion leaves its copy in the warm tier has a consequence which `RebuildWorks` makes room
for. remove() takes the checkpoint out of the hot tier and leaves the copy; load() brings that one
back to hot, where no strategy offers it for eviction, because it is no node of the DAG. With enough
of them a resize_hot to a smaller capacity fails and leaves the tier too large (`ResizeFails`,
without any failed write).

### ComputationDAG

The graph by itself, with all its public updates. Its keys are `nodes`; `deps` is a sequence
per node, because the breadth-first update of `critical` (`critical_paths`) takes
dependencies in the order the caller listed them, and `dependents` a set, because it is only searched.
`depth` is `rebuild_depth`. Loops over a queue are written as a fixed number of rounds of a
step that does nothing once the queue is empty (`Propagated`), or in waves where the result
does not depend on the order within the queue (`RebuildDepths`, `CriticalPaths`). `repaired`
and `pruned` say what the caller may expect: no unchecked addition, and no removal, since
the last repair that succeeded on a graph whose dependencies are all present. The manager's
module has its own, smaller view of the graph: it needs the links only.

* `dag` (four nodes of at most two dependencies, checked and unchecked additions):
  `GraphAgrees` (both ends of every link, roots and leaves), `RebuildOrderIsComplete` (depths
  grow stale after removals, the order they give a rebuild does not), `PathsAgree` (depths are
  exact and critical paths never too long until a removal), `RepairIsExact`.

Four nodes are enough for a diamond, a chain with a shortcut, a removal in the middle of
either, and cycles of any length up to four.

### ColdTier, Manifest, TieredStore

`ColdTier` has the three tiers of `manager/cold` over the three kinds of `storage`, chosen in the
initial state. `ring` is `RingCold`'s; `pending`, and per worker `active`, `slot` and `spare`, are
`ParallelCold`'s batch and, as they are between two calls of the pool, the two rings of a worker:
its own, and the other one in the slot, as a batch (`published`) or as the `spare`. The spares after
a collect (`Collected`) decide which workers publish in the round that follows and which keep what
they were given. A storage in memory is copied when a worker clones it, one that is shared is not:
what overflows into a copy has `strayed`. Only a storage of the user's may refuse a write;
`swallowed` holds the versions for which `DirectStorage` then ignored the error. `Cut(n)` is a crash
when n of the buffered entries have been written, `ColdDrop` a drop without a flush. `Manifest` is
the ring of entries (`entries`) over the user's spout (`journal`).

`TieredStore` is a manager over both: `hot`, `blue`, `dirty`, `tombstoned` as in
`PebbleManager`, an eviction that announces and then stores, a load that flushes first, a flush
in three stages, `compact`, crashes in and between calls, drops whose flush fails, recovery. The
hot tier evicts what it likes; capacities, the warm tier and dependencies are in `PebbleManager`.

* `tiered`: `Buffers` (no buffer exceeds its capacity, no worker keeps items from one batch to
  the next, what is cold comes back from wherever it waits), `FlushMakesVisible`,
  `LoadReturnsWhatWasEvicted`, `JournalIsTrue` (what `verify` goes by: the log tells
  of every checkpoint outside memory, but for at most `LogCapacity` of them for each time the
  process was killed, and its numbers run on), `ImplementsLog`: all nine
  combinations implement `ColdLog`, one log that delivers in order, skips and repeats
  nothing, loses a suffix in a crash, and keeps what it holds in a buffer through a remove.

Two ids, two adds, three writes, one stop; rings of 1, two workers, a manifest of 1 instead of
64: every buffer overflows, an id is stored twice, and a batch is left over when a flush
comes. An id is added again only after `compact` has purged it; the other case is in
`PebbleManager`. A checkpoint's dependencies travel with its version and are left out.

### ByteCast

Types are records; `Parts` gives the values of which a value consists, `Opening` what comes
before them, and `Encode`, `ByteLen`, `MaxSize` and `Decode` follow from the two, as the impls and
the derived ones do. The code has bytes of 2^8, variable-length integers of 5
bytes with 7 bits each, a u32 of 4 bytes and a first buffer of 256; the instances have bytes of 8,
3 bytes, 2 bytes and 4, which obey the same assumption (`ByteAssumption`): the shortest form,
the greatest last byte and the buffer that is enlarged once all occur with short strings.
The module has no runs of its own: `Spouts` and `Verdict` encode and decode with it
in every step. Its operators are recursive, so nothing is proved about it. Three things a
user may trip over, which the operators show: a value without a `byte_len`
(`Option<Vec<_>>`) that is longer than twice the first buffer cannot be written, although
`traits.rs` 83-85 speaks of the true size; a vector of zero-sized items does not come back,
because a count may not exceed the bytes that are left; sets and maps are read back from bytes
that `to_bytes` would not have made.

### Spouts

Each producer has a chain cloned from one prototype: an id (`ProducerSpout`), a buffer (`BatchSpout`
or `ReduceSpout`), and the sink the setup names: frames into a channel with a receiver, frames into
a collection under a mutex, the ring of a `Producer` in front of a collection, or rings that a
`Consumer` collects and drains. A call that hands several batches on gives them to the sink one at a
time (`flight`), so the producers interleave there; a full channel blocks. `ProducerSpout` leaves
send_all to the trait, which sends the items one by one and stops at the first error, so that the
rest of the iterator (`unsent`) is dropped with it (`Abandoned`); the send_all of the buffer, which
keeps the rest, is reached through inner_mut() only. Failures are the code's: the payload does not
fit, the receiver has gone, the mutex is poisoned by a spout that panicked. `Reload` builds a
`BatchSpout` from its snapshot. `handed` is a history of what each batch was and what became of it.

* `spouts`: `Delivery` (every item is in one place, in order, and what comes out under an id is
  what its producer handed over; what a send_all had not sent yet is dropped only when an earlier batch
  of the same call met an error or a panic), `FramesStandAlone` (a frame reads back as it was sent; cut
  short or one byte longer it is refused), `BatchesAreFull`.

The eight setups are the modes with small items, and a channel with an option of a string, a
struct of a derived enum with a set and a skipped field, and a result of a map or an error. Two
producers, a threshold of 2, a ring and a channel of 1, one reload.

### Verdict

A caller runs its operation with `with_retry` or `with_retry_delay`. The error becomes a
`Context` (`frames`, `overflow`, `status`), gathers frames, may cross the wire, and is
resolved; what the retry returns crosses the wire typed (`decode_context`) or dynamic
(`from_bytes`), and then is the error of the next caller's operation. `past`, all frames ever
added, is a history variable; `kept` and `counted` are what overflow spouts have.

* `verdict`: `FramesAccounted` (frames and count make up all that was added, here and after the
  wire, and the announced length is the true one), `RetryIsHonest` (at most max_attempts calls,
  again only after a temporary error, delays that never shrink nor exceed the cap, and a
  result that is final and labelled with the attempt it comes from).

Callers ask for 0, 1 or 3 attempts, contexts hold 0 (which is made 1), 2 or any number of frames, a
caller adds two, one context crosses the wire as a dynamic one; a backoff of base 2 and cap 3
reaches the cap at the second delay.

### Statements of the source that the code does not keep

The modules also state what comments and documents of the repository say and the code does not
keep. No run expects a violation and `findings` is empty: each of these is refuted by
TLC when its name is checked under the constants given here (`Spec` is the
specification, or what the configuration names), and none is a property of a run.

| statement | property | constants that refute it |
|---|---|---|
| `pool/mod.rs` 291-292: the arguments are valid while the work runs | `ArgsOutliveWork` | *P*: one worker's panic ends join while another still works (476-492) |
| `pool/mod.rs` 383-384: after join all slots contain published batches | `JoinLeavesAllPublished` | *P* with WorkPanics = FALSE, MaxRounds = 2: a worker whose recycle slot is empty keeps its ring (306-311) |
| `pool/mod.rs` 453-455: try_run does not panic on worker failure | `NeverUnwinds` | *P* with MaxRounds = 2: the next dispatch panics (361-362) |
| `pool/mod.rs` 279-281: shutdown has collected the batches before signalling | `ExitFindsEmptySlot` | *P*: a worker still at work publishes after that |
| `handoff.rs` 157: shutdown tells a worker to exit after its next wake | `ShutdownCompletes` | *P*: a worker at work when shutdown signals may clear the signal (`pool/mod.rs` 273-287, 524-528) |
| `sequenced.rs` 24-26: with N workers at most N-1 batches are buffered | `BufferBound` | `MCFanIn.cfg` with NumWorkers = 1, MaxMergers = 1: a round dispatched before the batch of the one before is collected leaves a number nobody fills |
| `collector.rs` 90-91: emits in strict sequence order | `EmitsByRound` | `MCFanIn.cfg`: a late batch is collected under a later number |
| `fan_in.rs` 83: flush collects all available batches into the collector | `FlushDelivers` | `MCFanIn.cfg`: the new collector of `with_fan_in` (collection.rs 61) expects round 0 and buffers a later one |
| `pebble_manager.rs` 269: load moves a checkpoint to hot | `ContentStable` | `MCPebbleManager_fail.cfg`: the second eviction of a batch fails after the checkpoint has left warm (282-285) |
| `pebble_manager.rs` 343-344: resize_hot evicts what is above the capacity | `HotFits` | `MCPebbleManager_fail.cfg`: an eviction fails when the capacity is lower already (349, 362-364), and each add evicts one batch and adds one. `MCRebuild.cfg`: with `RSpec` and no failed write, when what is left in hot has been removed (`Rebuild`, above) |
| `eviction.rs` 72: a failed cold store is undone, no data is lost | `ContentStable` | *D* with Hot = 1, Warm = 0, MaxStops = 0: `NoWarm` gives nothing back (warm/none.rs 17-33) |
| `verify.rs` 3-5: a node is in hot or in the manifest | `NoDanglingNode` | *D* with Hot = 1: add registers the node before an eviction that fails |
| `pebble_manager.rs` 491-492: parents are stored before children | `FlushOrphansNothing` | `MCPebbleManager_close.cfg`: a warm child is written before its dirty hot parent |
| `pebble_manager.rs` 558-559: close confirms that the data reached storage | `ClosedReachesStorage` | *D*: flush drains the dirty set first (522), so that a second close has nothing left to write |
| `pebble_manager.rs` 558-560: and that it can be recovered | `ClosedIsRecoverable` | `MCPebbleManager_run.cfg` with HotCapacity = 3: a child names a removed parent and cannot be recovered |
| `pebble_manager.rs` 66-68: tombstones are removed items of the cold tier | `BlueReadsBack` | *D* with Hot = 1, Removes = TRUE, MaxAdds = 2, MaxFailures = 0, MaxStops = 0: the mark stays when the id is added again, and compact (655-662) purges the new checkpoint |
| `pebble_manager.rs` 657-659: recovery skips a removed id | `NoResurrection` | `MCPebbleManager_run.cfg`: recover never reads the manifest |
| `manifest.rs` 4-5: replaying the log gives the live set | `ReplayGivesLiveSet` | `MCPebbleManager_run.cfg`: remove writes no tombstone for a hot checkpoint that a flush has logged |
| `README.md` of pebble, 17: the log is crash-safe | `LogSurvivesCrash` | `MCPebbleManager_close.cfg` with HotCapacity = 1: entries wait in memory |
| `manifest.rs` 11: entries are written before the data | `AnnouncedBeforeStored` | `MCTieredStore.cfg`: the entry is in a ring in memory when the data is in storage |
| `manifest.rs` 34: gaps indicate lost entries | `LostEntriesLeaveGap` | `MCTieredStore.cfg`: entries lost at the end leave none |
| `verify.rs` 3-5: the manifest is the verification mechanism | `VerifyFindsLoss` | `MCTieredStore.cfg`: DirectStorage ignores a failed send (direct.rs 85); the entry is in the log, the data is not in storage |
| `cold/mod.rs` 66: remove a checkpoint from storage | `RemovedStaysGone` | `MCTieredStore.cfg`: a copy in a buffer arrives later |
| `cold/mod.rs` 69: the count of buffered items not yet in storage | `BufferedCountIsAll` | `MCTieredStore.cfg`: items in the workers' rings are not counted |
| `pebble_manager.rs` 611-612: hot and warm data is dropped immediately | `RemovedIsGone` | `MCRebuild.cfg`: rebuild promotes from warm without taking it out (rebuild.rs 249-268) |
| `branch.rs` 25-31: head and fork point are checkpoints | `BranchesNameTheLiving` | `MCRebuild.cfg`: they are not cleared by remove |
| `critical_paths.rs` 3-4, 16: the longest path through the graph | `CriticalIsLongest` | `MCComputationDAG.cfg` with three ids, Unchecked = FALSE, MaxAdds = 3: add(b, [a]), add(c, [a, b]) leaves a at 1 |
| `core_impls.rs` 247-248: `BatchSpout` buffers until threshold items accumulate, then forwards | `NeverMoreThanThreshold` | `MCSpouts.cfg` with one producer whose strings are followed by three times `None`: a payload refused in send_all leaves more than a batch in the buffer, and the next send forwards it all |
| `producer.rs` 7: a dropped producer's items stay in its ring for the consumer | `DroppedWaitInRing` | `MCSpouts.cfg` with one producer: the ring's drop sends them on |
| `retry.rs` 242: the delay is base * 2^(attempt - 1), capped at max | `BackoffDoubles` | `MCVerdict.cfg` with MaxShift = 0: the shift is capped, at 31 in the code |

Four more that no comment promises but a caller may expect: `OneTier` after a rebuild and
`HotRebuilds` (a checkpoint whose dependencies are held somewhere can be rebuilt), both refuted in
`MCRebuild.cfg`, the second by DependencyMissing; `ErrorLosesOneBatch`, refuted in `MCSpouts.cfg`: a
batch that is refused takes the rest of the iterator of a send_all with it (spout/src/traits.rs
20-25); and `ExhaustedStaysExhausted`, refuted in `MCVerdict.cfg`: `from_bytes` drops the status, as
its comment says, and the next caller retries.

*P* is `MCWorkerPool_run.cfg` with NumWorkers = 2, N = 2, Joined = TRUE, WorkPanics = TRUE,
OutFails = FALSE, MaxRounds = 1. *D* is `MCPebbleManager_fail.cfg` with HotCapacity = 2 (Hot),
WarmCapacity = 1 (Warm), Resizes = {}, Divisor = 4, Removes = FALSE, MaxAdds = 1, MaxFailures = 1, MaxStops = 1.

`CHECK_DEADLOCK FALSE` is set everywhere: a ring is dropped, a pool is shut down, a
manager is closed, a retry returns, and a bounded model has nothing left to hand in.

## Proofs

A theorem holds for every value of the constants that the assumptions of its module allow; the
bounds of the models (`MaxItems`, `MaxAdds`, `MaxFailures`, `MaxStops`, `MaxRounds`) are any natural
numbers there. A hypothesis beyond those assumptions is named with the theorem.

### SpillRing

For every capacity `N` and every `Modulus` that `N` divides (the code's 2^w and power-of-two
capacity are a case of it), whatever the spout does:

* `TypesHold`, `WindowHolds`: `TypeOK` and `WindowInOrder`.
* `OrderHolds`, `ItemsConserved`: `OrderKept` and `Conservation`.
* `QueueRefined`: `ImplementsQueue`.

The first inductive invariant is `IInv == TypeOK /\ WindowInOrder`. Neither half is inductive
alone: that what a step sends or returns is an item, not `Uninit`, needs the window, and the
window's arithmetic needs the types. `Advance` and `CountStep` say how the wrapped length changes,
`ElementSlot` and `PositionsDiffer` that two positions less than N apart have different slots, so a
write past the window disturbs no live item; `WindowStep`, `LeaveStep` and `StoreStep` are the
three ways an action moves the window (leave it, drop its front, extend its back); `Copy`
treats the two segments of `push_slice`. `DataFacts` holds the facts on `%` these rest on.

The second half of `SpillRing_proofs` restates what each action does as a step on the sequence of live items,
`Flow(k, e, n)` (k leave at the front, e of them to the spout, n arrive) or `Taking(k)`.
With `IInv`, `HInv == FirstInFirstOut /\ SpilledOnceInOrder /\ Conservation` is inductive under
both: what is older has left. The same two forms are the steps of `SpillQueue`, which gives the
refinement; a step that a panic cuts short is excepted there, the state it leaves is not.

### WorkerPool

For any number of workers, rings of any capacity and any number of rounds:

* `HandoffHolds`: `Handoff`, whatever panics, fails, or is called without a join.
* `RoundsHold`: `RoundsAreSeparate`, if the caller joins every round and the work does not panic.
  Both hypotheses are needed: a panic lets join return while others still work, and dispatch
  before join overlaps two rounds (the table above).
* `DeliveryHolds`: `Delivery`, again whatever panics, fails, or is called without a join.

For the first, `OwnInv` says that the six places a ring can be in hold different rings
(`Apart`) and which of them are filled at which point of the thread (`Owns`). As there are two rings
and a worker at "publish" holds both, the slot it swaps into is empty: no ring is merged or
freed behind somebody's back. `Control` ties `shutdown` to where main is. For the second,
`RoundInv` places each worker in a phase of the round (parked, called, working, reported,
leaving) by where main is in its loop over the workers; at the end of join all of them are parked
after the same number of pushes.

For `DeliveryHolds`, `DeliveryInv` adds accounts to `OwnInv`. `OnItsWay` strings together what the
consumer has, the rings collected at shutdown, the ring in main's hand, the one in the slot and the one
the worker fills. That sequence ascends, and every item pushed is in it, spilled or lost, in one
of the three (`Accounted`): each swap only moves a ring from one term to the next, because the ring
that comes back to be filled is empty (`SparesEmpty`). `Ending` says that rings are kept
aside only in a shutdown, and that main drops the slots after the threads have ended, so that no
worker fills a ring behind it.

### FanIn

For any number of workers, of mergers among them, of rounds and of flushes, sequenced or not,
whatever the sinks refuse and whether or not the caller joins:

* `DeliveryHolds`: `Delivery`.
* `SequencedHolds`: `Sequenced`.
* `LoopDeliversHolds`: `LoopDelivers`.

The inductive invariant of the first is `PathInv`. It cuts the way of a worker's items in two: what
its merger has put out or buffered (`Carried`), and what lies in its slot and ring (`Held`).
A worker only lengthens or rearranges the second part, `Collect` takes a sequence from one to
the other, `Finish` rearranges the first, and a failure drops a piece out of the middle;
`Accounted` says that what is left ascends and that nothing is missing but `lost`. Two
of its parts are what makes these steps true. `Rings`: a ring waits in the recycle slot, or
is on its way to be published, only while the slot of the batch is empty, so that the code's
merge of an uncollected batch never meets one and no older item ends up behind a younger.
`Ahead`: only numbers after the one expected are buffered, and none after the stamp. A batch that is due
or late is put out at once; then nothing is buffered that it could overtake, as there is no number between
the stamp and the one expected. One that is early goes under the stamp, the last number of the buffer
(`CollectCarries`). `JoinedSplit`, `BufferCut` and `BufferDrained` say what a buffer is once its
first batches have gone: what `advance` puts out is a beginning of all that is buffered (`FinishCarries`).

For the loop, `LoopInv` says that as long as the caller is `steady` nothing is buffered or lost, item k of
a worker belongs to round k, and each worker and each merger is at one of a few places
(`WorkerPlace`, `MergerPlace`): a batch in a slot is the one item of the round just joined, and a merger that
has passed a slot has put it out.

### TieredStore

For any ids, capacities, number of workers and kind of storage, if every add has a version
(`1 .. MaxAdds \subseteq Versions`):

* `BuffersHold`, `FlushHolds`, `JournalHolds`: `Buffers`, `FlushMakesVisible`, `JournalIsTrue`.
* `LoadHolds`: `LoadReturnsWhatWasEvicted`.
* `LogRefined`: `ImplementsLog`.

The inductive invariant is `StoreInv`: the shape of the tier between two calls (`ColdShape`: each
worker's slot has a batch or a spare, so that it finds a ring to go on with and is left without
items of its own, and nothing has strayed), the manager's sets (`ManagerShape`), no
version under two ids (`CopiesApart`, which is why a swallowed version is never mistaken for a
stored one), `WillBeLatest` (storage with all that is on its way applied in order is what
`store` took last), and `BlueComesBack`. Every operation moves a prefix of the buffered
entries into storage and leaves the rest in order (`Moves`) or stops (`Stops`); with the lemmas
on applying a concatenation of entries (`InTurn`) that preserves `WillBeLatest` and is the step of
`ColdLog`. `LogInv` adds that each id outside memory is told of by the journal or the ring of
entries, or its entry died when a manager was killed (`seen`), and that numbers run on. A kill adds to
`seen` no more ids than the ring has entries (`AnnouncedFew`, `KillCost`), which bounds what
`JournalIsTrue` lets go untold.

### PebbleManager

For any ids, capacities and `Divisor`:

* `TiersHold`, `OrderHolds`: `TiersAgree`, `OrderIsTopological`; no hypothesis.
* `ParentsHold`: `FlushStoresParentsFirst`; no hypothesis.
* `CloseHolds`: `failures = 0 => CloseIsDurable`, under `NoReuse`.
* `StorageHolds`: `StorageAgrees`, without removals.
* `ContentHolds`: `OthersKeepContent`, under `NoReuse` and with a warm tier (`WarmCapacity # 0`).
* `StepsHold`: `StepsUntilStop`, under `NoReuse` while no write fails.
* `StoreRefined`: `ImplementsStore`, without removals, with one add of an id, while no write fails.

`NoReuse` says that an id that can be removed is added once. A tombstone outlives its id and
compact would purge the next checkpoint of that id, so without it the statements are false
(`BlueReadsBack` in the table above). What compact purges
is announced in a ring it does not drain, so that after a crash the manifest still says "stored": hence
`~Removes` for `StorageHolds`. `NoWarm` gives nothing back when
a cold write fails, hence the warm tier in `ContentHolds`. A failed write breaks the refinement
(add leaves a node without a checkpoint), a removal breaks it across a stop (recovery knows nothing
of it), and an old copy of an id added again after a crash would be recovered in its place.

`ManagerInv` is inductive by itself: `OrderShape` (the order of creation has no id twice and puts
dependencies first), `TierShape` (the tiers are apart and hold nodes), `HotShape` (capacity),
`ContentShape` (contents are numbers of adds that were made), `OtherShape`. A step is one of few
kinds (`StepIs`): it rearranges the tiers, at most one checkpoint entering the hot one
(`Rearranges`, around one batch of evictions, `Turnover`), flushes, resizes, crashes with some writes
done (`CrashStores`), lets a set of nodes leave (`Leaves`), or recovers. That an eviction always
finds a candidate is `EvictionsExist`: of a nonempty hot tier the node created last has no
dependent there. Each further invariant is then shown kind by kind: `Written` (what is cold, or in
memory without the dirty mark, has its copy), `Announced`, and for the refinement `MapInv` (every
node is held by a tier) and `CopiesTrue` (a copy in storage is that of a node as it is, or names a
dependency that is gone for good). By the last, what recovery takes up is a part of the nodes closed
under dependencies (`RecoverableIs`), and after a close all of them (`AllRecoverable`, by
induction along the order of creation).

The module takes `Only` and `Without` from `Selection`, where the positions of the items define
them, and writes `TakenIn` as a recursive function: the provers cannot unfold a RECURSIVE
operator such as SelectSeq's. `DataFacts` proves induction over the naturals from the library's
theorem on minimal elements of a well-founded relation, and with it what selections,
concatenations and halves of sequences hold.

### ComputationDAG

For any finite set of ids, any number of additions and dependency lists of any width, with unchecked
additions or without:

* `GraphHolds`: `GraphAgrees`.
* `RebuildOrderHolds`: `RebuildOrderIsComplete`.
* `PathsHold`: `PathsAgree`.
* `RepairHolds`: `RepairIsExact`.

`DagInv` adds two parts to what they state. `BackLinks` holds even of a graph that unchecked additions
have left incomplete: whatever is listed as a dependent depends on the node, so that a removal
leaves no link to what is gone. `Layered` says that in a repaired graph no dependency is missing and
depths rise along every edge: addition and repair make it so, and a removal, which leaves depths too
high, takes edges away and adds none. From it follow the order of a rebuild and that a rebuild meets
only nodes it knows.

The loops of the code are functions that count their rounds. `LoopRuns` gives a run of any loop whose
body stays in a set of states; what that set says then holds after every round (`RoundsKeep`), which is
how the updates of the critical paths are shown to leave lengths. `ChainStops`: a loop that
only adds to a subset of U is done after Cardinality(U) rounds. With it `Required` and `Above` are the
smallest closed sets (`CollectedIs`), and the waves of `RebuildDepths` reach every node of a graph
without cycles (`RebuildDepthsIs`): of the nodes not reached, the one with the fewest nodes above it
depends on none of the others (`FirstExists`), so that the next wave would have reached it.
`WavesReach` states this for any relation, and with `LastExists`, the same choice upwards,
`CriticalPathsIs` gets the heights of all nodes from the waves that start at the leaves.

`MeasuresInv` is what the two properties of longest paths need besides `DagInv`. `DepthsExact`: each
depth is the first number above the depths of the dependencies. `CriticalReached`: for each
critical path there is a path as long. That is all that can be said of them between two
repairs: an addition walks upwards breadth-first and stops where nothing rises, and whatever it
writes is one more than a length below it (`Feeds`, `PropagatedIs`). The model's `Paths` are
sequences of at most Cardinality(Ids) nodes. They are all there are: depths rise along a path, so
that none meets a node twice (`PathsAre`, `PathShort`). Numbers that are the first above the
dependencies' are then the longest paths to the nodes (`LongestToIs`), those that are the first
above the dependents' the longest paths from them (`LongestFromIs`), and a repair computes both.
`RepairedIsAcyclic` is why a repaired graph has such numbers at all.

### Rebuild

For any ids and branch names, any capacities, `Divisor`, resizes and choice of victims, under `NoReuse`:

* `RebuildHolds`: `RebuildWorks`.
* `BranchesHold`: `BranchesAgree`.

Both rest on `RebuildInv` (`RebuildInvHolds`), which cannot contain `ManagerInv`: a promotion puts a
checkpoint in two tiers, a removal then leaves one that is no node, and the hot tier may overflow.
What remains true is said by its four parts. `DagShape`: dependencies come first, and depths rise along every
edge, since additions make it so and removals only take edges away. `SeenShape`: whatever
the DAG, a tier, a tombstone or a branch still knows of has been added before. `TiersLoose`: a cold node
has its copy in storage, no node is tombstoned, and the hot tier fits unless nothing in it can be evicted.
`BranchShape`: who is held has a branch, and the head of a branch, while it lives, comes after all
the others of its branch in the order of creation.

`NoReuse` is needed once, in additions: with `SeenShape` the id that is added is unknown to every tier and to
every branch (`adds` would not be 0), so that no copy of an older checkpoint, no tombstone
and no branch's old head can be taken for the new one. Without it both statements are false, as TLC
shows with MaxAdds = 2: compact purges the cold copy of the second a for the tombstone of the first
(`RebuildWorks`), and a branch forked from a has a itself on it when a is removed and added again there
(`BranchesAgree`).

The steps that leave the nodes alone are one kind (`Settles`): nobody comes to be held who was
not, and copies stay. To show that the hot tier keeps to its capacity, `MakesRoom` says what
an eviction leaves in it, given that candidates exist (`CandidateExists` and `EvictionsFound`, which
`PebbleManager_proofs` uses too and which ask for no more than an order of creation with a node of
it in hot). For a rebuild, `NeededIs` says that the plan is closed under the dependencies hot lacks,
and `ShallowestIs` that the next of the plan is one whose dependencies are hot or dealt with, because
their depths are smaller. Then `OnCourse` holds after every round (`RoundsAre`, `WorkIs`): all
that was dealt with is in the workspace and nothing was moved to hot, unless the
rebuild has stopped, which takes a node of the plan without a base (`HasBase`). As on that course no
dependency has to be loaded (`NothingToLoad`), a rebuild an error cuts short has moved nothing
either (`InterruptedIs`).

### What stays with TLC

Liveness under fairness (`ShutdownCompletes`, `JoinReturns`) and ENABLED are outside the prover's
reach. `ByteCast` writes its operators on types and values recursively, and what they compute for every
type is an induction over data; `Spouts` and `Verdict` use them in every step. Their
properties (`Delivery`, `FramesStandAlone` and `BatchesAreFull` of `Spouts`, `FramesAccounted` and
`RetryIsHonest` of `Verdict`) are model-checked only. Every other property of a run is a theorem.

## Plan

1. `PebbleManager`: `auto_resize`, on an instance of four checkpoints that TLC can still finish.
2. `Rebuild`: failed writes, once the undo of an eviction is stated for checkpoints in two tiers.
3. The red-blue pebble game as an abstract specification of the tiers.

## Not modelled

* The arms of `display_error` and the other formatting, errors, builders, statistics, constructors and
  iterators: they keep no state of their own, or lead to initial states a constant names.
* The derive of `CheckpointSerializer`: serialisation of checkpoints fails or does not.
  The bridges to other error crates and backtraces: they copy what they are given.
* `auto_resize` (see the plan). The red-blue game (`game`), which debug builds keep beside the tiers:
  add, load, remove, recover and rebuild mirror their moves in it and assert that its counts are those of the
  tiers (`debug_validate`, pebble_manager.rs 817-835). No decision is taken from it, and a release build has
  none. The tokens of `safety` are checked by the compiler.
* Benchmarks, examples, and the memory order of single accesses (see `WorkerPool`).
