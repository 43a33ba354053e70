------------------------------ MODULE WorkerPool ------------------------------
(***************************************************************************)
(* spill-ring/src/mpsc/tpc: a pool of persistent worker threads, each with  *)
(* a private SpillRing, and the thread that owns the pool ("main").  Main   *)
(* wakes the workers for a round, waits for them, takes the rings they      *)
(* publish in their handoff slots and hands emptied rings back.             *)
(*                                                                         *)
(* Every atomic load, store or swap of WorkerSignal and HandoffSlot that    *)
(* the other thread can observe is a step of its own.  Loads and stores of  *)
(* one flag are totally ordered and the hand-over of the data they guard is *)
(* release/acquire, so steps interleave on a single memory.                 *)
(*                                                                         *)
(* A round runs the user's work function once in every woken worker; here   *)
(* the work pushes one item, the k-th item of worker w being the number k.  *)
(* A ring is identified within its worker: rings never change worker.       *)
(***************************************************************************)
EXTENDS Integers, Sequences, FiniteSets

CONSTANTS
  NumWorkers,   \* num_workers
  N,            \* capacity of a ring
  Joined,       \* TRUE: the caller joins every round before any other call
  WorkPanics,   \* whether the work function may panic
  OutFails,     \* whether the spout given to collect() may return an error
  MaxRounds     \* bound of the model: calls of dispatch()

ASSUME PoolAssumption ==
  /\ NumWorkers \in Nat \ {0}
  /\ N \in Nat \ {0}
  /\ Joined \in BOOLEAN
  /\ WorkPanics \in BOOLEAN
  /\ OutFails \in BOOLEAN
  /\ MaxRounds \in Nat

Workers == 1 .. NumWorkers
Rings   == {1, 2}      \* the active ring and the spare of start()
NoRing  == 0           \* a null pointer

VARIABLES
  \* main
  mpc,          \* where main is: "idle" between two calls
  at,           \* the worker whose signal or slot main handles next
  round,        \* rounds dispatched (batch_seq)
  args,         \* the round whose arguments args_ptr points to, 0 for null
  unjoined,     \* TRUE from dispatch() to the return of join()
  failure,      \* the outcome of the last join() or dispatch()
  held,         \* the ring main has taken out of a slot and not given back
  final,        \* per worker, the rings shutdown_and_join() has collected
  \* signals and slots
  go, done, shutdown,
  batch, recycle,
  \* workers
  pc, active, fresh, cur,
  ran,          \* the rounds each worker has run, in order
  \* contents and destinations
  items,        \* items[w][k]: the content of ring k of worker w
  out,          \* items the consumer has received from each worker
  spill,        \* items each worker's spout has received
  failed        \* items lost in a send that returned an error

mainVars   == <<mpc, at, round, args, unjoined, failure, held, final>>
signals    == <<go, done, shutdown>>
slotVars   == <<batch, recycle>>
workerVars == <<pc, active, fresh, cur, ran>>
dataVars   == <<items, out, spill, failed>>
vars == <<mainVars, signals, slotVars, workerVars, dataVars>>

Init ==
  /\ mpc = "idle" /\ at = 1 /\ round = 0 /\ args = 0
  /\ unjoined = FALSE /\ failure = "none"
  /\ held = NoRing
  /\ final = [w \in Workers |-> <<>>]
  /\ go = [w \in Workers |-> FALSE]
  /\ done = [w \in Workers |-> FALSE]
  /\ shutdown = [w \in Workers |-> FALSE]
  /\ batch = [w \in Workers |-> NoRing]
  /\ recycle = [w \in Workers |-> 2]
  /\ pc = [w \in Workers |-> "wait"]
  /\ active = [w \in Workers |-> 1]
  /\ fresh = [w \in Workers |-> NoRing]
  /\ cur = [w \in Workers |-> 0]
  /\ ran = [w \in Workers |-> <<>>]
  /\ items = [w \in Workers |-> [k \in Rings |-> <<>>]]
  /\ out = [w \in Workers |-> <<>>]
  /\ spill = [w \in Workers |-> <<>>]
  /\ failed = [w \in Workers |-> {}]

-------------------------------------------------------------------------------
(* SpillRing as SpillQueue specifies it: a push that does not fit spills. *)

Excess(s)  == IF Len(s) > N THEN Len(s) - N ELSE 0
Kept(s)    == SubSeq(s, Excess(s) + 1, Len(s))
Evicted(s) == SubSeq(s, 1, Excess(s))

\* Dropping a ring flushes it to its spout; of no ring, nothing happens.
Freed(w, k) == IF k = NoRing THEN <<>> ELSE items[w][k]
Emptied(w, k) ==
  IF k = NoRing THEN items ELSE [items EXCEPT ![w][k] = <<>>]

-------------------------------------------------------------------------------
(* worker_loop *)

\* wait_for_go returns; is_shutdown is only read once go has been seen.
Wake(w) ==
  /\ pc[w] = "wait"
  /\ go[w]
  /\ pc' = [pc EXCEPT ![w] = IF shutdown[w] THEN "exit" ELSE "clear"]
  /\ UNCHANGED <<mainVars, signals, slotVars, active, fresh, cur, ran, dataVars>>

\* Mutant of ClearGo: the wake-up is not consumed.
ClearGoSkipped(w) ==
  /\ pc[w] = "clear"
  /\ pc' = [pc EXCEPT ![w] = "load"]
  /\ UNCHANGED <<mainVars, signals, slotVars, active, fresh, cur, ran, dataVars>>

ClearGo(w) ==
  /\ pc[w] = "clear"
  /\ go' = [go EXCEPT ![w] = FALSE]
  /\ pc' = [pc EXCEPT ![w] = "load"]
  /\ UNCHANGED <<mainVars, done, shutdown, slotVars, active, fresh, cur, ran, dataVars>>

LoadArgs(w) ==
  /\ pc[w] = "load"
  /\ args # 0
  /\ cur' = [cur EXCEPT ![w] = args]
  /\ pc' = [pc EXCEPT ![w] = "work"]
  /\ UNCHANGED <<mainVars, signals, slotVars, active, fresh, ran, dataVars>>

\* The work function pushes its item into the active ring.
Work(w) ==
  LET k    == active[w]
      full == Append(items[w][k], Len(ran[w]) + 1)
  IN  /\ pc[w] = "work"
      /\ ran' = [ran EXCEPT ![w] = Append(@, cur[w])]
      /\ items' = [items EXCEPT ![w][k] = Kept(full)]
      /\ spill' = [spill EXCEPT ![w] = @ \o Evicted(full)]
      /\ pc' = [pc EXCEPT ![w] = "take"]
      /\ UNCHANGED <<mainVars, signals, slotVars, active, fresh, cur, out, failed>>

\* Mutant of WorkPanic: the thread leaks its ring instead of dropping it.
WorkPanicLeaks(w) ==
  /\ WorkPanics
  /\ pc[w] \in {"work", "take"}
  /\ pc' = [pc EXCEPT ![w] = "panicked"]
  /\ items' = [items EXCEPT ![w][active[w]] = <<>>]
  /\ active' = [active EXCEPT ![w] = NoRing]
  /\ UNCHANGED <<mainVars, signals, slotVars, fresh, cur, ran, out, spill, failed>>

\* The work function panics, before or after its push: the thread unwinds and
\* drops the ring it owns.
WorkPanic(w) ==
  LET k == active[w]
  IN  /\ WorkPanics
      /\ pc[w] \in {"work", "take"}
      /\ pc' = [pc EXCEPT ![w] = "panicked"]
      /\ active' = [active EXCEPT ![w] = NoRing]
      /\ spill' = [spill EXCEPT ![w] = @ \o items[w][k]]
      /\ items' = [items EXCEPT ![w][k] = <<>>]
      /\ UNCHANGED <<mainVars, signals, slotVars, fresh, cur, ran, out, failed>>

\* Mutant of TakeRecycle: the slot is read and not swapped with null.
TakeRecycleKeepsSlot(w) ==
  /\ pc[w] = "take"
  /\ fresh' = [fresh EXCEPT ![w] = recycle[w]]
  /\ pc' = [pc EXCEPT ![w] = IF recycle[w] = NoRing THEN "done" ELSE "publish"]
  /\ UNCHANGED <<mainVars, signals, slotVars, active, cur, ran, dataVars>>

\* take_recycle: without a spare ring the worker keeps its own and is done.
TakeRecycle(w) ==
  /\ pc[w] = "take"
  /\ fresh' = [fresh EXCEPT ![w] = recycle[w]]
  /\ recycle' = [recycle EXCEPT ![w] = NoRing]
  /\ pc' = [pc EXCEPT ![w] = IF recycle[w] = NoRing THEN "done" ELSE "publish"]
  /\ UNCHANGED <<mainVars, signals, batch, active, cur, ran, dataVars>>

\* Swap the active ring into the slot.  A batch still in the slot is merged into
\* the fresh ring and its ring freed.
Publish(w) ==
  LET k      == fresh[w]
      old    == batch[w]
      merged == items[w][k] \o Freed(w, old)
  IN  /\ pc[w] = "publish"
      /\ batch' = [batch EXCEPT ![w] = active[w]]
      /\ active' = [active EXCEPT ![w] = k]
      /\ fresh' = [fresh EXCEPT ![w] = NoRing]
      /\ items' = [Emptied(w, old) EXCEPT ![w][k] = Kept(merged)]
      /\ spill' = [spill EXCEPT ![w] = @ \o Evicted(merged)]
      /\ pc' = [pc EXCEPT ![w] = "done"]
      /\ UNCHANGED <<mainVars, signals, recycle, cur, ran, out, failed>>

\* Mutant of SignalDone: a worker that published nothing does not report.
SignalDoneIfPublished(w) ==
  /\ pc[w] = "done"
  /\ done' = [done EXCEPT ![w] = batch[w] # NoRing]
  /\ pc' = [pc EXCEPT ![w] = "wait"]
  /\ UNCHANGED <<mainVars, go, shutdown, slotVars, active, fresh, cur, ran, dataVars>>

SignalDone(w) ==
  /\ pc[w] = "done"
  /\ done' = [done EXCEPT ![w] = TRUE]
  /\ pc' = [pc EXCEPT ![w] = "wait"]
  /\ UNCHANGED <<mainVars, go, shutdown, slotVars, active, fresh, cur, ran, dataVars>>

\* Shutdown: publish the ring; a batch found in the slot is dropped.
Exit(w) ==
  LET old == batch[w]
  IN  /\ pc[w] = "exit"
      /\ batch' = [batch EXCEPT ![w] = active[w]]
      /\ active' = [active EXCEPT ![w] = NoRing]
      /\ spill' = [spill EXCEPT ![w] = @ \o Freed(w, old)]
      /\ items' = Emptied(w, old)
      /\ pc' = [pc EXCEPT ![w] = "exited"]
      /\ UNCHANGED <<mainVars, signals, recycle, fresh, cur, ran, out, failed>>

WorkerStep(w) ==
  \/ Wake(w) \/ ClearGo(w) \/ LoadArgs(w) \/ Work(w) \/ TakeRecycle(w)
  \/ Publish(w) \/ SignalDone(w) \/ Exit(w)

-------------------------------------------------------------------------------
(* Main.  "idle" is the state between two calls of the pool's methods. *)

\* JoinHandle::is_finished of a thread that is still to be joined.
Finished(w) == pc[w] \in {"panicked", "exited"}

\* check_panicked
PanicSeen == \E w \in Workers : Finished(w) /\ ~done[w]

\* all_done_or_panicked
RoundOver == PanicSeen \/ \A w \in Workers : done[w]

MayCall == mpc = "idle" /\ (Joined => ~unjoined)

\* Continue with the next worker, or go on to `then` after the last one.
NextWorker(then) ==
  IF at < NumWorkers THEN at' = at + 1 /\ mpc' = mpc
                     ELSE at' = 1 /\ mpc' = then

Dispatch ==
  /\ MayCall
  /\ round < MaxRounds
  /\ ~PanicSeen
  /\ round' = round + 1
  /\ args' = round + 1
  /\ unjoined' = TRUE
  /\ mpc' = "go"
  /\ UNCHANGED <<at, failure, held, final, signals, slotVars, workerVars, dataVars>>

\* check_panicked().expect(): main unwinds, which drops the pool.
DispatchPanics ==
  /\ MayCall
  /\ round < MaxRounds
  /\ PanicSeen
  /\ failure' = "unwound"
  /\ mpc' = "preCollect"
  /\ UNCHANGED <<at, round, args, unjoined, held, final, signals, slotVars, workerVars, dataVars>>

SignalGo ==
  /\ mpc = "go"
  /\ go' = [go EXCEPT ![at] = TRUE]
  /\ NextWorker("idle")
  /\ UNCHANGED <<round, args, unjoined, failure, held, final, done, shutdown,
                 slotVars, workerVars, dataVars>>

\* join(), called once per dispatched round.
Join ==
  /\ mpc = "idle"
  /\ unjoined
  /\ mpc' = "join"
  /\ UNCHANGED <<at, round, args, unjoined, failure, held, final,
                 signals, slotVars, workerVars, dataVars>>

JoinPanicked ==
  /\ mpc = "join"
  /\ PanicSeen
  /\ failure' = "err"
  /\ unjoined' = FALSE
  /\ mpc' = "idle"
  /\ UNCHANGED <<at, round, args, held, final, signals, slotVars, workerVars, dataVars>>

JoinDone ==
  /\ mpc = "join"
  /\ RoundOver /\ ~PanicSeen
  /\ mpc' = "clearDone"
  /\ UNCHANGED <<at, round, args, unjoined, failure, held, final,
                 signals, slotVars, workerVars, dataVars>>

ClearDone ==
  /\ mpc = "clearDone"
  /\ done' = [done EXCEPT ![at] = FALSE]
  /\ NextWorker("idle")
  /\ unjoined' = (at < NumWorkers)
  /\ UNCHANGED <<round, args, failure, held, final, go, shutdown,
                 slotVars, workerVars, dataVars>>

\* collect(): one slot after the other.
Collect ==
  /\ MayCall
  /\ mpc' = "collect"
  /\ UNCHANGED <<at, round, args, unjoined, failure, held, final,
                 signals, slotVars, workerVars, dataVars>>

CollectEmpty ==
  /\ mpc = "collect"
  /\ held = NoRing
  /\ batch[at] = NoRing
  /\ NextWorker("idle")
  /\ UNCHANGED <<round, args, unjoined, failure, held, final,
                 signals, slotVars, workerVars, dataVars>>

\* Mutant of CollectSwap: the slot is read and not swapped with null.
CollectKeepsSlot ==
  /\ mpc = "collect"
  /\ held = NoRing
  /\ batch[at] # NoRing
  /\ held' = batch[at]
  /\ UNCHANGED <<mpc, at, round, args, unjoined, failure, final,
                 signals, slotVars, workerVars, dataVars>>

CollectSwap ==
  /\ mpc = "collect"
  /\ held = NoRing
  /\ batch[at] # NoRing
  /\ held' = batch[at]
  /\ batch' = [batch EXCEPT ![at] = NoRing]
  /\ UNCHANGED <<mpc, at, round, args, unjoined, failure, final,
                 signals, recycle, workerVars, dataVars>>

\* send_all(ring.drain()), then offer_recycle: a spare not yet taken is freed.
CollectSend ==
  LET old == recycle[at]
  IN  /\ mpc = "collect"
      /\ held # NoRing
      /\ out' = [out EXCEPT ![at] = @ \o items[at][held]]
      /\ items' = [Emptied(at, old) EXCEPT ![at][held] = <<>>]
      /\ spill' = [spill EXCEPT ![at] = @ \o Freed(at, old)]
      /\ recycle' = [recycle EXCEPT ![at] = held]
      /\ held' = NoRing
      /\ NextWorker("idle")
      /\ UNCHANGED <<round, args, unjoined, failure, final, signals, batch,
                     workerVars, failed>>

\* The i-th send fails: collect returns the error, the ring is dropped with what
\* is left in it, and the remaining slots keep their batches.
CollectFails(i) ==
  LET s == items[at][held]
  IN  /\ OutFails
      /\ mpc = "collect"
      /\ held # NoRing
      /\ i \in DOMAIN s
      /\ out' = [out EXCEPT ![at] = @ \o SubSeq(s, 1, i - 1)]
      /\ failed' = [failed EXCEPT ![at] = @ \union {s[i]}]
      /\ spill' = [spill EXCEPT ![at] = @ \o SubSeq(s, i + 1, Len(s))]
      /\ items' = [items EXCEPT ![at][held] = <<>>]
      /\ held' = NoRing
      /\ mpc' = "idle"
      /\ at' = 1
      /\ UNCHANGED <<round, args, unjoined, failure, final, signals, slotVars, workerVars>>

-------------------------------------------------------------------------------
(* shutdown_and_join(), called by into_consumer() and by drop *)


Shutdown ==
  /\ MayCall
  /\ mpc' = "preCollect"
  /\ UNCHANGED <<at, round, args, unjoined, failure, held, final,
                 signals, slotVars, workerVars, dataVars>>

\* The two collecting passes, before the signals and after the joins.
CollectFinal ==
  /\ \/ mpc = "preCollect" /\ NextWorker("signal")
     \/ mpc = "postCollect" /\ NextWorker("consume")
  /\ batch' = [batch EXCEPT ![at] = NoRing]
  /\ final' = IF batch[at] = NoRing THEN final
              ELSE [final EXCEPT ![at] = Append(@, batch[at])]
  /\ UNCHANGED <<round, args, unjoined, failure, held, signals, recycle,
                 workerVars, dataVars>>

SignalShutdown ==
  /\ mpc = "signal"
  /\ ~shutdown[at]
  /\ shutdown' = [shutdown EXCEPT ![at] = TRUE]
  /\ UNCHANGED <<mainVars, go, done, slotVars, workerVars, dataVars>>

\* Mutant of SignalLastGo: the worker is not woken to see the flag.
SignalNoGo ==
  /\ mpc = "signal"
  /\ shutdown[at]
  /\ NextWorker("joinThreads")
  /\ UNCHANGED <<round, args, unjoined, failure, held, final, signals,
                 slotVars, workerVars, dataVars>>

SignalLastGo ==
  /\ mpc = "signal"
  /\ shutdown[at]
  /\ go' = [go EXCEPT ![at] = TRUE]
  /\ NextWorker("joinThreads")
  /\ UNCHANGED <<round, args, unjoined, failure, held, final, done, shutdown,
                 slotVars, workerVars, dataVars>>

JoinThread ==
  /\ mpc = "joinThreads"
  /\ Finished(at)
  /\ NextWorker("postCollect")
  /\ UNCHANGED <<round, args, unjoined, failure, held, final,
                 signals, slotVars, workerVars, dataVars>>

\* Mutant of FinalItems: the ring collected last is drained first.
FinalItemsReversed(w) ==
  LET f == final[w]
  IN  IF Len(f) = 0 THEN <<>>
      ELSE IF Len(f) = 1 THEN items[w][f[1]]
      ELSE items[w][f[2]] \o items[w][f[1]]
FinalItems(w) ==
  LET f == final[w]
  IN  IF Len(f) = 0 THEN <<>>
      ELSE IF Len(f) = 1 THEN items[w][f[1]]
      ELSE items[w][f[1]] \o items[w][f[2]]

\* into_consumer() hands the collected rings to the Consumer, which drains them
\* in order; drop frees them, and their items go to the spout.
Consume ==
  /\ mpc = "consume"
  /\ \/ /\ failure # "unwound"
        /\ out' = [w \in Workers |-> out[w] \o FinalItems(w)]
        /\ UNCHANGED spill
     \/ /\ spill' = [w \in Workers |-> spill[w] \o FinalItems(w)]
        /\ UNCHANGED out
  /\ items' = [w \in Workers |-> [k \in Rings |-> <<>>]]
  /\ recycle' = [w \in Workers |-> NoRing]
  /\ final' = [w \in Workers |-> <<>>]
  /\ mpc' = "gone"
  /\ UNCHANGED <<at, round, args, unjoined, failure, held, signals, batch,
                 workerVars, failed>>

MainStep ==
  \/ SignalGo \/ JoinPanicked \/ JoinDone \/ ClearDone
  \/ CollectEmpty \/ CollectSwap \/ CollectSend \/ \E i \in 1 .. N : CollectFails(i)
  \/ CollectFinal \/ SignalShutdown \/ SignalLastGo \/ JoinThread \/ Consume

Call == Dispatch \/ DispatchPanics \/ Join \/ Collect \/ Shutdown

Next ==
  \/ Call
  \/ MainStep
  \/ \E w \in Workers : WorkerStep(w) \/ WorkPanic(w)

Spec == Init /\ [][Next]_vars

\* Threads are scheduled and the work function returns; which call main makes
\* next, if any, is its own affair, but a call once made runs to its end.
FairSpec ==
  /\ Spec
  /\ WF_vars(MainStep)
  /\ \A w \in Workers : WF_vars(WorkerStep(w))

-------------------------------------------------------------------------------
(* Properties *)

TypeOK ==
  /\ mpc \in {"idle", "go", "join", "clearDone", "collect", "preCollect", "signal",
              "joinThreads", "postCollect", "consume", "gone"}
  /\ at \in Workers
  /\ round \in 0 .. MaxRounds
  /\ args \in 0 .. MaxRounds
  /\ unjoined \in BOOLEAN
  /\ failure \in {"none", "err", "unwound"}
  /\ held \in Rings \union {NoRing}
  /\ final \in [Workers -> Seq(Rings)]
  /\ go \in [Workers -> BOOLEAN]
  /\ done \in [Workers -> BOOLEAN]
  /\ shutdown \in [Workers -> BOOLEAN]
  /\ batch \in [Workers -> Rings \union {NoRing}]
  /\ recycle \in [Workers -> Rings \union {NoRing}]
  /\ pc \in [Workers -> {"wait", "clear", "load", "work", "take", "publish", "done",
                         "exit", "exited", "panicked"}]
  /\ active \in [Workers -> Rings \union {NoRing}]
  /\ fresh \in [Workers -> Rings \union {NoRing}]
  /\ cur \in [Workers -> 0 .. MaxRounds]
  /\ ran \in [Workers -> Seq(1 .. MaxRounds)]
  /\ items \in [Workers -> [Rings -> Seq(Nat)]]
  /\ out \in [Workers -> Seq(Nat)]
  /\ spill \in [Workers -> Seq(Nat)]
  /\ failed \in [Workers -> SUBSET Nat]

\* How many places own ring k of worker w.
Owners(w, k) ==
    (IF active[w] = k THEN 1 ELSE 0)
  + (IF fresh[w] = k THEN 1 ELSE 0)
  + (IF batch[w] = k THEN 1 ELSE 0)
  + (IF recycle[w] = k THEN 1 ELSE 0)
  + (IF held = k /\ at = w THEN 1 ELSE 0)
  + Cardinality({i \in DOMAIN final[w] : final[w][i] = k})

\* "Ownership transfers on every swap" (HandoffSlot): a ring is never reachable
\* from two places, and one that no place owns holds no item.
OneOwner ==
  \A w \in Workers : \A k \in Rings :
    /\ Owners(w, k) <= 1
    /\ Owners(w, k) = 0 => items[w][k] = <<>>

\* With one spare per worker the slot is empty whenever a worker publishes after
\* its work, and the recycle slot whenever main gives a ring back: neither the
\* merge of worker_loop nor the free of offer_recycle ever has a ring to act on.
PublishFindsEmptySlot ==
  /\ \A w \in Workers : pc[w] = "publish" => batch[w] = NoRing
  /\ held # NoRing => recycle[at] = NoRing

\* Whoever owns a ring owns it alone, and no swap of a slot meets a ring that
\* is still there.
Handoff == TypeOK /\ OneOwner /\ PublishFindsEmptySlot

SeqItems(s) == {s[i] : i \in DOMAIN s}
InRings(w)  == UNION {SeqItems(items[w][k]) : k \in Rings}
Ascending(s) == \A i, j \in DOMAIN s : i < j => s[i] < s[j]

\* Whatever panics, fails or is cut short, every item a worker pushed is in
\* exactly one place: in a ring, with the consumer, with the spout, or lost in
\* the send that failed.
Conservation ==
  \A w \in Workers :
    /\ 1 .. Len(ran[w]) = InRings(w) \union SeqItems(out[w])
                            \union SeqItems(spill[w]) \union failed[w]
    /\ InRings(w) \intersect (SeqItems(out[w]) \union SeqItems(spill[w]) \union failed[w]) = {}
    /\ SeqItems(out[w]) \intersect (SeqItems(spill[w]) \union failed[w]) = {}
    /\ SeqItems(spill[w]) \intersect failed[w] = {}
    /\ SeqItems(items[w][1]) \intersect SeqItems(items[w][2]) = {}

\* The consumer receives the items of a worker in the order they were pushed,
\* across rounds, recycled rings and shutdown.
DeliveredInOrder == \A w \in Workers : Ascending(out[w])

\* What a worker pushes is neither lost nor doubled nor reordered on its way.
Delivery == Conservation /\ DeliveredInOrder

\* When every round is joined, a join that succeeds leaves all workers parked
\* with clean signals, each having run every round exactly once.
RoundBarrier ==
  Joined /\ mpc = "idle" /\ ~unjoined /\ failure = "none" =>
    \A w \in Workers :
      /\ ran[w] = [i \in 1 .. round |-> i]
      /\ pc[w] = "wait" /\ ~go[w] /\ ~done[w]

\* "The args reference is valid for the duration of this work unit (main thread
\* blocks until done)" (worker_loop): while a worker works on a round, that
\* round is the last one dispatched and has not been reported as over.
ArgsOutliveWork ==
  \A w \in Workers :
    pc[w] = "work" =>
      /\ cur[w] = round
      /\ unjoined

\* "shutdown_and_join already collected batches before signaling" (worker_loop):
\* a worker that shuts down never drops an uncollected batch.
ExitFindsEmptySlot ==
  \A w \in Workers : pc[w] = "exit" => batch[w] = NoRing

\* A round is over for everybody before the next begins or the pool shuts down.
RoundsAreSeparate == RoundBarrier /\ ArgsOutliveWork /\ ExitFindsEmptySlot

\* "After join() returns, all handoff slots contain published batches ready for
\* collect()": what a joined round pushed is not left behind in a worker.
JoinLeavesAllPublished ==
  mpc = "idle" /\ ~unjoined /\ failure = "none" =>
    \A w \in Workers : active[w] # NoRing => items[w][active[w]] = <<>>

\* try_run "does not panic on worker failure": a caller that only uses join()
\* and try_run() never unwinds.
NeverUnwinds == failure # "unwound"

\* A join always returns.
JoinReturns == mpc = "join" ~> mpc # "join"

\* shutdown: "main sets to tell the worker to exit after its next wake": every
\* thread exits and the pool's owner gets its rings.
ShutdownCompletes == mpc = "signal" ~> mpc = "gone"
===============================================================================
