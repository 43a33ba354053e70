---------------------------- MODULE PebbleManager ----------------------------
(***************************************************************************)
(* pebble/src/manager: checkpoints in three tiers.  Hot (red) and warm hold *)
(* values in memory, cold (blue) holds serialized copies in a storage that  *)
(* survives a crash.  A full hot tier evicts its leaves to the warm tier,   *)
(* whose overflow is written to cold, each write announced in a manifest.   *)
(*                                                                         *)
(* The manager is used through &mut self, so an operation is one step; what *)
(* happens inside an operation is a cold write that fails or, in flush, a   *)
(* crash between two writes.  The cold tier is DirectStorage: a write is in *)
(* storage when store() returns.                                            *)
(*                                                                         *)
(* The content of a checkpoint is the number of the add() that brought it.  *)
(* Which leaves are evicted, and in which order, is the strategy's business *)
(* and left open.  A resize evicts in batches, each a step of its own.        *)
(* Rebuild.tla adds rebuild and branches.  The manager is built without        *)
(* auto_resize, which lets add() enlarge the hot tier.                        *)
(***************************************************************************)
EXTENDS Selection

CONSTANTS
  Ids,           \* checkpoint ids
  HotCapacity,   \* the hot_capacity a manager is built with
  Resizes,       \* the capacities the caller resizes to; {} if it never does
  WarmCapacity,  \* capacity of WarmCache; 0 for NoWarm
  Divisor,       \* EVICTION_BATCH_DIVISOR
  Removes,       \* whether the caller uses remove() and compact()
  MaxAdds,       \* bound of the model: successful or failed adds of one id
  MaxFailures,   \* bound of the model: cold writes that fail
  MaxStops       \* bound of the model: how often the manager is closed, dropped or killed

ASSUME ManagerAssumption ==
  /\ Ids # {} /\ IsFiniteSet(Ids)
  /\ HotCapacity \in Nat \ {0}
  /\ Resizes \subseteq Nat \ {0}
  /\ WarmCapacity \in Nat
  /\ Divisor \in Nat \ {0}
  /\ Removes \in BOOLEAN
  /\ MaxAdds \in Nat
  /\ MaxFailures \in Nat
  /\ MaxStops \in Nat

VARIABLES
  state,       \* "open", "resizing" (in resize_hot), "closing" (close() has failed, drop is to come), and
               \* when it is gone "closed" (with Ok), "dropped" or "crashed"
  capacity,    \* hot_capacity
  order,       \* the nodes of the DAG in the order of their creation_time
  deps,        \* dependencies of each node
  derived,     \* nodes with computation_cost > 0: added with dependencies
  val,         \* content of each live checkpoint
  red,         \* red_pebbles
  warm,        \* the warm tier, oldest insertion first
  blue,        \* blue_pebbles
  dirty,       \* hot or warm items to be written by the next flush
  tombstoned,  \* cold items to be purged by the next compact
  store,       \* cold storage: content and recorded dependencies per id
  logged,      \* the last manifest entry of each id
  drained,     \* the last one that has left the manifest's ring for its spout
  gone,        \* ids removed by the caller and not added again
  adds, failures, stops

dag      == <<order, deps, derived, val>>
tiers    == <<red, warm, blue, dirty>>
manifest == <<logged, drained>>
counters == <<failures, stops>>
vars == <<state, capacity, dag, tiers, tombstoned, store, manifest, gone, adds, counters>>

Absent == [ver |-> 0, deps |-> {}]

Nodes == Elements(order)
\* Mutant of ByAge: children before parents.
ByAgeReversed(S) ==
  LET o == Only(order, S)
  IN  [i \in DOMAIN o |-> o[Len(o) + 1 - i]]
ByAge(S) == Only(order, S)
InStore(id) == store[id].ver # 0

\* The smallest subset of U that holds every member all of whose D it holds.
LeastClosed(U, D) ==
  {id \in U : \A S \in SUBSET U :
                (\A j \in U : D[j] \subseteq S => j \in S) => id \in S}

Init ==
  /\ state = "open" /\ capacity = HotCapacity
  /\ order = <<>> /\ deps = [id \in Ids |-> {}] /\ derived = {}
  /\ val = [id \in Ids |-> 0]
  /\ red = {} /\ warm = <<>> /\ blue = {} /\ dirty = {}
  /\ tombstoned = {}
  /\ store = [id \in Ids |-> Absent]
  /\ logged = [id \in Ids |-> "none"] /\ drained = [id \in Ids |-> "none"]
  /\ gone = {}
  /\ adds = [id \in Ids |-> 0] /\ failures = 0 /\ stops = 0

-------------------------------------------------------------------------------
(* Eviction.  An eviction takes a sequence s of victims; the write it leads to *)
(* may fail at the victim after the first n.                                   *)

\* persist_to_cold of the ids in S: announced in the manifest, then stored.
Stored(S) ==
  [id \in Ids |-> IF id \in S THEN [ver |-> val[id], deps |-> deps[id]] ELSE store[id]]
Logged(S, failing) ==
  [id \in Ids |-> IF id \in failing THEN "tombstone"
                  ELSE IF id \in S THEN "stored" ELSE logged[id]]

\* get_eviction_candidates: hot nodes without a dependent in the hot tier.
Candidates == {id \in red \intersect Nodes : \A c \in red : id \notin deps[c]}

Least(a, b) == IF a < b THEN a ELSE b

\* isqrt(), and len()
Root(n) == CHOOSE r \in 0 .. n : r * r <= n /\ n < (r + 1) * (r + 1)
Total == Cardinality(red) + Cardinality(blue) + Len(warm)

BatchSize == IF capacity \div Divisor > 1 THEN capacity \div Divisor ELSE 1

Batches(count) ==
  LET k == Least(count, Cardinality(Candidates))
  IN  {s \in [1 .. k -> Candidates] : Cardinality(Elements(s)) = k}

\* The warm tier after taking in s, and what it has passed on to cold.
Overflow(q)  == IF Len(q) > WarmCapacity THEN Len(q) - WarmCapacity ELSE 0
PassedOn(q)  == Elements(SubSeq(q, 1, Overflow(q)))
KeptWarm(q)  == SubSeq(q, Overflow(q) + 1, Len(q))

\* The warm tier w takes in s, one by one: the whole sequence, what has overflowed
\* included.  An id that is still there is replaced and counts as the newest.
TakenIn(w, s) ==
  LET take(q, id) ==
        IF id \in Elements(KeptWarm(q))
          THEN SubSeq(q, 1, Overflow(q)) \o Append(Without(KeptWarm(q), {id}), id)
          ELSE Append(q, id)
      run[k \in 0 .. Len(s)] == IF k = 0 THEN w ELSE take(run[k - 1], s[k])
  IN  run[Len(s)]

\* Mutant of EvictAll: the warm tier keeps what it passes on.
EvictAllKeepsWarm(hot, cold, w, s, enter, newDirty) ==
  LET q == TakenIn(w, s)
  IN  /\ red' = (hot \ Elements(s)) \union enter
      /\ warm' = q
      /\ blue' = cold \union PassedOn(q)
      /\ dirty' = (dirty \ PassedOn(q)) \union newDirty
      /\ store' = Stored(PassedOn(q))
      /\ logged' = Logged(PassedOn(q), {})
      /\ UNCHANGED <<drained, tombstoned, failures>>

\* All of s leave the hot tier `hot` for the warm tier `w`, whose overflow joins
\* the cold tier `cold`; `enter` joins the hot tier.
EvictAll(hot, cold, w, s, enter, newDirty) ==
  LET q == TakenIn(w, s)
  IN  /\ red' = (hot \ Elements(s)) \union enter
      /\ warm' = KeptWarm(q)
      /\ blue' = cold \union PassedOn(q)
      /\ dirty' = (dirty \ PassedOn(q)) \union newDirty
      /\ store' = Stored(PassedOn(q))
      /\ logged' = Logged(PassedOn(q), {})
      /\ UNCHANGED <<drained, tombstoned, failures>>

\* Mutant of EvictFails: the victim is not taken back out of the warm tier.
EvictHalfUndone(hot, w, s, n) ==
  LET q    == TakenIn(w, SubSeq(s, 1, n))
      full == KeptWarm(q)
  IN  /\ failures < MaxFailures
      /\ failures' = failures + 1
      /\ Len(full) = WarmCapacity
      /\ red' = hot \ Elements(SubSeq(s, 1, n))
      /\ warm' = Append(Tail(full), s[n + 1])
      /\ blue' = blue \union PassedOn(q)
      /\ dirty' = dirty \ PassedOn(q)
      /\ store' = Stored(PassedOn(q))
      /\ logged' = Logged(PassedOn(q), {Head(full)})
      /\ UNCHANGED <<drained, tombstoned>>

\* The write for s[n + 1] fails.  A WarmCache takes the overflow back as its
\* newest entry and s[n + 1] returns to the hot tier; with NoWarm the overflow
\* is s[n + 1] itself, which no tier takes back.
EvictFails(hot, w, s, n) ==
  LET q      == TakenIn(w, SubSeq(s, 1, n))
      full   == KeptWarm(q)
      victim == s[n + 1]
      over   == IF WarmCapacity = 0 THEN victim ELSE Head(full)
  IN  /\ failures < MaxFailures
      /\ failures' = failures + 1
      /\ Len(full) = WarmCapacity
      /\ red' = IF WarmCapacity = 0 THEN hot \ Elements(SubSeq(s, 1, n + 1))
                                    ELSE hot \ Elements(SubSeq(s, 1, n))
      /\ warm' = IF WarmCapacity = 0 THEN <<>> ELSE Append(Tail(full), over)
      /\ blue' = blue \union PassedOn(q)
      /\ dirty' = dirty \ PassedOn(q)
      /\ store' = Stored(PassedOn(q))
      /\ logged' = Logged(PassedOn(q), {over})
      /\ UNCHANGED <<drained, tombstoned>>

\* What an operation evicts before it brings something into the hot tier.
Evictions ==
  IF Cardinality(red) >= capacity THEN Batches(BatchSize) \ {<<>>} ELSE {<<>>}

\* That eviction fails, the warm tier being w: a write does, or no hot item is a
\* candidate, which is an error of its own.
EvictionFails(w) ==
  \/ \E s \in Evictions : \E n \in 0 .. Len(s) - 1 : EvictFails(red, w, s, n)
  \/ /\ Evictions = {}
     /\ warm' = w
     /\ UNCHANGED <<red, blue, dirty, store, manifest, tombstoned, failures>>

-------------------------------------------------------------------------------
(* Adding.  add() registers the node first and evicts then, insert() and a     *)
(* CapacityGuard evict first.                                                   *)

Counted(id) ==
  /\ state = "open"
  /\ adds[id] < MaxAdds
  /\ adds' = [adds EXCEPT ![id] = @ + 1]

\* dag.add_node, validated; the value is recorded for a live checkpoint.
AddNode(id, ds) ==
  /\ id \notin Nodes
  /\ ds \subseteq Nodes
  /\ order' = Append(order, id)
  /\ deps' = [deps EXCEPT ![id] = ds]
  /\ derived' = IF ds = {} THEN derived ELSE derived \union {id}
  /\ val' = [val EXCEPT ![id] = adds[id] + 1]
  /\ gone' = gone \ {id}

\* Also insert(), add_ref() and ensure_capacity() with store(), which only
\* differ in what they leave behind when the eviction fails.
Add(id, ds) ==
  /\ Counted(id)
  /\ AddNode(id, ds)
  /\ \E s \in Evictions : EvictAll(red, blue, warm, s, {id}, {id})
  /\ UNCHANGED <<state, capacity, stops>>

\* The eviction of add() fails: the node stays in the DAG.
AddFails(id, ds) ==
  /\ Counted(id)
  /\ AddNode(id, ds)
  /\ EvictionFails(warm)
  /\ UNCHANGED <<state, capacity, stops>>

\* The nodes add_node refuses, with the dependencies given for them: NodeExists,
\* MissingDependency, and SelfDependency, which is one or the other here.
Refused == {n \in [id : Ids, ds : SUBSET Ids] : n.id \in Nodes \/ ~(n.ds \subseteq Nodes)}

\* insert() and ensure_capacity() fail: the eviction does, or it is done and the node
\* is one that is refused.  An add() that is refused changes nothing.
InsertFails ==
  /\ state = "open"
  /\ \/ EvictionFails(warm)
     \/ /\ Refused # {}
        /\ \E s \in Evictions : EvictAll(red, blue, warm, s, {}, {})
  /\ UNCHANGED <<state, capacity, dag, gone, adds, stops>>

-------------------------------------------------------------------------------
(* Loading *)

LoadWarm(id) ==
  /\ state = "open"
  /\ id \in Elements(warm) \ red
  /\ \E s \in Evictions : EvictAll(red, blue, Without(warm, {id}), s, {id}, {})
  /\ UNCHANGED <<state, capacity, dag, gone, adds, stops>>

\* The checkpoint has left the warm tier and is dropped with the error.
LoadWarmFails(id) ==
  /\ state = "open"
  /\ id \in Elements(warm) \ red
  /\ EvictionFails(Without(warm, {id}))
  /\ UNCHANGED <<state, capacity, dag, gone, adds, stops>>

\* The copy in storage stays; a blue id without one is an error and no step.
LoadCold(id) ==
  /\ state = "open"
  /\ id \in blue \ (red \union Elements(warm))
  /\ InStore(id)
  /\ \/ \E s \in Evictions : EvictAll(red, blue \ {id}, warm, s, {id}, {})
     \/ EvictionFails(warm)
  /\ UNCHANGED <<state, capacity, dag, gone, adds, stops>>

\* compress: keep about the square root of all checkpoints hot.
Compress ==
  LET count == Cardinality(red) - Root(Total)
  IN  /\ state = "open"
      /\ count > 0
      /\ \E s \in Batches(count) :
           \/ EvictAll(red, blue, warm, s, {}, {})
           \/ \E n \in 0 .. Len(s) - 1 : EvictFails(red, warm, s, n)
      /\ UNCHANGED <<state, capacity, dag, gone, adds, stops>>

-------------------------------------------------------------------------------
(* Resizing: the new capacity counts at once, batches are evicted until the hot *)
(* tier fits it or an eviction fails.                                          *)

\* resize_hot, resize_optimal
Resize(c) ==
  /\ state = "open"
  /\ Resizes # {}
  /\ capacity' = c
  /\ state' = IF Cardinality(red) > c THEN "resizing" ELSE "open"
  /\ UNCHANGED <<dag, tiers, tombstoned, store, manifest, gone, adds, counters>>
Optimal == IF Root(Total) > 1 THEN Root(Total) ELSE 1

ResizeEvicts ==
  /\ state = "resizing"
  /\ \E s \in Evictions : EvictAll(red, blue, warm, s, {}, {})
  /\ state' = IF Cardinality(red') > capacity THEN "resizing" ELSE "open"
  /\ UNCHANGED <<capacity, dag, gone, adds, stops>>

\* The capacity stays reduced, the hot tier does not.
ResizeFails ==
  /\ state = "resizing"
  /\ EvictionFails(warm)
  /\ state' = "open"
  /\ UNCHANGED <<capacity, dag, gone, adds, stops>>

-------------------------------------------------------------------------------
(* Flushing: the warm tier moves to cold, then dirty hot items are copied; both *)
(* in the order of creation.  The manifest is drained at the end.               *)

WarmByAge  == ByAge(Elements(warm))
DirtyByAge == ByAge(dirty \intersect red)

\* Mutants of FlushAll: the warm, or the dirty hot items are not written.
FlushHotOnly ==
  /\ red' = red
  /\ warm' = <<>>
  /\ blue' = blue \union Elements(warm)
  /\ dirty' = {}
  /\ store' = Stored(dirty \intersect red)
  /\ logged' = Logged(dirty \intersect red, {})
  /\ UNCHANGED failures
FlushWarmOnly ==
  /\ red' = red
  /\ warm' = <<>>
  /\ blue' = blue \union Elements(warm)
  /\ dirty' = {}
  /\ store' = Stored(Elements(warm))
  /\ logged' = Logged(Elements(warm), {})
  /\ UNCHANGED failures

FlushAll ==
  /\ red' = red
  /\ warm' = <<>>
  /\ blue' = blue \union Elements(warm)
  /\ dirty' = {}
  /\ store' = Stored(Elements(warm) \union (dirty \intersect red))
  /\ logged' = Logged(Elements(warm) \union (dirty \intersect red), {})
  /\ UNCHANGED failures

\* Mutants of FlushWarmFails: the failed item counts as cold; the items that
\* remain are not put back.
FlushWarmMarksFailed(k) ==
  LET written == Elements(SubSeq(WarmByAge, 1, k - 1))
  IN  /\ failures < MaxFailures
      /\ failures' = failures + 1
      /\ red' = red
      /\ warm' = SubSeq(WarmByAge, k + 1, Len(warm))
      /\ blue' = blue \union Elements(SubSeq(WarmByAge, 1, k))
      /\ dirty' = dirty \ written
      /\ store' = Stored(written)
      /\ logged' = Logged(written, {WarmByAge[k]})
FlushWarmDropsRest(k) ==
  LET written == Elements(SubSeq(WarmByAge, 1, k - 1))
  IN  /\ failures < MaxFailures
      /\ failures' = failures + 1
      /\ red' = red
      /\ warm' = <<>>
      /\ blue' = blue \union written
      /\ dirty' = dirty \ written
      /\ store' = Stored(written)
      /\ logged' = Logged(written, {WarmByAge[k]})

\* The write of the k-th warm item fails: it and the later ones return to warm.
FlushWarmFails(k) ==
  LET written == Elements(SubSeq(WarmByAge, 1, k - 1))
  IN  /\ failures < MaxFailures
      /\ failures' = failures + 1
      /\ red' = red
      /\ warm' = SubSeq(WarmByAge, k, Len(warm))
      /\ blue' = blue \union written
      /\ dirty' = dirty \ written
      /\ store' = Stored(written)
      /\ logged' = Logged(written, {WarmByAge[k]})

\* The write of the k-th dirty hot item fails: dirty has been drained up front.
FlushDirtyFails(k) ==
  LET written == Elements(warm) \union Elements(SubSeq(DirtyByAge, 1, k - 1))
  IN  /\ failures < MaxFailures
      /\ failures' = failures + 1
      /\ red' = red
      /\ warm' = <<>>
      /\ blue' = blue \union Elements(warm)
      /\ dirty' = {}
      /\ store' = Stored(written)
      /\ logged' = Logged(written, {DirtyByAge[k]})

FlushFails ==
  \/ \E k \in DOMAIN WarmByAge : FlushWarmFails(k)
  \/ \E k \in DOMAIN DirtyByAge : FlushDirtyFails(k)

Flush ==
  /\ state = "open"
  /\ \/ FlushAll /\ drained' = logged'
     \/ FlushFails /\ UNCHANGED drained
  /\ UNCHANGED <<state, capacity, dag, tombstoned, gone, adds, stops>>

Stops ==
  /\ stops < MaxStops
  /\ stops' = stops + 1

\* close() flushes and drop flushes again: after a success nothing is left to do.
Close ==
  /\ state = "open" /\ Stops
  /\ \/ FlushAll /\ drained' = logged' /\ state' = "closed"
     \/ FlushFails /\ UNCHANGED drained /\ state' = "closing"
  /\ UNCHANGED <<capacity, dag, tombstoned, gone, adds>>

\* drop ignores the outcome of its flush; dropping the manifest's ring drains it.
Drop ==
  /\ (state = "open" /\ Stops) \/ (state = "closing" /\ UNCHANGED stops)
  /\ FlushAll \/ FlushFails
  /\ drained' = logged'
  /\ state' = "dropped"
  /\ UNCHANGED <<capacity, dag, tombstoned, gone, adds>>

\* The process dies after the first k writes of a flush (k = 0: at any other
\* time).  Manifest entries still in the ring die with it.
Crash(k) ==
  /\ state = "open" \/ (state = "resizing" /\ k = 0)
  /\ Stops
  /\ k <= Len(WarmByAge \o DirtyByAge)
  /\ state' = "crashed"
  /\ store' = Stored(Elements(SubSeq(WarmByAge \o DirtyByAge, 1, k)))
  /\ UNCHANGED <<capacity, dag, tiers, tombstoned, manifest, gone, adds, failures>>

-------------------------------------------------------------------------------
(* Removing *)

\* Mutant of LeaveTiers: the warm tier is forgotten.
LeaveTiersButWarm(S) ==
  /\ red' = red \ S
  /\ blue' = blue \ (S \ (red \union Elements(warm)))
  /\ dirty' = dirty \ S
  /\ UNCHANGED warm
\* Each leaves the first tier that has it: hot, warm, cold.
LeaveTiers(S) ==
  /\ red' = red \ S
  /\ warm' = Without(warm, S \ red)
  /\ blue' = blue \ (S \ (red \union Elements(warm)))
  /\ dirty' = dirty \ S

\* dag.remove_node
LeaveDag(S) ==
  /\ order' = Without(order, S)
  /\ deps' = [id \in Ids |-> IF id \in S THEN {} ELSE deps[id] \ S]
  /\ derived' = derived \ S

Remove(id) ==
  /\ state = "open"
  /\ Removes
  /\ id \in red \union blue \union Elements(warm)
  /\ LeaveTiers({id})
  /\ LeaveDag({id})
  /\ IF id \in red \union Elements(warm)
       THEN UNCHANGED <<tombstoned, logged>>
       ELSE /\ tombstoned' = tombstoned \union {id}
            /\ logged' = Logged({}, {id})
  /\ gone' = gone \union {id}
  /\ UNCHANGED <<state, capacity, val, store, drained, adds, counters>>

\* Nodes added with dependencies that have all been removed, transitively.
Orphans == LeastClosed(derived, deps)

Compact ==
  LET purged == tombstoned \union Orphans
  IN  /\ state = "open"
      /\ Removes
      /\ purged # {}
      /\ store' = [id \in Ids |-> IF id \in purged THEN Absent ELSE store[id]]
      /\ tombstoned' = {}
      /\ LeaveTiers(Orphans)
      /\ LeaveDag(Orphans)
      /\ logged' = Logged({}, {id \in Orphans : InStore(id) /\ id \notin tombstoned})
      /\ gone' = gone \union Orphans
      /\ UNCHANGED <<state, capacity, val, drained, adds, counters>>

-------------------------------------------------------------------------------
(* Recovery reads the metadata in storage and nothing else: a checkpoint is     *)
(* taken up once all its recorded dependencies are.  The order within a round   *)
(* follows storage timestamps, which are left open here.                        *)

InStorage == {id \in Ids : InStore(id)}
Recoverable == LeastClosed(InStorage, [id \in Ids |-> store[id].deps])

\* Mutant of RecoveryOrders: timestamps alone decide.
RecoveryInAnyOrder ==
  {s \in [1 .. Cardinality(Recoverable) -> Recoverable] : Elements(s) = Recoverable}

RecoveryOrders ==
  {s \in [1 .. Cardinality(Recoverable) -> Recoverable] :
     /\ Elements(s) = Recoverable
     /\ \A i \in DOMAIN s : store[s[i]].deps \subseteq Elements(SubSeq(s, 1, i - 1))}

\* promote_recent_to_hot of a new manager; the values load, storage having written them.
Recent(s) == Elements(SubSeq(s, Len(s) - Least(HotCapacity, Len(s)) + 1, Len(s)))

Recover ==
  /\ state \in {"closed", "dropped", "crashed"}
  /\ state' = "open"
  /\ capacity' = HotCapacity
  /\ \E s \in RecoveryOrders :
       /\ order' = s
       /\ red' = Recent(s)
       /\ blue' = Recoverable \ Recent(s)
  /\ deps' = [id \in Ids |-> IF id \in Recoverable THEN store[id].deps ELSE {}]
  /\ derived' = {id \in Recoverable : store[id].deps # {}}
  /\ val' = [id \in Ids |-> IF id \in Recoverable THEN store[id].ver ELSE val[id]]
  /\ warm' = <<>>
  /\ dirty' = {}
  /\ tombstoned' = {}
  /\ logged' = drained
  /\ UNCHANGED <<store, drained, gone, adds, counters>>

-------------------------------------------------------------------------------
Next ==
  \/ \E id \in Ids : \E ds \in SUBSET Ids : Add(id, ds) \/ AddFails(id, ds)
  \/ InsertFails
  \/ \E id \in Ids : LoadWarm(id) \/ LoadWarmFails(id) \/ LoadCold(id)
  \/ Compress
  \/ \E c \in Resizes \union {Optimal} : Resize(c)
  \/ ResizeEvicts \/ ResizeFails
  \/ Flush
  \/ Close
  \/ Drop
  \/ \E k \in 0 .. 2 * Cardinality(Ids) : Crash(k)
  \/ \E id \in Ids : Remove(id)
  \/ Compact
  \/ Recover

Spec == Init /\ [][Next]_vars
-------------------------------------------------------------------------------
(* Properties *)

InMemory == red \union Elements(warm)
Held     == InMemory \union blue

\* What load() of an id returns: its content, 0 for an error.
Content(id) ==
  IF id \in InMemory THEN val[id] ELSE IF id \in blue THEN store[id].ver ELSE 0

\* A manager is resized to what the caller says or to the root of what it holds.
Capacities == {HotCapacity} \union Resizes \union {n \in 1 .. Cardinality(Ids) : n * n <= Cardinality(Ids)}

TypeOK ==
  /\ state \in {"open", "resizing", "closing", "closed", "dropped", "crashed"}
  /\ capacity \in Capacities
  /\ order \in Seq(Ids)
  /\ deps \in [Ids -> SUBSET Nodes]
  /\ derived \in SUBSET Nodes
  /\ val \in [Ids -> 0 .. MaxAdds]
  /\ red \in SUBSET Ids
  /\ warm \in Seq(Ids)
  /\ blue \in SUBSET Ids
  /\ dirty \in SUBSET Ids
  /\ tombstoned \in SUBSET Ids
  /\ store \in [Ids -> [ver : 0 .. MaxAdds, deps : SUBSET Ids]]
  /\ logged \in [Ids -> {"none", "stored", "tombstone"}]
  /\ drained \in [Ids -> {"none", "stored", "tombstone"}]
  /\ gone \in SUBSET Ids
  /\ adds \in [Ids -> 0 .. MaxAdds]
  /\ failures \in 0 .. MaxFailures
  /\ stops \in 0 .. MaxStops

\* resize_hot: "excess checkpoints are evicted": the hot tier fits its capacity.
HotFits == state = "open" => Cardinality(red) <= capacity

\* A checkpoint is in at most one tier, is a node of the DAG, and no tier
\* outgrows its capacity, whatever mix of adds, loads, removals, resizes and failures;
\* after a failed write the hot tier may exceed what it was resized to (HotFits).
OneTier ==
  /\ red \intersect blue = {}
  /\ Elements(warm) \intersect (red \union blue) = {}
  /\ Cardinality(Elements(warm)) = Len(warm)
  /\ Held \subseteq Nodes
  /\ failures = 0 => HotFits
  /\ \E c \in Capacities : Cardinality(red) <= c
  /\ Len(warm) <= WarmCapacity

\* What the tiers hold and what the DAG and storage say of it agree.
TiersAgree == TypeOK /\ OneTier

\* The order of creation_time is topological, also after removals and recovery:
\* flush sorts by it "so parents are stored before children".
OrderIsTopological ==
  \A i \in DOMAIN order : deps[order[i]] \subseteq Elements(SubSeq(order, 1, i - 1))

\* A cold checkpoint can be loaded and is the one that was added.
BlueReadsBack == \A id \in blue : store[id].ver = val[id]

\* dirty: "Hot-tier items that have never been written to cold storage.
\* Cleared when the item reaches cold": an item in memory that is not dirty has
\* an up-to-date copy in storage, so a flush that skips it loses nothing.
DirtyTracksStore ==
  \A id \in red \ dirty : store[id].ver = val[id]

\* What load() returns for a checkpoint that stays in the DAG does not change,
\* those in S excepted.
KeepsContent(S) ==
  {state, state'} \subseteq {"open", "resizing"} =>
    \A id \in (Nodes \intersect Nodes') \ S :
      Content(id) # 0 => Content(id)' = Content(id)

\* A checkpoint that stays in the DAG keeps its content: moving between tiers,
\* a failed write and its undo ("undo everything so no data is lost") included.
ContentStable == [][KeepsContent({})]_vars

\* The same for batches of evictions, where the undo covers the failed victim
\* only: the one checkpoint at risk is the one a failed load took out of warm.
OthersKeepContent ==
  [][\/ KeepsContent({})
     \/ \E id \in Ids : LoadWarmFails(id) /\ KeepsContent({id})]_vars

\* close: "Use close() when you need to confirm all buffered data reached
\* storage": once it has returned Ok, every checkpoint has its copy there.
ClosedReachesStorage ==
  state = "closed" => \A id \in Held : store[id].ver = val[id]

\* The marks by which flush() chooses what to write suffice for what close() says.
CloseIsDurable == DirtyTracksStore /\ ClosedReachesStorage

\* What close() has confirmed, the next start recovers.
ClosedIsRecoverable ==
  state = "closed" => Held \subseteq Recoverable

\* flush sorts "so parents are stored before children": when a crash cuts a flush
\* short, a parent due in the same phase as its child, or in an earlier one, is in
\* storage whenever the child is.
FlushStoresParentsFirst ==
  [][state' = "crashed" =>
       \A id \in InStorage' \ InStorage : \A p \in deps[id] :
         \/ p \in Elements(warm)
         \/ p \in red \intersect dirty /\ id \in red
         => p \in InStorage']_vars

\* The whole flush, both phases: a crash leaves no copy in storage that cannot be
\* recovered for want of a parent.
FlushOrphansNothing ==
  [][state' = "crashed" /\ InStorage \subseteq Recoverable
       => InStorage' \subseteq Recoverable']_vars

\* "Every DAG node should either be in hot or have a manifest entry. A node in
\* neither was lost" (verify): no operation leaves a node without a checkpoint.
NoDanglingNode == state = "open" => Nodes \subseteq Held

\* What remove() or compact() has taken away does not come back: "the tombstone
\* is already in the manifest, so recovery will skip this ID" (compact).
NoResurrection == state = "open" => gone \intersect Nodes = {}

\* A write that failed is not announced as stored: the compensating tombstone is
\* there "so recovery doesn't think this checkpoint is in cold storage".
LogMatchesStore == \A id \in Ids : logged[id] = "stored" => InStore(id)

\* A failed write leaves no checkpoint that only seems to be in storage.
StorageAgrees == BlueReadsBack /\ LogMatchesStore

\* "hot + manifest = complete picture: replay the log to determine the live set".
ReplayGivesLiveSet ==
  state = "open" /\ stops = 0 =>
    {id \in Ids : logged[id] = "stored"} \ InMemory = blue

\* "All cold storage mutations are logged for crash-safe recovery": after a crash
\* the manifest accounts for what is in storage.
LogSurvivesCrash ==
  state = "crashed" => \A id \in InStorage : drained[id] # "none"

\* The tiers together implement the map of CheckpointStore; while no manager is
\* open, the map is what the next one will recover.
Up == {"open", "resizing", "closing"}
Live ==
  LET recovered == Recoverable
  IN  [id \in Ids |->
         IF state \in Up
           THEN [ver |-> Content(id), deps |-> IF Content(id) = 0 THEN {} ELSE deps[id]]
           ELSE IF id \in recovered THEN store[id] ELSE Absent]
Map == INSTANCE CheckpointStore
         WITH status <- CASE state \in Up        -> "up"
                          [] state = "closed"  -> "closed"
                          [] OTHER             -> "down",
              live <- Live
ImplementsStore == Map!Spec

\* With removals too, until the first stop: recovery knows nothing of them.
StepsUntilStop == [][stops' = 0 => [Map!Next]_(Map!vars)]_vars
===============================================================================
