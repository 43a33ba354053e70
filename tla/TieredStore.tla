------------------------------ MODULE TieredStore ------------------------------
(***************************************************************************)
(* A PebbleManager over the cold tiers as they are: what it believes to be   *)
(* cold (blue) may still be in a buffer, and the manifest has a ring of its  *)
(* own.  PebbleManager has the warm tier, capacities, dependencies and       *)
(* failures of eviction; here the hot tier evicts what it likes, and the     *)
(* questions are which copy comes back, in which order copies reach storage, *)
(* and what verify() can tell from the manifest.                             *)
(***************************************************************************)
EXTENDS ColdTier, Manifest

CONSTANTS
  MaxAdds,    \* bound of the model: adds of one id
  MaxWrites,  \* bound of the model: writes to the cold tier
  MaxStops    \* bound of the model: how often the manager is dropped or killed

ASSUME StoreAssumption ==
  /\ MaxAdds \in Nat /\ MaxWrites \in Nat /\ MaxStops \in Nat
  /\ 1 .. MaxAdds \subseteq Versions    \* of the checkpoints that can be added

VARIABLES
  state,       \* "open", "flushing", "down"
  hot,         \* red_pebbles
  blue,        \* blue_pebbles
  content,     \* the version of each checkpoint of the DAG
  dirty,       \* hot checkpoints that flush() has to write
  tombstoned,  \* removed from blue, to be purged by compact()
  latest,      \* of each id, the version storage is to have after a flush
  flushed,     \* nothing was stored since the last flush of the cold tier
  seen,        \* ids whose only entry was in the ring of a manager that was killed
  kills,       \* how often that was
  adds, writes, stops

managerVars == <<state, hot, blue, content, dirty, tombstoned, latest, flushed,
                 seen, kills, adds, writes, stops>>
vars == <<coldVars, logVars, managerVars>>

Nodes == hot \union blue

Init ==
  /\ ColdInit
  /\ LogInit
  /\ state = "open"
  /\ hot = {} /\ blue = {} /\ dirty = {} /\ tombstoned = {}
  /\ content = [id \in Ids |-> 0]
  /\ latest = [id \in Ids |-> 0] /\ flushed = TRUE /\ seen = {} /\ kills = 0
  /\ adds = 0 /\ writes = 0 /\ stops = 0

\* Each checkpoint added is a new version; an id is free once compact() has
\* purged the one before (PebbleManager has the other case).
Add(id) ==
  /\ state = "open"
  /\ id \notin Nodes \union tombstoned
  /\ adds < MaxAdds
  /\ adds' = adds + 1
  /\ content' = [content EXCEPT ![id] = adds + 1]
  /\ hot' = hot \union {id}
  /\ dirty' = dirty \union {id}
  /\ UNCHANGED <<coldVars, logVars, state, blue, tombstoned, latest, flushed, seen, kills,
                 writes, stops>>

\* persist_to_cold: announce, then store.
Persist(id) ==
  /\ writes < MaxWrites
  /\ writes' = writes + 1
  /\ Record(id)
  /\ ColdStore([id |-> id, ver |-> content[id]])
  /\ latest' = [latest EXCEPT ![id] = IF content[id] \in swallowed' THEN @ ELSE content[id]]
  /\ flushed' = FALSE
  /\ dirty' = dirty \ {id}

Evict(id) ==
  /\ state = "open"
  /\ id \in hot
  /\ Persist(id)
  /\ hot' = hot \ {id}
  /\ blue' = blue \union {id}
  /\ UNCHANGED <<state, content, tombstoned, seen, kills, adds, stops>>

\* The checkpoint cannot be serialized: the entry is taken back, it stays hot.
EvictFails(id) ==
  /\ state = "open"
  /\ id \in hot
  /\ writes < MaxWrites
  /\ writes' = writes + 1
  /\ RecordUndone(id)
  /\ UNCHANGED <<coldVars, state, hot, blue, content, dirty, tombstoned, latest,
                 flushed, seen, kills, adds, stops>>

\* Mutant of Load: the cold tier is not flushed first.
LoadUnflushed(id) ==
  /\ state = "open"
  /\ id \in blue
  /\ UNCHANGED coldVars
  /\ hot' = IF Loaded(id) # 0 THEN hot \union {id} ELSE hot
  /\ blue' = IF Loaded(id) # 0 THEN blue \ {id} ELSE blue
  /\ content' = IF Loaded(id) # 0 THEN [content EXCEPT ![id] = Loaded(id)] ELSE content
  /\ UNCHANGED <<logVars, state, dirty, tombstoned, latest, flushed, seen, kills,
                 adds, writes, stops>>

\* load() of a cold checkpoint: flush, then read storage; what is not there is an
\* error that changes nothing else.
Load(id) ==
  /\ state = "open"
  /\ id \in blue
  /\ ColdFlush
  /\ LET got == Loaded(id)'
     IN  /\ hot' = IF got # 0 THEN hot \union {id} ELSE hot
         /\ blue' = IF got # 0 THEN blue \ {id} ELSE blue
         /\ content' = IF got # 0 THEN [content EXCEPT ![id] = got] ELSE content
  /\ flushed' = TRUE
  /\ UNCHANGED <<logVars, state, dirty, tombstoned, latest, seen, kills, adds, writes, stops>>

\* flush() of the manager: dirty checkpoints first, then the cold tier, then the
\* manifest.
FlushBegins ==
  /\ state = "open"
  /\ state' = "flushing"
  /\ UNCHANGED <<coldVars, logVars, hot, blue, content, dirty, tombstoned, latest,
                 flushed, seen, kills, adds, writes, stops>>
FlushDirty(id) ==
  /\ state = "flushing"
  /\ id \in dirty
  /\ Persist(id)
  /\ UNCHANGED <<state, hot, blue, content, tombstoned, seen, kills, adds, stops>>
\* A dirty checkpoint cannot be serialized: flush() ends, and dirty was drained.
FlushFails(id) ==
  /\ state = "flushing"
  /\ id \in dirty
  /\ writes < MaxWrites
  /\ writes' = writes + 1
  /\ RecordUndone(id)
  /\ dirty' = {}
  /\ state' = "open"
  /\ UNCHANGED <<coldVars, hot, blue, content, tombstoned, latest, flushed, seen, kills,
                 adds, stops>>
FlushEnds ==
  /\ state = "flushing"
  /\ dirty = {}
  /\ ColdFlush
  /\ LogFlush
  /\ state' = "open"
  /\ flushed' = TRUE
  /\ UNCHANGED <<hot, blue, content, dirty, tombstoned, latest, seen, kills, adds, writes, stops>>

Remove(id) ==
  /\ state = "open"
  /\ id \in Nodes
  /\ hot' = hot \ {id} /\ blue' = blue \ {id} /\ dirty' = dirty \ {id}
  /\ IF id \in blue THEN RecordTombstone(id) /\ tombstoned' = tombstoned \union {id}
                    ELSE UNCHANGED <<logVars, tombstoned>>
  /\ UNCHANGED <<coldVars, state, content, latest, flushed, seen, kills, adds, writes, stops>>

InBuffer(id) == \E i \in DOMAIN Buffered : Buffered[i].id = id

\* compact(), without orphans: a copy that is still in a buffer is missed.
Compact ==
  /\ state = "open"
  /\ tombstoned # {}
  /\ ColdRemove(tombstoned)
  /\ tombstoned' = {}
  /\ latest' = [id \in Ids |-> IF id \in tombstoned /\ ~InBuffer(id) THEN 0 ELSE latest[id]]
  /\ UNCHANGED <<logVars, state, hot, blue, content, dirty, flushed, seen, kills,
                 adds, writes, stops>>

Down ==
  /\ stops < MaxStops
  /\ stops' = stops + 1
  /\ state' = "down"
  /\ hot' = {} /\ blue' = {} /\ dirty' = {} /\ tombstoned' = {}
  /\ latest' = [id \in Ids |-> IF id \in written' THEN storage'[id] ELSE 0]
  /\ flushed' = TRUE
  /\ UNCHANGED <<content, adds, writes>>

Crash ==
  /\ state \in {"open", "flushing"}
  /\ \E n \in 0 .. Len(Buffered) : Cut(n)
  /\ LogLost
  /\ seen' = seen \union (Announced(entries) \ Announced(journal))
  /\ kills' = kills + 1
  /\ Down

\* drop after a flush that had nothing left to fail: nothing is buffered.
Drop ==
  /\ state = "open"
  /\ dirty = {} /\ Buffered = <<>> /\ entries = <<>>
  /\ ColdDrop
  /\ LogDropped(<<>>)
  /\ UNCHANGED <<seen, kills>>
  /\ Down

\* drop ignores that its flush has failed at a dirty checkpoint; the cold tier is
\* dropped without having been flushed, and the manifest's ring is drained.
DropFails(id) ==
  /\ state = "flushing"
  /\ id \in dirty
  /\ ColdDrop
  /\ LogDropped(Undone(id))
  /\ UNCHANGED <<seen, kills>>
  /\ Down

\* recover() takes up what storage has and promotes the recent ones.
Recover ==
  /\ state = "down"
  /\ state' = "open"
  /\ Reopened
  /\ latest' = storage
  /\ \E H \in SUBSET written' : hot' = H /\ blue' = written' \ H
  /\ content' = storage
  /\ UNCHANGED <<logVars, dirty, tombstoned, flushed, seen, kills, adds, writes, stops>>

Next ==
  \/ \E id \in Ids : Add(id) \/ Evict(id) \/ EvictFails(id) \/ Load(id)
  \/ FlushBegins
  \/ \E id \in Ids : FlushDirty(id) \/ FlushFails(id) \/ DropFails(id)
  \/ FlushEnds
  \/ \E id \in Ids : Remove(id)
  \/ Compact \/ Crash \/ Drop \/ Recover

Spec == Init /\ [][Next]_vars
-------------------------------------------------------------------------------
(* Properties *)

Visible(id) == IF ColdContains(id) THEN Loaded(id) ELSE 0
Hidden(id)  == IF ColdContains(id) THEN 0 ELSE Loaded(id)

Entries == [id : Ids, ver : Versions]

TypeOK ==
  /\ kind \in {"direct", "ring", "parallel"}
  /\ backend \in {"memory", "file", "shared"}
  /\ numWorkers \in 1 .. MaxWorkers
  /\ storage \in [Ids -> Versions \union {0}]
  /\ written \subseteq {id \in Ids : storage[id] # 0}
  /\ ring \in Seq(Entries) /\ Len(ring) <= RingCapacity
  /\ pending \in Seq(Entries)
  /\ active \in [Workers -> Seq(Entries)]
  /\ slot \in [Workers -> Seq(Entries)]
  /\ published \in [Workers -> BOOLEAN]
  /\ spare \in [Workers -> BOOLEAN]
  /\ strayed \in Seq(Entries)
  /\ swallowed \subseteq Versions
  /\ seq \in Nat
  /\ entries \in Seq([id : Ids, seq : Nat, tombstone : BOOLEAN])
  /\ journal \in Seq([id : Ids, seq : Nat, tombstone : BOOLEAN])
  /\ Len(entries) <= LogCapacity
  /\ state \in {"open", "flushing", "down"}
  /\ hot \intersect blue = {}
  /\ dirty \subseteq hot
  /\ content \in [Ids -> Versions \union {0}]
  /\ latest \in [Ids -> Versions \union {0}]

\* flush(): "making them visible to load and contains".  Right after a flush
\* storage has of each id what store() took last, and nothing of an id that was
\* removed when no buffer had it.
FlushMakesVisible ==
  flushed => \A id \in Ids : Visible(id) = latest[id]

\* Whatever the cold tier buffers, a cold checkpoint is on its way to storage: a
\* load, which flushes first, returns the version that was evicted.
BlueComesBack ==
  \A id \in blue :
    \/ Applied(storage, Buffered)[id] = content[id]
    \/ content[id] \in swallowed

\* A load changes no content: whatever waits in the cold tier's buffers and whatever
\* older copies storage has, load() of a cold checkpoint returns the version that was
\* evicted (pebble_manager.rs load, which flushes the cold tier first).
LoadReturnsWhatWasEvicted ==
  [][\A id \in Ids : id \in blue /\ id \in hot' /\ content[id] \notin swallowed
                       => content'[id] = content[id]]_vars

\* "Drain any uncollected batches from a previous run before dispatching new work"
\* (run_batch): no worker keeps items from one batch to the next, no ring overflows
\* into a clone of the storage, and less than a batch is pending.
NothingStrays ==
  /\ strayed = <<>>
  /\ active = Empty
  /\ kind = "parallel" => Len(pending) < numWorkers

\* What a cold tier has taken stays on its way to storage: no buffer exceeds its
\* capacity, no worker hoards items, and every cold checkpoint comes back as it was
\* evicted (cold/ring.rs, cold/parallel.rs run_batch, flush).
Buffers == TypeOK /\ NothingStrays /\ BlueComesBack

\* Ids of which there is a cold checkpoint or a copy in storage, and no entry left.
Untold ==
  {id \in Ids : id \in blue \/ Visible(id) # 0} \ Announced(journal \o entries)

\* "Write-ahead: eviction entries are written BEFORE cold.store()": without a crash
\* every cold checkpoint and every copy in storage has its entry, in the manifest's
\* ring or with the user's spout, so that verify(), called after a flush as its comment
\* asks, reports none of them as lost; and a kill costs the entries of at most as many
\* as the ring can hold.
OnlyKillsUntell == Cardinality(Untold) <= LogCapacity * kills

\* Until a manager is killed or dropped no entry is missing or repeated.
JournalHasNoGaps ==
  stops = 0 => \A i \in DOMAIN (journal \o entries) : (journal \o entries)[i].seq = i - 1

\* What verify() has to go by: the log tells of every checkpoint outside memory but
\* for the few a kill has taken from it, and until the manager first stops its numbers
\* run on without a gap (manifest.rs record, flush; verify.rs verify).
JournalIsTrue == OnlyKillsUntell /\ JournalHasNoGaps

\* remove(): "Remove a checkpoint from storage": once compact() has purged an id, it
\* is not seen in storage before it is stored again.
RemovedStaysGone ==
  [][\A id \in Ids : content[id] # 0 /\ id \notin Nodes \union Nodes' \union tombstoned
                       => Visible(id)' \in {0, Visible(id)}]_vars

\* buffered_count(): "Number of items currently buffered (not yet in storage)".
BufferedCountIsAll == BufferedCount = Len(Buffered)

\* "Write-ahead: eviction entries are written BEFORE cold.store()": what is in
\* storage has an entry outside the process.
AnnouncedBeforeStored ==
  state = "down" => {id \in Ids : Visible(id) # 0} \subseteq Announced(journal)

\* "DAG + hot is the source of truth. The manifest is the verification mechanism":
\* after a flush a cold checkpoint that storage does not have is reported.
VerifyFindsLoss ==
  flushed /\ entries = <<>> =>
    \A id \in blue : Visible(id) = 0 => id \in Lost(Nodes, hot, journal)

\* "Gaps indicate lost entries."
LostEntriesLeaveGap == state = "down" /\ Announced(journal) # seen \union Announced(journal)
                         => Gaps(journal) > 0

\* All tiers deliver in the order of store(), skip nothing and repeat nothing; a
\* crash loses the latest, and what a buffer has survives a remove().
Log == INSTANCE ColdLog
         WITH queue   <- Buffered,
              visible <- [id \in Ids |-> Visible(id)],
              hidden  <- [id \in Ids |-> Hidden(id)]
ImplementsLog == Log!Spec
==============================================================================
