------------------------------- MODULE SpillRing -------------------------------
(***************************************************************************)
(* spill-ring/src/ring.rs: a ring buffer of N slots whose indices are       *)
(* machine words that only ever grow and wrap at Modulus = 2^usize::BITS.   *)
(* A full ring does not refuse an item, it evicts the oldest to its spout.  *)
(*                                                                         *)
(* A slot is MaybeUninit memory: reading an item out leaves its bits where  *)
(* they are, so a slot keeps its last item here and only the window         *)
(* [head, tail) says which slots hold live items.  Item i is the i-th item  *)
(* handed to the ring.                                                      *)
(*                                                                         *)
(* The ring is !Sync, so its operations do not interleave.  What can cut an *)
(* operation short is a panic of the spout inside send(): the actions whose *)
(* name ends in Panic stop after k sends (the k-th one panics, having       *)
(* received its item), and whatever the unwinding stack owned is lost.      *)
(***************************************************************************)
EXTENDS Integers, Sequences

CONSTANTS
  N,            \* capacity (const generic N)
  Modulus,      \* the number of values of usize
  Uninit,       \* the content of a slot never written
  SpoutPanics,  \* whether the spout may panic
  MaxItems      \* bound of the model: how many items are ever handed to the ring

(* N and 2^usize::BITS are both powers of two and N <= MAX_CAPACITY = 2^20
   (the assertions of cold()), so N divides the modulus and is smaller. *)
ASSUME CapacityAssumption ==
  /\ N \in Nat \ {0}
  /\ Modulus \in Nat
  /\ N < Modulus
  /\ Modulus % N = 0
  /\ SpoutPanics \in BOOLEAN
  /\ MaxItems \in Nat
  /\ Uninit \notin Nat

VARIABLES
  head, tail,   \* free-running indices of the oldest item and of the next free slot
  slots,        \* buffer
  alive,        \* FALSE once the ring has been dropped
  offered,      \* number of items handed to the ring so far
  spilled,      \* what the spout received, in order
  taken,        \* what pop and pop_slice returned, in order
  lost,         \* items destroyed while a panic unwound through the ring
  replayable    \* spilled items that a panic inside push_slice left in the window

vars == <<head, tail, slots, alive, offered, spilled, taken, lost, replayable>>
history == <<taken, lost, replayable>>

Slot == 0 .. N - 1
Item == 1 .. MaxItems

\* Mutant of WAdd: the index keeps growing instead of wrapping.
WAddUnbounded(a, b) == a + b
WAdd(a, b) == (a + b) % Modulus     \* usize::wrapping_add
WSub(a, b) == (a - b) % Modulus     \* usize::wrapping_sub
Index(p)   == p % N                 \* p & (N - 1) for N a power of two

Count   == WSub(tail, head)
Room    == N - Count
At(i)   == slots[Index(WAdd(head, i))]
Oldest(k) == [i \in 1 .. k |-> At(i - 1)]
Window  == Oldest(Count)
Live    == IF alive THEN {At(i) : i \in 0 .. Count - 1} ELSE {}

Init ==
  /\ head = 0
  /\ tail = 0
  /\ slots = [s \in Slot |-> Uninit]
  /\ alive = TRUE
  /\ offered = 0
  /\ spilled = <<>>
  /\ taken = <<>>
  /\ lost = {}
  /\ replayable = {}

-------------------------------------------------------------------------------
(* Pushing one item. *)

Store(item) ==
  /\ slots' = [slots EXCEPT ![Index(tail)] = item]
  /\ tail' = WAdd(tail, 1)
  /\ offered' = item

\* The k oldest items leave the window and go to the spout.
Evict(k) ==
  /\ head' = WAdd(head, k)
  /\ spilled' = spilled \o Oldest(k)

PushRoom ==
  /\ alive
  /\ offered < MaxItems
  /\ Count < N
  /\ Store(offered + 1)
  /\ UNCHANGED <<head, alive, spilled, history>>

\* Mutant of PushEvict: the oldest item is overwritten without being sent.
PushOverwrites ==
  /\ alive
  /\ offered < MaxItems
  /\ Count >= N
  /\ head' = WAdd(head, 1)
  /\ Store(offered + 1)
  /\ UNCHANGED <<alive, spilled, history>>

PushEvict ==
  /\ alive
  /\ offered < MaxItems
  /\ Count >= N
  /\ Evict(1)
  /\ Store(offered + 1)
  /\ UNCHANGED <<alive, history>>

\* head is advanced before the send, so only the pushed item is lost.
PushPanic ==
  /\ alive
  /\ SpoutPanics
  /\ offered < MaxItems
  /\ Count >= N
  /\ Evict(1)
  /\ offered' = offered + 1
  /\ lost' = lost \union {offered + 1}
  /\ UNCHANGED <<tail, slots, alive, taken, replayable>>

\* RingProducer::try_push: a full ring returns the item instead of evicting.
TryPush ==
  /\ alive
  /\ offered < MaxItems
  /\ ~(Count >= N)
  /\ Store(offered + 1)
  /\ UNCHANGED <<head, alive, spilled, history>>

-------------------------------------------------------------------------------
(* Pushing a slice of n items.  The last `keep` of them are copied into the   *)
(* buffer; what does not fit goes to the spout first, the ring's own items    *)
(* before the slice's.                                                        *)

Keep(n)   == IF n > N THEN N ELSE n
Excess(n) == n - Keep(n)
\* Mutant of Displaced: one item more than needed makes room.
DisplacedOneMore(n) ==
  IF n > N THEN Count ELSE IF n >= Room /\ Count > 0 THEN n - Room + 1 ELSE 0

\* How many items of the ring a slice of n displaces.
Displaced(n) ==
  IF n > N THEN Count ELSE IF n > Room THEN n - Room ELSE 0

ExcessItems(n) == [i \in 1 .. Excess(n) |-> offered + i]

\* Mutant of SentBySlice: the slice's items overtake the ring's.
SentSliceFirst(n) == ExcessItems(n) \o Oldest(Displaced(n))
SentBySlice(n) == Oldest(Displaced(n)) \o ExcessItems(n)

\* Mutant of CopyIn: the second segment continues at the index of the first.
CopyInMisplaced(count, first) ==
  LET at    == Index(tail)
      toEnd == N - at
  IN  [s \in Slot |->
         CASE s >= at /\ s < at + count -> first + (s - at)
           [] s < count - toEnd         -> first + s
           [] OTHER                     -> slots[s]]

\* copy_nonoverlapping of `count` items starting with `first`: one segment up
\* to the end of the buffer, the rest from its beginning.
CopyIn(count, first) ==
  LET at    == Index(tail)
      toEnd == N - at
  IN  [s \in Slot |->
         CASE s >= at /\ s < at + count -> first + (s - at)
           [] s < count - toEnd         -> first + toEnd + s
           [] OTHER                     -> slots[s]]

PushSlice(n) ==
  /\ alive
  /\ offered + n <= MaxItems
  /\ slots' = CopyIn(Keep(n), offered + Excess(n) + 1)
  /\ head' = WAdd(head, Displaced(n))
  /\ tail' = WAdd(tail, Keep(n))
  /\ spilled' = spilled \o SentBySlice(n)
  /\ offered' = offered + n
  /\ UNCHANGED <<alive, history>>

\* Neither index has been stored yet when a send of push_slice panics: the ring
\* items already sent are still in the window and leave it a second time later
\* (they are Copy, so the second read is a duplicate delivery, not a double free).
PushSlicePanic(n, k) ==
  /\ alive
  /\ SpoutPanics
  /\ offered + n <= MaxItems
  /\ k <= Len(SentBySlice(n))
  /\ spilled' = spilled \o SubSeq(SentBySlice(n), 1, k)
  /\ offered' = offered + n
  /\ lost' = lost \union {offered + i : i \in {j \in 1 .. n : j > k - Displaced(n)}}
  /\ replayable' = replayable \union {At(i) : i \in {j \in 0 .. Displaced(n) - 1 : j < k}}
  /\ UNCHANGED <<head, tail, slots, alive, taken>>

-------------------------------------------------------------------------------
(* Taking items out. *)

Pop ==
  /\ alive
  /\ head # tail
  /\ taken' = Append(taken, At(0))
  /\ head' = WAdd(head, 1)
  /\ UNCHANGED <<tail, slots, alive, offered, spilled, lost, replayable>>

\* pop_slice into a buffer of m items: two segments, like push_slice.
PopSlice(m) ==
  LET count == IF m < Count THEN m ELSE Count
      at    == Index(head)
      toEnd == N - at
  IN  /\ alive
      /\ count > 0
      /\ taken' = taken \o [i \in 1 .. count |->
                              IF i <= toEnd THEN slots[at + i - 1]
                                            ELSE slots[i - toEnd - 1]]
      /\ head' = WAdd(head, count)
      /\ UNCHANGED <<tail, slots, alive, offered, spilled, lost, replayable>>

\* flush (and clear): every item of the window is sent, head advancing before
\* each send.
Flush ==
  /\ alive
  /\ Count > 0
  /\ Evict(Count)
  /\ UNCHANGED <<tail, slots, alive, offered, history>>

FlushPanic(k) ==
  /\ alive
  /\ SpoutPanics
  /\ k <= Count
  /\ Evict(k)
  /\ UNCHANGED <<tail, slots, alive, offered, history>>

PushAndFlush ==
  /\ alive
  /\ offered < MaxItems
  /\ Store(offered + 1)
  /\ head' = tail'
  /\ spilled' = spilled \o Window \o <<offered + 1>>
  /\ UNCHANGED <<alive, history>>

Drop ==
  /\ alive
  /\ Evict(Count)
  /\ alive' = FALSE
  /\ UNCHANGED <<tail, slots, offered, history>>

\* A panic while dropping: MaybeUninit slots are not dropped, the rest leaks.
DropPanic(k) ==
  /\ alive
  /\ SpoutPanics
  /\ k <= Count
  /\ Evict(k)
  /\ alive' = FALSE
  /\ lost' = lost \union {At(i) : i \in k .. Count - 1}
  /\ UNCHANGED <<tail, slots, offered, taken, replayable>>

-------------------------------------------------------------------------------
Next ==
  \/ PushRoom
  \/ PushEvict
  \/ PushPanic
  \/ TryPush
  \/ \E n \in 1 .. MaxItems : PushSlice(n)
  \/ \E n \in 1 .. MaxItems : \E k \in 1 .. N + n : PushSlicePanic(n, k)
  \/ Pop
  \/ \E m \in 1 .. N + 1 : PopSlice(m)
  \/ Flush
  \/ \E k \in 1 .. N : FlushPanic(k)
  \/ PushAndFlush
  \/ Drop
  \/ \E k \in 1 .. N : DropPanic(k)

Spec == Init /\ [][Next]_vars

-------------------------------------------------------------------------------
(* read.rs: the observers, in terms of the indices they use. *)

Peek     == slots[Index(head)]
PeekBack == slots[Index(WSub(tail, 1))]
Get(i)   == slots[Index(WAdd(head, i))]

-------------------------------------------------------------------------------
(* Properties *)

\* The variables stay in their types: however long the ring is used, head and
\* tail stay in the range of a usize, since push_mut, push_slice and pop move
\* them with wrapping_add.
TypeOK ==
  /\ head \in 0 .. Modulus - 1
  /\ tail \in 0 .. Modulus - 1
  /\ slots \in [Slot -> Item \union {Uninit}]
  /\ alive \in BOOLEAN
  /\ offered \in 0 .. MaxItems
  /\ spilled \in Seq(Item)
  /\ taken \in Seq(Item)
  /\ lost \in SUBSET Item
  /\ replayable \in SUBSET Item

\* However often the indices have wrapped, the window never exceeds the buffer
\* and it lists items in the order in which they were handed over; none of its
\* slots is uninitialised (the SAFETY comments of push, pop and flush).
WindowInOrder ==
  /\ Count <= N
  /\ \A i \in 0 .. Count - 1 : At(i) \in 1 .. offered
  /\ \A i, j \in 0 .. Count - 1 : i < j => At(i) < At(j)

\* Nothing is left behind: an item that has left the ring is older than every
\* item still in it, unless a panicking push_slice left it in the window.
FirstInFirstOut ==
  \A x \in Live \ replayable :
    /\ \A i \in DOMAIN spilled : spilled[i] < x
    /\ \A i \in DOMAIN taken : taken[i] < x

\* The spout receives every item once, oldest first, even if it panics in the
\* middle of push or flush; only what a panicking push_slice left in the window
\* arrives twice ("head is advanced after each item is sent, so a
\* panic in the spout will not cause double-reads during drop", flush).
SpilledOnceInOrder ==
  \A i, j \in DOMAIN spilled :
    i < j => spilled[i] < spilled[j] \/ spilled[j] \in replayable

\* Every item handed over is in exactly one place: in the ring, with the spout,
\* with the user, or destroyed by an unwinding panic.
Conservation ==
  LET gone == {spilled[i] : i \in DOMAIN spilled}
      back == {taken[i] : i \in DOMAIN taken}
  IN  /\ 1 .. offered = Live \union gone \union back \union lost
      /\ \A x \in 1 .. offered :
           \/ x \in replayable
           \/ /\ x \in Live => x \notin gone \union back \union lost
              /\ x \in gone => x \notin back \union lost
              /\ x \in back => x \notin lost

\* peek, peek_back and get agree on the two ends of the window, also when
\* tail - 1 wraps below zero.
PeeksAreEnds ==
  alive /\ Count > 0 =>
    /\ Peek = Get(0) /\ PeekBack = Get(Count - 1)
    /\ \A x \in Live : Peek <= x /\ x <= PeekBack

\* What leaves the ring, and what the observers see of it, keeps the order of
\* arrival.
OrderKept == FirstInFirstOut /\ SpilledOnceInOrder /\ PeeksAreEnds

\* The ring implements the bounded FIFO of SpillQueue: every step that no panic
\* cuts short, also after one that was, is a step of the queue.
Queue == INSTANCE SpillQueue
           WITH queue <- IF alive THEN Window ELSE <<>>
Panics ==
  \/ PushPanic
  \/ \E n \in 1 .. MaxItems : \E k \in 1 .. N + n : PushSlicePanic(n, k)
  \/ \E k \in 1 .. N : FlushPanic(k) \/ DropPanic(k)
ImplementsQueue == Queue!Init /\ [][Panics \/ [Queue!Next]_(Queue!vars)]_vars
===============================================================================
