--------------------------- MODULE WorkerPool_proofs ---------------------------
(***************************************************************************)
(* Theorems about WorkerPool for any number of workers, any capacity of     *)
(* their rings and any number of rounds: each ring has one owner, a joined  *)
(* round is over for everybody, and what a worker pushes is neither lost    *)
(* nor doubled nor reordered.                                               *)
(***************************************************************************)
EXTENDS WorkerPool, DataFacts

-------------------------------------------------------------------------------
(* Who owns a ring *)

\* Main's hand, seen from worker w.
HeldOf(w) == IF at = w THEN held ELSE NoRing

\* The six places of a worker hold different rings.
Apart(w) ==
  /\ active[w] # NoRing =>
       active[w] # fresh[w] /\ active[w] # batch[w] /\ active[w] # recycle[w]
         /\ active[w] # HeldOf(w)
  /\ fresh[w] # NoRing =>
       fresh[w] # batch[w] /\ fresh[w] # recycle[w] /\ fresh[w] # HeldOf(w)
  /\ batch[w] # NoRing => batch[w] # recycle[w] /\ batch[w] # HeldOf(w)
  /\ recycle[w] # NoRing => recycle[w] # HeldOf(w)
  /\ \A i \in 1 .. Len(final[w]) :
       /\ final[w][i] # active[w] /\ final[w][i] # fresh[w] /\ final[w][i] # batch[w]
       /\ final[w][i] # recycle[w] /\ final[w][i] # HeldOf(w)
  /\ \A i, j \in 1 .. Len(final[w]) : i < j => final[w][i] # final[w][j]

\* Ring k has been freed.
Freely(w, k) ==
  /\ active[w] # k /\ fresh[w] # k /\ batch[w] # k /\ recycle[w] # k /\ HeldOf(w) # k
  /\ \A i \in 1 .. Len(final[w]) : final[w][i] # k

\* A worker has its ring until it ends, and a second one only while it publishes.
\* One that panicked took its ring with it, so only one is left in the pool.
Owns(w) ==
  /\ active[w] = NoRing <=> pc[w] \in {"exited", "panicked"}
  /\ fresh[w] # NoRing <=> pc[w] = "publish"
  /\ pc[w] = "panicked" => \E k \in Rings : Freely(w, k)
  /\ \A k \in Rings : Freely(w, k) => items[w][k] = <<>>

Closing == {"signal", "joinThreads", "postCollect", "consume", "gone"}

\* Only collect() holds a ring, and no worker ends before the pool does, unless
\* it panics.
Control ==
  /\ held # NoRing => mpc = "collect"
  /\ \A w \in Workers :
       /\ pc[w] \in {"exit", "exited"} => shutdown[w]
       /\ shutdown[w] => mpc \in Closing
       /\ pc[w] = "work" => cur[w] # 0

OwnInv == TypeOK /\ Control /\ \A w \in Workers : Apart(w) /\ Owns(w)

-------------------------------------------------------------------------------
(* A round *)

Pushed(w, n) == Len(ran[w]) = n /\ \A i \in 1 .. n : ran[w][i] = i

\* Parked after n rounds.
Parked(w, n) ==
  pc[w] = "wait" /\ ~go[w] /\ ~done[w] /\ ~shutdown[w] /\ Pushed(w, n)

\* Somewhere in the current round: called, working, or done.
Called(w)   == pc[w] \in {"wait", "clear"} /\ go[w] /\ ~done[w] /\ Pushed(w, round - 1)
Working(w)  == /\ pc[w] \in {"load", "work"} /\ ~go[w] /\ ~done[w] /\ Pushed(w, round - 1)
               /\ pc[w] = "work" => cur[w] = round
Handing(w)  == /\ pc[w] \in {"take", "publish", "done"} /\ ~go[w] /\ ~done[w]
               /\ Pushed(w, round)
Reported(w) == pc[w] = "wait" /\ ~go[w] /\ done[w] /\ Pushed(w, round)
InRound(w)  == ~shutdown[w] /\ (Called(w) \/ Working(w) \/ Handing(w) \/ Reported(w))

\* On the way out, with an empty slot.
Leaving(w) ==
  /\ pc[w] \in {"wait", "exit", "exited"}
  /\ pc[w] = "exit" => shutdown[w]
  /\ go[w] => shutdown[w]
  /\ pc[w] # "exited" => batch[w] = NoRing

\* Where worker w is when main is at mpc.
Place(w) ==
  /\ mpc = "idle" => IF unjoined THEN InRound(w) ELSE Parked(w, round)
  /\ mpc = "go" => IF w < at THEN InRound(w) ELSE Parked(w, round - 1)
  /\ mpc = "join" => InRound(w)
  /\ mpc = "clearDone" => IF w < at THEN Parked(w, round) ELSE ~shutdown[w] /\ Reported(w)
  /\ mpc \in {"collect", "preCollect"} => Parked(w, round)
  /\ mpc = "preCollect" /\ w < at => batch[w] = NoRing
  /\ mpc \in Closing => Leaving(w)

\* The arguments stay those of the round until main has joined it.
Joining ==
  /\ mpc \in {"idle", "join"} => at = 1
  /\ unjoined => args = round /\ round > 0
  /\ mpc \in {"go", "join", "clearDone"} => unjoined
  /\ mpc \notin {"idle", "go", "join", "clearDone"} => ~unjoined

RoundInv == failure = "none" /\ Joining /\ \A w \in Workers : Place(w)

-------------------------------------------------------------------------------
(* Types *)

\* Constants and the parts of a full ring's content.
LEMMA Numbers ==
  /\ NumWorkers \in Nat \ {0} /\ N \in Nat /\ MaxRounds \in Nat
  /\ 1 \in Workers /\ NumWorkers \in Workers
  /\ NoRing \notin Rings /\ 1 \in Rings /\ 2 \in Rings
  BY PoolAssumption DEF Workers, Rings, NoRing

\* What is kept of a ring's content, and what is evicted.
LEMMA Split ==
  ASSUME NEW s \in Seq(Nat)
  PROVE  /\ Kept(s) \in Seq(Nat) /\ Evicted(s) \in Seq(Nat)
         /\ Excess(s) \in 0 .. Len(s)
  <1>1. Excess(s) \in 0 .. Len(s)
    BY Numbers DEF Excess
  <1>2. Len(s) \in Nat /\ Excess(s) \in Nat
    BY <1>1
  <1>. HIDE DEF Excess
  <1>. QED BY <1>1, <1>2 DEF Kept, Evicted

\* Main goes from one worker to the next.
LEMMA NextIsWorker ==
  ASSUME at \in Workers, NEW then, NextWorker(then)
  PROVE  /\ at' \in Workers /\ (mpc' = mpc \/ mpc' = then)
         /\ \/ at < NumWorkers /\ at' = at + 1 /\ mpc' = mpc
            \/ at = NumWorkers /\ at' = 1 /\ mpc' = then
  BY Numbers DEF NextWorker, Workers

\* The content of a worker's rings, and of what it has freed.
LEMMA Contents ==
  ASSUME TypeOK, NEW w \in Workers, NEW k \in Rings \union {NoRing}
  PROVE  /\ Freed(w, k) \in Seq(Nat)
         /\ Emptied(w, k) \in [Workers -> [Rings -> Seq(Nat)]]
  BY DEF TypeOK, Freed, Emptied

\* Replacing the content of one ring, or appending to what a worker has sent.
LEMMA Typed ==
  /\ \A f \in [Workers -> [Rings -> Seq(Nat)]] : \A w \in Workers, k \in Rings : \A s \in Seq(Nat) :
       [f EXCEPT ![w][k] = s] \in [Workers -> [Rings -> Seq(Nat)]]
  /\ \A f \in [Workers -> Seq(Nat)] : \A w \in Workers : \A s \in Seq(Nat) :
       [f EXCEPT ![w] = @ \o s] \in [Workers -> Seq(Nat)]
  /\ \A s, t \in Seq(Nat) : s \o t \in Seq(Nat)
  OBVIOUS

\* Nothing is in the empty sequence, and nothing is changed by it.
LEMMA NoItems ==
  /\ <<>> \in Seq(Nat) /\ SeqItems(<<>>) = {}
  /\ \A s \in Seq(Nat) : s \o <<>> = s /\ <<>> \o s = s
  BY DEF SeqItems

\* Which positions a sequence of up to two items has.
LEMMA Counting ==
  \A n \in Nat :
    /\ n = 0 \/ 1 \in 1 .. n
    /\ n = 0 \/ n = 1 \/ (1 \in 1 .. n /\ 2 \in 1 .. n)
    /\ n = 0 => 1 \notin 1 .. n /\ 2 \notin 1 .. n
    /\ n = 1 => 1 \in 1 .. n /\ 2 \notin 1 .. n /\ n # 0
    /\ ~(n > 2) => n \in 0 .. 2
    /\ ~(n > 1) => n \in 0 .. 1
    /\ n > 1 => 1 \in 1 .. n /\ 2 \in 1 .. n
    /\ n > 2 => 1 \in 1 .. n /\ 2 \in 1 .. n /\ 3 \in 1 .. n
  OBVIOUS

\* The rings collected from a worker, of which there are at most two.
Collected(w, i) == IF i \in 1 .. Len(final[w]) THEN items[w][final[w][i]] ELSE <<>>

\* The items of the collected rings are those of the first and then the second.
LEMMA FinalParts ==
  ASSUME TypeOK, NEW w \in Workers
  PROVE  /\ FinalItems(w) = Collected(w, 1) \o Collected(w, 2)
         /\ \A i : Collected(w, i) \in Seq(Nat)
  <1>1. /\ Len(final[w]) \in Nat /\ items[w] \in [Rings -> Seq(Nat)]
        /\ \A i \in 1 .. Len(final[w]) : final[w][i] \in Rings
    BY DEF TypeOK
  <1>2. \A i : Collected(w, i) \in Seq(Nat)
    BY <1>1, NoItems, Zenon DEF Collected
  <1>3. CASE Len(final[w]) = 0
    <2>1. 1 \notin 1 .. Len(final[w]) /\ 2 \notin 1 .. Len(final[w])
      BY <1>1, <1>3, Counting, Zenon
    <2>2. Collected(w, 1) = <<>> /\ Collected(w, 2) = <<>>
      BY <2>1, Zenon DEF Collected
    <2>3. FinalItems(w) = <<>>
      BY <1>3, Zenon DEF FinalItems
    <2>4. <<>> \o <<>> = <<>>
      OBVIOUS
    <2>. QED BY <1>2, <2>2, <2>3, <2>4, Zenon
  <1>4. CASE Len(final[w]) = 1
    <2>1. 1 \in 1 .. Len(final[w]) /\ 2 \notin 1 .. Len(final[w]) /\ Len(final[w]) # 0
      BY <1>1, <1>4, Counting, Zenon
    <2>2. Collected(w, 1) = items[w][final[w][1]] /\ Collected(w, 2) = <<>>
      BY <2>1, Zenon DEF Collected
    <2>. QED BY <1>2, <1>4, <2>1, <2>2, NoItems, Zenon DEF FinalItems
  <1>5. CASE Len(final[w]) # 0 /\ Len(final[w]) # 1
    <2>1. 1 \in 1 .. Len(final[w]) /\ 2 \in 1 .. Len(final[w])
      BY <1>1, <1>5, Counting, Zenon
    <2>2. /\ Collected(w, 1) = items[w][final[w][1]]
          /\ Collected(w, 2) = items[w][final[w][2]]
      BY <2>1, Zenon DEF Collected
    <2>3. FinalItems(w) = items[w][final[w][1]] \o items[w][final[w][2]]
      BY <1>5, Zenon DEF FinalItems
    <2>. QED BY <1>2, <2>2, <2>3, Zenon
  <1>. QED BY <1>2, <1>3, <1>4, <1>5, Zenon

\* They are items.
LEMMA FinalTyped ==
  ASSUME TypeOK, NEW w \in Workers
  PROVE  FinalItems(w) \in Seq(Nat)
  <1>1. Collected(w, 1) \in Seq(Nat) /\ Collected(w, 2) \in Seq(Nat)
    BY FinalParts, Zenon
  <1>2. FinalItems(w) = Collected(w, 1) \o Collected(w, 2)
    BY FinalParts, Zenon
  <1>. QED BY <1>1, <1>2

\* The types are inductive once each place is known to hold its ring alone.
LEMMA TypeStep == OwnInv /\ [Next]_vars => TypeOK'
  <1> SUFFICES ASSUME OwnInv, [Next]_vars
               PROVE  TypeOK'
    OBVIOUS
  <1>0. /\ TypeOK /\ Control
        /\ 0 \in 0 .. MaxRounds /\ 1 \in Workers
    BY Numbers DEF OwnInv
  <1>1. ASSUME NEW w \in Workers, Wake(w)
        PROVE  TypeOK'
    BY <1>0, <1>1 DEF TypeOK, Wake, mainVars, signals, slotVars, dataVars
  <1>2. ASSUME NEW w \in Workers, ClearGo(w)
        PROVE  TypeOK'
    BY <1>0, <1>2 DEF TypeOK, ClearGo, mainVars, signals, slotVars, dataVars
  <1>3. ASSUME NEW w \in Workers, LoadArgs(w)
        PROVE  TypeOK'
    BY <1>0, <1>3 DEF TypeOK, LoadArgs, mainVars, signals, slotVars, dataVars
  <1>4. ASSUME NEW w \in Workers, Work(w)
        PROVE  TypeOK'
    <2> DEFINE k    == active[w]
               full == Append(items[w][k], Len(ran[w]) + 1)
    <2>1. /\ k \in Rings /\ cur[w] \in 1 .. MaxRounds /\ items[w][k] \in Seq(Nat)
          /\ Len(ran[w]) \in Nat
      <3>1. pc[w] = "work"
        BY <1>4 DEF Work
      <3>2. k # NoRing /\ cur[w] # 0
        BY <1>0, <3>1 DEF OwnInv, Owns, Control
      <3>3. k \in Rings
        BY <1>0, <3>2 DEF TypeOK
      <3>4. cur[w] \in 0 .. MaxRounds /\ items[w] \in [Rings -> Seq(Nat)]
        BY <1>0 DEF TypeOK
      <3>5. Len(ran[w]) \in Nat
        BY <1>0 DEF TypeOK
      <3>6. cur[w] \in 1 .. MaxRounds
        BY ONLY <3>2, <3>4, Numbers
      <3>. QED BY <3>3, <3>4, <3>5, <3>6, Zenon
    <2>2. full \in Seq(Nat)
      BY <2>1
    <2> HIDE DEF full
    <2>3. Kept(full) \in Seq(Nat) /\ Evicted(full) \in Seq(Nat)
      BY <2>2, Split, Zenon
    <2>4. /\ items' = [items EXCEPT ![w][k] = Kept(full)]
          /\ spill' = [spill EXCEPT ![w] = @ \o Evicted(full)]
      BY <1>4 DEF Work, full
    <2>5. items' \in [Workers -> [Rings -> Seq(Nat)]] /\ spill' \in [Workers -> Seq(Nat)]
      BY <1>0, <2>1, <2>3, <2>4, Typed, Zenon DEF TypeOK
    <2>6. ran' \in [Workers -> Seq(1 .. MaxRounds)]
      BY <1>0, <1>4, <2>1 DEF TypeOK, Work
    <2>. QED BY <1>0, <1>4, <2>5, <2>6 DEF TypeOK, Work, mainVars, signals, slotVars
  <1>5. ASSUME NEW w \in Workers, WorkPanic(w)
        PROVE  TypeOK'
    <2> DEFINE k == active[w]
    <2>1. k \in Rings /\ items[w][k] \in Seq(Nat) /\ <<>> \in Seq(Nat)
      <3>1. pc[w] \in {"work", "take"}
        BY <1>5 DEF WorkPanic
      <3>2. k # NoRing
        BY <3>1 DEF OwnInv, Owns
      <3>. QED BY <1>0, <3>2 DEF TypeOK
    <2>2. /\ items' = [items EXCEPT ![w][k] = <<>>]
          /\ spill' = [spill EXCEPT ![w] = @ \o items[w][k]]
      BY <1>5 DEF WorkPanic
    <2>3. items' \in [Workers -> [Rings -> Seq(Nat)]] /\ spill' \in [Workers -> Seq(Nat)]
      BY <1>0, <2>1, <2>2, Typed, Zenon DEF TypeOK
    <2>. QED BY <1>0, <1>5, <2>3 DEF TypeOK, WorkPanic, mainVars, signals, slotVars
  <1>6. ASSUME NEW w \in Workers, TakeRecycle(w)
        PROVE  TypeOK'
    BY <1>0, <1>6 DEF TypeOK, TakeRecycle, mainVars, signals, slotVars, dataVars
  <1>7. ASSUME NEW w \in Workers, Publish(w)
        PROVE  TypeOK'
    <2> DEFINE k      == fresh[w]
               old    == batch[w]
               merged == items[w][k] \o Freed(w, old)
    <2>1. k \in Rings /\ old \in Rings \union {NoRing} /\ items[w][k] \in Seq(Nat)
      BY <1>0, <1>7 DEF OwnInv, Owns, Publish, TypeOK
    <2>2. /\ Emptied(w, old) \in [Workers -> [Rings -> Seq(Nat)]]
          /\ merged \in Seq(Nat)
      <3>1. /\ Emptied(w, old) \in [Workers -> [Rings -> Seq(Nat)]]
            /\ Freed(w, old) \in Seq(Nat)
        BY <1>0, <2>1, Contents, Zenon
      <3>. QED BY <2>1, <3>1, Typed, Zenon
    <2> HIDE DEF merged
    <2>3. Kept(merged) \in Seq(Nat) /\ Evicted(merged) \in Seq(Nat)
      BY <2>2, Split, Zenon
    <2>4. /\ items' = [Emptied(w, old) EXCEPT ![w][k] = Kept(merged)]
          /\ spill' = [spill EXCEPT ![w] = @ \o Evicted(merged)]
      BY <1>7 DEF Publish, merged
    <2>5. items' \in [Workers -> [Rings -> Seq(Nat)]] /\ spill' \in [Workers -> Seq(Nat)]
      BY <1>0, <2>1, <2>2, <2>3, <2>4, Typed, Zenon DEF TypeOK
    <2>. QED BY <1>0, <1>7, <2>5 DEF TypeOK, Publish, mainVars, signals
  <1>8. ASSUME NEW w \in Workers, SignalDone(w)
        PROVE  TypeOK'
    BY <1>0, <1>8 DEF TypeOK, SignalDone, mainVars, signals, slotVars, dataVars
  <1>9. ASSUME NEW w \in Workers, Exit(w)
        PROVE  TypeOK'
    <2>1. batch[w] \in Rings \union {NoRing}
      BY <1>0 DEF TypeOK
    <2>2. /\ Emptied(w, batch[w]) \in [Workers -> [Rings -> Seq(Nat)]]
          /\ Freed(w, batch[w]) \in Seq(Nat)
      BY <1>0, <2>1, Contents, Zenon
    <2>3. items' \in [Workers -> [Rings -> Seq(Nat)]] /\ spill' \in [Workers -> Seq(Nat)]
      BY <1>0, <1>9, <2>2, Typed, Zenon DEF TypeOK, Exit
    <2>. QED BY <1>0, <1>9, <2>3 DEF TypeOK, Exit, mainVars, signals
  <1>10. CASE Dispatch
    <2>1. round + 1 \in 0 .. MaxRounds
      BY <1>0, <1>10, Numbers DEF TypeOK, Dispatch
    <2>. QED BY <1>0, <1>10, <2>1 DEF TypeOK, Dispatch, signals, slotVars, workerVars, dataVars
  <1>11. CASE DispatchPanics \/ Join \/ Collect \/ Shutdown
    BY <1>0, <1>11 DEF TypeOK, DispatchPanics, Join, Collect, Shutdown, signals, slotVars,
       workerVars, dataVars
  <1>12. CASE SignalGo
    <2>1. at' \in Workers /\ mpc' \in {mpc, "idle"}
      BY <1>0, <1>12, NextIsWorker DEF TypeOK, SignalGo
    <2>. QED BY <1>0, <1>12, <2>1 DEF TypeOK, SignalGo, slotVars, workerVars, dataVars
  <1>13. CASE JoinPanicked \/ JoinDone
    BY <1>0, <1>13 DEF TypeOK, JoinPanicked, JoinDone, signals, slotVars, workerVars, dataVars
  <1>14. CASE ClearDone
    <2>1. at' \in Workers /\ mpc' \in {mpc, "idle"}
      BY <1>0, <1>14, NextIsWorker DEF TypeOK, ClearDone
    <2>2. unjoined' \in BOOLEAN
      BY <1>14 DEF ClearDone
    <2>. QED BY <1>0, <1>14, <2>1, <2>2 DEF TypeOK, ClearDone, slotVars, workerVars, dataVars
  <1>15. CASE CollectEmpty
    <2>1. at' \in Workers /\ mpc' \in {mpc, "idle"}
      BY <1>0, <1>15, NextIsWorker DEF TypeOK, CollectEmpty
    <2>. QED BY <1>0, <1>15, <2>1 DEF TypeOK, CollectEmpty, signals, slotVars, workerVars,
            dataVars
  <1>16. CASE CollectSwap
    BY <1>0, <1>16 DEF TypeOK, CollectSwap, signals, workerVars, dataVars
  <1>17. CASE CollectSend
    <2>1. at \in Workers /\ held \in Rings /\ recycle[at] \in Rings \union {NoRing}
          /\ items[at][held] \in Seq(Nat) /\ <<>> \in Seq(Nat)
      BY <1>0, <1>17 DEF TypeOK, CollectSend
    <2>2. /\ Emptied(at, recycle[at]) \in [Workers -> [Rings -> Seq(Nat)]]
          /\ Freed(at, recycle[at]) \in Seq(Nat)
      BY <1>0, <2>1, Contents, Zenon
    <2>3. /\ items' \in [Workers -> [Rings -> Seq(Nat)]] /\ spill' \in [Workers -> Seq(Nat)]
          /\ out' \in [Workers -> Seq(Nat)]
      BY <1>0, <1>17, <2>1, <2>2, Typed, Zenon DEF TypeOK, CollectSend
    <2>4. at' \in Workers /\ mpc' \in {mpc, "idle"}
      BY <1>0, <1>17, NextIsWorker DEF TypeOK, CollectSend
    <2>5. recycle' \in [Workers -> Rings \union {NoRing}] /\ held' \in Rings \union {NoRing}
      BY <1>0, <1>17 DEF TypeOK, CollectSend
    <2>. QED BY <1>0, <1>17, <2>3, <2>4, <2>5 DEF TypeOK, CollectSend, signals, workerVars
  <1>18. ASSUME NEW i \in 1 .. N, CollectFails(i)
         PROVE  TypeOK'
    <2> DEFINE s == items[at][held]
    <2>1. /\ at \in Workers /\ held \in Rings /\ s \in Seq(Nat) /\ <<>> \in Seq(Nat)
          /\ i \in 1 .. Len(s)
      BY <1>0, <1>18 DEF TypeOK, CollectFails
    <2> HIDE DEF s
    <2>2. /\ SubSeq(s, 1, i - 1) \in Seq(Nat) /\ SubSeq(s, i + 1, Len(s)) \in Seq(Nat)
          /\ s[i] \in Nat
      BY <2>1
    <2>3. /\ out' = [out EXCEPT ![at] = @ \o SubSeq(s, 1, i - 1)]
          /\ spill' = [spill EXCEPT ![at] = @ \o SubSeq(s, i + 1, Len(s))]
          /\ items' = [items EXCEPT ![at][held] = <<>>]
          /\ failed' = [failed EXCEPT ![at] = @ \union {s[i]}]
      BY <1>18 DEF CollectFails, s
    <2>4. /\ items' \in [Workers -> [Rings -> Seq(Nat)]] /\ spill' \in [Workers -> Seq(Nat)]
          /\ out' \in [Workers -> Seq(Nat)]
      BY <1>0, <2>1, <2>2, <2>3, Typed, Zenon DEF TypeOK
    <2>5. failed' \in [Workers -> SUBSET Nat]
      BY <1>0, <2>1, <2>2, <2>3 DEF TypeOK
    <2>. QED BY <1>0, <1>18, <2>4, <2>5 DEF TypeOK, CollectFails, signals, slotVars, workerVars
  <1>19. CASE CollectFinal
    <2>1. at' \in Workers /\ mpc' \in {mpc, "signal", "consume"}
      BY <1>0, <1>19, NextIsWorker DEF TypeOK, CollectFinal
    <2>2. final' \in [Workers -> Seq(Rings)] /\ batch' \in [Workers -> Rings \union {NoRing}]
      <3>1. at \in Workers /\ final[at] \in Seq(Rings)
        BY <1>0 DEF TypeOK
      <3>2. CASE batch[at] = NoRing
        BY <1>0, <1>19, <3>2 DEF TypeOK, CollectFinal
      <3>3. CASE batch[at] # NoRing
        <4>1. Append(final[at], batch[at]) \in Seq(Rings)
          BY <1>0, <3>1, <3>3 DEF TypeOK
        <4>. QED BY <1>0, <1>19, <3>1, <3>3, <4>1 DEF TypeOK, CollectFinal
      <3>. QED BY <3>2, <3>3, Zenon
    <2>. QED BY <1>0, <1>19, <2>1, <2>2 DEF TypeOK, CollectFinal, signals, workerVars, dataVars
  <1>20. CASE SignalShutdown
    BY <1>0, <1>20 DEF TypeOK, SignalShutdown, mainVars, slotVars, workerVars, dataVars
  <1>21. CASE SignalLastGo
    <2>1. at' \in Workers /\ mpc' \in {mpc, "joinThreads"}
      BY <1>0, <1>21, NextIsWorker DEF TypeOK, SignalLastGo
    <2>. QED BY <1>0, <1>21, <2>1 DEF TypeOK, SignalLastGo, slotVars, workerVars, dataVars
  <1>22. CASE JoinThread
    <2>1. at' \in Workers /\ mpc' \in {mpc, "postCollect"}
      BY <1>0, <1>22, NextIsWorker DEF TypeOK, JoinThread
    <2>. QED BY <1>0, <1>22, <2>1 DEF TypeOK, JoinThread, signals, slotVars, workerVars, dataVars
  <1>23. CASE Consume
    <2>1. ASSUME NEW w \in Workers
          PROVE  FinalItems(w) \in Seq(Nat)
      BY <1>0, FinalTyped, Zenon
    <2>2. /\ [w \in Workers |-> out[w] \o FinalItems(w)] \in [Workers -> Seq(Nat)]
          /\ [w \in Workers |-> spill[w] \o FinalItems(w)] \in [Workers -> Seq(Nat)]
      <3>1. ASSUME NEW w \in Workers
            PROVE  out[w] \o FinalItems(w) \in Seq(Nat) /\ spill[w] \o FinalItems(w) \in Seq(Nat)
        <4>1. out[w] \in Seq(Nat) /\ spill[w] \in Seq(Nat)
          BY <1>0 DEF TypeOK
        <4>. QED BY <2>1, <4>1, Typed, Zenon
      <3>. QED BY <3>1
    <2>3. out' \in [Workers -> Seq(Nat)] /\ spill' \in [Workers -> Seq(Nat)]
      BY <1>0, <1>23, <2>2, Zenon DEF TypeOK, Consume
    <2>4. /\ items' \in [Workers -> [Rings -> Seq(Nat)]]
          /\ recycle' \in [Workers -> Rings \union {NoRing}]
          /\ final' \in [Workers -> Seq(Rings)]
      BY <1>23 DEF Consume
    <2>. QED BY <1>0, <1>23, <2>3, <2>4 DEF TypeOK, Consume, signals, workerVars
  <1>24. CASE UNCHANGED vars
    BY <1>0, <1>24 DEF TypeOK, vars, mainVars, signals, slotVars, dataVars, workerVars
  <1>. QED
    <2>1. CASE Call
      BY <1>10, <1>11, <2>1, Zenon DEF Call
    <2>2. CASE MainStep
      BY <1>12, <1>13, <1>14, <1>15, <1>16, <1>17, <1>18, <1>19, <1>20, <1>21, <1>22, <1>23,
         <2>2, Zenon DEF MainStep
    <2>3. ASSUME NEW w \in Workers, WorkerStep(w) \/ WorkPanic(w)
          PROVE  TypeOK'
      BY <1>1, <1>2, <1>3, <1>4, <1>5, <1>6, <1>7, <1>8, <1>9, <2>3, Zenon DEF WorkerStep
    <2>. QED BY <1>24, <2>1, <2>2, <2>3, Zenon DEF Next

-------------------------------------------------------------------------------
(* Control *)

\* A ring is in main's hand only inside collect(), and a worker ends only once
\* the pool shuts down, or by a panic.
LEMMA ControlStep == OwnInv /\ [Next]_vars => Control'
  <1> SUFFICES ASSUME OwnInv, [Next]_vars
               PROVE  Control'
    OBVIOUS
  <1>0. /\ at \in Workers /\ held \in Rings \union {NoRing}
        /\ shutdown \in [Workers -> BOOLEAN] /\ cur \in [Workers -> 0 .. MaxRounds]
        /\ pc \in [Workers -> {"wait", "clear", "load", "work", "take", "publish", "done",
                               "exit", "exited", "panicked"}]
        /\ held # NoRing => mpc = "collect"
        /\ \A w \in Workers :
             /\ pc[w] \in {"exit", "exited"} => shutdown[w]
             /\ shutdown[w] => mpc \in Closing
             /\ pc[w] = "work" => cur[w] # 0
    BY DEF OwnInv, TypeOK, Control
  <1>1. ASSUME NEW w \in Workers,
               \/ Wake(w) \/ ClearGo(w) \/ LoadArgs(w) \/ Work(w) \/ TakeRecycle(w)
               \/ Publish(w) \/ SignalDone(w) \/ Exit(w) \/ WorkPanic(w)
        PROVE  Control'
    <2>1. UNCHANGED <<mpc, held, shutdown>>
      BY <1>1 DEF Wake, ClearGo, LoadArgs, Work, TakeRecycle, Publish, SignalDone, Exit,
                  WorkPanic, mainVars, signals
    <2>2. ASSUME NEW v \in Workers
          PROVE  /\ pc'[v] \in {"exit", "exited"} => shutdown[v]
                 /\ pc'[v] = "work" => cur'[v] # 0
      BY <1>0, <1>1 DEF Wake, ClearGo, LoadArgs, Work, TakeRecycle, Publish, SignalDone,
                  Exit, WorkPanic
    <2>. QED BY <1>0, <2>1, <2>2, Zenon DEF Control
  <1>2. ASSUME UNCHANGED <<shutdown, pc, cur>>,
               held' # NoRing => mpc' = "collect",
               mpc \in Closing => mpc' \in Closing
        PROVE  Control'
    BY <1>0, <1>2, Zenon DEF Control
  <1>3. CASE Call
    <2>1. UNCHANGED <<shutdown, pc, cur, held>>
      BY <1>3 DEF Call, Dispatch, DispatchPanics, Join, Collect, Shutdown, signals, workerVars
    <2>2. mpc = "idle"
      BY <1>3 DEF Call, Dispatch, DispatchPanics, Join, Collect, Shutdown, MayCall
    <2>3. held = NoRing /\ mpc \notin Closing
      BY <1>0, <2>2 DEF Closing
    <2>. QED BY <1>2, <2>1, <2>3, Zenon
  <1>4. CASE MainStep /\ ~SignalShutdown
    <2>1. UNCHANGED <<shutdown, pc, cur>>
      BY <1>4 DEF MainStep, SignalGo, JoinPanicked, JoinDone, ClearDone, CollectEmpty,
             CollectSwap, CollectSend, CollectFails, CollectFinal, SignalLastGo, JoinThread,
             Consume, signals, workerVars
    <2>2. held' # NoRing => mpc' = "collect"
      BY <1>0, <1>4
         DEF MainStep, SignalGo, JoinPanicked, JoinDone, ClearDone, CollectEmpty,
             CollectSwap, CollectSend, CollectFails, CollectFinal, SignalLastGo, JoinThread,
             Consume
    <2>3. mpc \in Closing => mpc' \in Closing
      BY <1>4
         DEF MainStep, SignalGo, JoinPanicked, JoinDone, ClearDone, CollectEmpty,
             CollectSwap, CollectSend, CollectFails, CollectFinal, SignalLastGo, JoinThread,
             Consume, NextWorker, Closing
    <2>. QED BY <1>2, <2>1, <2>2, <2>3, Zenon
  <1>5. CASE SignalShutdown
    <2>1. /\ mpc \in Closing /\ mpc' = mpc /\ UNCHANGED <<pc, cur, held>>
          /\ shutdown' = [shutdown EXCEPT ![at] = TRUE]
      BY <1>5 DEF SignalShutdown, Closing, mainVars, workerVars
    <2>2. \A w \in Workers : shutdown[w] => shutdown'[w]
      BY <1>0, <2>1
    <2>. QED BY <1>0, <2>1, <2>2, Zenon DEF Control
  <1>6. CASE UNCHANGED vars
    BY <1>0, <1>6 DEF Control, vars, mainVars, signals, workerVars
  <1>. QED BY <1>1, <1>3, <1>4, <1>5, <1>6, Zenon DEF Next, WorkerStep

-------------------------------------------------------------------------------
(* One owner *)

\* What no step touches keeps its owner.
LEMMA Untouched ==
  ASSUME NEW w \in Workers, Apart(w), Owns(w),
         active'[w] = active[w], fresh'[w] = fresh[w], batch'[w] = batch[w],
         recycle'[w] = recycle[w], HeldOf(w)' = HeldOf(w), final'[w] = final[w],
         \/ pc'[w] = pc[w]
         \/ /\ pc'[w] \notin {"publish", "panicked", "exited"}
            /\ pc[w] \notin {"publish", "panicked", "exited"},
         items'[w] = items[w]
  PROVE  Apart(w)' /\ Owns(w)'
  <1>1. \A k : Freely(w, k)' <=> Freely(w, k)
    BY Zenon DEF Freely
  <1>2. Apart(w)'
    BY Zenon DEF Apart
  <1>3. Owns(w)'
    <2>1. /\ active'[w] = NoRing <=> pc'[w] \in {"exited", "panicked"}
          /\ fresh'[w] # NoRing <=> pc'[w] = "publish"
      BY DEF Owns
    <2>2. pc'[w] = "panicked" => pc[w] = "panicked"
      OBVIOUS
    <2>. QED BY <1>1, <2>1, <2>2, Zenon DEF Owns
  <1>. QED BY <1>2, <1>3

\* A worker step fills and empties no ring of another worker.
LEMMA OthersContent ==
  ASSUME TypeOK, NEW w \in Workers, NEW v \in Workers, v # w,
         WorkerStep(w) \/ WorkPanic(w)
  PROVE  items'[v] = items[v] /\ spill'[v] = spill[v]
  <1>1. /\ items \in [Workers -> [Rings -> Seq(Nat)]] /\ spill \in [Workers -> Seq(Nat)]
        /\ batch[w] \in Rings \union {NoRing}
    BY DEF TypeOK
  <1>2. CASE Wake(w) \/ ClearGo(w) \/ LoadArgs(w) \/ TakeRecycle(w) \/ SignalDone(w)
    BY <1>2 DEF Wake, ClearGo, LoadArgs, TakeRecycle, SignalDone, dataVars
  <1>3. CASE Work(w)
    BY <1>1, <1>3 DEF Work
  <1>4. CASE WorkPanic(w)
    BY <1>1, <1>4 DEF WorkPanic
  <1>5. /\ Emptied(w, batch[w]) \in [Workers -> [Rings -> Seq(Nat)]]
        /\ Emptied(w, batch[w])[v] = items[v]
    <2>1. Emptied(w, batch[w])[v] = items[v]
      BY <1>1 DEF Emptied
    <2>. QED BY <1>1, <2>1, Contents, Zenon
  <1>6. CASE Publish(w)
    <2> DEFINE e == Emptied(w, batch[w])
    <2>1. e \in [Workers -> [Rings -> Seq(Nat)]] /\ e[v] = items[v]
      BY <1>5
    <2> HIDE DEF e
    <2>2. \A k, s : [e EXCEPT ![w][k] = s][v] = e[v]
      BY <2>1
    <2>3. items'[v] = e[v]
      BY <1>6, <2>2, Zenon DEF Publish, e
    <2>4. spill'[v] = spill[v]
      BY <1>1, <1>6 DEF Publish
    <2>. QED BY <2>1, <2>3, <2>4
  <1>7. CASE Exit(w)
    <2>1. items'[v] = items[v]
      BY <1>5, <1>7, Zenon DEF Exit
    <2>2. spill'[v] = spill[v]
      BY <1>1, <1>7 DEF Exit
    <2>. QED BY <2>1, <2>2
  <1>. QED BY <1>2, <1>3, <1>4, <1>6, <1>7, Zenon DEF WorkerStep

\* A worker step leaves the other workers alone.
LEMMA OtherWorker ==
  ASSUME TypeOK, NEW w \in Workers, NEW v \in Workers, v # w,
         WorkerStep(w) \/ WorkPanic(w), Apart(v), Owns(v)
  PROVE  Apart(v)' /\ Owns(v)'
  <1>1. /\ active'[v] = active[v] /\ fresh'[v] = fresh[v] /\ batch'[v] = batch[v]
        /\ recycle'[v] = recycle[v] /\ pc'[v] = pc[v]
    <2>1. CASE Wake(w) \/ ClearGo(w) \/ LoadArgs(w) \/ SignalDone(w)
      BY <2>1 DEF TypeOK, Wake, ClearGo, LoadArgs, SignalDone, slotVars, workerVars
    <2>2. CASE Work(w) \/ WorkPanic(w)
      BY <2>2 DEF TypeOK, Work, WorkPanic, slotVars, workerVars
    <2>3. CASE TakeRecycle(w)
      BY <2>3 DEF TypeOK, TakeRecycle, slotVars, workerVars
    <2>4. CASE Publish(w) \/ Exit(w)
      BY <2>4 DEF TypeOK, Publish, Exit, slotVars, workerVars
    <2>. QED BY <2>1, <2>2, <2>3, <2>4, Zenon DEF WorkerStep
  <1>2. HeldOf(v)' = HeldOf(v) /\ final' = final
    BY DEF HeldOf, WorkerStep, Wake, ClearGo, LoadArgs, Work, TakeRecycle, Publish,
           SignalDone, Exit, WorkPanic, mainVars
  <1>3. items'[v] = items[v]
    BY OthersContent, Zenon
  <1>4. /\ final'[v] = final[v]
        /\ \/ pc'[v] = pc[v]
           \/ /\ pc'[v] \notin {"publish", "panicked", "exited"}
              /\ pc[v] \notin {"publish", "panicked", "exited"}
    BY <1>1, <1>2, Zenon
  <1>. QED BY <1>1, <1>2, <1>3, <1>4, Untouched, Zenon

\* A worker with both rings in its hands finds its slot empty.
LEMMA EmptySlot ==
  ASSUME OwnInv, NEW w \in Workers, pc[w] = "publish"
  PROVE  /\ batch[w] = NoRing /\ recycle[w] = NoRing /\ HeldOf(w) = NoRing
         /\ active[w] \in Rings /\ fresh[w] \in Rings /\ active[w] # fresh[w]
         /\ final[w] = <<>>
  <1>1. /\ active[w] \in Rings \union {NoRing} /\ fresh[w] \in Rings \union {NoRing}
        /\ batch[w] \in Rings \union {NoRing} /\ recycle[w] \in Rings \union {NoRing}
        /\ HeldOf(w) \in Rings \union {NoRing} /\ final[w] \in Seq(Rings)
    BY DEF OwnInv, TypeOK, HeldOf
  <1>2. active[w] # NoRing /\ fresh[w] # NoRing /\ Apart(w)
    BY DEF OwnInv, Owns
  <1>3. /\ batch[w] = NoRing /\ recycle[w] = NoRing /\ HeldOf(w) = NoRing
        /\ active[w] # fresh[w]
    BY <1>1, <1>2 DEF Apart, Rings, NoRing
  <1>4. final[w] = <<>>
    <2>1. \A i \in 1 .. Len(final[w]) :
            final[w][i] \in Rings /\ final[w][i] # active[w] /\ final[w][i] # fresh[w]
      BY <1>1, <1>2 DEF Apart
    <2>2. \A i \in 1 .. Len(final[w]) : FALSE
      BY <1>1, <1>2, <2>1 DEF Apart, Rings, NoRing
    <2>3. Len(final[w]) \in Nat
      BY <1>1
    <2>4. Len(final[w]) = 0
      BY ONLY <2>2, <2>3
    <2>. QED BY ONLY <1>1, <2>4
  <1>. QED BY <1>1, <1>2, <1>3, <1>4, Zenon

\* The second ring is in one place, so a spare is never given back to a worker
\* that has one.
LEMMA EmptySpare ==
  ASSUME OwnInv, held # NoRing
  PROVE  recycle[at] = NoRing /\ at \in Workers /\ HeldOf(at) = held /\ held \in Rings
  <1>1. /\ at \in Workers /\ held \in Rings
        /\ active[at] \in Rings \union {NoRing} /\ recycle[at] \in Rings \union {NoRing}
    BY DEF OwnInv, TypeOK
  <1>2. HeldOf(at) = held /\ Apart(at) /\ Owns(at)
    BY <1>1 DEF HeldOf, OwnInv
  <1>3. mpc = "collect"
    BY DEF OwnInv, Control
  <1>4. pc[at] \notin {"exit", "exited"}
    BY <1>1, <1>3 DEF OwnInv, Control, Closing
  <1>5. CASE pc[at] = "panicked"
    <2>1. PICK k \in Rings : Freely(at, k)
      BY <1>2, <1>5 DEF Owns
    <2>2. recycle[at] # k /\ held # k
      BY <1>2, <2>1 DEF Freely
    <2>. QED BY <1>1, <1>2, <2>2 DEF Apart, Rings, NoRing
  <1>6. CASE pc[at] # "panicked"
    <2>1. active[at] # NoRing
      BY <1>2, <1>4, <1>6 DEF Owns
    <2>. QED BY <1>1, <1>2, <2>1 DEF Apart, Rings, NoRing
  <1>. QED BY <1>1, <1>2, <1>5, <1>6

\* The steps of a worker: rings only move from one of its places to another, or
\* are emptied and freed.
LEMMA WorkerOwns ==
  ASSUME OwnInv, NEW w \in Workers, WorkerStep(w) \/ WorkPanic(w)
  PROVE  Apart(w)' /\ Owns(w)'
  <1>1. /\ Apart(w) /\ Owns(w) /\ NoRing \notin Rings
        /\ w \in Workers /\ TypeOK
        /\ active[w] \in Rings \union {NoRing} /\ fresh[w] \in Rings \union {NoRing}
        /\ batch[w] \in Rings \union {NoRing} /\ recycle[w] \in Rings \union {NoRing}
        /\ items[w] \in [Rings -> Seq(Nat)]
    BY Numbers DEF OwnInv, TypeOK
  <1>2. HeldOf(w)' = HeldOf(w) /\ final'[w] = final[w]
    BY DEF HeldOf, WorkerStep, Wake, ClearGo, LoadArgs, Work, TakeRecycle, Publish,
           SignalDone, Exit, WorkPanic, mainVars
  <1>9. \A i \in 1 .. Len(final[w]) : final[w][i] # NoRing
    <2>1. final[w] \in Seq(Rings)
      BY DEF OwnInv, TypeOK
    <2>2. \A i \in 1 .. Len(final[w]) : final[w][i] \in Rings
      BY <2>1
    <2>. QED BY <1>1, <2>2, Zenon
  <1>3. ASSUME Wake(w) \/ ClearGo(w) \/ LoadArgs(w) \/ SignalDone(w)
        PROVE  Apart(w)' /\ Owns(w)'
    <2>1. /\ active'[w] = active[w] /\ fresh'[w] = fresh[w] /\ batch'[w] = batch[w]
          /\ recycle'[w] = recycle[w] /\ items'[w] = items[w]
      BY <1>3 DEF Wake, ClearGo, LoadArgs, SignalDone, slotVars, dataVars
    <2>2. /\ pc'[w] \notin {"publish", "panicked", "exited"}
          /\ pc[w] \notin {"publish", "panicked", "exited"}
      BY <1>1, <1>3 DEF TypeOK, Wake, ClearGo, LoadArgs, SignalDone
    <2>. QED BY <1>1, <1>2, <2>1, <2>2, Untouched, Zenon
  <1>4. ASSUME Work(w)
        PROVE  Apart(w)' /\ Owns(w)'
    <2>1. /\ active' = active /\ fresh' = fresh /\ batch' = batch /\ recycle' = recycle
          /\ pc[w] = "work" /\ pc'[w] = "take"
      BY <1>1, <1>4 DEF TypeOK, Work, slotVars
    <2>2. \A k \in Rings : k # active[w] => items'[w][k] = items[w][k]
      BY <1>1, <1>4 DEF Work, TypeOK
    <2>3. \A k : Freely(w, k)' <=> Freely(w, k)
      BY <1>2, <2>1, Zenon DEF Freely
    <2>4. Apart(w)'
      BY <1>1, <1>2, <2>1, Zenon DEF Apart
    <2>5. \A k \in Rings : Freely(w, k)' => items'[w][k] = <<>>
      <3>1. \A k \in Rings : Freely(w, k) => k # active[w] /\ items[w][k] = <<>>
        BY <1>1, Zenon DEF Owns, Freely
      <3>. QED BY <2>2, <2>3, <3>1, Zenon
    <2>6. active'[w] # NoRing /\ fresh'[w] = NoRing
      BY <1>1, <2>1 DEF Owns
    <2>. QED BY <2>1, <2>4, <2>5, <2>6 DEF Owns
  <1>5. ASSUME WorkPanic(w)
        PROVE  Apart(w)' /\ Owns(w)'
    <2>1. /\ fresh' = fresh /\ batch' = batch /\ recycle' = recycle
          /\ pc[w] \in {"work", "take"} /\ pc'[w] = "panicked" /\ active'[w] = NoRing
      BY <1>1, <1>5 DEF TypeOK, WorkPanic, slotVars
    <2>2. active[w] \in Rings /\ fresh[w] = NoRing /\ active[w] # NoRing
      BY <1>1, <2>1 DEF Owns
    <2>3. PICK k \in Rings : k = active[w]
      BY <2>2, Zenon
    <2>4. items'[w][k] = <<>> /\ \A j \in Rings : j # k => items'[w][j] = items[w][j]
      BY <1>1, <1>5, <2>3 DEF WorkPanic, TypeOK
    <2>5. Freely(w, k)'
      BY <1>1, <1>2, <2>1, <2>2, <2>3, Zenon DEF Freely, Apart
    <2>6. Apart(w)'
      BY <1>1, <1>2, <1>9, <2>1, <2>2, Zenon DEF Apart
    <2>7. \A j \in Rings : j # k /\ Freely(w, j)' => Freely(w, j)
      BY <1>2, <2>1, <2>3, Zenon DEF Freely
    <2>8. \A j \in Rings : Freely(w, j)' => items'[w][j] = <<>>
      BY <1>1, <2>4, <2>7, Zenon DEF Owns
    <2>9. fresh'[w] = NoRing /\ \E j \in Rings : Freely(w, j)'
      BY <2>1, <2>2, <2>5, Zenon
    <2>. QED BY <2>1, <2>6, <2>8, <2>9 DEF Owns
  <1>6. ASSUME TakeRecycle(w)
        PROVE  Apart(w)' /\ Owns(w)'
    <2>1. /\ active' = active /\ batch' = batch /\ items' = items /\ pc[w] = "take"
          /\ fresh'[w] = recycle[w] /\ recycle'[w] = NoRing
          /\ pc'[w] = IF recycle[w] = NoRing THEN "done" ELSE "publish"
      BY <1>1, <1>6 DEF TypeOK, TakeRecycle, dataVars
    <2>2. active[w] # NoRing /\ fresh[w] = NoRing
      BY <1>1, <2>1 DEF Owns
    <2>3. \A i \in 1 .. Len(final[w]) : final[w][i] # NoRing
      BY <1>9, Zenon
    <2>4. Apart(w)'
      BY <1>1, <1>2, <2>1, <2>2, <2>3, Zenon DEF Apart
    <2>5. \A k \in Rings : Freely(w, k)' => Freely(w, k)
      BY <1>1, <1>2, <2>1, <2>2, Zenon DEF Freely
    <2>6. \A k \in Rings : Freely(w, k)' => items'[w][k] = <<>>
      BY <1>1, <2>1, <2>5, Zenon DEF Owns
    <2>7. pc'[w] \in {"done", "publish"} /\ (pc'[w] = "publish" <=> fresh'[w] # NoRing)
      BY <2>1
    <2>. QED BY <2>1, <2>2, <2>4, <2>6, <2>7 DEF Owns
  <1>7. ASSUME Publish(w)
        PROVE  Apart(w)' /\ Owns(w)'
    <2>1. /\ recycle' = recycle /\ pc[w] = "publish" /\ pc'[w] = "done"
          /\ batch'[w] = active[w] /\ active'[w] = fresh[w] /\ fresh'[w] = NoRing
      BY <1>1, <1>7 DEF TypeOK, Publish
    <2>2. /\ batch[w] = NoRing /\ recycle[w] = NoRing /\ HeldOf(w) = NoRing
          /\ active[w] \in Rings /\ fresh[w] \in Rings /\ active[w] # fresh[w]
          /\ final[w] = <<>> /\ Len(final[w]) = 0
      BY <2>1, EmptySlot
    <2>3. \A i \in 1 .. Len(final[w]) : FALSE
      BY ONLY <2>2
    <2>4. Apart(w)'
      BY <1>1, <1>2, <2>1, <2>2, <2>3, Zenon DEF Apart
    <2>5. \A k \in Rings : ~Freely(w, k)'
      <3>1. \A k \in Rings : k = active[w] \/ k = fresh[w]
        BY <2>2 DEF Rings
      <3>. QED BY <2>1, <3>1, Zenon DEF Freely
    <2>6. active'[w] # NoRing
      BY <1>1, <2>1, <2>2, Zenon
    <2>. QED BY <2>1, <2>4, <2>5, <2>6 DEF Owns
  <1>8. ASSUME Exit(w)
        PROVE  Apart(w)' /\ Owns(w)'
    <2>1. /\ recycle' = recycle /\ fresh' = fresh /\ pc[w] = "exit" /\ pc'[w] = "exited"
          /\ batch'[w] = active[w] /\ active'[w] = NoRing
          /\ items' = Emptied(w, batch[w])
      BY <1>1, <1>8 DEF TypeOK, Exit
    <2>2. active[w] # NoRing /\ fresh[w] = NoRing
      BY <1>1, <2>1 DEF Owns
    <2>3. \A i \in 1 .. Len(final[w]) : final[w][i] # NoRing
      BY <1>9, Zenon
    <2>4. Apart(w)'
      BY <1>1, <1>2, <2>1, <2>2, <2>3, Zenon DEF Apart
    <2>5. \A k \in Rings : Freely(w, k)' => Freely(w, k) \/ k = batch[w]
      BY <1>1, <1>2, <2>1, <2>2, Zenon DEF Freely
    <2>6. /\ batch[w] \in Rings => items'[w][batch[w]] = <<>>
          /\ \A k \in Rings : k # batch[w] => items'[w][k] = items[w][k]
      BY <1>1, <2>1 DEF Emptied, TypeOK
    <2>7. \A k \in Rings : Freely(w, k)' => items'[w][k] = <<>>
      BY <1>1, <2>5, <2>6, Zenon DEF Owns
    <2>. QED BY <2>1, <2>2, <2>4, <2>7 DEF Owns
  <1>. QED BY <1>3, <1>4, <1>5, <1>6, <1>7, <1>8, Zenon DEF WorkerStep

\* The steps of main that move no ring.
LEMMA MainMovesNothing ==
  ASSUME OwnInv, UNCHANGED <<active, fresh, batch, recycle, final, pc, items, held>>,
         at' = at \/ held = NoRing, NEW w \in Workers
  PROVE  Apart(w)' /\ Owns(w)'
  <1>1. HeldOf(w)' = HeldOf(w)
    BY Zenon DEF HeldOf
  <1>2. Apart(w) /\ Owns(w)
    BY DEF OwnInv
  <1>. QED BY <1>1, <1>2, Untouched, Zenon

\* The steps of main: collect() takes a ring out of a slot, and gives it back or
\* drops it; the shutdown keeps what it finds in the slots until it is consumed.
LEMMA MainOwns ==
  ASSUME OwnInv, Call \/ MainStep \/ UNCHANGED vars, NEW w \in Workers
  PROVE  Apart(w)' /\ Owns(w)'
  <1>1. /\ Apart(w) /\ Owns(w) /\ TypeOK /\ at \in Workers
        /\ NoRing \notin Rings
        /\ items[w] \in [Rings -> Seq(Nat)] /\ final[w] \in Seq(Rings)
    BY Numbers DEF OwnInv, TypeOK
  <1>2. held = NoRing \/ mpc = "collect"
    BY DEF OwnInv, Control
  <1>3. \A i \in 1 .. Len(final[w]) : final[w][i] # NoRing
    <2>1. \A i \in 1 .. Len(final[w]) : final[w][i] \in Rings
      BY <1>1
    <2>. QED BY <1>1, <2>1, Zenon
  <1>4. CASE Call \/ UNCHANGED vars
    <2>1. UNCHANGED <<active, fresh, batch, recycle, final, pc, items, held, at>>
      BY <1>4 DEF Call, Dispatch, DispatchPanics, Join, Collect, Shutdown, signals, slotVars,
         workerVars, dataVars, vars, mainVars
    <2>. QED BY <2>1, MainMovesNothing, Zenon
  <1>5. CASE \/ SignalGo \/ JoinPanicked \/ JoinDone \/ ClearDone \/ CollectEmpty
             \/ SignalShutdown \/ SignalLastGo \/ JoinThread
    <2>1. UNCHANGED <<active, fresh, batch, recycle, final, pc, items, held>>
      BY <1>5 DEF SignalGo, JoinPanicked, JoinDone, ClearDone, CollectEmpty, SignalShutdown,
         SignalLastGo, JoinThread, signals, slotVars, workerVars, dataVars, mainVars
    <2>2. at' = at \/ held = NoRing
      BY <1>2, <1>5 DEF SignalGo, JoinPanicked, JoinDone, ClearDone, CollectEmpty,
         SignalShutdown, SignalLastGo, JoinThread, mainVars
    <2>. QED BY <2>1, <2>2, MainMovesNothing, Zenon
  <1>6. CASE CollectSwap
    <2>1. /\ UNCHANGED <<at, active, fresh, recycle, final, pc, items>> /\ held = NoRing
          /\ held' = batch[at] /\ batch[at] # NoRing
          /\ batch' = [batch EXCEPT ![at] = NoRing]
      BY <1>6 DEF CollectSwap, workerVars, dataVars
    <2>2. HeldOf(w) = NoRing
      BY <2>1, Zenon DEF HeldOf
    <2>3. CASE w # at
      <3>1. HeldOf(w)' = NoRing /\ batch'[w] = batch[w]
        BY <1>1, <2>1, <2>3 DEF TypeOK, HeldOf
      <3>. QED BY <1>1, <2>1, <2>2, <3>1, Untouched, Zenon
    <2>4. CASE w = at
      <3>1. HeldOf(w)' = batch[w] /\ batch'[w] = NoRing
        BY <1>1, <2>1, <2>4 DEF TypeOK, HeldOf
      <3>2. Apart(w)'
        BY <1>1, <1>3, <2>1, <2>2, <3>1, Zenon DEF Apart
      <3>3. \A k \in Rings : Freely(w, k)' <=> Freely(w, k)
        BY <1>1, <2>1, <2>2, <3>1, Zenon DEF Freely
      <3>. QED BY <1>1, <2>1, <3>2, <3>3, Zenon DEF Owns
    <2>. QED BY <2>3, <2>4, Zenon
  <1>7. CASE CollectSend
    <2>1. /\ UNCHANGED <<active, fresh, batch, final, pc>> /\ held # NoRing /\ held' = NoRing
          /\ recycle' = [recycle EXCEPT ![at] = held]
          /\ items' = [Emptied(at, recycle[at]) EXCEPT ![at][held] = <<>>]
      BY <1>7 DEF CollectSend, workerVars
    <2>2. recycle[at] = NoRing /\ HeldOf(at) = held /\ held \in Rings
      BY <2>1, EmptySpare, Zenon
    <2>3. HeldOf(w)' = NoRing
      BY <2>1, Zenon DEF HeldOf
    <2>4. items' = [items EXCEPT ![at][held] = <<>>]
      BY <2>1, <2>2 DEF Emptied
    <2>5. CASE w # at
      <3>1. HeldOf(w) = NoRing /\ recycle'[w] = recycle[w] /\ items'[w] = items[w]
        BY <1>1, <2>1, <2>4, <2>5 DEF TypeOK, HeldOf
      <3>. QED BY <1>1, <2>1, <2>3, <3>1, Untouched, Zenon
    <2>6. CASE w = at
      <3>1. /\ recycle'[w] = HeldOf(w) /\ recycle[w] = NoRing
            /\ items'[w][HeldOf(w)] = <<>> /\ HeldOf(w) \in Rings
            /\ \A k \in Rings : k # HeldOf(w) => items'[w][k] = items[w][k]
        BY <1>1, <2>1, <2>2, <2>4, <2>6 DEF TypeOK
      <3>2. Apart(w)'
        BY <1>1, <1>3, <2>1, <2>3, <3>1, Zenon DEF Apart
      <3>3. \A k \in Rings : Freely(w, k)' <=> Freely(w, k)
        BY <1>1, <2>1, <2>3, <3>1, Zenon DEF Freely
      <3>4. \A k \in Rings : Freely(w, k) => k # HeldOf(w) /\ items[w][k] = <<>>
        BY <1>1, Zenon DEF Owns, Freely
      <3>5. \A k \in Rings : Freely(w, k)' => items'[w][k] = <<>>
        BY <3>1, <3>3, <3>4, Zenon
      <3>. QED BY <1>1, <2>1, <3>2, <3>3, <3>5, Zenon DEF Owns
    <2>. QED BY <2>5, <2>6, Zenon
  <1>8. ASSUME NEW i \in 1 .. N, CollectFails(i)
        PROVE  Apart(w)' /\ Owns(w)'
    <2>1. /\ UNCHANGED <<active, fresh, batch, recycle, final, pc>> /\ held # NoRing
          /\ held' = NoRing /\ items' = [items EXCEPT ![at][held] = <<>>]
      BY <1>8 DEF CollectFails, workerVars, slotVars
    <2>2. HeldOf(at) = held /\ held \in Rings
      BY <2>1, EmptySpare, Zenon
    <2>3. HeldOf(w)' = NoRing
      BY <2>1, Zenon DEF HeldOf
    <2>4. CASE w # at
      <3>1. HeldOf(w) = NoRing /\ items'[w] = items[w]
        BY <1>1, <2>1, <2>4 DEF TypeOK, HeldOf
      <3>. QED BY <1>1, <2>1, <2>3, <3>1, Untouched, Zenon
    <2>5. CASE w = at
      <3>1. /\ items'[w][HeldOf(w)] = <<>> /\ HeldOf(w) \in Rings
            /\ \A k \in Rings : k # HeldOf(w) => items'[w][k] = items[w][k]
        BY <1>1, <2>1, <2>2, <2>5 DEF TypeOK
      <3>2. Apart(w)'
        BY <1>1, <1>3, <2>1, <2>3, <3>1, Zenon DEF Apart
      <3>3. \A k \in Rings : Freely(w, k) => Freely(w, k)'
        BY <1>1, <2>1, <2>3, <3>1, Zenon DEF Freely
      <3>4. \A k \in Rings : k # HeldOf(w) /\ Freely(w, k)' => Freely(w, k)
        BY <1>1, <2>1, <2>3, <3>1, Zenon DEF Freely
      <3>5. \A k \in Rings : Freely(w, k)' => items'[w][k] = <<>>
        BY <1>1, <3>1, <3>4, Zenon DEF Owns
      <3>. QED BY <1>1, <2>1, <3>2, <3>3, <3>5, Zenon DEF Owns
    <2>. QED BY <2>4, <2>5, Zenon
  <1>9. CASE CollectFinal
    <2>1. /\ UNCHANGED <<active, fresh, recycle, pc, items, held>>
          /\ batch' = [batch EXCEPT ![at] = NoRing]
          /\ final' = IF batch[at] = NoRing THEN final
                      ELSE [final EXCEPT ![at] = Append(@, batch[at])]
      BY <1>9 DEF CollectFinal, workerVars, dataVars
    <2>2. held = NoRing
      BY <1>2, <1>9 DEF CollectFinal
    <2>3. HeldOf(w) = NoRing /\ HeldOf(w)' = NoRing
      BY <2>1, <2>2, Zenon DEF HeldOf
    <2>4. CASE w # at \/ batch[at] = NoRing
      <3>1. final'[w] = final[w] /\ batch'[w] = batch[w]
        BY <1>1, <2>1, <2>4 DEF TypeOK
      <3>. QED BY <1>1, <2>1, <2>3, <3>1, Untouched, Zenon
    <2>5. CASE w = at /\ batch[at] # NoRing
      <3>1. /\ batch[w] # NoRing /\ batch'[w] = NoRing /\ batch[w] \in Rings
            /\ final'[w] = Append(final[w], batch[w])
        BY <1>1, <2>1, <2>5 DEF TypeOK
      <3> DEFINE f == final[w]
                 g == final'[w]
                 b == batch[w]
      <3>2. /\ Len(f) \in Nat /\ Len(g) = Len(f) + 1
            /\ \A i \in 1 .. Len(g) : i \in 1 .. Len(f) \/ i = Len(g)
            /\ \A i \in 1 .. Len(f) : i \in 1 .. Len(g) /\ g[i] = f[i]
            /\ g[Len(g)] = b /\ Len(g) \in 1 .. Len(g)
        BY <1>1, <3>1
      <3> HIDE DEF f, g, b
      <3>3. /\ \A i \in 1 .. Len(g) :
                 g[i] # active'[w] /\ g[i] # fresh'[w] /\ g[i] # batch'[w]
                   /\ g[i] # recycle'[w] /\ g[i] # HeldOf(w)'
        <4>1. ASSUME NEW i \in 1 .. Len(g)
              PROVE  g[i] # active[w] /\ g[i] # fresh[w] /\ g[i] # NoRing
                       /\ g[i] # recycle[w]
          <5>1. CASE i \in 1 .. Len(f)
            BY <1>1, <1>3, <3>2, <5>1, Zenon DEF Apart, f
          <5>2. CASE i = Len(g)
            BY <1>1, <3>1, <3>2, <5>2, Zenon DEF Apart, b
          <5>. QED BY <3>2, <5>1, <5>2, Zenon
        <4>. QED BY <2>1, <2>3, <3>1, <4>1, Zenon
      <3>4. \A i, j \in 1 .. Len(g) : i < j => g[i] # g[j]
        <4>1. ASSUME NEW i \in 1 .. Len(g), NEW j \in 1 .. Len(g), i < j
              PROVE  g[i] # g[j]
          <5>1. i \in 1 .. Len(f)
            BY ONLY <3>2, <4>1
          <5>2. CASE j \in 1 .. Len(f)
            BY <1>1, <3>2, <4>1, <5>1, <5>2, Zenon DEF Apart, f
          <5>3. CASE j = Len(g)
            <6>1. g[i] = f[i] /\ f[i] # b
              BY <1>1, <3>2, <5>1, Zenon DEF Apart, f, b
            <6>. QED BY <3>2, <5>3, <6>1, Zenon
          <5>. QED BY <3>2, <5>2, <5>3, Zenon
        <4>. QED BY <4>1
      <3>5. Apart(w)'
        BY <1>1, <2>1, <2>3, <3>1, <3>3, <3>4, Zenon DEF Apart, g
      <3>6. ASSUME NEW k \in Rings
            PROVE  Freely(w, k)' <=> Freely(w, k)
        <4>1. (\A i \in 1 .. Len(g) : g[i] # k) <=> b # k /\ \A i \in 1 .. Len(f) : f[i] # k
          BY <3>2, Zenon
        <4>. QED BY <1>1, <2>1, <2>3, <3>1, <4>1, Zenon DEF Freely, f, g, b
      <3>. QED BY <1>1, <2>1, <3>5, <3>6, Zenon DEF Owns
    <2>. QED BY <2>4, <2>5, Zenon
  <1>10. CASE Consume
    <2>1. /\ UNCHANGED <<active, fresh, batch, pc, held>>
          /\ recycle'[w] = NoRing /\ final'[w] = <<>>
          /\ \A k \in Rings : items'[w][k] = <<>>
      BY <1>10 DEF Consume, workerVars
    <2>2. held = NoRing
      BY <1>2, <1>10 DEF Consume
    <2>3. HeldOf(w) = NoRing /\ HeldOf(w)' = NoRing
      BY <2>1, <2>2, Zenon DEF HeldOf
    <2>4. \A i \in 1 .. Len(final'[w]) : FALSE
      BY <2>1
    <2>5. Apart(w)'
      BY <1>1, <2>1, <2>3, <2>4, Zenon DEF Apart
    <2>6. \A k \in Rings : Freely(w, k) => Freely(w, k)'
      BY <1>1, <2>1, <2>3, <2>4, Zenon DEF Freely
    <2>. QED BY <1>1, <2>1, <2>5, <2>6, Zenon DEF Owns
  <1>. QED BY <1>4, <1>5, <1>6, <1>7, <1>8, <1>9, <1>10, Zenon DEF MainStep

-------------------------------------------------------------------------------
(* Handoff *)

\* The pool of start().
LEMMA OwnInit == Init => OwnInv
  <1> SUFFICES ASSUME Init
               PROVE  OwnInv
    OBVIOUS
  <1>1. TypeOK
    <2>1. /\ <<>> \in Seq(Rings) /\ <<>> \in Seq(1 .. MaxRounds) /\ <<>> \in Seq(Nat)
          /\ 0 \in 0 .. MaxRounds /\ 2 \in Rings \union {NoRing}
          /\ 1 \in Rings \union {NoRing}
      BY Numbers
    <2>2. /\ items \in [Workers -> [Rings -> Seq(Nat)]]
          /\ final \in [Workers -> Seq(Rings)] /\ ran \in [Workers -> Seq(1 .. MaxRounds)]
          /\ out \in [Workers -> Seq(Nat)] /\ spill \in [Workers -> Seq(Nat)]
          /\ failed \in [Workers -> SUBSET Nat]
      BY <2>1 DEF Init
    <2>3. /\ batch \in [Workers -> Rings \union {NoRing}]
          /\ recycle \in [Workers -> Rings \union {NoRing}]
          /\ active \in [Workers -> Rings \union {NoRing}]
          /\ fresh \in [Workers -> Rings \union {NoRing}]
          /\ cur \in [Workers -> 0 .. MaxRounds]
      BY <2>1 DEF Init
    <2>. QED BY <2>1, <2>2, <2>3, Numbers DEF Init, TypeOK
  <1>2. Control
    BY DEF Init, Control
  <1>3. ASSUME NEW w \in Workers
        PROVE  Apart(w) /\ Owns(w)
    <2>1. /\ active[w] = 1 /\ fresh[w] = NoRing /\ batch[w] = NoRing /\ recycle[w] = 2
          /\ HeldOf(w) = NoRing /\ final[w] = <<>> /\ pc[w] = "wait"
          /\ \A k \in Rings : items[w][k] = <<>>
      BY DEF Init, HeldOf
    <2>2. \A i \in 1 .. Len(final[w]) : FALSE
      BY <2>1
    <2>3. Apart(w)
      BY <2>1, <2>2 DEF Apart, NoRing
    <2>4. Owns(w)
      BY <2>1 DEF Owns, NoRing
    <2>. QED BY <2>3, <2>4
  <1>. QED BY <1>1, <1>2, <1>3 DEF OwnInv

\* Every step keeps the owners apart.
LEMMA OwnStep == OwnInv /\ [Next]_vars => OwnInv'
  <1> SUFFICES ASSUME OwnInv, [Next]_vars
               PROVE  OwnInv'
    OBVIOUS
  <1>1. TypeOK' /\ Control'
    BY TypeStep, ControlStep, Zenon
  <1>2. ASSUME NEW v \in Workers
        PROVE  Apart(v)' /\ Owns(v)'
    <2>1. TypeOK /\ Apart(v) /\ Owns(v)
      BY DEF OwnInv
    <2>2. CASE Call \/ MainStep \/ UNCHANGED vars
      BY <2>2, MainOwns, Zenon
    <2>3. ASSUME NEW w \in Workers, WorkerStep(w) \/ WorkPanic(w)
          PROVE  Apart(v)' /\ Owns(v)'
      <3>1. CASE v = w
        BY <2>3, <3>1, WorkerOwns, Zenon
      <3>2. CASE v # w
        BY <2>1, <2>3, <3>2, OtherWorker, Zenon
      <3>. QED BY <3>1, <3>2, Zenon
    <2>. QED BY <2>2, <2>3, Zenon DEF Next
  <1>. QED BY <1>1, <1>2, Zenon DEF OwnInv

\* Places apart are owners counted: no ring has two, and one that has none is
\* empty.
LEMMA Counted ==
  ASSUME OwnInv, NEW w \in Workers, NEW k \in Rings
  PROVE  /\ Owners(w, k) <= 1
         /\ Owners(w, k) = 0 => items[w][k] = <<>>
  <1> DEFINE F == {i \in DOMAIN final[w] : final[w][i] = k}
             c == Cardinality(F)
             a == IF active[w] = k THEN 1 ELSE 0
             f == IF fresh[w] = k THEN 1 ELSE 0
             b == IF batch[w] = k THEN 1 ELSE 0
             r == IF recycle[w] = k THEN 1 ELSE 0
             h == IF held = k /\ at = w THEN 1 ELSE 0
  <1>1. Apart(w) /\ Owns(w) /\ final[w] \in Seq(Rings) /\ k # NoRing
    BY Numbers DEF OwnInv, TypeOK
  <1>2. DOMAIN final[w] = 1 .. Len(final[w]) /\ Len(final[w]) \in Nat
    BY <1>1
  <1>3. held = k /\ at = w <=> HeldOf(w) = k
    BY <1>1, Zenon DEF HeldOf
  <1>4. /\ F = {} /\ c = 0
        \/ /\ c = 1 /\ F # {}
           /\ active[w] # k /\ fresh[w] # k /\ batch[w] # k /\ recycle[w] # k
           /\ HeldOf(w) # k
    <2>1. CASE F = {}
      BY <2>1, FS_EmptySet, Zenon
    <2>2. CASE F # {}
      <3>1. PICK i \in 1 .. Len(final[w]) : final[w][i] = k
        BY <1>2, <2>2, Zenon
      <3>2. ASSUME NEW j \in 1 .. Len(final[w]), final[w][j] = k
            PROVE  j = i
        <4>1. i < j \/ j < i \/ i = j
          BY <1>2
        <4>. QED BY <1>1, <3>1, <3>2, <4>1, Zenon DEF Apart
      <3>3. F = {i}
        BY <1>2, <3>1, <3>2
      <3>4. c = 1
        BY <3>3, FS_Singleton, Zenon
      <3>. QED BY <1>1, <2>2, <3>1, <3>4, Zenon DEF Apart
    <2>. QED BY <2>1, <2>2, Zenon
  <1>5. F = {} => \A i \in 1 .. Len(final[w]) : final[w][i] # k
    BY <1>2, Zenon
  <1>6. Owners(w, k) = a + f + b + r + h + c
    BY Zenon DEF Owners
  <1>7. /\ a \in {0, 1} /\ f \in {0, 1} /\ b \in {0, 1} /\ r \in {0, 1} /\ h \in {0, 1}
        /\ c \in {0, 1}
    BY <1>4
  <1>8. /\ a = 1 <=> active[w] = k
        /\ f = 1 <=> fresh[w] = k
        /\ b = 1 <=> batch[w] = k
        /\ r = 1 <=> recycle[w] = k
        /\ h = 1 <=> HeldOf(w) = k
    BY <1>3
  <1>9. c = 1 => a # 1 /\ f # 1 /\ b # 1 /\ r # 1 /\ h # 1
    BY <1>4, <1>8
  <1>10. /\ a = 1 => f # 1 /\ b # 1 /\ r # 1 /\ h # 1
         /\ f = 1 => b # 1 /\ r # 1 /\ h # 1
         /\ b = 1 => r # 1 /\ h # 1
         /\ r = 1 => h # 1
    <2>1. /\ active[w] = k => /\ fresh[w] # k /\ batch[w] # k /\ recycle[w] # k
                             /\ HeldOf(w) # k
          /\ fresh[w] = k => batch[w] # k /\ recycle[w] # k /\ HeldOf(w) # k
          /\ batch[w] = k => recycle[w] # k /\ HeldOf(w) # k
          /\ recycle[w] = k => HeldOf(w) # k
      BY <1>1 DEF Apart
    <2> HIDE DEF F, a, f, b, r, h, c
    <2>. QED BY ONLY <1>8, <2>1
  <1>11. c = 0 => F = {}
    BY <1>4
  <1> HIDE DEF F, a, f, b, r, h, c
  <1>12. Owners(w, k) <= 1
    BY ONLY <1>6, <1>7, <1>9, <1>10
  <1>13. Owners(w, k) = 0 => a = 0 /\ f = 0 /\ b = 0 /\ r = 0 /\ h = 0 /\ c = 0
    BY ONLY <1>6, <1>7
  <1>14. ASSUME Owners(w, k) = 0
         PROVE  items[w][k] = <<>>
    <2>1. a # 1 /\ f # 1 /\ b # 1 /\ r # 1 /\ h # 1 /\ c = 0
      BY <1>13, <1>14
    <2>2. Freely(w, k)
      BY <1>5, <1>8, <1>11, <2>1, Zenon DEF Freely
    <2>. QED BY <1>1, <2>2, Zenon DEF Owns
  <1>. QED BY <1>12, <1>14

\* With any number of workers and rings of any size, a ring is in one place at a
\* time, whatever panics, fails or is called without joining; and no swap of
\* a slot finds a ring still there, so the merge of worker_loop and the free
\* of offer_recycle never run.
THEOREM HandoffHolds == Spec => []Handoff
  <1>1. OwnInv => Handoff
    <2>1. OwnInv => TypeOK
      BY DEF OwnInv
    <2>2. OwnInv => OneOwner
      BY Counted, Zenon DEF OneOwner
    <2>3. OwnInv => PublishFindsEmptySlot
      BY EmptySlot, EmptySpare, Zenon DEF PublishFindsEmptySlot
    <2>. QED BY <2>1, <2>2, <2>3 DEF Handoff
  <1>. QED BY <1>1, OwnInit, OwnStep, PTL DEF Spec

-------------------------------------------------------------------------------
(* One round after the other: callers that join each round, no panics *)

\* What a step of a worker does not read or write of another.
LEMMA SamePlace ==
  ASSUME NEW w \in Workers, Place(w), mpc' = mpc, at' = at, round' = round,
         unjoined' = unjoined, shutdown'[w] = shutdown[w], pc'[w] = pc[w],
         go'[w] = go[w], done'[w] = done[w], ran'[w] = ran[w], cur'[w] = cur[w],
         batch'[w] = batch[w]
  PROVE  Place(w)'
  <1>1. \A n : Pushed(w, n)' <=> Pushed(w, n)
    BY Zenon DEF Pushed
  <1>. QED BY <1>1, Zenon DEF Place, InRound, Parked, Called, Working, Handing, Reported,
          Leaving

\* A worker in a round goes through it, and stays parked before and after.
LEMMA WorkerRound ==
  ASSUME TypeOK, NEW w \in Workers, WorkerStep(w)
  PROVE  /\ UNCHANGED <<mpc, at, round, args, unjoined, failure, shutdown>>
         /\ InRound(w) /\ args = round => InRound(w)'
         /\ Leaving(w) => Leaving(w)'
         /\ \A n : ~Parked(w, n)
         /\ ~Reported(w)
  <1>1. UNCHANGED <<mpc, at, round, args, unjoined, failure, shutdown>>
    BY DEF WorkerStep, Wake, ClearGo, LoadArgs, Work, TakeRecycle, Publish, SignalDone,
           Exit, mainVars, signals
  <1>2. /\ pc \in [Workers -> {"wait", "clear", "load", "work", "take", "publish", "done",
                               "exit", "exited", "panicked"}]
        /\ go \in [Workers -> BOOLEAN] /\ done \in [Workers -> BOOLEAN]
        /\ cur \in [Workers -> 0 .. MaxRounds]
        /\ batch \in [Workers -> Rings \union {NoRing}]
        /\ ran \in [Workers -> Seq(1 .. MaxRounds)] /\ round \in Nat
    <2>1. round \in Nat
      BY Numbers DEF TypeOK
    <2>. QED BY <2>1, Zenon DEF TypeOK
  <1>3. (\A n : ~Parked(w, n)) /\ ~Reported(w)
    BY DEF WorkerStep, Wake, ClearGo, LoadArgs, Work, TakeRecycle, Publish, SignalDone,
           Exit, Parked, Reported
  <1>4. Leaving(w) => Leaving(w)'
    BY <1>1, <1>2 DEF WorkerStep, Wake, ClearGo, LoadArgs, Work, TakeRecycle, Publish,
       SignalDone, Exit, Leaving, slotVars, signals
  <1>5. ASSUME InRound(w), args = round
        PROVE  InRound(w)'
    <2>1. CASE ~Work(w)
      <3>1. ran' = ran
        BY <2>1 DEF WorkerStep, Wake, ClearGo, LoadArgs, TakeRecycle, Publish, SignalDone,
           Exit, workerVars
      <3>2. \A n : Pushed(w, n)' <=> Pushed(w, n)
        BY <3>1, Zenon DEF Pushed
      <3>3. CASE Wake(w)
        BY <1>1, <1>2, <1>5, <3>2, <3>3 DEF Wake, signals, InRound, Called, Working, Handing,
           Reported
      <3>4. CASE ClearGo(w)
        BY <1>1, <1>2, <1>5, <3>2, <3>4 DEF ClearGo, InRound, Called, Working, Handing,
           Reported
      <3>5. CASE LoadArgs(w)
        BY <1>1, <1>2, <1>5, <3>2, <3>5 DEF LoadArgs, signals, InRound, Called, Working,
           Handing, Reported
      <3>6. CASE TakeRecycle(w)
        BY <1>1, <1>2, <1>5, <3>2, <3>6 DEF TakeRecycle, signals, InRound, Called, Working,
           Handing, Reported
      <3>7. CASE Publish(w)
        BY <1>1, <1>2, <1>5, <3>2, <3>7 DEF Publish, signals, InRound, Called, Working,
           Handing, Reported
      <3>8. CASE SignalDone(w)
        BY <1>1, <1>2, <1>5, <3>2, <3>8 DEF SignalDone, InRound, Called, Working, Handing,
           Reported
      <3>9. ~Exit(w)
        BY <1>5 DEF Exit, InRound, Called, Working, Handing, Reported
      <3>. QED BY <2>1, <3>3, <3>4, <3>5, <3>6, <3>7, <3>8, <3>9, Zenon DEF WorkerStep
    <2>2. CASE Work(w)
      <3>1. /\ pc[w] = "work" /\ pc'[w] = "take" /\ go' = go /\ done' = done
            /\ ran'[w] = Append(ran[w], cur[w])
        BY <1>2, <2>2 DEF Work, signals
      <3>2. ~shutdown[w] /\ ~go[w] /\ ~done[w] /\ Pushed(w, round - 1) /\ cur[w] = round
        BY <1>5, <3>1 DEF InRound, Called, Working, Handing, Reported
      <3>3. Len(ran[w]) = round - 1 /\ \A i \in 1 .. round - 1 : ran[w][i] = i
        BY <3>2 DEF Pushed
      <3>4. Len(ran'[w]) = round /\ \A i \in 1 .. round : ran'[w][i] = i
        BY <1>2, <3>1, <3>2, <3>3
      <3>. QED BY <1>1, <3>1, <3>2, <3>4 DEF InRound, Handing, Pushed
    <2>. QED BY <2>1, <2>2
  <1>. QED BY <1>1, <1>3, <1>4, <1>5

\* No thread has ended while rounds are running, so no panic is ever seen.
LEMMA NobodyFinished ==
  ASSUME RoundInv, mpc \notin Closing, TypeOK
  PROVE  ~PanicSeen
  <1>1. ASSUME NEW w \in Workers
        PROVE  ~Finished(w)
    <2>1. mpc \in {"idle", "go", "join", "clearDone", "collect", "preCollect"}
      BY DEF TypeOK, Closing
    <2>2. Place(w)
      BY DEF RoundInv
    <2>. QED BY <2>1, <2>2
         DEF Place, Parked, InRound, Called, Working, Handing, Reported, Finished
  <1>. QED BY <1>1, Zenon DEF PanicSeen

\* A worker step: the acting worker goes on in its round or on its way out.
LEMMA WorkerPlaces ==
  ASSUME TypeOK, RoundInv, NEW w \in Workers, WorkerStep(w)
  PROVE  RoundInv'
  <1>1. /\ UNCHANGED <<mpc, at, round, args, unjoined, failure, shutdown>>
        /\ InRound(w) /\ args = round => InRound(w)'
        /\ Leaving(w) => Leaving(w)'
        /\ \A n : ~Parked(w, n)
        /\ ~Reported(w)
    BY WorkerRound, Zenon
  <1>2. Joining'
    BY <1>1, Zenon DEF RoundInv, Joining
  <1>3. ASSUME NEW v \in Workers, v # w
        PROVE  Place(v)'
    <2>1. /\ pc'[v] = pc[v] /\ go'[v] = go[v] /\ done'[v] = done[v] /\ ran'[v] = ran[v]
          /\ cur'[v] = cur[v] /\ batch'[v] = batch[v]
      BY <1>3 DEF TypeOK, WorkerStep, Wake, ClearGo, LoadArgs, Work, TakeRecycle, Publish,
         SignalDone, Exit, signals, slotVars, workerVars
    <2>2. Place(v)
      BY DEF RoundInv
    <2>. QED BY <1>1, <2>1, <2>2, SamePlace, Zenon
  <1>4. Place(w)'
    <2>1. Place(w)
      BY DEF RoundInv
    <2>2. mpc \in {"idle", "go", "join"} \union Closing
      BY <1>1, <2>1 DEF Place, TypeOK, Closing
    <2>3. CASE mpc \in Closing
      BY <1>1, <2>1, <2>3 DEF Place, Closing
    <2>4. CASE mpc \in {"idle", "go", "join"}
      <3>1. InRound(w) /\ unjoined
        BY <1>1, <2>1, <2>4 DEF Place, RoundInv, Joining
      <3>2. InRound(w)'
        BY <1>1, <3>1, Zenon DEF RoundInv, Joining
      <3>. QED BY <1>1, <2>1, <2>4, <3>1, <3>2 DEF Place, Closing
    <2>. QED BY <2>2, <2>3, <2>4
  <1>. QED BY <1>1, <1>2, <1>3, <1>4, Zenon DEF RoundInv

\* A step of main: it begins a round with everybody parked after the one before,
\* ends it with everybody done, and collects or shuts down between two rounds.
LEMMA MainPlaces ==
  ASSUME TypeOK, RoundInv, Joined, Call \/ MainStep
  PROVE  RoundInv'
  <1>0. /\ at \in 1 .. NumWorkers /\ round \in Nat /\ NumWorkers \in Nat /\ at \in Nat
        /\ Workers = 1 .. NumWorkers /\ unjoined \in BOOLEAN
        /\ go \in [Workers -> BOOLEAN] /\ done \in [Workers -> BOOLEAN]
        /\ shutdown \in [Workers -> BOOLEAN]
        /\ batch \in [Workers -> Rings \union {NoRing}]
    <2>1. round \in Nat /\ at \in Nat
      BY Numbers DEF TypeOK, Workers
    <2>. QED BY <2>1, Numbers DEF TypeOK, Workers
  <1>1. UNCHANGED <<pc, ran, cur>>
    BY DEF Call, Dispatch, DispatchPanics, Join, Collect, Shutdown, MainStep, SignalGo,
       JoinPanicked, JoinDone, ClearDone, CollectEmpty, CollectSwap, CollectSend,
       CollectFails, CollectFinal, SignalShutdown, SignalLastGo, JoinThread, Consume,
       workerVars, mainVars
  <1>2. (\A w \in Workers : Place(w)) /\ failure = "none" /\ Joining
    BY DEF RoundInv
  <1>3. mpc \notin Closing => ~PanicSeen
    BY NobodyFinished, Zenon
  <1>4. CASE Dispatch
    <2>1. /\ mpc = "idle" /\ ~unjoined /\ mpc' = "go" /\ round' = round + 1
          /\ args' = round + 1 /\ unjoined' = TRUE /\ at' = at /\ failure' = failure
          /\ UNCHANGED <<go, done, shutdown, batch>>
      BY <1>4 DEF Dispatch, MayCall, signals, slotVars
    <2>2. at = 1 /\ round' - 1 = round /\ round' > 0
      BY <1>0, <1>2, <2>1 DEF Joining
    <2>3. Joining'
      BY <2>1, <2>2 DEF Joining
    <2>4. ASSUME NEW w \in Workers
          PROVE  Place(w)'
      <3>1. Parked(w, round) /\ ~(w < at)
        BY <1>0, <1>2, <2>1, <2>2 DEF Place
      <3>2. Parked(w, round - 1)'
        BY <1>1, <2>1, <2>2, <3>1 DEF Parked, Pushed
      <3>. QED BY <2>1, <3>1, <3>2 DEF Place, Closing
    <2>. QED BY <1>2, <2>1, <2>3, <2>4 DEF RoundInv
  <1>5. CASE DispatchPanics \/ JoinPanicked
    BY <1>3, <1>5 DEF DispatchPanics, JoinPanicked, MayCall, Closing
  <1>6. CASE SignalGo
    <2>1. /\ mpc = "go" /\ go' = [go EXCEPT ![at] = TRUE] /\ NextWorker("idle")
          /\ UNCHANGED <<round, args, unjoined, failure, done, shutdown, batch>>
      BY <1>6 DEF SignalGo, slotVars
    <2>2. \/ at < NumWorkers /\ at' = at + 1 /\ mpc' = "go"
          \/ at = NumWorkers /\ at' = 1 /\ mpc' = "idle"
      BY <1>0, <2>1 DEF NextWorker
    <2>3. Joining' /\ unjoined
      BY <1>2, <2>1, <2>2 DEF Joining
    <2>4. ASSUME NEW w \in Workers
          PROVE  Place(w)'
      <3>1. IF w < at THEN InRound(w) ELSE Parked(w, round - 1)
        BY <1>2, <2>1 DEF Place
      <3>2. CASE w < at
        <4>0. w # at
          BY <1>0, <3>2
        <4>1. InRound(w) /\ go'[w] = go[w]
          BY <1>0, <2>1, <3>1, <3>2, <4>0, Zenon DEF TypeOK
        <4>2. InRound(w)'
          BY <1>1, <2>1, <4>1
             DEF InRound, Called, Working, Handing, Reported, Pushed
        <4>3. mpc' = "go" => w < at'
          BY <1>0, <2>2, <3>2
        <4>. QED BY <2>1, <2>2, <2>3, <4>2, <4>3 DEF Place, Closing
      <3>3. CASE w = at
        <4>1. Parked(w, round - 1) /\ go'[w]
          BY <1>0, <2>1, <3>1, <3>3
        <4>2. InRound(w)'
          BY <1>1, <2>1, <4>1 DEF InRound, Called, Parked, Pushed
        <4>3. mpc' = "go" => w < at'
          BY <1>0, <2>2, <3>3
        <4>. QED BY <2>1, <2>2, <2>3, <4>2, <4>3 DEF Place, Closing
      <3>4. CASE w > at
        <4>0. w # at /\ ~(w < at)
          BY <1>0, <3>4
        <4>1. Parked(w, round - 1) /\ go'[w] = go[w]
          BY <1>0, <2>1, <3>1, <4>0, Zenon
        <4>2. Parked(w, round - 1)'
          BY <1>1, <2>1, <4>1 DEF Parked, Pushed
        <4>3. mpc' = "go" /\ ~(w < at')
          BY <1>0, <2>2, <3>4
        <4>. QED BY <4>2, <4>3 DEF Place, Closing
      <3>. QED BY <1>0, <3>2, <3>3, <3>4
    <2>. QED BY <1>2, <2>1, <2>3, <2>4 DEF RoundInv
  <1>7. CASE Join
    <2>1. /\ mpc = "idle" /\ unjoined /\ mpc' = "join"
          /\ UNCHANGED <<at, round, args, unjoined, failure, go, done, shutdown, batch>>
      BY <1>7 DEF Join, signals, slotVars
    <2>2. Joining'
      BY <1>2, <2>1 DEF Joining
    <2>3. ASSUME NEW w \in Workers
          PROVE  Place(w)'
      <3>1. InRound(w)
        BY <1>2, <2>1 DEF Place
      <3>2. InRound(w)'
        BY <1>1, <2>1, <3>1 DEF InRound, Called, Working, Handing, Reported, Pushed
      <3>. QED BY <2>1, <3>2 DEF Place, Closing
    <2>. QED BY <1>2, <2>1, <2>2, <2>3 DEF RoundInv
  <1>8. CASE JoinDone
    <2>1. /\ mpc = "join" /\ mpc' = "clearDone" /\ \A w \in Workers : done[w]
          /\ UNCHANGED <<at, round, args, unjoined, failure, go, done, shutdown, batch>>
      BY <1>8 DEF JoinDone, RoundOver, signals, slotVars
    <2>2. Joining' /\ at = 1
      BY <1>2, <2>1 DEF Joining
    <2>3. ASSUME NEW w \in Workers
          PROVE  Place(w)'
      <3>1. InRound(w) /\ done[w] /\ ~(w < at)
        BY <1>0, <1>2, <2>1, <2>2 DEF Place
      <3>2. ~shutdown[w] /\ Reported(w)
        BY <3>1 DEF InRound, Called, Working, Handing
      <3>3. (~shutdown[w] /\ Reported(w))'
        BY <1>1, <2>1, <3>2 DEF Reported, Pushed
      <3>. QED BY <2>1, <3>1, <3>3 DEF Place, Closing
    <2>. QED BY <1>2, <2>1, <2>2, <2>3 DEF RoundInv
  <1>9. CASE ClearDone
    <2>1. /\ mpc = "clearDone" /\ done' = [done EXCEPT ![at] = FALSE] /\ NextWorker("idle")
          /\ UNCHANGED <<round, args, failure, go, shutdown, batch>>
          /\ unjoined' = (at < NumWorkers)
      BY <1>9 DEF ClearDone, slotVars
    <2>2. \/ at < NumWorkers /\ at' = at + 1 /\ mpc' = "clearDone" /\ unjoined'
          \/ at = NumWorkers /\ at' = 1 /\ mpc' = "idle" /\ ~unjoined'
      <3>1. at < NumWorkers \/ at = NumWorkers
        BY <1>0
      <3>2. CASE at < NumWorkers
        <4>1. unjoined'
          BY <2>1, <3>2, Zenon
        <4>. QED BY <2>1, <3>2, <4>1, Zenon DEF NextWorker
      <3>3. CASE ~(at < NumWorkers)
        <4>1. ~unjoined'
          BY <2>1, <3>3, Zenon
        <4>. QED BY <2>1, <3>1, <3>3, <4>1, Zenon DEF NextWorker
      <3>. QED BY <3>2, <3>3, Zenon
    <2>3. Joining'
      BY <1>2, <2>1, <2>2 DEF Joining
    <2>4. ASSUME NEW w \in Workers
          PROVE  Place(w)'
      <3>1. IF w < at THEN Parked(w, round) ELSE ~shutdown[w] /\ Reported(w)
        BY <1>2, <2>1 DEF Place
      <3>2. CASE w < at \/ w = at
        <4>1. Parked(w, round)'
          <5>1. CASE w < at
            <6>0. w # at
              BY <1>0, <5>1
            <6>1. Parked(w, round) /\ done'[w] = done[w]
              BY <1>0, <2>1, <3>1, <5>1, <6>0, Zenon
            <6>. QED BY <1>1, <2>1, <6>1 DEF Parked, Pushed
          <5>2. CASE w = at
            <6>1. ~shutdown[w] /\ Reported(w) /\ ~done'[w]
              BY <1>0, <2>1, <3>1, <5>2
            <6>. QED BY <1>1, <2>1, <6>1 DEF Reported, Parked, Pushed
          <5>. QED BY <3>2, <5>1, <5>2, Zenon
        <4>2. mpc' = "clearDone" => w < at'
          BY <1>0, <2>2, <3>2
        <4>. QED BY <2>2, <4>1, <4>2 DEF Place, Closing
      <3>3. CASE w > at
        <4>0. w # at /\ ~(w < at)
          BY <1>0, <3>3
        <4>1. ~shutdown[w] /\ Reported(w) /\ done'[w] = done[w]
          BY <1>0, <2>1, <3>1, <4>0, Zenon
        <4>2. (~shutdown[w] /\ Reported(w))'
          BY <1>1, <2>1, <4>1 DEF Reported, Pushed
        <4>3. mpc' = "clearDone" /\ ~(w < at')
          BY <1>0, <2>2, <3>3
        <4>. QED BY <4>2, <4>3 DEF Place, Closing
      <3>. QED BY <1>0, <3>2, <3>3
    <2>. QED BY <1>2, <2>1, <2>3, <2>4 DEF RoundInv
  <1>10. CASE Collect \/ Shutdown
    <2>1. /\ mpc = "idle" /\ ~unjoined /\ mpc' \in {"collect", "preCollect"}
          /\ UNCHANGED <<at, round, args, unjoined, failure, go, done, shutdown, batch>>
      BY <1>10 DEF Collect, Shutdown, MayCall, signals, slotVars
    <2>2. Joining' /\ at = 1
      BY <1>2, <2>1 DEF Joining
    <2>3. ASSUME NEW w \in Workers
          PROVE  Place(w)'
      <3>1. Parked(w, round) /\ ~(w < at)
        BY <1>0, <1>2, <2>1, <2>2 DEF Place
      <3>2. Parked(w, round)'
        BY <1>1, <2>1, <3>1 DEF Parked, Pushed
      <3>. QED BY <2>1, <3>1, <3>2 DEF Place, Closing
    <2>. QED BY <1>2, <2>1, <2>2, <2>3 DEF RoundInv
  <1>11. CASE CollectEmpty \/ CollectSwap \/ CollectSend \/ \E i \in 1 .. N : CollectFails(i)
    <2>1. /\ mpc = "collect"
          /\ UNCHANGED <<round, args, unjoined, failure, go, done, shutdown>>
      BY <1>11 DEF CollectEmpty, CollectSwap, CollectSend, CollectFails, signals
    <2>2. \/ mpc' = "collect"
          \/ mpc' = "idle" /\ at' = 1
      <3>1. CASE CollectEmpty \/ CollectSend
        <4>1. NextWorker("idle")
          BY <3>1, Zenon DEF CollectEmpty, CollectSend
        <4>2. CASE at < NumWorkers
          BY <2>1, <4>1, <4>2, Zenon DEF NextWorker
        <4>3. CASE ~(at < NumWorkers)
          BY <4>1, <4>3, Zenon DEF NextWorker
        <4>. QED BY <4>2, <4>3, Zenon
      <3>2. CASE CollectSwap
        BY <2>1, <3>2 DEF CollectSwap
      <3>3. ASSUME NEW i \in 1 .. N, CollectFails(i)
            PROVE  mpc' = "idle" /\ at' = 1
        BY <3>3, Zenon DEF CollectFails
      <3>. QED BY <1>11, <3>1, <3>2, <3>3, Zenon
    <2>3. Joining' /\ ~unjoined
      BY <1>2, <2>1, <2>2 DEF Joining
    <2>4. ASSUME NEW w \in Workers
          PROVE  Place(w)'
      <3>1. Parked(w, round)
        BY <1>2, <2>1 DEF Place
      <3>2. Parked(w, round)'
        BY <1>1, <2>1, <3>1 DEF Parked, Pushed
      <3>. QED BY <2>1, <2>2, <2>3, <3>2 DEF Place, Closing
    <2>. QED BY <1>2, <2>1, <2>3, <2>4 DEF RoundInv
  <1>12. CASE CollectFinal
    <2>1. /\ mpc \in {"preCollect", "postCollect"}
          /\ batch' = [batch EXCEPT ![at] = NoRing]
          /\ UNCHANGED <<round, args, unjoined, failure, go, done, shutdown>>
      BY <1>12 DEF CollectFinal, signals
    <2>2. \/ at < NumWorkers /\ at' = at + 1 /\ mpc' = mpc
          \/ /\ at = NumWorkers /\ at' = 1
             /\ mpc = "preCollect" => mpc' = "signal"
             /\ mpc = "postCollect" => mpc' = "consume"
      BY <1>0, <1>12 DEF CollectFinal, NextWorker
    <2>3. Joining' /\ ~unjoined
      BY <1>2, <2>1, <2>2 DEF Joining
    <2>4. ASSUME NEW w \in Workers
          PROVE  Place(w)'
      <3>1. batch'[w] = NoRing \/ batch'[w] = batch[w]
        BY <1>0, <2>1
      <3>2. CASE mpc = "preCollect"
        <4>1. Parked(w, round) /\ (w < at => batch[w] = NoRing)
          BY <1>2, <3>2 DEF Place
        <4>2. Parked(w, round)'
          BY <1>1, <2>1, <4>1 DEF Parked, Pushed
        <4>3. w < at' \/ mpc' = "signal" => w <= at
          BY <1>0, <2>2, <3>2
        <4>4. w <= at => batch'[w] = NoRing
          BY <1>0, <2>1, <4>1
        <4>5. mpc' = "signal" => Leaving(w)'
          BY <4>2, <4>3, <4>4 DEF Parked, Leaving
        <4>. QED BY <2>2, <3>2, <4>2, <4>3, <4>4, <4>5 DEF Place, Closing
      <3>3. CASE mpc = "postCollect"
        <4>1. Leaving(w)
          BY <1>2, <3>3 DEF Place, Closing
        <4>2. Leaving(w)'
          BY <1>1, <2>1, <3>1, <4>1 DEF Leaving
        <4>. QED BY <2>2, <3>3, <4>2 DEF Place, Closing
      <3>. QED BY <2>1, <3>2, <3>3
    <2>. QED BY <1>2, <2>1, <2>3, <2>4 DEF RoundInv
  <1>13. CASE SignalShutdown \/ SignalLastGo \/ JoinThread \/ Consume
    <2>1. mpc \in Closing /\ mpc' \in Closing /\ UNCHANGED <<round, args, unjoined, failure>>
      BY <1>13 DEF SignalShutdown, SignalLastGo, JoinThread, Consume, NextWorker, Closing,
         mainVars
    <2>2. Joining'
      BY <1>2, <2>1 DEF Joining, Closing
    <2>3. ASSUME NEW w \in Workers
          PROVE  Place(w)'
      <3>1. Leaving(w)
        BY <1>2, <2>1 DEF Place
      <3>2. /\ batch' = batch
            /\ shutdown[w] => shutdown'[w]
            /\ go'[w] => go[w] \/ shutdown'[w]
        BY <1>0, <1>13 DEF SignalShutdown, SignalLastGo, JoinThread, Consume, signals, slotVars
      <3>3. Leaving(w)'
        BY <1>1, <3>1, <3>2, Zenon DEF Leaving
      <3>. QED BY <2>1, <3>3 DEF Place, Closing
    <2>. QED BY <1>2, <2>1, <2>2, <2>3 DEF RoundInv
  <1>. QED BY <1>4, <1>5, <1>6, <1>7, <1>8, <1>9, <1>10, <1>11, <1>12, <1>13, Zenon
       DEF Call, MainStep

\* Before the first round everybody is parked.
LEMMA RoundInit == Init => RoundInv
  <1> SUFFICES ASSUME Init PROVE RoundInv
    OBVIOUS
  <1>1. /\ mpc = "idle" /\ ~unjoined /\ at = 1 /\ round = 0 /\ failure = "none"
        /\ \A w \in Workers :
             pc[w] = "wait" /\ ~go[w] /\ ~done[w] /\ ~shutdown[w] /\ ran[w] = <<>>
    BY DEF Init
  <1>2. Joining
    BY <1>1 DEF Joining
  <1>3. ASSUME NEW w \in Workers
        PROVE  Place(w)
    <2>1. Parked(w, round)
      BY <1>1 DEF Parked, Pushed
    <2>. QED BY <1>1, <2>1 DEF Place, Closing
  <1>. QED BY <1>1, <1>2, <1>3 DEF RoundInv

\* The phases of a round are inductive when every round is joined and the work
\* function does not panic.
LEMMA RoundStep ==
  ASSUME Joined, ~WorkPanics
  PROVE  TypeOK /\ RoundInv /\ [Next]_vars => RoundInv'
  <1> SUFFICES ASSUME TypeOK, RoundInv, [Next]_vars
               PROVE  RoundInv'
    OBVIOUS
  <1>1. CASE Call \/ MainStep
    BY <1>1, MainPlaces
  <1>2. ASSUME NEW w \in Workers, WorkerStep(w)
        PROVE  RoundInv'
    BY <1>2, WorkerPlaces
  <1>3. ASSUME NEW w \in Workers
        PROVE  ~WorkPanic(w)
    BY DEF WorkPanic
  <1>4. CASE UNCHANGED vars
    <2>1. /\ UNCHANGED <<mpc, at, round, args, unjoined, failure>>
          /\ UNCHANGED <<shutdown, pc, go, done, ran, cur, batch>>
      BY <1>4 DEF vars, mainVars, signals, slotVars, workerVars
    <2>2. Joining'
      BY <2>1, Zenon DEF RoundInv, Joining
    <2>3. ASSUME NEW w \in Workers
          PROVE  Place(w)'
      BY <2>1, SamePlace, Zenon DEF RoundInv
    <2>. QED BY <2>1, <2>2, <2>3, Zenon DEF RoundInv
  <1>. QED BY <1>1, <1>2, <1>3, <1>4, Zenon DEF Next

\* What the phases say of the three promises of a round.
LEMMA RoundsApart == TypeOK /\ RoundInv => RoundsAreSeparate
  <1> SUFFICES ASSUME TypeOK, RoundInv
               PROVE  RoundsAreSeparate
    OBVIOUS
  <1>1. ASSUME mpc = "idle", ~unjoined, NEW w \in Workers
        PROVE  /\ ran[w] = [i \in 1 .. round |-> i]
               /\ pc[w] = "wait" /\ ~go[w] /\ ~done[w]
    <2>1. Parked(w, round)
      BY <1>1 DEF RoundInv, Place
    <2>2. ran[w] \in Seq(1 .. MaxRounds) /\ round \in Nat
      BY Numbers DEF TypeOK
    <2>3. Len(ran[w]) = round /\ \A i \in 1 .. round : ran[w][i] = i
      BY <2>1 DEF Parked, Pushed
    <2>4. ran[w] = [i \in 1 .. round |-> i]
      BY ONLY <2>2, <2>3
    <2>. QED BY <2>1, <2>4 DEF Parked
  <1>2. RoundBarrier
    BY <1>1, Zenon DEF RoundBarrier
  <1>3. ASSUME NEW w \in Workers
        PROVE  /\ pc[w] = "work" => cur[w] = round /\ unjoined
               /\ pc[w] = "exit" => batch[w] = NoRing
    <2>1. Place(w) /\ Joining
      BY DEF RoundInv
    <2>2. mpc \in {"idle", "go", "join", "clearDone", "collect", "preCollect"} \union Closing
      BY DEF TypeOK, Closing
    <2>. QED BY <2>1, <2>2
         DEF Place, Joining, InRound, Called, Working, Handing, Reported, Parked, Leaving,
             Closing
  <1>. QED BY <1>2, <1>3, Zenon DEF RoundsAreSeparate, ArgsOutliveWork, ExitFindsEmptySlot

\* Callers that join every round, with a work function that does not panic: a
\* join that succeeds leaves everybody parked after the same rounds, nobody
\* works on arguments that have been given up, and nobody who shuts down drops
\* a batch.  The hypotheses are those of the configuration that checks it: a
\* panic lets join() return while other workers still work, and dispatch() before
\* join() overlaps two rounds.
THEOREM RoundsHold ==
  ASSUME Joined, ~WorkPanics
  PROVE  Spec => []RoundsAreSeparate
  <1>1. Init => OwnInv /\ RoundInv
    BY OwnInit, RoundInit
  <1>2. OwnInv /\ RoundInv /\ [Next]_vars => (OwnInv /\ RoundInv)'
    BY OwnStep, RoundStep DEF OwnInv
  <1>3. OwnInv /\ RoundInv => RoundsAreSeparate
    BY RoundsApart DEF OwnInv
  <1>. QED BY <1>1, <1>2, <1>3, PTL DEF Spec

-------------------------------------------------------------------------------
(* Delivery *)

\* What is on its way to the consumer, in the order it would get it: what it has
\* received, the rings collected at shutdown, the ring in main's hand, the one
\* in the slot and the one the worker fills.
OnItsWay(w) ==
  out[w] \o (FinalItems(w) \o
    (Freed(w, HeldOf(w)) \o (Freed(w, batch[w]) \o Freed(w, active[w]))))

\* Of n items pushed, each is either on its way, spilled or lost, and those on
\* their way are in the order they were pushed.
Accounts(way, spilled, lost, n) ==
  /\ Ascending(way)
  /\ SeqItems(way) \union SeqItems(spilled) \union lost = 1 .. n
  /\ SeqItems(way) \intersect (SeqItems(spilled) \union lost) = {}
  /\ SeqItems(spilled) \intersect lost = {}

\* A ring that waits to be filled is empty.
SparesEmpty(w) ==
  /\ recycle[w] # NoRing => items[w][recycle[w]] = <<>>
  /\ fresh[w] # NoRing => items[w][fresh[w]] = <<>>

\* The shutdown keeps rings until the threads are joined and the slots are empty.
Ending(w) ==
  /\ final[w] # <<>> => mpc = "preCollect" \/ mpc \in Closing
  /\ mpc = "joinThreads" /\ w < at => Finished(w)
  /\ mpc \in {"postCollect", "consume"} => Finished(w)
  /\ mpc = "postCollect" /\ w < at => batch[w] = NoRing
  /\ mpc = "consume" => batch[w] = NoRing

Accounted(w) == Accounts(OnItsWay(w), spill[w], failed[w], Len(ran[w]))

DeliveryInv == OwnInv /\ \A w \in Workers : Ending(w) /\ SparesEmpty(w) /\ Accounted(w)

-------------------------------------------------------------------------------
(* Accounts of sequences *)

\* Every item of A is smaller than every item of B.
Below(A, B) == \A x \in A, y \in B : x < y

\* The items of a concatenation, and its order.
JoinedUp(a, b) ==
  /\ a \o b \in Seq(Nat)
  /\ SeqItems(a \o b) = SeqItems(a) \union SeqItems(b)
  /\ Ascending(a \o b) <=> Ascending(a) /\ Ascending(b) /\ Below(SeqItems(a), SeqItems(b))

\* What a concatenation has, and when it ascends.
LEMMA ConcatInOrder ==
  ASSUME NEW a \in Seq(Nat), NEW b \in Seq(Nat)
  PROVE  JoinedUp(a, b)
  <1> DEFINE c == a \o b
  <1>1. /\ c \in Seq(Nat) /\ Len(a) \in Nat /\ Len(b) \in Nat
        /\ DOMAIN c = 1 .. Len(a) + Len(b)
        /\ \A i \in 1 .. Len(a) : c[i] = a[i]
        /\ \A i \in 1 .. Len(b) : c[Len(a) + i] = b[i]
        /\ \A i \in 1 .. Len(a) + Len(b) : i > Len(a) =>
             i - Len(a) \in 1 .. Len(b) /\ c[i] = b[i - Len(a)]
    BY Concat
  <1>2. /\ DOMAIN a = 1 .. Len(a) /\ DOMAIN b = 1 .. Len(b)
        /\ \A i \in DOMAIN a : a[i] \in Nat
        /\ \A i \in DOMAIN b : b[i] \in Nat
    OBVIOUS
  <1> HIDE DEF c
  <1>3. /\ \A i \in DOMAIN a : i \in DOMAIN c /\ i \in Nat /\ c[i] = a[i]
        /\ \A i \in DOMAIN b : /\ Len(a) + i \in DOMAIN c /\ c[Len(a) + i] = b[i]
                               /\ i \in Nat /\ Len(a) < Len(a) + i
        /\ \A i \in DOMAIN c : i \in DOMAIN a \/ \E j \in DOMAIN b : i = Len(a) + j
    <2>1. /\ \A i \in 1 .. Len(a) : i \in 1 .. Len(a) + Len(b) /\ i \in Nat
          /\ \A i \in 1 .. Len(b) : /\ Len(a) + i \in 1 .. Len(a) + Len(b) /\ i \in Nat
                                    /\ Len(a) < Len(a) + i
          /\ \A i \in 1 .. Len(a) + Len(b) :
               i \in 1 .. Len(a) \/ (i > Len(a) /\ i = Len(a) + (i - Len(a)))
      BY <1>1
    <2>. QED BY <1>1, <1>2, <2>1, Zenon
  <1>4. SeqItems(c) = SeqItems(a) \union SeqItems(b)
    <2>1. \A x \in SeqItems(a) : x \in SeqItems(c)
      BY <1>3, Zenon DEF SeqItems
    <2>2. \A x \in SeqItems(b) : x \in SeqItems(c)
      BY <1>3, Zenon DEF SeqItems
    <2>3. ASSUME NEW x \in SeqItems(c)
          PROVE  x \in SeqItems(a) \/ x \in SeqItems(b)
      <3>1. PICK i \in DOMAIN c : x = c[i]
        BY DEF SeqItems
      <3>2. CASE i \in DOMAIN a
        BY <1>3, <3>1, <3>2 DEF SeqItems
      <3>3. ASSUME NEW j \in DOMAIN b, i = Len(a) + j
            PROVE  x \in SeqItems(b)
        BY <1>3, <3>1, <3>3 DEF SeqItems
      <3>. QED BY <1>3, <3>2, <3>3, Zenon
    <2>. QED BY <2>1, <2>2, <2>3
  <1>5. ASSUME Ascending(c)
        PROVE  Ascending(a) /\ Ascending(b) /\ Below(SeqItems(a), SeqItems(b))
    <2>1. Ascending(a)
      BY <1>3, <1>5, Zenon DEF Ascending
    <2>2. Ascending(b)
      <3>1. \A i, j \in DOMAIN b : i < j => Len(a) + i < Len(a) + j
        BY <1>1, <1>3
      <3>. QED BY <1>3, <1>5, <3>1, Zenon DEF Ascending
    <2>3. ASSUME NEW x \in SeqItems(a), NEW y \in SeqItems(b)
          PROVE  x < y
      <3>1. PICK i \in DOMAIN a : x = a[i]
        BY DEF SeqItems
      <3>2. PICK j \in DOMAIN b : y = b[j]
        BY DEF SeqItems
      <3>3. i < Len(a) + j
        BY <1>1, <1>2
      <3>. QED BY <1>3, <1>5, <3>1, <3>2, <3>3, Zenon DEF Ascending
    <2>. QED BY <2>1, <2>2, <2>3, Zenon DEF Below
  <1>6. ASSUME Ascending(a), Ascending(b), Below(SeqItems(a), SeqItems(b))
        PROVE  Ascending(c)
    <2>1. ASSUME NEW i \in DOMAIN c, NEW j \in DOMAIN c, i < j
          PROVE  c[i] < c[j]
      <3>1. CASE i \in DOMAIN a /\ j \in DOMAIN a
        BY <1>3, <1>6, <2>1, <3>1, Zenon DEF Ascending
      <3>2. ASSUME i \in DOMAIN a, NEW l \in DOMAIN b, j = Len(a) + l
            PROVE  c[i] < c[j]
        <4>1. a[i] \in SeqItems(a) /\ b[l] \in SeqItems(b)
          BY <3>2, Zenon DEF SeqItems
        <4>. QED BY <1>3, <1>6, <3>2, <4>1, Zenon DEF Below
      <3>3. ASSUME NEW k \in DOMAIN b, i = Len(a) + k, NEW l \in DOMAIN b, j = Len(a) + l
            PROVE  c[i] < c[j]
        <4>1. k < l
          BY <1>1, <1>3, <2>1, <3>3
        <4>. QED BY <1>3, <1>6, <3>3, <4>1, Zenon DEF Ascending
      <3>4. ASSUME NEW k \in DOMAIN b, i = Len(a) + k, j \in DOMAIN a
            PROVE  FALSE
        BY <1>1, <1>2, <1>3, <2>1, <3>4
      <3>. QED BY <1>3, <3>1, <3>2, <3>3, <3>4, Zenon
    <2>. QED BY <2>1, Zenon DEF Ascending
  <1>. QED BY <1>1, <1>4, <1>5, <1>6, Zenon DEF JoinedUp, c

\* The sequence of one item.
LEMMA OneItem ==
  ASSUME NEW x \in Nat
  PROVE  <<x>> \in Seq(Nat) /\ SeqItems(<<x>>) = {x} /\ Ascending(<<x>>)
  BY DEF SeqItems, Ascending

\* The items of a sequence are numbers.
LEMMA ItemsAreNumbers ==
  ASSUME NEW s \in Seq(Nat)
  PROVE  SeqItems(s) \subseteq Nat
  BY DEF SeqItems

\* The middle part leaves the way for the spout.
LEMMA PartSpills ==
  ASSUME NEW a \in Seq(Nat), NEW m \in Seq(Nat), NEW b \in Seq(Nat), NEW s \in Seq(Nat),
         NEW f, NEW n, Accounts(a \o (m \o b), s, f, n)
  PROVE  Accounts(a \o b, s \o m, f, n)
  <1>1. JoinedUp(m, b) /\ JoinedUp(a, b) /\ JoinedUp(s, m)
    BY ConcatInOrder, Zenon
  <1>2. JoinedUp(a, m \o b)
    BY <1>1, ConcatInOrder, Zenon DEF JoinedUp
  <1>3. /\ SeqItems(a) \subseteq Nat /\ SeqItems(m) \subseteq Nat /\ SeqItems(b) \subseteq Nat
    BY ItemsAreNumbers, Zenon
  <1> DEFINE A == SeqItems(a)
             M == SeqItems(m)
             B == SeqItems(b)
             S == SeqItems(s)
  <1>4. /\ SeqItems(a \o (m \o b)) = A \union (M \union B)
        /\ SeqItems(a \o b) = A \union B /\ SeqItems(s \o m) = S \union M
    BY <1>1, <1>2, Zenon DEF JoinedUp
  <1>5. Ascending(a) /\ Ascending(b) /\ Below(A, M \union B) /\ Below(M, B)
    BY <1>1, <1>2, Zenon DEF JoinedUp, Accounts
  <1>6. /\ A \union (M \union B) \union S \union f = 1 .. n
        /\ (A \union (M \union B)) \intersect (S \union f) = {} /\ S \intersect f = {}
    BY <1>4, Zenon DEF Accounts
  <1> HIDE DEF A, M, B, S
  <1>7. Below(A, B)
    BY <1>5 DEF Below
  <1>8. Ascending(a \o b)
    BY <1>1, <1>5, <1>7, Zenon DEF JoinedUp, A, B
  <1>9. A \intersect M = {} /\ B \intersect M = {}
    BY <1>3, <1>5 DEF Below, A, B, M
  <1>10. /\ (A \union B) \union (S \union M) \union f = 1 .. n
         /\ (A \union B) \intersect ((S \union M) \union f) = {}
         /\ (S \union M) \intersect f = {}
    BY <1>6, <1>9
  <1>. QED BY <1>4, <1>8, <1>10, Zenon DEF Accounts

\* An item leaves the way in a send that fails.
LEMMA ItemIsLost ==
  ASSUME NEW a \in Seq(Nat), NEW x \in Nat, NEW b \in Seq(Nat), NEW s \in Seq(Nat),
         NEW f, NEW n, Accounts(a \o (<<x>> \o b), s, f, n)
  PROVE  Accounts(a \o b, s, f \union {x}, n)
  <1>1. JoinedUp(<<x>>, b) /\ JoinedUp(a, b) /\ <<x>> \in Seq(Nat) /\ SeqItems(<<x>>) = {x}
    BY ConcatInOrder, OneItem, Zenon
  <1>2. JoinedUp(a, <<x>> \o b)
    BY <1>1, ConcatInOrder, Zenon DEF JoinedUp
  <1>3. SeqItems(a) \subseteq Nat /\ SeqItems(b) \subseteq Nat
    BY ItemsAreNumbers, Zenon
  <1> DEFINE A == SeqItems(a)
             B == SeqItems(b)
             S == SeqItems(s)
  <1>4. /\ SeqItems(a \o (<<x>> \o b)) = A \union ({x} \union B)
        /\ SeqItems(a \o b) = A \union B
    BY <1>1, <1>2, Zenon DEF JoinedUp
  <1>5. Ascending(a) /\ Ascending(b) /\ Below(A, {x} \union B) /\ Below({x}, B)
    BY <1>1, <1>2, Zenon DEF JoinedUp, Accounts
  <1>6. /\ A \union ({x} \union B) \union S \union f = 1 .. n
        /\ (A \union ({x} \union B)) \intersect (S \union f) = {} /\ S \intersect f = {}
    BY <1>4, Zenon DEF Accounts
  <1> HIDE DEF A, B, S
  <1>7. Below(A, B)
    BY <1>5 DEF Below
  <1>8. Ascending(a \o b)
    BY <1>1, <1>5, <1>7, Zenon DEF JoinedUp, A, B
  <1>9. x \notin A /\ x \notin B
    BY <1>3, <1>5 DEF Below, A, B
  <1>10. /\ (A \union B) \union S \union (f \union {x}) = 1 .. n
         /\ (A \union B) \intersect (S \union (f \union {x})) = {}
         /\ S \intersect (f \union {x}) = {}
    BY <1>6, <1>9
  <1>. QED BY <1>4, <1>8, <1>10, Zenon DEF Accounts

\* The next item is pushed behind all others.
LEMMA ItemIsPushed ==
  ASSUME NEW a \in Seq(Nat), NEW s \in Seq(Nat), NEW f, NEW n \in Nat, Accounts(a, s, f, n)
  PROVE  Accounts(a \o <<n + 1>>, s, f, n + 1)
  <1>1. n + 1 \in Nat /\ 1 .. n + 1 = (1 .. n) \union {n + 1} /\ n + 1 \notin 1 .. n
    OBVIOUS
  <1> DEFINE A == SeqItems(a)
             S == SeqItems(s)
  <1>2. /\ JoinedUp(a, <<n + 1>>) /\ SeqItems(<<n + 1>>) = {n + 1} /\ Ascending(<<n + 1>>)
    BY <1>1, ConcatInOrder, OneItem, Zenon
  <1>3. /\ A \union S \union f = 1 .. n /\ A \intersect (S \union f) = {} /\ S \intersect f = {}
        /\ Ascending(a)
    BY DEF Accounts
  <1> HIDE DEF A, S
  <1>4. Below(A, {n + 1})
    <2>1. ASSUME NEW x \in A
          PROVE  x < n + 1
      <3>1. x \in 1 .. n
        BY <1>3
      <3>. QED BY <3>1
    <2>. QED BY <2>1 DEF Below
  <1>5. Ascending(a \o <<n + 1>>) /\ SeqItems(a \o <<n + 1>>) = A \union {n + 1}
    BY <1>2, <1>3, <1>4, Zenon DEF JoinedUp, A
  <1>6. /\ A \union {n + 1} \union S \union f = 1 .. n + 1
        /\ (A \union {n + 1}) \intersect (S \union f) = {}
    <2>1. n + 1 \notin S \union f
      BY <1>1, <1>3
    <2>. QED BY <1>1, <1>3, <2>1
  <1>. QED BY <1>3, <1>5, <1>6, Zenon DEF Accounts, S

-------------------------------------------------------------------------------
(* What is on its way *)

\* What a step must leave alone for the account of worker w to stay the same.
View(w) == <<out[w], items[w], final[w], HeldOf(w), batch[w], active[w], fresh[w],
             recycle[w], spill[w], failed[w], ran[w]>>

\* Such a step leaves the account of the worker as it is.
LEMMA SameView ==
  ASSUME NEW w \in Workers, UNCHANGED View(w), SparesEmpty(w), Accounted(w)
  PROVE  SparesEmpty(w)' /\ Accounted(w)'
  <1>1. /\ out'[w] = out[w] /\ items'[w] = items[w] /\ final'[w] = final[w]
        /\ HeldOf(w)' = HeldOf(w) /\ batch'[w] = batch[w] /\ active'[w] = active[w]
        /\ fresh'[w] = fresh[w] /\ recycle'[w] = recycle[w] /\ spill'[w] = spill[w]
        /\ failed'[w] = failed[w] /\ ran'[w] = ran[w]
    BY DEF View
  <1>2. SparesEmpty(w)'
    BY <1>1, Zenon DEF SparesEmpty
  <1>3. FinalItems(w)' = FinalItems(w)
    BY <1>1, Zenon DEF FinalItems
  <1>4. \A k : Freed(w, k)' = Freed(w, k)
    BY <1>1, Zenon DEF Freed
  <1>5. OnItsWay(w)' = OnItsWay(w)
    BY <1>1, <1>3, <1>4, Zenon DEF OnItsWay
  <1>. QED BY <1>1, <1>2, <1>5, Zenon DEF Accounted

\* Each ring is collected once: two of them at most, and only one as long as the
\* slot still holds the other.
LEMMA TwoRings ==
  ASSUME OwnInv, NEW w \in Workers
  PROVE  /\ Len(final[w]) \in 0 .. 2
         /\ batch[w] # NoRing => Len(final[w]) \in 0 .. 1
  <1>1. /\ Len(final[w]) \in Nat /\ batch[w] \in {NoRing, 1, 2} /\ Apart(w)
        /\ \A i \in 1 .. Len(final[w]) : final[w][i] \in {1, 2}
    <2>1. final[w] \in Seq({1, 2}) /\ batch[w] \in {NoRing, 1, 2} /\ Apart(w)
      BY DEF OwnInv, TypeOK, Rings
    <2>. QED BY <2>1
  <1>2. ASSUME Len(final[w]) > 2
        PROVE  FALSE
    <2>1. 1 \in 1 .. Len(final[w]) /\ 2 \in 1 .. Len(final[w]) /\ 3 \in 1 .. Len(final[w])
      BY <1>1, <1>2, Counting, Zenon
    <2>2. /\ final[w][1] # final[w][2] /\ final[w][1] # final[w][3]
          /\ final[w][2] # final[w][3]
      <3>1. 1 < 2 /\ 1 < 3 /\ 2 < 3
        OBVIOUS
      <3>. QED BY <1>1, <2>1, <3>1, Zenon DEF Apart
    <2>3. final[w][1] \in {1, 2} /\ final[w][2] \in {1, 2} /\ final[w][3] \in {1, 2}
      BY <1>1, <2>1, Zenon
    <2>. QED BY ONLY <2>2, <2>3
  <1>3. ASSUME batch[w] # NoRing, Len(final[w]) > 1
        PROVE  FALSE
    <2>1. 1 \in 1 .. Len(final[w]) /\ 2 \in 1 .. Len(final[w]) /\ 1 < 2
      <3>1. 1 < 2
        OBVIOUS
      <3>. QED BY <1>1, <1>3, <3>1, Counting, Zenon
    <2>2. /\ final[w][1] # final[w][2] /\ final[w][1] # batch[w] /\ final[w][2] # batch[w]
      BY <1>1, <2>1, Zenon DEF Apart
    <2>3. final[w][1] \in {1, 2} /\ final[w][2] \in {1, 2} /\ batch[w] \in {1, 2}
      BY <1>1, <1>3, <2>1, Zenon
    <2>. QED BY ONLY <2>2, <2>3
  <1>. QED BY <1>1, <1>2, <1>3, Counting, Zenon

\* The parts of what is on its way.
LEMMA WayParts ==
  ASSUME TypeOK, NEW w \in Workers
  PROVE  /\ out[w] \in Seq(Nat) /\ FinalItems(w) \in Seq(Nat) /\ spill[w] \in Seq(Nat)
         /\ Freed(w, HeldOf(w)) \in Seq(Nat) /\ Freed(w, batch[w]) \in Seq(Nat)
         /\ Freed(w, active[w]) \in Seq(Nat)
         /\ items[w] \in [Rings -> Seq(Nat)]
  <1>1. /\ out[w] \in Seq(Nat) /\ spill[w] \in Seq(Nat)
        /\ HeldOf(w) \in Rings \union {NoRing} /\ batch[w] \in Rings \union {NoRing}
        /\ active[w] \in Rings \union {NoRing} /\ items[w] \in [Rings -> Seq(Nat)]
    BY DEF TypeOK, HeldOf
  <1>2. \A k \in Rings \union {NoRing} : Freed(w, k) \in Seq(Nat)
    BY Contents, Zenon
  <1>3. FinalItems(w) \in Seq(Nat)
    BY FinalTyped, Zenon
  <1>. QED BY <1>1, <1>2, <1>3, Zenon

\* Rings that keep their content.
LEMMA SameFinal ==
  ASSUME TypeOK, NEW w \in Workers, final'[w] = final[w],
         \A i \in 1 .. Len(final[w]) : items'[w][final[w][i]] = items[w][final[w][i]]
  PROVE  FinalItems(w)' = FinalItems(w)
  <1>1. Len(final[w]) \in Nat
    BY DEF TypeOK
  <1>2. Len(final[w]) = 0 \/ 1 \in 1 .. Len(final[w])
    BY <1>1, Counting, Zenon
  <1>3. Len(final[w]) = 0 \/ Len(final[w]) = 1 \/ 2 \in 1 .. Len(final[w])
    BY <1>1, Counting, Zenon
  <1>. QED BY <1>2, <1>3, Zenon DEF FinalItems

\* Five parts: the last one, or the last two, on their own.
FourAndOne(a, b, c, d, e) ==
  /\ a \o (b \o (c \o d)) \in Seq(Nat)
  /\ a \o (b \o (c \o (d \o e))) = (a \o (b \o (c \o d))) \o e
ThreeAndTwo(a, b, c, d, e) ==
  /\ a \o (b \o c) \in Seq(Nat) /\ d \o e \in Seq(Nat)
  /\ a \o (b \o (c \o (d \o e))) = (a \o (b \o c)) \o (d \o e)

\* Five parts can be regrouped.
LEMMA Grouped ==
  ASSUME NEW a \in Seq(Nat), NEW b \in Seq(Nat), NEW c \in Seq(Nat), NEW d \in Seq(Nat),
         NEW e \in Seq(Nat)
  PROVE  FourAndOne(a, b, c, d, e) /\ ThreeAndTwo(a, b, c, d, e)
  <1>1. /\ c \o d \in Seq(Nat) /\ b \o (c \o d) \in Seq(Nat) /\ b \o c \in Seq(Nat)
        /\ d \o e \in Seq(Nat) /\ a \o (b \o (c \o d)) \in Seq(Nat)
        /\ a \o (b \o c) \in Seq(Nat)
    BY Typed, Zenon
  <1>2. FourAndOne(a, b, c, d, e)
    <2>1. /\ Regrouped(c, d, e) /\ Regrouped(b, c \o d, e)
          /\ Regrouped(a, b \o (c \o d), e)
      BY <1>1, Regroup, Zenon
    <2>. QED BY <1>1, <2>1, Zenon DEF Regrouped, FourAndOne
  <1>3. ThreeAndTwo(a, b, c, d, e)
    <2>1. Regrouped(b, c, d \o e) /\ Regrouped(a, b \o c, d \o e)
      BY <1>1, Regroup, Zenon
    <2>. QED BY <1>1, <2>1, Zenon DEF Regrouped, ThreeAndTwo
  <1>. QED BY <1>2, <1>3

\* An appended item is a last part of its own.
LEMMA AppendIs ==
  ASSUME NEW s \in Seq(Nat), NEW x \in Nat
  PROVE  Append(s, x) = s \o <<x>> /\ Append(s, x) \in Seq(Nat) /\ <<x>> \in Seq(Nat)
  OBVIOUS

\* Where there is no ring there are no items.
LEMMA NothingFreed == \A w : Freed(w, NoRing) = <<>>
  BY Zenon DEF Freed

-------------------------------------------------------------------------------
(* The end of the pool *)

\* The shutdown takes no slot after its last pass, and no thread that has been
\* joined runs on.
LEMMA EndingStep ==
  ASSUME OwnInv, [Next]_vars, \A w \in Workers : Ending(w), NEW w \in Workers
  PROVE  Ending(w)'
  <1>1. /\ Ending(w) /\ TypeOK /\ at \in Workers
        /\ mpc \in {"idle", "go", "join", "clearDone", "collect", "preCollect", "signal",
                    "joinThreads", "postCollect", "consume", "gone"}
    BY DEF OwnInv, TypeOK
  <1>2. ASSUME NEW v \in Workers, WorkerStep(v) \/ WorkPanic(v)
        PROVE  Ending(w)'
    <2>1. UNCHANGED <<mpc, at, final>> /\ ~Finished(v)
      BY <1>2 DEF WorkerStep, Wake, ClearGo, LoadArgs, Work, TakeRecycle, Publish,
             SignalDone, Exit, WorkPanic, mainVars, Finished
    <2>2. CASE Finished(w)
      <3>1. v # w
        BY <2>1, <2>2
      <3>2. pc'[w] = pc[w] /\ batch'[w] = batch[w]
        BY <1>1, <1>2, <3>1 DEF TypeOK, WorkerStep, Wake, ClearGo, LoadArgs, Work,
               TakeRecycle, Publish, SignalDone, Exit, WorkPanic, slotVars
      <3>. QED BY <1>1, <2>1, <3>2, Zenon DEF Ending, Finished
    <2>3. CASE ~Finished(w)
      <3>1. mpc \notin {"postCollect", "consume"} /\ ~(mpc = "joinThreads" /\ w < at)
        BY <1>1, <2>3 DEF Ending
      <3>. QED BY <1>1, <2>1, <3>1 DEF Ending
    <2>. QED BY <2>2, <2>3
  <1>3. CASE Call
    <2>1. mpc = "idle" /\ final' = final /\ mpc' \in {"go", "preCollect", "join", "collect"}
      BY <1>3 DEF Call, Dispatch, DispatchPanics, Join, Collect, Shutdown, MayCall
    <2>2. final[w] = <<>>
      BY <1>1, <2>1 DEF Ending, Closing
    <2>. QED BY <2>1, <2>2 DEF Ending
  <1>4. CASE \/ SignalGo \/ JoinPanicked \/ JoinDone \/ ClearDone \/ CollectEmpty
             \/ CollectSwap \/ CollectSend \/ \E i \in 1 .. N : CollectFails(i)
    <2>1. /\ mpc \in {"go", "join", "clearDone", "collect"} /\ final' = final
          /\ mpc' \in {"go", "join", "clearDone", "collect", "idle"}
      BY <1>4 DEF SignalGo, JoinPanicked, JoinDone, ClearDone, CollectEmpty, CollectSwap,
             CollectSend, CollectFails, NextWorker
    <2>2. final[w] = <<>>
      BY <1>1, <2>1 DEF Ending, Closing
    <2>. QED BY <2>1, <2>2 DEF Ending
  <1>5. CASE CollectFinal
    <2>1. /\ pc' = pc /\ batch' = [batch EXCEPT ![at] = NoRing]
      BY <1>5 DEF CollectFinal, workerVars
    <2>2. CASE mpc = "preCollect"
      <3>1. mpc' \in {"preCollect", "signal"}
        BY <1>5, <2>2 DEF CollectFinal, NextWorker
      <3>. QED BY <3>1 DEF Ending, Closing
    <2>3. CASE mpc = "postCollect"
      <3>1. NextWorker("consume")
        BY <1>5, <2>3 DEF CollectFinal
      <3>2. /\ mpc' \in {"postCollect", "consume"}
            /\ mpc' = "postCollect" /\ w < at' => w < at \/ w = at
            /\ mpc' = "consume" => w < at \/ w = at
        <4>1. \/ at < NumWorkers /\ at' = at + 1 /\ mpc' = mpc
              \/ at = NumWorkers /\ at' = 1 /\ mpc' = "consume"
          BY <1>1, <3>1, NextIsWorker, Zenon
        <4>2. w \in 1 .. NumWorkers /\ at \in 1 .. NumWorkers /\ NumWorkers \in Nat
          BY <1>1, Numbers DEF Workers
        <4>. QED BY <2>3, <4>1, <4>2
      <3>3. w < at => batch[w] = NoRing
        BY <1>1, <2>3 DEF Ending
      <3>4. w < at \/ w = at => batch'[w] = NoRing
        BY <1>1, <2>1, <3>3 DEF TypeOK
      <3>5. Finished(w)'
        BY <1>1, <2>1, <2>3 DEF Ending, Finished
      <3>. QED BY <3>2, <3>4, <3>5 DEF Ending, Closing
    <2>. QED BY <1>5, <2>2, <2>3 DEF CollectFinal
  <1>6. CASE SignalShutdown
    BY <1>1, <1>6 DEF SignalShutdown, Ending, Closing, mainVars
  <1>7. CASE SignalLastGo
    <2>1. \/ mpc' = "signal"
          \/ mpc' = "joinThreads" /\ at' = 1
      BY <1>1, <1>7, NextIsWorker DEF SignalLastGo
    <2>2. ~(w < 1)
      BY Numbers DEF Workers
    <2>. QED BY <2>1, <2>2 DEF Ending, Closing
  <1>8. CASE JoinThread
    <2>1. /\ mpc = "joinThreads" /\ pc' = pc /\ Finished(at) /\ NextWorker("postCollect")
      BY <1>8 DEF JoinThread, workerVars
    <2>2. /\ \/ at < NumWorkers /\ at' = at + 1 /\ mpc' = mpc
             \/ at = NumWorkers /\ at' = 1 /\ mpc' = "postCollect"
      BY <1>1, <2>1, NextIsWorker, Zenon
    <2>3. w \in 1 .. NumWorkers /\ at \in 1 .. NumWorkers /\ NumWorkers \in Nat
      BY <1>1, Numbers DEF Workers
    <2>4. w < at \/ w = at => Finished(w)
      BY <1>1, <2>1, Zenon DEF Ending
    <2>5. Finished(w)' <=> Finished(w)
      BY <2>1 DEF Finished
    <2>6. CASE at < NumWorkers
      <3>1. mpc' = "joinThreads" /\ (w < at' => w < at \/ w = at)
        BY <2>1, <2>2, <2>3, <2>6
      <3>. QED BY <2>4, <2>5, <3>1 DEF Ending, Closing
    <2>7. CASE at = NumWorkers
      <3>1. mpc' = "postCollect" /\ ~(w < at') /\ (w < at \/ w = at)
        BY <2>1, <2>2, <2>3, <2>7
      <3>. QED BY <2>4, <2>5, <3>1 DEF Ending, Closing
    <2>. QED BY <2>2, <2>6, <2>7
  <1>9. CASE Consume
    BY <1>9 DEF Consume, Ending, Closing
  <1>10. CASE UNCHANGED vars
    BY <1>1, <1>10, Zenon DEF vars, mainVars, workerVars, slotVars, Ending, Finished
  <1>. QED BY <1>2, <1>3, <1>4, <1>5, <1>6, <1>7, <1>8, <1>9, <1>10, Zenon
          DEF Next, MainStep

\* The account is the same in another view: rings handed on, and nothing else.
LEMMA Handed ==
  ASSUME NEW w \in Workers, Accounted(w), OnItsWay(w)' = OnItsWay(w),
         spill'[w] = spill[w], failed'[w] = failed[w], ran'[w] = ran[w]
  PROVE  Accounted(w)'
  BY Zenon DEF Accounted

-------------------------------------------------------------------------------
(* The account of a worker's steps *)

\* A full ring in its two parts.
LEMMA FullRing ==
  ASSUME NEW s \in Seq(Nat)
  PROVE  s = Evicted(s) \o Kept(s) /\ Kept(s) \in Seq(Nat) /\ Evicted(s) \in Seq(Nat)
  <1>1. Excess(s) \in 0 .. Len(s) /\ Kept(s) \in Seq(Nat) /\ Evicted(s) \in Seq(Nat)
    BY Split, Zenon
  <1>2. CutInto(Nat, s, Excess(s), Evicted(s), Kept(s))
    BY <1>1, CutAt, Zenon DEF Evicted, Kept
  <1>. QED BY <1>1, <1>2, Zenon DEF CutInto

\* A step that changes the ring k of worker w and no other.
OnlyRing(w, k) == \A j \in Rings : j # k => items'[w][j] = items[w][j]

\* The other rings keep their items.
LEMMA OthersKeep ==
  ASSUME OwnInv, NEW w \in Workers, NEW k \in Rings, OnlyRing(w, k),
         final'[w] = final[w], \A i \in 1 .. Len(final[w]) : final[w][i] # k
  PROVE  /\ FinalItems(w)' = FinalItems(w)
         /\ \A j \in Rings \union {NoRing} : j # k => Freed(w, j)' = Freed(w, j)
  <1>1. \A i \in 1 .. Len(final[w]) : final[w][i] \in Rings
    BY DEF OwnInv, TypeOK
  <1>2. \A i \in 1 .. Len(final[w]) : items'[w][final[w][i]] = items[w][final[w][i]]
    BY <1>1, Zenon DEF OnlyRing
  <1>3. FinalItems(w)' = FinalItems(w)
    BY <1>2, SameFinal, Zenon DEF OwnInv
  <1>4. ASSUME NEW j \in Rings \union {NoRing}, j # k
        PROVE  Freed(w, j)' = Freed(w, j)
    <2>1. CASE j = NoRing
      BY <2>1, Zenon DEF Freed
    <2>2. CASE j # NoRing
      <3>1. items'[w][j] = items[w][j]
        BY <1>4, <2>2 DEF OnlyRing
      <3>. QED BY <2>2, <3>1, Zenon DEF Freed
    <2>. QED BY <2>1, <2>2
  <1>. QED BY <1>3, <1>4, Zenon

\* The work function pushes the next item, and what does not fit is spilled.
LEMMA WorkAccounts ==
  ASSUME OwnInv, NEW w \in Workers, SparesEmpty(w), Accounted(w), Work(w)
  PROVE  SparesEmpty(w)' /\ Accounted(w)'
  <1> DEFINE k == active[w]
             n == Len(ran[w])
             A == items[w][k]
             full == Append(A, n + 1)
             before == out[w] \o (FinalItems(w) \o (Freed(w, HeldOf(w)) \o Freed(w, batch[w])))
  <1>1. TypeOK /\ Apart(w) /\ Owns(w) /\ pc[w] = "work"
    BY DEF OwnInv, Work
  <1>2. k \in Rings /\ k # NoRing
    BY <1>1 DEF TypeOK, Owns
  <1>3. /\ n \in Nat /\ cur[w] \in 1 .. MaxRounds /\ ran[w] \in Seq(1 .. MaxRounds)
    <2>1. cur[w] # 0
      BY <1>1 DEF OwnInv, Control
    <2>2. cur[w] \in 0 .. MaxRounds /\ ran[w] \in Seq(1 .. MaxRounds)
      BY <1>1 DEF TypeOK
    <2>. QED BY ONLY <2>1, <2>2, Numbers
  <1>4. /\ out[w] \in Seq(Nat) /\ FinalItems(w) \in Seq(Nat) /\ spill[w] \in Seq(Nat)
        /\ Freed(w, HeldOf(w)) \in Seq(Nat) /\ Freed(w, batch[w]) \in Seq(Nat)
        /\ A \in Seq(Nat) /\ Freed(w, k) = A
    BY <1>1, <1>2, WayParts DEF Freed
  <1>5. before \in Seq(Nat) /\ OnItsWay(w) = before \o A
    <2>1. FourAndOne(out[w], FinalItems(w), Freed(w, HeldOf(w)), Freed(w, batch[w]), A)
      BY <1>4, Grouped, Zenon
    <2>. QED BY <1>4, <2>1, Zenon DEF OnItsWay, FourAndOne
  <1>6. full = A \o <<n + 1>> /\ full \in Seq(Nat) /\ <<n + 1>> \in Seq(Nat)
    <2>1. n + 1 \in Nat
      BY <1>3
    <2>. QED BY <1>4, <2>1, AppendIs, Zenon
  <1>7. /\ UNCHANGED <<active, fresh, batch, recycle, failed, out, final, held, at>>
        /\ items' = [items EXCEPT ![w][k] = Kept(full)]
        /\ spill' = [spill EXCEPT ![w] = @ \o Evicted(full)]
        /\ ran' = [ran EXCEPT ![w] = Append(@, cur[w])]
    BY DEF Work, mainVars, slotVars
  <1> HIDE DEF before, full, A, n, k
  <1>8. /\ items'[w][k] = Kept(full) /\ OnlyRing(w, k)
        /\ spill'[w] = spill[w] \o Evicted(full)
    BY <1>1, <1>2, <1>7 DEF OnlyRing, TypeOK
  <1>9. Len(ran'[w]) = n + 1
    BY <1>1, <1>3, <1>7 DEF TypeOK, n
  <1>10. /\ HeldOf(w) \in Rings \union {NoRing} /\ HeldOf(w) # k /\ HeldOf(w)' = HeldOf(w)
         /\ batch[w] \in Rings \union {NoRing} /\ batch[w] # k
         /\ \A i \in 1 .. Len(final[w]) : final[w][i] # k
         /\ recycle[w] # k /\ fresh[w] # k
    BY <1>1, <1>2, <1>7 DEF TypeOK, HeldOf, Apart, k
  <1>11. /\ FinalItems(w)' = FinalItems(w)
         /\ Freed(w, HeldOf(w))' = Freed(w, HeldOf(w))
         /\ Freed(w, batch[w])' = Freed(w, batch[w])
         /\ Freed(w, active[w])' = Kept(full)
    <2>1. /\ FinalItems(w)' = FinalItems(w)
          /\ \A j \in Rings \union {NoRing} : j # k => Freed(w, j)' = Freed(w, j)
      BY <1>2, <1>7, <1>8, <1>10, OthersKeep, Zenon
    <2>2. Freed(w, active[w])' = Kept(full)
      BY <1>2, <1>7, <1>8, Zenon DEF Freed, k
    <2>3. Freed(w, HeldOf(w))' = Freed(w, HeldOf(w))
      BY <1>10, <2>1, Zenon DEF Freed
    <2>4. Freed(w, batch[w])' = Freed(w, batch[w])
      BY <1>7, <1>10, <2>1, Zenon DEF Freed
    <2>. QED BY <2>1, <2>2, <2>3, <2>4
  <1>12. Kept(full) \in Seq(Nat) /\ Evicted(full) \in Seq(Nat) /\ full = Evicted(full) \o Kept(full)
    BY <1>6, FullRing, Zenon
  <1>13. OnItsWay(w)' = before \o Kept(full)
    <2>1. OnItsWay(w)' =
            out[w] \o (FinalItems(w) \o
              (Freed(w, HeldOf(w)) \o (Freed(w, batch[w]) \o Kept(full))))
      BY <1>7, <1>11, Zenon DEF OnItsWay
    <2>2. FourAndOne(out[w], FinalItems(w), Freed(w, HeldOf(w)), Freed(w, batch[w]), Kept(full))
      BY <1>4, <1>12, Grouped, Zenon
    <2>. QED BY <2>1, <2>2, Zenon DEF before, FourAndOne
  <1>14. Accounts(before \o (Evicted(full) \o Kept(full)), spill[w], failed[w], n + 1)
    <2>1. before \o A \in Seq(Nat) /\ Accounts(before \o A, spill[w], failed[w], n)
      BY <1>4, <1>5, Typed, Zenon DEF Accounted, n
    <2>2. Accounts((before \o A) \o <<n + 1>>, spill[w], failed[w], n + 1)
      BY <1>3, <1>4, <2>1, ItemIsPushed, Zenon
    <2>3. Regrouped(before, A, <<n + 1>>)
      BY <1>4, <1>5, <1>6, Regroup, Zenon
    <2>. QED BY <1>6, <1>12, <2>2, <2>3, Zenon DEF Regrouped
  <1>15. Accounts(before \o Kept(full), spill[w] \o Evicted(full), failed[w], n + 1)
    BY <1>4, <1>5, <1>12, <1>14, PartSpills, Zenon
  <1>16. Accounted(w)'
    BY <1>7, <1>8, <1>9, <1>13, <1>15, Zenon DEF Accounted
  <1>17. SparesEmpty(w)'
    <2>1. recycle[w] \in Rings \union {NoRing} /\ fresh[w] \in Rings \union {NoRing}
      BY <1>1 DEF TypeOK
    <2>. QED BY <1>7, <1>8, <1>10, <2>1 DEF SparesEmpty, OnlyRing
  <1>. QED BY <1>16, <1>17

\* A panic drops the worker's ring: what it holds leaves the way for the spout.
LEMMA PanicAccounts ==
  ASSUME OwnInv, NEW w \in Workers, SparesEmpty(w), Accounted(w), WorkPanic(w)
  PROVE  SparesEmpty(w)' /\ Accounted(w)'
  <1> DEFINE k == active[w]
             A == items[w][k]
             before == out[w] \o (FinalItems(w) \o (Freed(w, HeldOf(w)) \o Freed(w, batch[w])))
  <1>1. TypeOK /\ Apart(w) /\ Owns(w) /\ pc[w] \in {"work", "take"}
    BY DEF OwnInv, WorkPanic
  <1>2. k \in Rings /\ k # NoRing
    BY <1>1 DEF TypeOK, Owns
  <1>4. /\ out[w] \in Seq(Nat) /\ FinalItems(w) \in Seq(Nat) /\ spill[w] \in Seq(Nat)
        /\ Freed(w, HeldOf(w)) \in Seq(Nat) /\ Freed(w, batch[w]) \in Seq(Nat)
        /\ A \in Seq(Nat) /\ Freed(w, k) = A
    BY <1>1, <1>2, WayParts DEF Freed
  <1>5. before \in Seq(Nat) /\ OnItsWay(w) = before \o A
    <2>1. FourAndOne(out[w], FinalItems(w), Freed(w, HeldOf(w)), Freed(w, batch[w]), A)
      BY <1>4, Grouped, Zenon
    <2>. QED BY <1>4, <2>1, Zenon DEF OnItsWay, FourAndOne
  <1>7. /\ UNCHANGED <<fresh, batch, recycle, failed, out, final, held, at, ran>>
        /\ items' = [items EXCEPT ![w][k] = <<>>]
        /\ spill' = [spill EXCEPT ![w] = @ \o A]
        /\ active' = [active EXCEPT ![w] = NoRing]
    BY DEF WorkPanic, mainVars, slotVars
  <1> HIDE DEF before, A, k
  <1>8. /\ items'[w][k] = <<>> /\ OnlyRing(w, k) /\ active'[w] = NoRing
        /\ spill'[w] = spill[w] \o A
    BY <1>1, <1>2, <1>7 DEF OnlyRing, TypeOK
  <1>10. /\ HeldOf(w) \in Rings \union {NoRing} /\ HeldOf(w) # k /\ HeldOf(w)' = HeldOf(w)
         /\ batch[w] \in Rings \union {NoRing} /\ batch[w] # k
         /\ \A i \in 1 .. Len(final[w]) : final[w][i] # k
         /\ recycle[w] # k /\ fresh[w] # k
    BY <1>1, <1>2, <1>7 DEF TypeOK, HeldOf, Apart, k
  <1>11. /\ FinalItems(w)' = FinalItems(w)
         /\ Freed(w, HeldOf(w))' = Freed(w, HeldOf(w))
         /\ Freed(w, batch[w])' = Freed(w, batch[w])
         /\ Freed(w, active[w])' = <<>>
    <2>1. /\ FinalItems(w)' = FinalItems(w)
          /\ \A j \in Rings \union {NoRing} : j # k => Freed(w, j)' = Freed(w, j)
      BY <1>2, <1>7, <1>8, <1>10, OthersKeep, Zenon
    <2>2. Freed(w, active[w])' = <<>>
      BY <1>8, Zenon DEF Freed
    <2>3. Freed(w, HeldOf(w))' = Freed(w, HeldOf(w))
      BY <1>10, <2>1, Zenon DEF Freed
    <2>4. Freed(w, batch[w])' = Freed(w, batch[w])
      BY <1>7, <1>10, <2>1, Zenon DEF Freed
    <2>. QED BY <2>1, <2>2, <2>3, <2>4
  <1>13. OnItsWay(w)' = before \o <<>>
    <2>1. OnItsWay(w)' =
            out[w] \o (FinalItems(w) \o
              (Freed(w, HeldOf(w)) \o (Freed(w, batch[w]) \o <<>>)))
      BY <1>7, <1>11, Zenon DEF OnItsWay
    <2>2. FourAndOne(out[w], FinalItems(w), Freed(w, HeldOf(w)), Freed(w, batch[w]), <<>>)
      BY <1>4, NoItems, Grouped, Zenon
    <2>. QED BY <2>1, <2>2, Zenon DEF before, FourAndOne
  <1>14. Accounts(before \o (A \o <<>>), spill[w], failed[w], Len(ran[w]))
    BY <1>4, <1>5, NoItems, Zenon DEF Accounted
  <1>15. Accounts(before \o <<>>, spill[w] \o A, failed[w], Len(ran[w]))
    BY <1>4, <1>5, <1>14, NoItems, PartSpills, Zenon
  <1>16. Accounted(w)'
    BY <1>7, <1>8, <1>13, <1>15, Zenon DEF Accounted
  <1>17. SparesEmpty(w)'
    <2>1. recycle[w] \in Rings \union {NoRing} /\ fresh[w] \in Rings \union {NoRing}
      BY <1>1 DEF TypeOK
    <2>. QED BY <1>7, <1>8, <1>10, <2>1 DEF SparesEmpty, OnlyRing
  <1>. QED BY <1>16, <1>17

\* A worker takes the spare: an empty ring changes hands.
LEMMA TakeAccounts ==
  ASSUME OwnInv, NEW w \in Workers, SparesEmpty(w), Accounted(w), TakeRecycle(w)
  PROVE  SparesEmpty(w)' /\ Accounted(w)'
  <1>1. /\ UNCHANGED <<active, batch, failed, out, final, held, at, ran, items, spill>>
        /\ fresh'[w] = recycle[w] /\ recycle'[w] = NoRing
    BY DEF OwnInv, TypeOK, TakeRecycle, mainVars, dataVars
  <1>2. \A k : Freed(w, k)' = Freed(w, k)
    BY <1>1, Zenon DEF Freed
  <1>3. /\ HeldOf(w)' = HeldOf(w) /\ FinalItems(w)' = FinalItems(w)
        /\ batch'[w] = batch[w] /\ active'[w] = active[w] /\ out'[w] = out[w]
    BY <1>1, Zenon DEF HeldOf, FinalItems
  <1>4. OnItsWay(w)' = OnItsWay(w)
    BY <1>2, <1>3, Zenon DEF OnItsWay
  <1>5. SparesEmpty(w)'
    BY <1>1, Zenon DEF SparesEmpty
  <1>. QED BY <1>1, <1>4, <1>5, Handed, Zenon

\* A worker publishes its ring: the slot is empty, so nothing is merged, and what
\* the worker has filled moves into the slot.
LEMMA PublishAccounts ==
  ASSUME OwnInv, NEW w \in Workers, SparesEmpty(w), Accounted(w), Publish(w)
  PROVE  SparesEmpty(w)' /\ Accounted(w)'
  <1> DEFINE k == fresh[w]
             A == Freed(w, active[w])
  <1>1. /\ batch[w] = NoRing /\ recycle[w] = NoRing /\ active[w] \in Rings /\ k \in Rings
        /\ k # NoRing /\ active[w] # NoRing /\ TypeOK
    BY EmptySlot, Numbers, Zenon DEF Publish, OwnInv
  <1>2. items[w][k] = <<>>
    BY <1>1, Zenon DEF SparesEmpty
  <1>3. items[w][k] \o Freed(w, batch[w]) = <<>>
    BY <1>1, <1>2, NothingFreed, NoItems, Zenon
  <1>4. Kept(<<>>) = <<>> /\ Evicted(<<>>) = <<>>
    <2>1. Excess(<<>>) = 0
      BY Numbers DEF Excess
    <2>2. Len(<<>>) = 0
      OBVIOUS
    <2>. QED BY <2>1, <2>2 DEF Kept, Evicted
  <1>5. /\ UNCHANGED <<recycle, failed, out, final, held, at, ran>>
        /\ batch'[w] = active[w] /\ active'[w] = k /\ fresh'[w] = NoRing
        /\ items' = [items EXCEPT ![w][k] = <<>>]
        /\ spill' = [spill EXCEPT ![w] = @ \o <<>>]
    BY <1>1, <1>3, <1>4 DEF TypeOK, Publish, Emptied, mainVars
  <1>6. items'[w] = items[w]
    BY <1>1, <1>2, <1>5 DEF TypeOK
  <1>7. spill'[w] = spill[w]
    BY <1>1, <1>5, NoItems DEF TypeOK
  <1>8. \A j : Freed(w, j)' = Freed(w, j)
    BY <1>6, Zenon DEF Freed
  <1>9. HeldOf(w)' = HeldOf(w) /\ FinalItems(w)' = FinalItems(w)
    <2>1. final'[w] = final[w]
      BY <1>5, Zenon
    <2>2. FinalItems(w)' = FinalItems(w)
      BY <1>6, <2>1, Zenon DEF FinalItems
    <2>3. HeldOf(w)' = HeldOf(w)
      BY <1>5, Zenon DEF HeldOf
    <2>. QED BY <2>2, <2>3
  <1>10. Freed(w, batch[w])' = A /\ Freed(w, active[w])' = <<>>
    <2>1. items'[w][active[w]] = items[w][active[w]] /\ items'[w][k] = <<>>
      BY <1>2, <1>6, Zenon
    <2>2. batch'[w] = active[w] /\ active'[w] = k
      BY <1>5
    <2> HIDE DEF k
    <2>. QED BY <1>1, <2>1, <2>2, Zenon DEF Freed
  <1>11. Freed(w, batch[w]) = <<>> /\ Freed(w, HeldOf(w))' = Freed(w, HeldOf(w))
    BY <1>1, <1>6, <1>9, NothingFreed, Zenon DEF Freed
  <1>12. A \in Seq(Nat) /\ A \o <<>> = <<>> \o A
    <2>1. A \in Seq(Nat)
      BY <1>1, WayParts, Zenon
    <2> HIDE DEF A
    <2>. QED BY <2>1, NoItems, Zenon
  <1>13. OnItsWay(w)' = OnItsWay(w)
    BY <1>5, <1>9, <1>10, <1>11, <1>12, Zenon DEF OnItsWay
  <1>14. SparesEmpty(w)'
    BY <1>1, <1>5, Zenon DEF SparesEmpty
  <1>. QED BY <1>5, <1>7, <1>13, <1>14, Handed, Zenon

\* A worker exits: a batch still in the slot leaves the way for the spout, and
\* the worker's ring takes its place.
LEMMA ExitAccounts ==
  ASSUME OwnInv, NEW w \in Workers, SparesEmpty(w), Accounted(w), Exit(w)
  PROVE  SparesEmpty(w)' /\ Accounted(w)'
  <1> DEFINE k == batch[w]
             A == Freed(w, active[w])
             B == Freed(w, batch[w])
             before == out[w] \o (FinalItems(w) \o Freed(w, HeldOf(w)))
  <1>1. /\ TypeOK /\ Apart(w) /\ Owns(w) /\ pc[w] = "exit"
        /\ k \in Rings \union {NoRing} /\ active[w] \in Rings /\ active[w] # NoRing
    BY DEF OwnInv, Exit, TypeOK, Owns
  <1>2. /\ out[w] \in Seq(Nat) /\ FinalItems(w) \in Seq(Nat) /\ spill[w] \in Seq(Nat)
        /\ Freed(w, HeldOf(w)) \in Seq(Nat) /\ A \in Seq(Nat) /\ B \in Seq(Nat)
    BY <1>1, WayParts, Zenon
  <1>3. /\ UNCHANGED <<recycle, fresh, failed, out, final, held, at, ran>>
        /\ batch' = [batch EXCEPT ![w] = active[w]]
        /\ active' = [active EXCEPT ![w] = NoRing]
        /\ spill' = [spill EXCEPT ![w] = @ \o B]
        /\ items' = Emptied(w, k)
    BY DEF Exit, mainVars
  <1> HIDE DEF A, B, k, before
  <1>4. /\ batch'[w] = active[w] /\ active'[w] = NoRing /\ spill'[w] = spill[w] \o B
        /\ HeldOf(w)' = HeldOf(w)
    BY <1>1, <1>3 DEF TypeOK, HeldOf
  <1>5. \A j \in Rings : j # k => items'[w][j] = items[w][j]
    BY <1>1, <1>3 DEF TypeOK, Emptied
  <1>6. /\ HeldOf(w) \in Rings \union {NoRing} /\ (HeldOf(w) = NoRing \/ HeldOf(w) # k)
        /\ active[w] # k
        /\ \A i \in 1 .. Len(final[w]) : final[w][i] # k
        /\ (recycle[w] = NoRing \/ recycle[w] # k)
        /\ (fresh[w] = NoRing \/ fresh[w] # k)
    BY <1>1 DEF TypeOK, HeldOf, Apart, k
  <1>7. FinalItems(w)' = FinalItems(w)
    <2>1. \A i \in 1 .. Len(final[w]) : final[w][i] \in Rings
      BY <1>1 DEF TypeOK
    <2>2. \A i \in 1 .. Len(final[w]) : items'[w][final[w][i]] = items[w][final[w][i]]
      BY <1>5, <1>6, <2>1, Zenon
    <2>. QED BY <1>1, <1>3, <2>2, SameFinal, Zenon
  <1>8. Freed(w, HeldOf(w))' = Freed(w, HeldOf(w))
    <2>1. CASE HeldOf(w) = NoRing
      BY <1>4, <2>1, Zenon DEF Freed
    <2>2. CASE HeldOf(w) # NoRing
      <3>1. HeldOf(w) \in Rings /\ HeldOf(w) # k
        BY <1>6, <2>2
      <3>2. items'[w][HeldOf(w)] = items[w][HeldOf(w)]
        BY <1>5, <3>1, Zenon
      <3>. QED BY <1>4, <2>2, <3>2, Zenon DEF Freed
    <2>. QED BY <2>1, <2>2
  <1>9. Freed(w, batch[w])' = A /\ Freed(w, active[w])' = <<>>
    <2>1. items'[w][active[w]] = items[w][active[w]]
      BY <1>1, <1>5, <1>6, Zenon
    <2>. QED BY <1>1, <1>4, <2>1, Zenon DEF Freed, A
  <1>10. OnItsWay(w)' = before \o A
    <2>1. OnItsWay(w)' = out[w] \o (FinalItems(w) \o (Freed(w, HeldOf(w)) \o (A \o <<>>)))
      BY <1>3, <1>7, <1>8, <1>9, Zenon DEF OnItsWay
    <2>2. /\ ThreeAndTwo(out[w], FinalItems(w), Freed(w, HeldOf(w)), A, <<>>)
          /\ A \o <<>> = A
      BY <1>2, NoItems, Grouped, Zenon
    <2>. QED BY <2>1, <2>2, Zenon DEF before, ThreeAndTwo
  <1>11. OnItsWay(w) = before \o (B \o A) /\ before \in Seq(Nat)
    <2>1. ThreeAndTwo(out[w], FinalItems(w), Freed(w, HeldOf(w)), B, A)
      BY <1>2, Grouped, Zenon
    <2>. QED BY <2>1, Zenon DEF OnItsWay, before, ThreeAndTwo, A, B
  <1>12. Accounts(before \o A, spill[w] \o B, failed[w], Len(ran[w]))
    BY <1>2, <1>11, PartSpills, Zenon DEF Accounted
  <1>13. Accounted(w)'
    BY <1>3, <1>4, <1>10, <1>12, Zenon DEF Accounted
  <1>14. SparesEmpty(w)'
    <2>1. recycle[w] \in Rings \union {NoRing} /\ fresh[w] \in Rings \union {NoRing}
      BY <1>1 DEF TypeOK
    <2>. QED BY <1>3, <1>5, <1>6, <2>1 DEF SparesEmpty
  <1>. QED BY <1>13, <1>14

\* The steps of a worker, for itself and for the others.
LEMMA WorkerAccounts ==
  ASSUME OwnInv, NEW v \in Workers, WorkerStep(v) \/ WorkPanic(v), NEW w \in Workers,
         SparesEmpty(w), Accounted(w)
  PROVE  SparesEmpty(w)' /\ Accounted(w)'
  <1>1. CASE v = w
    <2>1. CASE Wake(w) \/ ClearGo(w) \/ LoadArgs(w) \/ SignalDone(w)
      <3>1. UNCHANGED View(w)
        BY <2>1, Zenon DEF Wake, ClearGo, LoadArgs, SignalDone, mainVars, slotVars, dataVars,
               View, HeldOf
      <3>. QED BY <3>1, SameView, Zenon
    <2>2. CASE Work(w) \/ WorkPanic(w)
      BY <2>2, WorkAccounts, PanicAccounts, Zenon
    <2>3. CASE TakeRecycle(w) \/ Publish(w) \/ Exit(w)
      BY <2>3, TakeAccounts, PublishAccounts, ExitAccounts, Zenon
    <2>. QED BY <1>1, <2>1, <2>2, <2>3, Zenon DEF WorkerStep
  <1>2. CASE v # w
    <2>1. UNCHANGED <<failed, out, final, held, at>>
      BY DEF WorkerStep, Wake, ClearGo, LoadArgs, Work, TakeRecycle, Publish,
             SignalDone, Exit, WorkPanic, mainVars, dataVars
    <2>2. /\ active'[w] = active[w] /\ fresh'[w] = fresh[w] /\ batch'[w] = batch[w]
          /\ recycle'[w] = recycle[w]
      BY <1>2 DEF OwnInv, TypeOK, WorkerStep, Wake, ClearGo, LoadArgs, Work, TakeRecycle,
             Publish, SignalDone, Exit, WorkPanic, slotVars, workerVars
    <2>3. ran'[w] = ran[w]
      BY <1>2 DEF OwnInv, TypeOK, WorkerStep, Wake, ClearGo, LoadArgs, Work, TakeRecycle,
             Publish, SignalDone, Exit, WorkPanic, workerVars
    <2>4. items'[w] = items[w] /\ spill'[w] = spill[w]
      BY <1>2, OthersContent, Zenon DEF OwnInv
    <2>5. UNCHANGED View(w)
      BY <2>1, <2>2, <2>3, <2>4, Zenon DEF View, HeldOf
    <2>. QED BY <2>5, SameView, Zenon
  <1>. QED BY <1>1, <1>2

-------------------------------------------------------------------------------
(* The account of main's steps *)

\* Main takes a batch out of a slot.
LEMMA SwapAccounts ==
  ASSUME OwnInv, NEW w \in Workers, SparesEmpty(w), Accounted(w), CollectSwap
  PROVE  SparesEmpty(w)' /\ Accounted(w)'
  <1>1. /\ UNCHANGED <<out, items, final, active, fresh, recycle, spill, failed, ran, at>>
        /\ held = NoRing /\ held' = batch[at]
        /\ batch' = [batch EXCEPT ![at] = NoRing]
    BY DEF CollectSwap, workerVars, dataVars
  <1>2. CASE w # at
    <2>1. batch'[w] = batch[w]
      BY <1>1, <1>2 DEF OwnInv, TypeOK
    <2>2. HeldOf(w)' = HeldOf(w)
      BY <1>1, <1>2, Zenon DEF HeldOf
    <2>3. UNCHANGED View(w)
      BY <1>1, <2>1, <2>2, Zenon DEF View
    <2>. QED BY <2>3, SameView, Zenon
  <1>3. CASE w = at
    <2>1. /\ HeldOf(w) = NoRing /\ HeldOf(w)' = batch[w]
          /\ batch'[w] = NoRing
      BY <1>1, <1>3 DEF OwnInv, TypeOK, HeldOf
    <2>2. /\ items'[w] = items[w] /\ final'[w] = final[w] /\ active'[w] = active[w]
          /\ out'[w] = out[w]
      BY <1>1
    <2> DEFINE A == Freed(w, active[w])
               B == Freed(w, batch[w])
    <2>3. A \in Seq(Nat) /\ B \in Seq(Nat)
      BY WayParts, Zenon DEF OwnInv
    <2>4. /\ Freed(w, HeldOf(w)) = <<>> /\ Freed(w, HeldOf(w))' = B
          /\ Freed(w, batch[w])' = <<>> /\ Freed(w, active[w])' = A
      BY <2>1, <2>2, Zenon DEF Freed
    <2>5. FinalItems(w)' = FinalItems(w)
      BY <2>2, Zenon DEF FinalItems
    <2> HIDE DEF A, B
    <2>6. B \o (<<>> \o A) = <<>> \o (B \o A)
      <3>1. B \o A \in Seq(Nat)
        BY <2>3, Typed, Zenon
      <3>. QED BY <2>3, <3>1, NoItems, Zenon
    <2>7. OnItsWay(w)' = OnItsWay(w)
      <3>1. OnItsWay(w)' = out[w] \o (FinalItems(w) \o (B \o (<<>> \o A)))
        BY <2>2, <2>4, <2>5, Zenon DEF OnItsWay
      <3>2. OnItsWay(w) = out[w] \o (FinalItems(w) \o (<<>> \o (B \o A)))
        BY <2>4, Zenon DEF OnItsWay, A, B
      <3>. QED BY <2>6, <3>1, <3>2, Zenon
    <2>8. SparesEmpty(w)'
      BY <1>1, Zenon DEF SparesEmpty
    <2>. QED BY <1>1, <2>7, <2>8, Handed, Zenon
  <1>. QED BY <1>2, <1>3

\* While main holds a ring of worker w, nothing has been collected for the
\* shutdown.
LEMMA Holding ==
  ASSUME OwnInv, mpc = "collect", held # NoRing, NEW w \in Workers, w = at, Ending(w)
  PROVE  /\ HeldOf(w) = held /\ held \in Rings /\ recycle[w] = NoRing
         /\ FinalItems(w) = <<>> /\ final[w] = <<>>
         /\ active[w] # held /\ batch[w] # held /\ fresh[w] # held
  <1>1. HeldOf(w) = held /\ held \in Rings /\ recycle[w] = NoRing
    BY EmptySpare, Zenon
  <1>2. final[w] = <<>>
    BY DEF Ending, Closing
  <1>3. FinalItems(w) = <<>>
    <2>1. Len(final[w]) = 0
      BY <1>2
    <2>. QED BY <2>1, Zenon DEF FinalItems
  <1>4. active[w] # held /\ batch[w] # held /\ fresh[w] # held
    <2>1. Apart(w) /\ held # NoRing
      BY Zenon DEF OwnInv
    <2>. QED BY <1>1, <2>1, Zenon DEF Apart
  <1>. QED BY <1>1, <1>2, <1>3, <1>4

\* What is on its way once main has emptied that ring.
LEMMA AfterHolding ==
  ASSUME OwnInv, mpc = "collect", held # NoRing, NEW w \in Workers, w = at, Ending(w),
         items'[w][held] = <<>>, OnlyRing(w, held), held' = NoRing,
         final'[w] = final[w], batch'[w] = batch[w], active'[w] = active[w],
         fresh'[w] = fresh[w], recycle'[w] \in {recycle[w], held}, SparesEmpty(w)
  PROVE  /\ OnItsWay(w)' = out'[w] \o (Freed(w, batch[w]) \o Freed(w, active[w]))
         /\ SparesEmpty(w)'
  <1> DEFINE A == Freed(w, active[w])
             B == Freed(w, batch[w])
  <1>1. /\ held \in Rings /\ final[w] = <<>> /\ recycle[w] = NoRing
        /\ active[w] # held /\ batch[w] # held /\ fresh[w] # held
    BY Holding, Zenon
  <1>2. /\ active[w] \in Rings \union {NoRing} /\ batch[w] \in Rings \union {NoRing}
        /\ fresh[w] \in Rings \union {NoRing}
    BY DEF OwnInv, TypeOK
  <1>3. A \in Seq(Nat) /\ B \in Seq(Nat)
    BY WayParts, Zenon DEF OwnInv
  <1>4. \A j \in Rings \union {NoRing} : j # held => Freed(w, j)' = Freed(w, j)
    <2>1. ASSUME NEW j \in Rings \union {NoRing}, j # held, j # NoRing
          PROVE  items'[w][j] = items[w][j]
      BY <2>1 DEF OnlyRing
    <2>. QED BY <2>1, Zenon DEF Freed
  <1>5. Freed(w, active[w])' = A
    BY <1>1, <1>2, <1>4, Zenon DEF Freed
  <1>6. Freed(w, batch[w])' = B
    BY <1>1, <1>2, <1>4, Zenon DEF Freed
  <1>7. Freed(w, HeldOf(w))' = <<>>
    <2>1. HeldOf(w)' = NoRing
      BY Zenon DEF HeldOf
    <2>. QED BY <2>1, Zenon DEF Freed
  <1>8. FinalItems(w)' = <<>>
    <2>1. Len(final'[w]) = 0
      BY <1>1
    <2>. QED BY <2>1, Zenon DEF FinalItems
  <1> HIDE DEF A, B
  <1>9. <<>> \o (<<>> \o (B \o A)) = B \o A
    <2>1. B \o A \in Seq(Nat)
      BY <1>3, Typed, Zenon
    <2>. QED BY <2>1, NoItems, Zenon
  <1>10. OnItsWay(w)' = out'[w] \o (B \o A)
    <2>1. OnItsWay(w)' = out'[w] \o (<<>> \o (<<>> \o (B \o A)))
      BY <1>5, <1>6, <1>7, <1>8, Zenon DEF OnItsWay
    <2>. QED BY <1>9, <2>1, Zenon
  <1>11. SparesEmpty(w)'
    <2>1. fresh[w] # NoRing => items'[w][fresh[w]] = <<>>
      BY <1>1, <1>2 DEF SparesEmpty, OnlyRing
    <2>. QED BY <1>1, <2>1 DEF SparesEmpty
  <1>. QED BY <1>10, <1>11 DEF A, B

\* Before that, its items come right behind what the consumer has.
LEMMA WhileHolding ==
  ASSUME OwnInv, mpc = "collect", held # NoRing, NEW w \in Workers, w = at, Ending(w)
  PROVE  /\ OnItsWay(w) = out[w] \o (items[w][held] \o (Freed(w, batch[w]) \o Freed(w, active[w])))
         /\ out[w] \in Seq(Nat) /\ items[w][held] \in Seq(Nat) /\ spill[w] \in Seq(Nat)
         /\ Freed(w, batch[w]) \o Freed(w, active[w]) \in Seq(Nat)
  <1> DEFINE A == Freed(w, active[w])
             B == Freed(w, batch[w])
             H == items[w][held]
  <1>1. HeldOf(w) = held /\ held \in Rings /\ FinalItems(w) = <<>>
    BY Holding, Zenon
  <1>2. /\ A \in Seq(Nat) /\ B \in Seq(Nat) /\ out[w] \in Seq(Nat) /\ spill[w] \in Seq(Nat)
        /\ items[w] \in [Rings -> Seq(Nat)]
    BY WayParts, Zenon DEF OwnInv
  <1>3. H \in Seq(Nat) /\ Freed(w, HeldOf(w)) = H
    BY <1>1, <1>2, Zenon DEF Freed
  <1>4. OnItsWay(w) = out[w] \o (<<>> \o (H \o (B \o A)))
    BY <1>1, <1>3, Zenon DEF OnItsWay
  <1> HIDE DEF A, B, H
  <1>5. B \o A \in Seq(Nat) /\ <<>> \o (H \o (B \o A)) = H \o (B \o A)
    <2>1. B \o A \in Seq(Nat)
      BY <1>2, Typed, Zenon
    <2>2. H \o (B \o A) \in Seq(Nat)
      BY <1>3, <2>1, Typed, Zenon
    <2>. QED BY <2>1, <2>2, NoItems, Zenon
  <1>. QED BY <1>2, <1>3, <1>4, <1>5, Zenon DEF A, B, H

\* collect() sends a ring to the end and gives it back.
LEMMA SendAccounts ==
  ASSUME OwnInv, NEW w \in Workers, w = at, Ending(w), SparesEmpty(w), Accounted(w),
         CollectSend
  PROVE  SparesEmpty(w)' /\ Accounted(w)'
  <1> DEFINE H == items[w][held]
             R == Freed(w, batch[w]) \o Freed(w, active[w])
  <1>1. mpc = "collect" /\ held # NoRing
    BY DEF CollectSend
  <1>2. /\ OnItsWay(w) = out[w] \o (H \o R) /\ out[w] \in Seq(Nat) /\ H \in Seq(Nat)
        /\ R \in Seq(Nat) /\ spill[w] \in Seq(Nat)
    BY <1>1, WhileHolding, Zenon
  <1>3. held \in Rings /\ recycle[w] = NoRing
    BY <1>1, Holding, Zenon
  <1> HIDE DEF H, R
  <1>4. /\ UNCHANGED <<final, failed, batch, active, fresh, ran>> /\ held' = NoRing
        /\ out' = [out EXCEPT ![w] = @ \o H]
        /\ items' = [items EXCEPT ![w][held] = <<>>]
        /\ spill' = [spill EXCEPT ![w] = @ \o <<>>]
        /\ recycle' = [recycle EXCEPT ![w] = held]
    <2>1. Emptied(w, recycle[w]) = items /\ Freed(w, recycle[w]) = <<>>
      BY <1>3 DEF Emptied, Freed
    <2>. QED BY <2>1 DEF CollectSend, workerVars, H
  <1>5. /\ out'[w] = out[w] \o H /\ spill'[w] = spill[w]
        /\ recycle'[w] = held
    BY <1>2, <1>4, NoItems DEF OwnInv, TypeOK
  <1>6. items'[w][held] = <<>> /\ OnlyRing(w, held)
    BY <1>3, <1>4 DEF OwnInv, TypeOK, OnlyRing
  <1>7. /\ OnItsWay(w)' = out'[w] \o R /\ SparesEmpty(w)'
    <2>1. /\ final'[w] = final[w] /\ batch'[w] = batch[w] /\ active'[w] = active[w]
          /\ fresh'[w] = fresh[w] /\ recycle'[w] \in {recycle[w], held}
      BY <1>4, <1>5
    <2>. QED BY <1>1, <1>4, <1>6, <2>1, AfterHolding, Zenon DEF R
  <1>8. OnItsWay(w)' = OnItsWay(w)
    <2>1. Regrouped(out[w], H, R)
      BY <1>2, Regroup, Zenon
    <2>. QED BY <1>2, <1>5, <1>7, <2>1, Zenon DEF Regrouped
  <1>9. failed'[w] = failed[w] /\ ran'[w] = ran[w]
    BY <1>4
  <1>. QED BY <1>5, <1>7, <1>8, <1>9, Handed, Zenon

\* A send fails: its item is lost, and what is left in the ring is spilled.
LEMMA FailAccounts ==
  ASSUME OwnInv, NEW w \in Workers, w = at, Ending(w), SparesEmpty(w), Accounted(w),
         NEW i \in 1 .. N, CollectFails(i)
  PROVE  SparesEmpty(w)' /\ Accounted(w)'
  <1> DEFINE H == items[w][held]
             R == Freed(w, batch[w]) \o Freed(w, active[w])
             sent == SubSeq(H, 1, i - 1)
             rest == SubSeq(H, i + 1, Len(H))
  <1>1. mpc = "collect" /\ held # NoRing /\ i \in DOMAIN H
    BY DEF CollectFails
  <1>2. /\ OnItsWay(w) = out[w] \o (H \o R) /\ out[w] \in Seq(Nat) /\ H \in Seq(Nat)
        /\ R \in Seq(Nat) /\ spill[w] \in Seq(Nat)
    BY <1>1, WhileHolding, Zenon
  <1>3. held \in Rings /\ recycle[w] = NoRing
    BY <1>1, Holding, Zenon
  <1> HIDE DEF H, R
  <1>4. /\ UNCHANGED <<final, batch, active, fresh, recycle, ran>> /\ held' = NoRing
        /\ out' = [out EXCEPT ![w] = @ \o sent]
        /\ items' = [items EXCEPT ![w][held] = <<>>]
        /\ spill' = [spill EXCEPT ![w] = @ \o rest]
        /\ failed' = [failed EXCEPT ![w] = @ \union {H[i]}]
    BY DEF CollectFails, workerVars, slotVars, H
  <1>5. /\ sent \in Seq(Nat) /\ rest \in Seq(Nat) /\ H[i] \in Nat
        /\ H = sent \o (<<H[i]>> \o rest)
    <2>1. /\ sent \in Seq(Nat) /\ Len(sent) = i - 1 /\ H[i] \in Nat /\ Len(H) \in Nat
          /\ i \in 1 .. Len(H)
      BY <1>1, <1>2
    <2>2. CutInto(Nat, H, i, SubSeq(H, 1, i), rest)
      <3>1. i \in 0 .. Len(H)
        BY <2>1
      <3>. QED BY <1>2, <3>1, CutAt, Zenon
    <2>3. SubSeq(H, 1, i) = sent \o <<H[i]>>
      <3>1. SubSeq(H, 1, i) \in Seq(Nat) /\ Len(SubSeq(H, 1, i)) = i
        BY <2>2 DEF CutInto
      <3>2. SubSeq(H, 1, i) = Append(sent, H[i])
        BY <1>2, <2>1
      <3>. QED BY <2>1, <3>2, AppendIs, Zenon
    <2>4. rest \in Seq(Nat) /\ H = (sent \o <<H[i]>>) \o rest
      BY <2>2, <2>3, Zenon DEF CutInto
    <2>5. Regrouped(sent, <<H[i]>>, rest)
      <3>1. <<H[i]>> \in Seq(Nat)
        BY <2>1
      <3>. QED BY <2>1, <2>4, <3>1, Regroup, Zenon
    <2>. QED BY <2>1, <2>4, <2>5, Zenon DEF Regrouped
  <1> HIDE DEF sent, rest
  <1>6. /\ out'[w] = out[w] \o sent /\ spill'[w] = spill[w] \o rest
        /\ failed'[w] = failed[w] \union {H[i]}
    BY <1>4 DEF OwnInv, TypeOK
  <1>7. items'[w][held] = <<>> /\ OnlyRing(w, held)
    BY <1>3, <1>4 DEF OwnInv, TypeOK, OnlyRing
  <1>8. /\ OnItsWay(w)' = out'[w] \o R /\ SparesEmpty(w)'
    <2>1. /\ final'[w] = final[w] /\ batch'[w] = batch[w] /\ active'[w] = active[w]
          /\ fresh'[w] = fresh[w] /\ recycle'[w] \in {recycle[w], held}
      BY <1>4
    <2>. QED BY <1>1, <1>4, <1>7, <2>1, AfterHolding, Zenon DEF R
  <1>9. /\ OnItsWay(w) = (out[w] \o sent) \o (<<H[i]>> \o (rest \o R))
        /\ out[w] \o sent \in Seq(Nat) /\ rest \o R \in Seq(Nat)
    <2>1. <<H[i]>> \in Seq(Nat) /\ rest \o R \in Seq(Nat) /\ out[w] \o sent \in Seq(Nat)
      BY <1>2, <1>5, OneItem, Typed, Zenon
    <2>2. <<H[i]>> \o rest \in Seq(Nat) /\ <<H[i]>> \o (rest \o R) \in Seq(Nat)
      BY <1>5, <2>1, Typed, Zenon
    <2>3. /\ Regrouped(sent, <<H[i]>> \o rest, R) /\ Regrouped(<<H[i]>>, rest, R)
          /\ Regrouped(out[w], sent, <<H[i]>> \o (rest \o R))
      BY <1>2, <1>5, <2>1, <2>2, Regroup, Zenon
    <2>. QED BY <1>2, <1>5, <2>1, <2>3, Zenon DEF Regrouped
  <1>10. Accounts((out[w] \o sent) \o (rest \o R), spill[w], failed[w] \union {H[i]}, Len(ran[w]))
    BY <1>2, <1>5, <1>9, ItemIsLost, Zenon DEF Accounted
  <1>11. Accounts((out[w] \o sent) \o R, spill[w] \o rest, failed[w] \union {H[i]}, Len(ran[w]))
    BY <1>2, <1>5, <1>9, <1>10, PartSpills, Zenon
  <1>12. Accounted(w)'
    <2>1. ran'[w] = ran[w]
      BY <1>4
    <2>. QED BY <1>6, <1>8, <1>11, <2>1, Zenon DEF Accounted
  <1>. QED BY <1>8, <1>12

\* The shutdown takes the batch out of a slot and keeps it behind the rings it
\* has.
LEMMA CollectAccounts ==
  ASSUME OwnInv, NEW w \in Workers, SparesEmpty(w), Accounted(w), CollectFinal
  PROVE  SparesEmpty(w)' /\ Accounted(w)'
  <1>1. /\ UNCHANGED <<out, items, active, fresh, recycle, spill, failed, ran, held>>
        /\ held = NoRing /\ at \in Workers
        /\ batch' = [batch EXCEPT ![at] = NoRing]
        /\ final' = IF batch[at] = NoRing THEN final
                    ELSE [final EXCEPT ![at] = Append(@, batch[at])]
    BY DEF CollectFinal, workerVars, dataVars, OwnInv, Control, TypeOK
  <1>2. HeldOf(w) = NoRing /\ HeldOf(w)' = NoRing
    BY <1>1, Zenon DEF HeldOf
  <1>3. CASE w # at \/ batch[at] = NoRing
    <2>1. batch'[w] = batch[w] /\ final'[w] = final[w]
      BY <1>1, <1>3 DEF OwnInv, TypeOK
    <2>2. UNCHANGED View(w)
      BY <1>1, <1>2, <2>1, Zenon DEF View
    <2>. QED BY <2>2, SameView, Zenon
  <1>4. CASE w = at /\ batch[at] # NoRing
    <2> DEFINE F == FinalItems(w)
               A == Freed(w, active[w])
               B == items[w][batch[w]]
    <2>1. /\ TypeOK /\ batch'[w] = NoRing /\ final'[w] = Append(final[w], batch[w])
          /\ batch[w] \in Rings /\ batch[w] # NoRing
      BY <1>1, <1>4 DEF OwnInv, TypeOK
    <2>2. /\ items'[w] = items[w] /\ active'[w] = active[w] /\ out'[w] = out[w]
      BY <1>1
    <2>3. /\ F \in Seq(Nat) /\ A \in Seq(Nat) /\ out[w] \in Seq(Nat)
          /\ B \in Seq(Nat) /\ Freed(w, batch[w]) = B
      BY <2>1, WayParts DEF Freed
    <2>4. FinalItems(w)' = F \o B
      <3>1. /\ final[w] \in Seq(Rings) /\ Len(final[w]) \in 0 .. 1
        BY <2>1, TwoRings DEF TypeOK
      <3>2. CASE Len(final[w]) = 0
        <4>1. Len(final'[w]) = 1 /\ final'[w][1] = batch[w]
          BY <2>1, <3>1, <3>2
        <4>2. FinalItems(w)' = B
          <5>1. 1 # 0
            OBVIOUS
          <5>2. FinalItems(w)' = items'[w][final'[w][1]]
            BY <4>1, <5>1, Zenon DEF FinalItems
          <5>. QED BY <2>2, <4>1, <5>2, Zenon
        <4>3. F = <<>>
          BY <3>2, Zenon DEF FinalItems
        <4>. QED BY <2>3, <4>2, <4>3, NoItems, Zenon
      <3>3. CASE Len(final[w]) = 1
        <4>1. /\ Len(final'[w]) = 2 /\ final'[w][1] = final[w][1] /\ final'[w][2] = batch[w]
          BY <2>1, <3>1, <3>3
        <4>2. FinalItems(w)' = items[w][final[w][1]] \o B
          <5>1. 2 # 0 /\ 2 # 1
            OBVIOUS
          <5>2. FinalItems(w)' = items'[w][final'[w][1]] \o items'[w][final'[w][2]]
            BY <4>1, <5>1, Zenon DEF FinalItems
          <5>. QED BY <2>2, <4>1, <5>2, Zenon
        <4>3. F = items[w][final[w][1]]
          <5>1. 1 # 0
            OBVIOUS
          <5>. QED BY <3>3, <5>1, Zenon DEF FinalItems
        <4>. QED BY <4>2, <4>3, Zenon
      <3>. QED BY <3>1, <3>2, <3>3
    <2>5. /\ Freed(w, HeldOf(w)) = <<>> /\ Freed(w, HeldOf(w))' = <<>>
          /\ Freed(w, batch[w])' = <<>> /\ Freed(w, active[w])' = A
      BY <1>2, <2>1, <2>2, Zenon DEF Freed
    <2> HIDE DEF F, A, B
    <2>6. (F \o B) \o (<<>> \o (<<>> \o A)) = F \o (<<>> \o (B \o A))
      <3>1. Regrouped(F, B, A) /\ B \o A \in Seq(Nat)
        BY <2>3, Regroup, Typed, Zenon
      <3>2. <<>> \o (<<>> \o A) = A /\ <<>> \o (B \o A) = B \o A
        BY <2>3, <3>1, NoItems, Zenon
      <3>. QED BY <3>1, <3>2, Zenon DEF Regrouped
    <2>7. OnItsWay(w)' = OnItsWay(w)
      <3>1. OnItsWay(w)' = out[w] \o ((F \o B) \o (<<>> \o (<<>> \o A)))
        BY <2>2, <2>4, <2>5, Zenon DEF OnItsWay
      <3>2. OnItsWay(w) = out[w] \o (F \o (<<>> \o (B \o A)))
        BY <2>3, <2>5, Zenon DEF OnItsWay, F, A
      <3>. QED BY <2>6, <3>1, <3>2, Zenon
    <2>8. SparesEmpty(w)'
      BY <1>1, Zenon DEF SparesEmpty
    <2>. QED BY <1>1, <2>7, <2>8, Handed, Zenon
  <1>. QED BY <1>3, <1>4

\* The consumer drains the collected rings behind what it has, or the pool is
\* dropped and they go to the spout; no other ring has an item left.
LEMMA ConsumeAccounts ==
  ASSUME OwnInv, NEW w \in Workers, Ending(w), SparesEmpty(w), Accounted(w), Consume
  PROVE  SparesEmpty(w)' /\ Accounted(w)'
  <1> DEFINE F == FinalItems(w)
  <1>1. /\ mpc = "consume" /\ held = NoRing /\ TypeOK /\ Owns(w)
    BY DEF Consume, OwnInv, Control
  <1>2. /\ HeldOf(w) = NoRing /\ batch[w] = NoRing /\ active[w] = NoRing
    BY <1>1 DEF HeldOf, Ending, Finished, Owns
  <1>3. F \in Seq(Nat) /\ out[w] \in Seq(Nat) /\ spill[w] \in Seq(Nat)
    BY <1>1, WayParts, Zenon
  <1>4. OnItsWay(w) = out[w] \o F
    <2>1. OnItsWay(w) = out[w] \o (F \o (<<>> \o (<<>> \o <<>>)))
      BY <1>2, NothingFreed, Zenon DEF OnItsWay
    <2>2. <<>> \o (<<>> \o <<>>) = <<>> /\ F \o <<>> = F
      BY <1>3, NoItems, Zenon
    <2>. QED BY <2>1, <2>2, Zenon
  <1> HIDE DEF F
  <1>5. /\ UNCHANGED <<batch, active, fresh, failed, ran, held>>
        /\ final'[w] = <<>> /\ recycle'[w] = NoRing
        /\ items'[w] = [k \in Rings |-> <<>>]
    BY DEF Consume, workerVars
  <1>6. OnItsWay(w)' = out'[w]
    <2>1. FinalItems(w)' = <<>>
      <3>1. Len(final'[w]) = 0
        BY <1>5
      <3>. QED BY <3>1, Zenon DEF FinalItems
    <2>2. HeldOf(w)' = NoRing /\ batch'[w] = NoRing /\ active'[w] = NoRing
      BY <1>1, <1>2, <1>5, Zenon DEF HeldOf
    <2>3. /\ Freed(w, HeldOf(w))' = <<>> /\ Freed(w, batch[w])' = <<>>
          /\ Freed(w, active[w])' = <<>>
      BY <2>2, Zenon DEF Freed
    <2>4. OnItsWay(w)' = out'[w] \o (<<>> \o (<<>> \o (<<>> \o <<>>)))
      BY <2>1, <2>3, Zenon DEF OnItsWay
    <2>5. out'[w] \in Seq(Nat)
      <3>1. out'[w] = out[w] \o F \/ out'[w] = out[w]
        BY DEF Consume, F
      <3>2. out[w] \o F \in Seq(Nat)
        BY <1>3, Typed, Zenon
      <3>. QED BY <1>3, <3>1, <3>2, Zenon
    <2>6. <<>> \o (<<>> \o (<<>> \o <<>>)) = <<>> /\ out'[w] \o <<>> = out'[w]
      BY <2>5, NoItems, Zenon
    <2>. QED BY <2>4, <2>6, Zenon
  <1>7. ASSUME out'[w] = out[w] \o F, spill' = spill
        PROVE  Accounted(w)'
    <2>1. spill'[w] = spill[w] /\ failed'[w] = failed[w] /\ ran'[w] = ran[w]
      BY <1>5, <1>7
    <2>2. OnItsWay(w)' = OnItsWay(w)
      BY <1>4, <1>6, <1>7, Zenon
    <2>. QED BY <2>1, <2>2, Handed, Zenon
  <1>8. ASSUME spill'[w] = spill[w] \o F, out' = out
        PROVE  Accounted(w)'
    <2>1. F \o <<>> = F /\ out[w] \o <<>> = out[w]
      BY <1>3, NoItems, Zenon
    <2>2. Accounts(out[w] \o (F \o <<>>), spill[w], failed[w], Len(ran[w]))
      BY <1>4, <2>1, Zenon DEF Accounted
    <2>3. Accounts(out[w] \o <<>>, spill[w] \o F, failed[w], Len(ran[w]))
      BY <1>3, <2>2, NoItems, PartSpills, Zenon
    <2>4. out'[w] = out[w] /\ failed'[w] = failed[w] /\ ran'[w] = ran[w]
      BY <1>5, <1>8
    <2>5. OnItsWay(w)' = out[w] \o <<>>
      BY <1>6, <2>1, <2>4, Zenon
    <2>. QED BY <1>8, <2>3, <2>4, <2>5, Zenon DEF Accounted
  <1>9. SparesEmpty(w)'
    <2>1. fresh'[w] = NoRing
      BY <1>1, <1>5 DEF Ending, Finished, Owns
    <2>. QED BY <1>5, <2>1 DEF SparesEmpty
  <1>10. \/ out'[w] = out[w] \o F /\ spill' = spill
         \/ spill'[w] = spill[w] \o F /\ out' = out
    BY DEF Consume, F
  <1>. QED BY <1>7, <1>8, <1>9, <1>10

\* The steps of main.
LEMMA MainAccounts ==
  ASSUME OwnInv, Call \/ MainStep \/ UNCHANGED vars, NEW w \in Workers,
         Ending(w), SparesEmpty(w), Accounted(w)
  PROVE  SparesEmpty(w)' /\ Accounted(w)'
  <1>1. held = NoRing \/ mpc = "collect"
    BY DEF OwnInv, Control
  <1>2. ASSUME UNCHANGED <<out, items, final, batch, active, fresh, recycle, spill, failed,
                           ran, held>>,
               at' = at \/ held = NoRing
        PROVE  SparesEmpty(w)' /\ Accounted(w)'
    <2>1. HeldOf(w)' = HeldOf(w)
      BY <1>2, Zenon DEF HeldOf
    <2>2. UNCHANGED View(w)
      BY <1>2, <2>1, Zenon DEF View
    <2>. QED BY <2>2, SameView, Zenon
  <1>3. CASE Call \/ UNCHANGED vars
    <2>1. UNCHANGED <<out, items, final, batch, active, fresh, recycle, spill, failed, ran,
                      held, at>>
      BY <1>3 DEF Call, Dispatch, DispatchPanics, Join, Collect, Shutdown, signals, slotVars,
         workerVars, dataVars, vars, mainVars
    <2>. QED BY <1>2, <2>1, Zenon
  <1>4. CASE \/ SignalGo \/ JoinPanicked \/ JoinDone \/ ClearDone \/ CollectEmpty
             \/ SignalShutdown \/ SignalLastGo \/ JoinThread
    <2>1. UNCHANGED <<out, items, final, batch, active, fresh, recycle, spill, failed, ran,
                      held>>
      BY <1>4 DEF SignalGo, JoinPanicked, JoinDone, ClearDone, CollectEmpty, SignalShutdown,
         SignalLastGo, JoinThread, signals, slotVars, workerVars, dataVars, mainVars
    <2>2. at' = at \/ held = NoRing
      BY <1>1, <1>4 DEF SignalGo, JoinPanicked, JoinDone, ClearDone, CollectEmpty,
         SignalShutdown, SignalLastGo, JoinThread, mainVars
    <2>. QED BY <1>2, <2>1, <2>2, Zenon
  <1>5. CASE CollectSwap \/ CollectFinal \/ Consume
    BY <1>5, SwapAccounts, CollectAccounts, ConsumeAccounts, Zenon
  <1>6. ASSUME CollectSend \/ \E i \in 1 .. N : CollectFails(i)
        PROVE  SparesEmpty(w)' /\ Accounted(w)'
    <2>1. CASE w = at
      BY <1>6, <2>1, SendAccounts, FailAccounts, Zenon
    <2>2. CASE w # at
      <3>1. /\ UNCHANGED <<final, batch, active, fresh, ran>> /\ held' = NoRing
            /\ out'[w] = out[w] /\ spill'[w] = spill[w] /\ failed'[w] = failed[w]
            /\ recycle'[w] = recycle[w]
        BY <1>6, <2>2 DEF CollectSend, CollectFails, workerVars, slotVars, OwnInv, TypeOK
      <3>2. items'[w] = items[w]
        BY <1>6, <2>2 DEF CollectSend, CollectFails, Emptied, OwnInv, TypeOK
      <3>3. HeldOf(w)' = HeldOf(w)
        BY <2>2, <3>1, Zenon DEF HeldOf
      <3>4. UNCHANGED View(w)
        BY <3>1, <3>2, <3>3, Zenon DEF View
      <3>. QED BY <3>4, SameView, Zenon
    <2>. QED BY <2>1, <2>2
  <1>. QED BY <1>3, <1>4, <1>5, <1>6, Zenon DEF MainStep

-------------------------------------------------------------------------------
(* Every item is delivered, spilled or lost *)

\* The pool of start() has nothing to account for.
LEMMA DeliveryInit == Init => DeliveryInv
  <1> SUFFICES ASSUME Init
               PROVE  DeliveryInv
    OBVIOUS
  <1>1. OwnInv
    BY OwnInit
  <1>2. ASSUME NEW w \in Workers
        PROVE  Ending(w) /\ SparesEmpty(w) /\ Accounted(w)
    <2>1. /\ active[w] = 1 /\ fresh[w] = NoRing /\ batch[w] = NoRing /\ recycle[w] = 2
          /\ HeldOf(w) = NoRing /\ final[w] = <<>> /\ mpc = "idle" /\ out[w] = <<>>
          /\ items[w][1] = <<>> /\ items[w][2] = <<>> /\ 1 # NoRing
          /\ spill[w] = <<>> /\ failed[w] = {} /\ ran[w] = <<>>
      BY DEF Init, HeldOf, Rings, NoRing
    <2>2. Ending(w) /\ SparesEmpty(w)
      BY <2>1 DEF Ending, SparesEmpty
    <2>3. /\ Freed(w, HeldOf(w)) = <<>> /\ Freed(w, batch[w]) = <<>>
          /\ Freed(w, active[w]) = <<>>
      BY <2>1, Zenon DEF Freed
    <2>4. FinalItems(w) = <<>>
      <3>1. Len(final[w]) = 0
        BY <2>1
      <3>. QED BY <3>1, Zenon DEF FinalItems
    <2>5. OnItsWay(w) = <<>>
      <3>1. OnItsWay(w) = <<>> \o (<<>> \o (<<>> \o (<<>> \o <<>>)))
        BY <2>1, <2>3, <2>4, Zenon DEF OnItsWay
      <3>. QED BY <3>1, NoItems, Zenon
    <2>6. Accounts(<<>>, <<>>, {}, 0)
      <3>1. Ascending(<<>>) /\ SeqItems(<<>>) = {} /\ 1 .. 0 = {}
        BY NoItems DEF Ascending
      <3>. QED BY <3>1 DEF Accounts
    <2>7. Len(ran[w]) = 0
      BY <2>1
    <2>. QED BY <2>1, <2>2, <2>5, <2>6, <2>7, Zenon DEF Accounted
  <1>. QED BY <1>1, <1>2 DEF DeliveryInv

\* Every step keeps the accounts.
LEMMA DeliveryStep == DeliveryInv /\ [Next]_vars => DeliveryInv'
  <1> SUFFICES ASSUME DeliveryInv, [Next]_vars
               PROVE  DeliveryInv'
    OBVIOUS
  <1>1. OwnInv /\ OwnInv' /\ \A w \in Workers : Ending(w)
    BY OwnStep, Zenon DEF DeliveryInv
  <1>2. ASSUME NEW w \in Workers
        PROVE  Ending(w)' /\ SparesEmpty(w)' /\ Accounted(w)'
    <2>1. Ending(w)'
      BY <1>1, EndingStep, Zenon
    <2>2. Ending(w) /\ SparesEmpty(w) /\ Accounted(w)
      BY Zenon DEF DeliveryInv
    <2>3. CASE Call \/ MainStep \/ UNCHANGED vars
      BY <1>1, <2>1, <2>2, <2>3, MainAccounts, Zenon
    <2>4. ASSUME NEW v \in Workers, WorkerStep(v) \/ WorkPanic(v)
          PROVE  SparesEmpty(w)' /\ Accounted(w)'
      BY <1>1, <2>2, <2>4, WorkerAccounts, Zenon
    <2>. QED BY <2>1, <2>3, <2>4, Zenon DEF Next
  <1>. QED BY <1>1, <1>2, Zenon DEF DeliveryInv

\* Where an item in a ring is on its way.
Somewhere(w, k, x) ==
  \/ k = active[w] /\ x \in SeqItems(Freed(w, active[w]))
  \/ k = batch[w] /\ x \in SeqItems(Freed(w, batch[w]))
  \/ k = HeldOf(w) /\ x \in SeqItems(Freed(w, HeldOf(w)))
  \/ k = final[w][2] /\ x \in SeqItems(Collected(w, 2))
  \/ k = final[w][1] /\ x \in SeqItems(Collected(w, 1))

\* An item that is in a ring is on its way to the consumer.
LEMMA NoneAside ==
  ASSUME OwnInv, NEW w \in Workers, SparesEmpty(w), NEW k \in Rings,
         NEW x \in SeqItems(items[w][k])
  PROVE  Somewhere(w, k, x)
  <1>1. items[w][k] # <<>> /\ k # NoRing
    <2>1. items[w][k] # <<>>
      BY NoItems
    <2>. QED BY <2>1, Numbers, Zenon
  <1>2. k # fresh[w] /\ k # recycle[w]
    BY <1>1 DEF SparesEmpty
  <1>3. ~Freely(w, k)
    BY <1>1, Zenon DEF OwnInv, Owns
  <1>4. CASE k = active[w] \/ k = batch[w] \/ k = HeldOf(w)
    <2>1. Freed(w, k) = items[w][k]
      BY <1>1, Zenon DEF Freed
    <2>. QED BY <1>4, <2>1, Zenon DEF Somewhere
  <1>5. CASE \E i \in 1 .. Len(final[w]) : final[w][i] = k
    <2>1. PICK i \in 1 .. Len(final[w]) : final[w][i] = k
      BY <1>5
    <2>2. i = 1 \/ i = 2
      <3>1. Len(final[w]) \in 0 .. 2
        BY TwoRings, Zenon
      <3>. QED BY <2>1, <3>1
    <2>3. Collected(w, i) = items[w][k]
      BY <2>1, Zenon DEF Collected
    <2>. QED BY <2>1, <2>2, <2>3, Zenon DEF Somewhere
  <1>. QED BY <1>2, <1>3, <1>4, <1>5, Zenon DEF Freely

\* What the consumer has and what is in the parts of the way, one below the other.
LEMMA WayInOrder ==
  ASSUME OwnInv, NEW w \in Workers, Accounted(w)
  PROVE  LET O == SeqItems(out[w])
             C1 == SeqItems(Collected(w, 1))
             C2 == SeqItems(Collected(w, 2))
             H == SeqItems(Freed(w, HeldOf(w)))
             B == SeqItems(Freed(w, batch[w]))
             A == SeqItems(Freed(w, active[w]))
         IN  /\ Ascending(out[w])
             /\ SeqItems(OnItsWay(w)) = O \union C1 \union C2 \union H \union B \union A
             /\ O \subseteq Nat /\ C1 \subseteq Nat /\ C2 \subseteq Nat /\ H \subseteq Nat
             /\ B \subseteq Nat /\ A \subseteq Nat
             /\ Below(O, C1 \union C2 \union H \union B \union A)
             /\ Below(C1, C2 \union H \union B \union A)
             /\ Below(C2, H \union B \union A)
             /\ Below(H, B \union A)
             /\ Below(B, A)
  <1> DEFINE o == out[w]
             c1 == Collected(w, 1)
             c2 == Collected(w, 2)
             h == Freed(w, HeldOf(w))
             b == Freed(w, batch[w])
             a == Freed(w, active[w])
  <1>1. /\ o \in Seq(Nat) /\ c1 \in Seq(Nat) /\ c2 \in Seq(Nat) /\ h \in Seq(Nat)
        /\ b \in Seq(Nat) /\ a \in Seq(Nat) /\ FinalItems(w) = c1 \o c2
    BY WayParts, FinalParts, Zenon DEF OwnInv
  <1>2. OnItsWay(w) = o \o ((c1 \o c2) \o (h \o (b \o a))) /\ Ascending(OnItsWay(w))
    BY <1>1, Zenon DEF OnItsWay, Accounted, Accounts
  <1> HIDE DEF o, c1, c2, h, b, a
  <1>3. JoinedUp(b, a) /\ JoinedUp(c1, c2)
    BY <1>1, ConcatInOrder, Zenon
  <1>4. JoinedUp(h, b \o a)
    BY <1>1, <1>3, ConcatInOrder, Zenon DEF JoinedUp
  <1>5. JoinedUp(c1 \o c2, h \o (b \o a))
    BY <1>3, <1>4, ConcatInOrder, Zenon DEF JoinedUp
  <1>6. JoinedUp(o, (c1 \o c2) \o (h \o (b \o a)))
    BY <1>1, <1>5, ConcatInOrder, Zenon DEF JoinedUp
  <1> DEFINE O == SeqItems(o)
             C1 == SeqItems(c1)
             C2 == SeqItems(c2)
             H == SeqItems(h)
             B == SeqItems(b)
             A == SeqItems(a)
  <1>7. /\ SeqItems(OnItsWay(w)) = O \union ((C1 \union C2) \union (H \union (B \union A)))
        /\ Ascending(o) /\ Below(O, (C1 \union C2) \union (H \union (B \union A)))
        /\ Below(C1, C2) /\ Below(C1 \union C2, H \union (B \union A))
        /\ Below(H, B \union A) /\ Below(B, A)
    BY <1>2, <1>3, <1>4, <1>5, <1>6, Zenon DEF JoinedUp
  <1>8. /\ O \subseteq Nat /\ C1 \subseteq Nat /\ C2 \subseteq Nat /\ H \subseteq Nat
        /\ B \subseteq Nat /\ A \subseteq Nat
    BY <1>1, ItemsAreNumbers, Zenon
  <1> HIDE DEF O, C1, C2, H, B, A
  <1>9. /\ Below(O, C1 \union C2 \union H \union B \union A)
        /\ Below(C1, C2 \union H \union B \union A)
        /\ Below(C2, H \union B \union A)
    BY <1>7 DEF Below
  <1>10. SeqItems(OnItsWay(w)) = O \union C1 \union C2 \union H \union B \union A
    BY <1>7
  <1>. QED BY <1>7, <1>8, <1>9, <1>10, Zenon DEF O, C1, C2, H, B, A, o, c1, c2, h, b, a

\* What is in the rings is what is on its way and not yet with the consumer, and
\* no item is in two rings.
LEMMA RingsOnTheWay ==
  ASSUME OwnInv, NEW w \in Workers, SparesEmpty(w), Accounted(w)
  PROVE  /\ SeqItems(OnItsWay(w)) = SeqItems(out[w]) \union InRings(w)
         /\ SeqItems(out[w]) \intersect InRings(w) = {}
         /\ SeqItems(items[w][1]) \intersect SeqItems(items[w][2]) = {}
  <1> DEFINE O == SeqItems(out[w])
             C1 == SeqItems(Collected(w, 1))
             C2 == SeqItems(Collected(w, 2))
             H == SeqItems(Freed(w, HeldOf(w)))
             B == SeqItems(Freed(w, batch[w]))
             A == SeqItems(Freed(w, active[w]))
  <1>1. /\ SeqItems(OnItsWay(w)) = O \union C1 \union C2 \union H \union B \union A
        /\ O \subseteq Nat /\ C1 \subseteq Nat /\ C2 \subseteq Nat /\ H \subseteq Nat
        /\ B \subseteq Nat /\ A \subseteq Nat
        /\ Below(O, C1 \union C2 \union H \union B \union A)
        /\ Below(C1, C2 \union H \union B \union A)
        /\ Below(C2, H \union B \union A)
        /\ Below(H, B \union A)
        /\ Below(B, A)
    BY WayInOrder, Zenon
  <1>2. \A k \in Rings : \A x \in SeqItems(items[w][k]) :
          \/ k = active[w] /\ x \in A
          \/ k = batch[w] /\ x \in B
          \/ k = HeldOf(w) /\ x \in H
          \/ k = final[w][2] /\ x \in C2
          \/ k = final[w][1] /\ x \in C1
    BY NoneAside, Zenon DEF Somewhere
  <1>3. /\ A \subseteq InRings(w) /\ B \subseteq InRings(w) /\ H \subseteq InRings(w)
        /\ C1 \subseteq InRings(w) /\ C2 \subseteq InRings(w)
    <2>1. \A k \in Rings : SeqItems(items[w][k]) \subseteq InRings(w)
      BY DEF InRings
    <2>2. ASSUME NEW k \in Rings \union {NoRing}
          PROVE  SeqItems(Freed(w, k)) \subseteq InRings(w)
      <3>1. CASE k = NoRing
        BY <3>1, NothingFreed, NoItems
      <3>2. CASE k # NoRing
        <4>1. k \in Rings /\ Freed(w, k) = items[w][k]
          BY <3>2, Zenon DEF Freed
        <4>. QED BY <2>1, <4>1, Zenon
      <3>. QED BY <3>1, <3>2
    <2>3. /\ active[w] \in Rings \union {NoRing} /\ batch[w] \in Rings \union {NoRing}
          /\ HeldOf(w) \in Rings \union {NoRing}
          /\ \A i \in 1 .. Len(final[w]) : final[w][i] \in Rings
      BY DEF OwnInv, TypeOK, HeldOf
    <2>4. ASSUME NEW i
          PROVE  SeqItems(Collected(w, i)) \subseteq InRings(w)
      <3>1. CASE i \in 1 .. Len(final[w])
        BY <2>1, <2>3, <3>1, Zenon DEF Collected
      <3>2. CASE i \notin 1 .. Len(final[w])
        <4>1. Collected(w, i) = <<>>
          BY <3>2, Zenon DEF Collected
        <4>. QED BY <4>1, NoItems
      <3>. QED BY <3>1, <3>2
    <2>. QED BY <2>2, <2>3, <2>4, Zenon
  <1> HIDE DEF O, C1, C2, H, B, A
  <1>4. InRings(w) = C1 \union C2 \union H \union B \union A
    <2>1. ASSUME NEW x \in InRings(w)
          PROVE  x \in C1 \union C2 \union H \union B \union A
      <3>1. PICK k \in Rings : x \in SeqItems(items[w][k])
        BY DEF InRings
      <3>. QED BY <1>2, <3>1
    <2>. QED BY <1>3, <2>1
  <1>5. O \intersect InRings(w) = {}
    BY <1>1, <1>4 DEF Below
  <1>6. /\ C1 \intersect C2 = {} /\ C1 \intersect H = {} /\ C1 \intersect B = {}
        /\ C1 \intersect A = {} /\ C2 \intersect H = {} /\ C2 \intersect B = {}
        /\ C2 \intersect A = {} /\ H \intersect B = {} /\ H \intersect A = {}
        /\ B \intersect A = {}
    BY <1>1 DEF Below
  <1>7. ASSUME NEW x, x \in SeqItems(items[w][1]), x \in SeqItems(items[w][2])
        PROVE  FALSE
    <2>1. 1 \in Rings /\ 2 \in Rings /\ 1 # 2
      BY Numbers
    <2>2. \/ 1 = active[w] /\ x \in A
          \/ 1 = batch[w] /\ x \in B
          \/ 1 = HeldOf(w) /\ x \in H
          \/ 1 = final[w][2] /\ x \in C2
          \/ 1 = final[w][1] /\ x \in C1
      BY <1>2, <1>7, <2>1, Zenon
    <2>3. \/ 2 = active[w] /\ x \in A
          \/ 2 = batch[w] /\ x \in B
          \/ 2 = HeldOf(w) /\ x \in H
          \/ 2 = final[w][2] /\ x \in C2
          \/ 2 = final[w][1] /\ x \in C1
      BY <1>2, <1>7, <2>1, Zenon
    <2>. QED BY <1>6, <2>1, <2>2, <2>3
  <1>. QED BY <1>1, <1>4, <1>5, <1>7 DEF O

\* What the account of each worker says of delivery.
LEMMA Delivered == DeliveryInv => Delivery
  <1> SUFFICES ASSUME DeliveryInv
               PROVE  Delivery
    OBVIOUS
  <1>1. ASSUME NEW w \in Workers
        PROVE  /\ 1 .. Len(ran[w]) = InRings(w) \union SeqItems(out[w])
                                       \union SeqItems(spill[w]) \union failed[w]
               /\ InRings(w) \intersect (SeqItems(out[w]) \union SeqItems(spill[w]) \union failed[w]) = {}
               /\ SeqItems(out[w]) \intersect (SeqItems(spill[w]) \union failed[w]) = {}
               /\ SeqItems(spill[w]) \intersect failed[w] = {}
               /\ SeqItems(items[w][1]) \intersect SeqItems(items[w][2]) = {}
               /\ Ascending(out[w])
    <2>1. OwnInv /\ SparesEmpty(w) /\ Accounted(w)
      BY Zenon DEF DeliveryInv
    <2>2. /\ SeqItems(OnItsWay(w)) = SeqItems(out[w]) \union InRings(w)
          /\ SeqItems(out[w]) \intersect InRings(w) = {}
          /\ SeqItems(items[w][1]) \intersect SeqItems(items[w][2]) = {}
      BY <2>1, RingsOnTheWay, Zenon
    <2>3. Ascending(out[w])
      BY <2>1, WayInOrder, Zenon
    <2>4. /\ SeqItems(OnItsWay(w)) \union SeqItems(spill[w]) \union failed[w] = 1 .. Len(ran[w])
          /\ SeqItems(OnItsWay(w)) \intersect (SeqItems(spill[w]) \union failed[w]) = {}
          /\ SeqItems(spill[w]) \intersect failed[w] = {}
      BY <2>1, Zenon DEF Accounted, Accounts
    <2>5. /\ 1 .. Len(ran[w]) = InRings(w) \union SeqItems(out[w])
                                  \union SeqItems(spill[w]) \union failed[w]
          /\ InRings(w) \intersect (SeqItems(out[w]) \union SeqItems(spill[w]) \union failed[w]) = {}
          /\ SeqItems(out[w]) \intersect (SeqItems(spill[w]) \union failed[w]) = {}
      BY ONLY <2>2, <2>4
    <2>. QED BY <2>2, <2>3, <2>4, <2>5, Zenon
  <1>2. Conservation
    BY <1>1, Zenon DEF Conservation
  <1>3. DeliveredInOrder
    BY <1>1, Zenon DEF DeliveredInOrder
  <1>. QED BY <1>2, <1>3 DEF Delivery

\* Whatever the caller does, whoever panics and whichever send fails: an item a
\* worker pushed is in exactly one place, and the consumer has a worker's items
\* in the order they were pushed.
THEOREM DeliveryHolds == Spec => []Delivery
  <1>1. Init => DeliveryInv
    BY DeliveryInit
  <1>2. DeliveryInv /\ [Next]_vars => DeliveryInv'
    BY DeliveryStep
  <1>3. DeliveryInv => Delivery
    BY Delivered
  <1>. QED BY <1>1, <1>2, <1>3, PTL DEF Spec
===============================================================================
