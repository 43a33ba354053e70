------------------------ MODULE PebbleManager_proofs ------------------------
(***************************************************************************)
(* Theorems about PebbleManager for every set of ids, every capacity of the *)
(* tiers and every batch size, whatever evictions the strategy chooses.      *)
(***************************************************************************)
EXTENDS PebbleManager, DataFacts

-------------------------------------------------------------------------------
(* The warm tier *)

\* insert_back, one item after the other.
Taken(w, s) ==
  [k \in 0 .. Len(s) |-> w \o SubSeq(s, 1, k)]

Take(q, id) ==
  IF id \in Elements(KeptWarm(q))
    THEN SubSeq(q, 1, Overflow(q)) \o Append(Without(KeptWarm(q), {id}), id)
    ELSE Append(q, id)

\* The warm tier takes in each of a batch in turn.
TakesIn(f, w, s) ==
  f = [k \in 0 .. Len(s) |-> IF k = 0 THEN w ELSE Take(f[k - 1], s[k])]

\* What overflows and what stays are the two parts of the queue.
LEMMA OverflowIs ==
  ASSUME NEW q \in Seq(Ids)
  PROVE  /\ Overflow(q) \in 0 .. Len(q)
         /\ KeptWarm(q) \in Seq(Ids) /\ Len(KeptWarm(q)) <= WarmCapacity
         /\ Len(KeptWarm(q)) = Len(q) - Overflow(q)
         /\ Elements(q) = PassedOn(q) \union Elements(KeptWarm(q))
         /\ Distinct(q) => Distinct(KeptWarm(q)) /\ PassedOn(q) \intersect Elements(KeptWarm(q)) = {}
  <1>1. /\ Overflow(q) \in 0 .. Len(q) /\ Len(q) - Overflow(q) <= WarmCapacity
        /\ Len(q) \in Nat
    BY ManagerAssumption DEF Overflow
  <1>2. Parts(Ids, q, Overflow(q), SubSeq(q, 1, Overflow(q)), KeptWarm(q))
    BY <1>1, HalvesHave, Zenon DEF KeptWarm
  <1>. QED BY <1>1, <1>2 DEF PassedOn, Parts, HoldsBoth

\* An item that is not there is appended.
LEMMA TakeIs ==
  ASSUME NEW q \in Seq(Ids), NEW id \in Ids, id \notin Elements(q)
  PROVE  Take(q, id) = Append(q, id)
  BY OverflowIs DEF Take

\* Items that are new to the warm tier are queued behind those it has.
LEMMA TakenInIs ==
  ASSUME NEW w \in Seq(Ids), NEW s \in Seq(Ids), Distinct(s),
         Elements(w) \intersect Elements(s) = {}
  PROVE  TakenIn(w, s) = w \o s
  <1> DEFINE n == Len(s)
             g == Taken(w, s)
  <1>1. n \in Nat /\ DOMAIN s = 1 .. n /\ g[0] = w /\ g[n] = w \o s
    BY DEF Taken
  <1>2. ASSUME NEW k \in 1 .. n
        PROVE  g[k] = Take(g[k - 1], s[k])
    <2> DEFINE a == SubSeq(s, 1, k - 1)
               b == SubSeq(s, k - 1 + 1, Len(s))
    <2>1. k - 1 \in 0 .. n /\ k - 1 + 1 = k /\ k \in 0 .. n /\ s[k] \in Ids
      BY <1>1
    <2>2. /\ a \in Seq(Ids) /\ b \in Seq(Ids)
          /\ Elements(s) = Elements(a) \union Elements(b)
          /\ Elements(a) \intersect Elements(b) = {}
      <3> HIDE DEF n
      <3>1. k - 1 \in 0 .. Len(s)
        BY <2>1 DEF n
      <3>2. Parts(Ids, s, k - 1, a, b)
        BY <3>1, HalvesHave, Zenon
      <3> HIDE DEF a, b
      <3>. QED BY <3>2 DEF Parts, HoldsBoth
    <2>3. s[k] \in Elements(b)
      <3>1. Len(b) \in Nat /\ 1 \in DOMAIN b /\ b[1] = s[k]
        BY <1>1
      <3>. QED BY <3>1 DEF Elements
    <2>4. SubSeq(s, 1, k) = Append(a, s[k])
      BY <1>1
    <2> HIDE DEF a, b
    <2>5. w \o a \in Seq(Ids) /\ Elements(w \o a) = Elements(w) \union Elements(a)
      BY <2>2, ConcatHas DEF HoldsBoth
    <2>6. s[k] \notin Elements(w \o a)
      BY <2>2, <2>3, <2>5
    <2>7. Take(w \o a, s[k]) = Append(w \o a, s[k])
      BY <2>1, <2>5, <2>6, TakeIs
    <2>8. Append(w \o a, s[k]) = w \o Append(a, s[k])
      <3>1. Behind(w, a, s[k])
        BY <2>1, <2>2, AppendConcat, Zenon
      <3>. QED BY <3>1 DEF Behind
    <2>9. g[k - 1] = w \o a /\ g[k] = w \o Append(a, s[k])
      BY <2>1, <2>4 DEF Taken, a
    <2>. QED BY <2>7, <2>8, <2>9, Zenon
  <1> HIDE DEF g
  <1>3. TakesIn(g, w, s)
    <2>1. g = [k \in 0 .. n |-> g[k]]
      BY DEF g, Taken
    <2>2. \A k \in 0 .. n : g[k] = IF k = 0 THEN w ELSE Take(g[k - 1], s[k])
      BY <1>1, <1>2
    <2>. QED BY <2>1, <2>2, Zenon DEF TakesIn
  <1> DEFINE h == CHOOSE f : TakesIn(f, w, s)
  <1>4. TakesIn(h, w, s)
    BY <1>3, Zenon
  <1>5. TakenIn(w, s) = h[n]
    BY Zenon DEF TakenIn, TakesIn, Take
  <1> HIDE DEF h
  <1>6. h[0] = w /\ \A k \in 1 .. n : h[k] = Take(h[k - 1], s[k])
    <2>1. \A k \in 0 .. n : h[k] = IF k = 0 THEN w ELSE Take(h[k - 1], s[k])
      BY <1>4, Zenon DEF TakesIn
    <2>. QED BY <1>1, <2>1
  <1> DEFINE S == {k \in Nat : k <= n => h[k] = g[k]}
  <1>7. 0 \in S
    BY <1>1, <1>6
  <1>8. ASSUME NEW k \in Nat, k \in S
        PROVE  k + 1 \in S
    <2>1. CASE k + 1 <= n
      <3>1. k + 1 \in 1 .. n /\ k <= n /\ k + 1 - 1 = k
        BY <1>1, <2>1
      <3>2. h[k] = g[k]
        BY <1>8, <3>1
      <3>3. h[k + 1] = g[k + 1]
        BY <1>2, <1>6, <3>1, <3>2
      <3>. QED BY <3>3
    <2>. QED BY <2>1
  <1>9. n \in S
    <2> HIDE DEF S
    <2>. QED BY <1>1, <1>7, <1>8, Induction, Zenon
  <1>10. h[n] = g[n]
    BY <1>1, <1>9
  <1>. QED BY <1>1, <1>5, <1>10

-------------------------------------------------------------------------------
(* What holds in every reachable state *)

\* creation_time: the nodes are in a list without duplicates, dependencies first.
OrderShape ==
  /\ order \in Seq(Ids) /\ Distinct(order)
  /\ deps \in [Ids -> SUBSET Nodes]
  /\ derived \in SUBSET Nodes
  /\ \A id \in Nodes : \A p \in deps[id] : Precedes(order, p, id)

\* The tiers are apart and hold nodes.
TierShape ==
  /\ red \in SUBSET Nodes /\ blue \in SUBSET Nodes
  /\ warm \in Seq(Ids) /\ Distinct(warm) /\ Elements(warm) \subseteq Nodes
  /\ Len(warm) <= WarmCapacity
  /\ red \intersect blue = {}
  /\ Elements(warm) \intersect (red \union blue) = {}
  /\ dirty \in SUBSET Ids /\ tombstoned \in SUBSET Ids /\ gone \in SUBSET Ids

\* The hot tier has outgrown its capacity only by a resize that an eviction cut short.
HotShape ==
  /\ capacity \in Capacities
  /\ failures = 0 => HotFits
  /\ \E c \in Capacities : Cardinality(red) <= c

\* Contents are the numbers of adds that were made.
ContentShape ==
  /\ adds \in [Ids -> 0 .. MaxAdds]
  /\ val \in [Ids -> 0 .. MaxAdds]
  /\ store \in [Ids -> [ver : 0 .. MaxAdds, deps : SUBSET Ids]]
  /\ \A id \in Ids : val[id] <= adds[id] /\ store[id].ver <= adds[id]
  /\ \A id \in Nodes : val[id] # 0
  /\ \A id \in tombstoned : adds[id] # 0

OtherShape ==
  /\ state \in {"open", "resizing", "closing", "closed", "dropped", "crashed"}
  /\ logged \in [Ids -> {"none", "stored", "tombstone"}]
  /\ drained \in [Ids -> {"none", "stored", "tombstone"}]
  /\ failures \in 0 .. MaxFailures
  /\ stops \in 0 .. MaxStops

ManagerInv == OrderShape /\ TierShape /\ HotShape /\ ContentShape /\ OtherShape

-------------------------------------------------------------------------------
(* Evictions *)

\* Every capacity a manager can have holds a checkpoint.
LEMMA CapacitiesAre == Capacities \subseteq Nat \ {0}
  <1>1. {n \in 1 .. Cardinality(Ids) : n * n <= Cardinality(Ids)} \subseteq 1 .. Cardinality(Ids)
    OBVIOUS
  <1>2. 1 .. Cardinality(Ids) \subseteq Nat \ {0}
    BY FS_CardinalityType, ManagerAssumption
  <1>. QED BY <1>1, <1>2, ManagerAssumption DEF Capacities

\* Types that every proof about the tiers needs.
LEMMA Facts ==
  ASSUME ManagerInv
  PROVE  /\ IsFiniteSet(Ids) /\ Nodes \subseteq Ids
         /\ red \in SUBSET Ids /\ IsFiniteSet(red) /\ Cardinality(red) \in Nat
         /\ capacity \in Nat \ {0} /\ BatchSize \in Nat \ {0}
         /\ WarmCapacity \in Nat
  <1>1. IsFiniteSet(Ids) /\ WarmCapacity \in Nat
    BY ManagerAssumption
  <1>2. Nodes \subseteq Ids
    BY DEF ManagerInv, OrderShape, Nodes, Elements
  <1>3. red \in SUBSET Ids
    BY <1>2 DEF ManagerInv, TierShape
  <1>4. IsFiniteSet(red) /\ Cardinality(red) \in Nat
    BY <1>1, <1>3, FS_Subset, FS_CardinalityType
  <1>5. capacity \in Nat \ {0}
    BY ManagerAssumption DEF ManagerInv, HotShape, Capacities
  <1>6. capacity \div Divisor \in Int
    BY <1>5, ManagerAssumption
  <1>7. BatchSize \in Nat \ {0}
    BY <1>6 DEF BatchSize
  <1>. QED BY <1>1, <1>2, <1>3, <1>4, <1>5, <1>7

\* A batch is a list of candidates without duplicates.
LEMMA BatchIs ==
  ASSUME red \in SUBSET Ids, NEW count \in Nat, NEW s \in Batches(count)
  PROVE  /\ s \in Seq(Ids) /\ Distinct(s) /\ Elements(s) \subseteq red
         /\ Len(s) \in Nat /\ Elements(s) \subseteq Candidates
  <1> DEFINE k == Least(count, Cardinality(Candidates))
  <1>1. Candidates \in SUBSET red /\ IsFiniteSet(Candidates) /\ Cardinality(Candidates) \in Nat
    <2>1. Candidates \in SUBSET red
      BY DEF Candidates
    <2>. QED BY <2>1, ManagerAssumption, FS_Subset, FS_CardinalityType
  <1>2. k \in Nat
    BY <1>1 DEF Least
  <1>3. s \in [1 .. k -> Candidates] /\ Cardinality(Elements(s)) = k
    BY Zenon DEF Batches
  <1> HIDE DEF k
  <1>4. s \in Seq(Ids) /\ Len(s) = k
    <2>1. Candidates \subseteq Ids
      BY <1>1
    <2>. QED BY <1>2, <1>3, <2>1
  <1>5. Distinct(s)
    BY <1>3, <1>4, DistinctCount
  <1>6. Elements(s) \subseteq Candidates
    <2>1. \A i \in DOMAIN s : s[i] \in Candidates
      BY <1>3
    <2>. QED BY <2>1 DEF Elements
  <1>. QED BY <1>1, <1>2, <1>4, <1>5, <1>6

\* The hot node that was created last has no dependent in the hot tier.
LEMMA CandidateExists ==
  ASSUME OrderShape, red \intersect Nodes # {}, \A c \in red \ Nodes : deps[c] = {}
  PROVE  Candidates # {}
  <1> DEFINE A == {i \in DOMAIN order : order[i] \in red}
  <1>1. Len(order) \in Nat /\ DOMAIN order = 1 .. Len(order)
    BY DEF OrderShape
  <1>2. A \in SUBSET (1 .. Len(order)) /\ A # {}
    BY <1>1 DEF Nodes, Elements
  <1>3. PICK i \in A : \A j \in A : j <= i
    BY <1>1, <1>2, LastPosition
  <1>4. i \in DOMAIN order /\ order[i] \in red /\ order[i] \in Nodes
    BY <1>3 DEF Nodes, Elements
  <1>5. ASSUME NEW c \in red, order[i] \in deps[c]
        PROVE  FALSE
    <2>1. c \in Nodes
      BY <1>5
    <2>2. Precedes(order, order[i], c)
      BY <1>5, <2>1 DEF OrderShape
    <2>3. PICK a \in DOMAIN order, b \in DOMAIN order :
            a < b /\ order[a] = order[i] /\ order[b] = c
      BY <2>2 DEF Precedes
    <2>4. a = i
      BY <1>4, <2>3 DEF OrderShape, Distinct
    <2>5. b \in A /\ b <= i
      BY <1>3, <2>3
    <2>. QED BY <1>1, <1>4, <2>3, <2>4, <2>5
  <1>. QED BY <1>4, <1>5 DEF Candidates

\* There is something to evict where there are candidates.
LEMMA EvictionsFound ==
  ASSUME red \in SUBSET Ids, BatchSize \in Nat \ {0}, Candidates # {}
  PROVE  Evictions # {}
  <1>1. CASE ~(Cardinality(red) >= capacity)
    BY <1>1 DEF Evictions
  <1>2. CASE Cardinality(red) >= capacity
    <2> DEFINE k == Least(BatchSize, Cardinality(Candidates))
    <2>1. IsFiniteSet(Candidates)
      BY ManagerAssumption, FS_Subset DEF Candidates
    <2>2. /\ Cardinality(Candidates) \in Nat \ {0}
          /\ ExistsBijection(1 .. Cardinality(Candidates), Candidates)
      BY <2>1, FS_CardinalityType, FS_EmptySet
    <2>3. k \in 1 .. Cardinality(Candidates)
      BY <2>2 DEF Least
    <2>4. PICK f \in [1 .. Cardinality(Candidates) -> Candidates] :
            \A i, j \in 1 .. Cardinality(Candidates) : f[i] = f[j] => i = j
      BY <2>2 DEF ExistsBijection, Bijection, Injection, IsInjective
    <2> DEFINE s == [i \in 1 .. k |-> f[i]]
    <2> HIDE DEF k
    <2>5. s \in [1 .. k -> Candidates] /\ \A i, j \in 1 .. k : s[i] = s[j] => i = j
      BY <2>2, <2>3, <2>4
    <2>6. s \in Seq(Candidates) /\ Len(s) = k /\ Distinct(s) /\ s # <<>>
      BY <2>3, <2>5 DEF Distinct
    <2> HIDE DEF s
    <2>7. Cardinality(Elements(s)) = k
      BY <2>6, DistinctCount
    <2>8. s \in Batches(BatchSize)
      BY <2>5, <2>7, Zenon DEF Batches, k
    <2>. QED BY <1>2, <2>6, <2>8 DEF Evictions
  <1>. QED BY <1>1, <1>2

\* There is always something to evict, where that is called for.
LEMMA EvictionsExist ==
  ASSUME ManagerInv
  PROVE  Evictions # {}
  <1>1. CASE ~(Cardinality(red) >= capacity)
    BY <1>1 DEF Evictions
  <1>2. CASE Cardinality(red) >= capacity
    <2>1. red # {}
      BY <1>2, Facts, FS_EmptySet
    <2>2. red \in SUBSET Nodes /\ OrderShape
      BY DEF ManagerInv, TierShape
    <2>3. Candidates # {}
      BY <2>1, <2>2, CandidateExists
    <2>. QED BY <2>3, Facts, EvictionsFound
  <1>. QED BY <1>1, <1>2

\* One batch of evictions before `enter` joins the hot tier, with the cold tier
\* `cold` and the warm tier w: V leave the hot tier, P reach storage.  A write that
\* fails may cost a manager without a warm tier the checkpoint that is lost.
TurnsOver(cold, w, enter, fresh, V, P, lost, over) ==
  /\ V \in SUBSET red /\ P \in SUBSET (Elements(w) \union V)
  /\ lost \in SUBSET V /\ over \in SUBSET Ids
  /\ red' = (red \ V) \union enter
  /\ warm' \in Seq(Ids) /\ Distinct(warm') /\ Len(warm') <= WarmCapacity
  /\ Elements(warm') = ((Elements(w) \union V) \ P) \ lost
  /\ blue' = cold \union P
  /\ dirty' = (dirty \ P) \union fresh
  /\ store' = Stored(P)
  /\ logged' = Logged(P, over) /\ over \intersect P = {}
  /\ UNCHANGED <<drained, tombstoned>>
  /\ enter # {} => V # {} \/ Cardinality(red) < capacity
  /\ \/ failures' = failures /\ lost = {} /\ over = {}
     \/ /\ failures < MaxFailures /\ failures' = failures + 1
        /\ WarmCapacity # 0 => lost = {}
Turnover(cold, w, enter, fresh) ==
  \E V, P, lost, over : TurnsOver(cold, w, enter, fresh, V, P, lost, over)

\* Moving the first item of a queue to its end keeps the items.
LEMMA RotateHas ==
  ASSUME NEW q \in Seq(Ids), q # <<>>
  PROVE  /\ Head(q) \in Elements(q)
         /\ Append(Tail(q), Head(q)) \in Seq(Ids)
         /\ Len(Append(Tail(q), Head(q))) = Len(q)
         /\ Elements(Append(Tail(q), Head(q))) = Elements(q)
         /\ Distinct(q) => Distinct(Append(Tail(q), Head(q)))
  <1> DEFINE a == SubSeq(q, 1, 1)
             b == SubSeq(q, 2, Len(q))
  <1>1. Len(q) \in Nat \ {0} /\ Head(q) = q[1] /\ 1 \in DOMAIN q /\ Head(q) \in Ids
    OBVIOUS
  <1>2. Parts(Ids, q, 1, a, b)
    <2>1. 1 \in 0 .. Len(q) /\ 1 + 1 = 2
      BY <1>1
    <2>2. Parts(Ids, q, 1, SubSeq(q, 1, 1), SubSeq(q, 1 + 1, Len(q)))
      BY <2>1, HalvesHave, Zenon
    <2>. QED BY <2>1, <2>2, Zenon
  <1>3. /\ a \in Seq(Ids) /\ b \in Seq(Ids) /\ Len(a) = 1 /\ Len(b) = Len(q) - 1
        /\ Elements(q) = Elements(a) \union Elements(b)
        /\ Distinct(q) => Distinct(a) /\ Distinct(b) /\ Elements(a) \intersect Elements(b) = {}
    <2> HIDE DEF a, b
    <2>. QED BY <1>2 DEF Parts, HoldsBoth
  <1>4. b = Tail(q) /\ Tail(q) \in Seq(Ids)
    BY <1>1
  <1>5. Elements(a) = {Head(q)}
    <2>1. DOMAIN a = {1} /\ a[1] = Head(q)
      BY <1>1
    <2>. QED BY <2>1 DEF Elements
  <1> HIDE DEF a, b
  <1>6. /\ Append(b, Head(q)) \in Seq(Ids)
        /\ Elements(Append(b, Head(q))) = Elements(b) \union {Head(q)}
        /\ Distinct(Append(b, Head(q))) <=> Distinct(b) /\ Head(q) \notin Elements(b)
    BY <1>1, <1>3, AppendHas
  <1>7. Len(Append(b, Head(q))) = Len(b) + 1
    BY <1>1, <1>3
  <1>. QED BY <1>1, <1>3, <1>4, <1>5, <1>6, <1>7

\* What a list of victims does to the warm tier, and to what it passes on.
LEMMA QueueIs ==
  ASSUME NEW w \in Seq(Ids), Distinct(w), NEW s \in Seq(Ids), Distinct(s),
         Elements(w) \intersect Elements(s) = {}
  PROVE  LET q == TakenIn(w, s)
         IN  /\ q \in Seq(Ids) /\ Distinct(q)
             /\ KeptWarm(q) \in Seq(Ids) /\ Distinct(KeptWarm(q)) /\ Len(KeptWarm(q)) <= WarmCapacity
             /\ Elements(q) = Elements(w) \union Elements(s)
             /\ PassedOn(q) \union Elements(KeptWarm(q)) = Elements(w) \union Elements(s)
             /\ PassedOn(q) \intersect Elements(KeptWarm(q)) = {}
  <1> DEFINE q == TakenIn(w, s)
  <1>1. q = w \o s
    BY TakenInIs
  <1>2. w \o s \in Seq(Ids) /\ HoldsBoth(w \o s, w, s)
    BY ConcatHas, Zenon
  <1>3. q \in Seq(Ids) /\ HoldsBoth(q, w, s)
    BY <1>1, <1>2, Zenon
  <1> HIDE DEF q
  <1>4. Elements(q) = Elements(w) \union Elements(s) /\ Distinct(q)
    BY <1>3 DEF HoldsBoth
  <1>. QED BY <1>3, <1>4, OverflowIs DEF q

\* Every victim leaves the hot tier, and the warm tier passes on what overflows.
LEMMA EvictAllIs ==
  ASSUME ManagerInv, NEW w \in Seq(Ids), Distinct(w), Elements(w) \subseteq Elements(warm),
         NEW s \in Seq(Ids), Distinct(s), Elements(s) \subseteq red,
         NEW cold, NEW enter, NEW fresh, enter # {} => s # <<>> \/ Cardinality(red) < capacity,
         EvictAll(red, cold, w, s, enter, fresh)
  PROVE  Turnover(cold, w, enter, fresh) /\ failures' = failures
  <1> DEFINE q == TakenIn(w, s)
             P == PassedOn(q)
             V == Elements(s)
  <1>1. Elements(w) \intersect V = {}
    BY DEF ManagerInv, TierShape
  <1>2. /\ KeptWarm(q) \in Seq(Ids) /\ Distinct(KeptWarm(q)) /\ Len(KeptWarm(q)) <= WarmCapacity
        /\ P \union Elements(KeptWarm(q)) = Elements(w) \union V
        /\ P \intersect Elements(KeptWarm(q)) = {}
    BY <1>1, QueueIs
  <1>3. /\ red' = (red \ V) \union enter
        /\ warm' = KeptWarm(q)
        /\ blue' = cold \union P
        /\ dirty' = (dirty \ P) \union fresh
        /\ store' = Stored(P)
        /\ logged' = Logged(P, {})
        /\ UNCHANGED <<drained, tombstoned, failures>>
    BY Zenon DEF EvictAll
  <1>4. V \in SUBSET red /\ (s # <<>> => V # {})
    BY NoneHas
  <1> HIDE DEF q, P, V
  <1>5. P \in SUBSET (Elements(w) \union V)
    BY <1>2
  <1>6. Elements(warm') = ((Elements(w) \union V) \ P) \ {}
    BY <1>2, <1>3
  <1>7. enter # {} => V # {} \/ Cardinality(red) < capacity
    BY <1>4
  <1>8. {} \in SUBSET V /\ {} \intersect P = {} /\ {} \in SUBSET Ids
    OBVIOUS
  <1>. QED BY <1>2, <1>3, <1>4, <1>5, <1>6, <1>7, <1>8, Zenon DEF Turnover, TurnsOver

\* A write that fails is undone: the overflow is back in the warm tier and the
\* victim in the hot one, or no tier has it where there is no warm tier.
LEMMA EvictFailsIs ==
  ASSUME ManagerInv, NEW w \in Seq(Ids), Distinct(w), Elements(w) \subseteq Elements(warm),
         NEW s \in Seq(Ids), Distinct(s), Elements(s) \subseteq red,
         NEW n \in 0 .. Len(s) - 1, EvictFails(red, w, s, n)
  PROVE  Turnover(blue, w, {}, {}) /\ failures' # 0
  <1> DEFINE a      == SubSeq(s, 1, n)
             b      == SubSeq(s, n + 1, Len(s))
             q      == TakenIn(w, a)
             P      == PassedOn(q)
             full   == KeptWarm(q)
             victim == s[n + 1]
             over   == IF WarmCapacity = 0 THEN victim ELSE Head(full)
  <1>1. n \in 0 .. Len(s) /\ Len(s) \in Nat /\ n + 1 \in DOMAIN s /\ n \in Nat
    OBVIOUS
  <1>2. /\ a \in Seq(Ids) /\ b \in Seq(Ids) /\ Len(a) = n
        /\ Elements(s) = Elements(a) \union Elements(b)
        /\ Distinct(a) /\ Elements(a) \intersect Elements(b) = {}
    <2>1. Parts(Ids, s, n, a, b)
      BY <1>1, HalvesHave, Zenon
    <2> HIDE DEF a, b
    <2>. QED BY <2>1 DEF Parts, HoldsBoth
  <1>3. victim \in Elements(b)
    <2>1. Len(b) \in Nat /\ 1 \in DOMAIN b /\ b[1] = s[n + 1]
      BY <1>1
    <2>. QED BY <2>1 DEF Elements
  <1>4. SubSeq(s, 1, n + 1) = Append(a, victim) /\ victim \in Ids
    BY <1>1
  <1> HIDE DEF a, b
  <1>5. /\ failures < MaxFailures /\ failures' = failures + 1
        /\ Len(full) = WarmCapacity
        /\ red' = IF WarmCapacity = 0 THEN red \ Elements(SubSeq(s, 1, n + 1))
                                      ELSE red \ Elements(a)
        /\ warm' = IF WarmCapacity = 0 THEN <<>> ELSE Append(Tail(full), over)
        /\ blue' = blue \union P
        /\ dirty' = dirty \ P
        /\ store' = Stored(P)
        /\ logged' = Logged(P, {over})
        /\ UNCHANGED <<drained, tombstoned>>
    BY DEF EvictFails, a
  <1> HIDE DEF victim, q
  <1>6. Elements(SubSeq(s, 1, n + 1)) = Elements(a) \union {victim}
    <2>1. Elements(Append(a, victim)) = Elements(a) \union {victim}
      <3>1. a \in Seq(Ids) /\ victim \in Ids
        BY <1>2, <1>4
      <3>. QED BY <3>1, AppendHas, Zenon
    <2>. QED BY <1>4, <2>1, Zenon
  <1>7. /\ Elements(w) \intersect Elements(a) = {}
        /\ Elements(a) \subseteq red /\ victim \in red
        /\ victim \notin Elements(w) \union Elements(a)
    BY <1>2, <1>3 DEF ManagerInv, TierShape
  <1>8. /\ full \in Seq(Ids) /\ Distinct(full) /\ Len(full) <= WarmCapacity
        /\ P \union Elements(full) = Elements(w) \union Elements(a)
        /\ P \intersect Elements(full) = {}
    BY <1>2, <1>7, QueueIs DEF q
  <1>9. WarmCapacity \in Nat /\ failures \in Nat /\ failures' # 0
    BY <1>5, Facts DEF ManagerInv, OtherShape
  <1> HIDE DEF P, full, over
  <1>10. {} \in SUBSET Elements(a) /\ dirty' = (dirty \ P) \union {}
    BY <1>5
  <1>11. CASE WarmCapacity # 0
    <2>1. full # <<>> /\ over = Head(full)
      BY <1>5, <1>9, <1>11 DEF over
    <2>2. /\ over \in Elements(full)
          /\ warm' \in Seq(Ids) /\ Len(warm') = Len(full)
          /\ Elements(warm') = Elements(full) /\ Distinct(warm')
      BY <1>5, <1>8, <1>11, <2>1, RotateHas
    <2>3. /\ Len(warm') <= WarmCapacity
          /\ Elements(warm') = ((Elements(w) \union Elements(a)) \ P) \ {}
          /\ {over} \intersect P = {} /\ {over} \in SUBSET Ids
          /\ P \in SUBSET (Elements(w) \union Elements(a))
          /\ Elements(a) \in SUBSET red
          /\ red' = (red \ Elements(a)) \union {}
      BY <1>5, <1>7, <1>8, <1>11, <2>2
    <2>. QED BY <1>5, <1>9, <1>10, <2>2, <2>3, Zenon DEF Turnover, TurnsOver
  <1>12. CASE WarmCapacity = 0
    <2>1. full = <<>> /\ over = victim
      BY <1>5, <1>8, <1>12 DEF over
    <2>2. P = Elements(w) \union Elements(a)
      BY <1>8, <2>1, NoneHas
    <2> DEFINE V == Elements(a) \union {victim}
    <2>3. warm' \in Seq(Ids) /\ Distinct(warm') /\ Len(warm') <= WarmCapacity /\ Elements(warm') = {}
      BY <1>5, <1>12, NoneHas
    <2>4. /\ Elements(warm') = ((Elements(w) \union V) \ P) \ {victim}
          /\ {over} \intersect P = {} /\ {over} \in SUBSET Ids
          /\ P \in SUBSET (Elements(w) \union V) /\ {victim} \in SUBSET V
          /\ V \in SUBSET red
          /\ red' = (red \ V) \union {}
      BY <1>4, <1>5, <1>6, <1>7, <1>12, <2>1, <2>2, <2>3
    <2> HIDE DEF V
    <2>5. {} \in SUBSET Ids /\ (({} # {}) => V # {} \/ Cardinality(red) < capacity)
      OBVIOUS
    <2> SUFFICES TurnsOver(blue, w, {}, {}, V, P, {victim}, {over})
      BY <1>9, Zenon DEF Turnover
    <2>. QED BY <1>5, <1>9, <1>10, <1>12, <2>3, <2>4, Zenon DEF TurnsOver
  <1>. QED BY <1>9, <1>11, <1>12

\* The warm tier without a checkpoint is still one.
LEMMA WithoutHas ==
  ASSUME NEW w \in Seq(Ids), Distinct(w), NEW S
  PROVE  /\ Without(w, S) \in Seq(Ids) /\ Distinct(Without(w, S))
         /\ Elements(Without(w, S)) = Elements(w) \ S
         /\ Len(Without(w, S)) <= Len(w)
  <1>1. /\ Without(w, S) \in Seq(Ids) /\ Distinct(Without(w, S))
        /\ Elements(Without(w, S)) = Elements(w) \intersect (Elements(w) \ S)
    BY OnlyHas DEF Without
  <1>2. /\ Cardinality(Elements(w)) = Len(w) /\ IsFiniteSet(Elements(w))
        /\ Cardinality(Elements(Without(w, S))) = Len(Without(w, S))
    BY <1>1, DistinctCount
  <1>3. Elements(Without(w, S)) = Elements(w) \ S
    BY <1>1
  <1>4. Elements(Without(w, S)) \in SUBSET Elements(w)
    BY <1>3
  <1>5. Cardinality(Elements(Without(w, S))) <= Cardinality(Elements(w))
    BY <1>2, <1>4, FS_Subset
  <1>. QED BY <1>1, <1>2, <1>3, <1>5

\* The evictions an operation makes to have room.
LEMMA EvictionIs ==
  ASSUME ManagerInv, NEW w \in Seq(Ids), Distinct(w), Elements(w) \subseteq Elements(warm),
         NEW s \in Evictions, NEW cold, NEW enter, NEW fresh,
         EvictAll(red, cold, w, s, enter, fresh)
  PROVE  Turnover(cold, w, enter, fresh) /\ failures' = failures
  <1>1. CASE Cardinality(red) >= capacity
    <2>1. s \in Batches(BatchSize) /\ s # <<>>
      BY <1>1 DEF Evictions
    <2>2. s \in Seq(Ids) /\ Distinct(s) /\ Elements(s) \subseteq red
      BY <2>1, Facts, BatchIs
    <2>. QED BY <2>1, <2>2, EvictAllIs
  <1>2. CASE ~(Cardinality(red) >= capacity)
    <2>1. s = <<>>
      BY <1>2 DEF Evictions
    <2>2. s \in Seq(Ids) /\ Distinct(s) /\ Elements(s) \subseteq red
      BY <2>1, NoneHas
    <2>3. Cardinality(red) < capacity
      BY <1>2, Facts
    <2>. QED BY <2>2, <2>3, EvictAllIs
  <1>. QED BY <1>1, <1>2

\* An eviction fails because a write does.
LEMMA EvictionFailsIs ==
  ASSUME ManagerInv, NEW w \in Seq(Ids), Distinct(w), Elements(w) \subseteq Elements(warm),
         EvictionFails(w)
  PROVE  Turnover(blue, w, {}, {}) /\ failures' # 0
  <1>1. PICK s \in Evictions : \E n \in 0 .. Len(s) - 1 : EvictFails(red, w, s, n)
    BY EvictionsExist DEF EvictionFails
  <1>2. PICK n \in 0 .. Len(s) - 1 : EvictFails(red, w, s, n)
    BY <1>1
  <1>3. s # <<>>
    BY <1>2
  <1>4. s \in Batches(BatchSize)
    BY <1>1, <1>3 DEF Evictions
  <1>5. s \in Seq(Ids) /\ Distinct(s) /\ Elements(s) \subseteq red
    BY <1>4, Facts, BatchIs
  <1>. QED BY <1>2, <1>5, EvictFailsIs

-------------------------------------------------------------------------------
(* The operations that bring a checkpoint into the hot tier, or evict           *)

\* At most one checkpoint enters the hot tier: a fresh one, which is new, or one
\* that left the warm or the cold tier; `out` may have left the warm tier for good.
Rearranged(out) ==
  \E w, cold, enter, fresh :
    /\ w \in Seq(Ids) /\ cold \in SUBSET blue
    /\ enter \in SUBSET Nodes' /\ fresh \in SUBSET enter
    /\ Distinct(w) /\ Elements(w) \subseteq Elements(warm) /\ Len(w) <= WarmCapacity
    /\ Elements(warm) \ Elements(w) \subseteq enter \union out
    /\ blue \ cold \subseteq enter
    /\ \A id \in fresh : id \notin Nodes
    /\ \A id \in enter \ fresh : id \in (Elements(warm) \ Elements(w)) \union (blue \ cold)
    /\ \E id : enter \subseteq {id}
    /\ Turnover(cold, w, enter, fresh)

\* The tiers stay apart.
LEMMA RearrangedTiers ==
  ASSUME ManagerInv, NEW out, Rearranged(out), Nodes \subseteq Nodes', Nodes' \subseteq Ids,
         gone' \in SUBSET Ids
  PROVE  TierShape'
  <1>1. PICK w, cold, enter, fresh :
          /\ w \in Seq(Ids) /\ cold \in SUBSET blue
          /\ enter \in SUBSET Nodes' /\ fresh \in SUBSET enter
          /\ Elements(w) \subseteq Elements(warm)
          /\ \A id \in fresh : id \notin Nodes
          /\ \A id \in enter \ fresh : id \in (Elements(warm) \ Elements(w)) \union (blue \ cold)
          /\ Turnover(cold, w, enter, fresh)
    BY Zenon DEF Rearranged
  <1>2. PICK V, P, lost, over :
          /\ V \in SUBSET red /\ P \in SUBSET (Elements(w) \union V) /\ lost \in SUBSET V
          /\ red' = (red \ V) \union enter
          /\ warm' \in Seq(Ids) /\ Distinct(warm') /\ Len(warm') <= WarmCapacity
          /\ Elements(warm') = ((Elements(w) \union V) \ P) \ lost
          /\ blue' = cold \union P
          /\ dirty' = (dirty \ P) \union fresh
          /\ tombstoned' = tombstoned
    BY <1>1, Zenon DEF Turnover, TurnsOver
  <1>3. /\ red \in SUBSET Nodes /\ blue \in SUBSET Nodes /\ Elements(warm) \subseteq Nodes
        /\ red \intersect blue = {} /\ Elements(warm) \intersect (red \union blue) = {}
        /\ dirty \in SUBSET Ids /\ tombstoned \in SUBSET Ids
    BY DEF ManagerInv, TierShape
  <1> DEFINE W == Elements(warm)
             W1 == Elements(warm')
             A == Elements(w)
  <1>4. W1 = Elements(warm)'
    BY DEF Elements
  <1> HIDE DEF W, W1, A
  <1>5. /\ W \intersect (red \union blue) = {} /\ W \subseteq Nodes
        /\ A \subseteq W /\ P \in SUBSET (A \union V)
        /\ W1 = ((A \union V) \ P) \ lost
        /\ \A id \in enter \ fresh : id \in (W \ A) \union (blue \ cold)
    BY <1>1, <1>2, <1>3 DEF W, W1, A
  <1>6. enter \intersect (red \union A \union cold) = {}
    BY <1>1, <1>3, <1>5
  <1>7. red' \in SUBSET Nodes' /\ blue' \in SUBSET Nodes' /\ W1 \subseteq Nodes'
    BY <1>1, <1>2, <1>3, <1>5
  <1>8. red' \intersect blue' = {} /\ W1 \intersect (red' \union blue') = {}
    BY <1>1, <1>2, <1>3, <1>5, <1>6
  <1>9. dirty' \in SUBSET Ids /\ tombstoned' \in SUBSET Ids
    BY <1>1, <1>2, <1>3
  <1>. QED BY <1>2, <1>4, <1>7, <1>8, <1>9 DEF TierShape

\* The hot tier does not grow beyond its capacity.
LEMMA RearrangedHot ==
  ASSUME ManagerInv, NEW out, Rearranged(out)
  PROVE  /\ Cardinality(red') \in Nat
         /\ Cardinality(red') <= Cardinality(red) \/ Cardinality(red') <= capacity
  <1>1. PICK w, cold, enter, fresh :
          /\ w \in Seq(Ids) /\ cold \in SUBSET blue
          /\ enter \in SUBSET Nodes' /\ fresh \in SUBSET enter
          /\ \E id : enter \subseteq {id}
          /\ Turnover(cold, w, enter, fresh)
    BY Zenon DEF Rearranged
  <1>2. PICK V, P, lost, over :
          /\ V \in SUBSET red
          /\ red' = (red \ V) \union enter
          /\ enter # {} => V # {} \/ Cardinality(red) < capacity
    BY <1>1, Zenon DEF Turnover, TurnsOver
  <1>3. PICK id : enter \subseteq {id}
    BY <1>1
  <1>4. red' \subseteq (red \ V) \union {id} /\ (enter = {} => red' \subseteq red)
    BY <1>2, <1>3
  <1>5. IsFiniteSet(red) /\ Cardinality(red) \in Nat /\ capacity \in Nat
    BY Facts
  <1>6. /\ IsFiniteSet(red \ V) /\ Cardinality(red \ V) \in Nat
        /\ Cardinality(red \ V) <= Cardinality(red)
        /\ V # {} => Cardinality(red \ V) < Cardinality(red)
    <2>1. red \ V \in SUBSET red
      OBVIOUS
    <2>2. /\ IsFiniteSet(red \ V) /\ Cardinality(red \ V) <= Cardinality(red)
          /\ Cardinality(red) = Cardinality(red \ V) => red = red \ V
      BY <1>5, <2>1, FS_Subset
    <2>3. Cardinality(red \ V) \in Nat
      BY <2>2, FS_CardinalityType
    <2>4. V # {} => red # red \ V
      BY <1>2
    <2>. QED BY <1>5, <2>2, <2>3, <2>4
  <1>7. /\ IsFiniteSet((red \ V) \union {id})
        /\ Cardinality((red \ V) \union {id}) <= Cardinality(red \ V) + 1
        /\ Cardinality((red \ V) \union {id}) \in Nat
    <2>1. /\ IsFiniteSet((red \ V) \union {id})
          /\ Cardinality((red \ V) \union {id}) =
               IF id \in red \ V THEN Cardinality(red \ V) ELSE Cardinality(red \ V) + 1
      BY <1>6, FS_AddElement
    <2>. QED BY <1>6, <2>1
  <1>8. /\ Cardinality(red') \in Nat
        /\ Cardinality(red') <= Cardinality((red \ V) \union {id})
        /\ enter = {} => Cardinality(red') <= Cardinality(red)
    <2>1. red' \in SUBSET ((red \ V) \union {id}) /\ (enter = {} => red' \in SUBSET red)
      BY <1>4
    <2>. QED BY <1>5, <1>7, <2>1, FS_Subset, FS_CardinalityType
  <1>9. CASE enter # {}
    BY <1>2, <1>5, <1>6, <1>7, <1>8, <1>9
  <1>. QED BY <1>8, <1>9

\* Copies of nodes are written to storage with the contents they have.
LEMMA ContentKept ==
  ASSUME ManagerInv, NEW P \in SUBSET Nodes, store' = Stored(P),
         adds' \in [Ids -> 0 .. MaxAdds], \A id \in Ids : adds[id] <= adds'[id],
         val' \in [Ids -> 0 .. MaxAdds], \A id \in Ids : val'[id] <= adds'[id],
         \A id \in Nodes' : val'[id] # 0,
         \A id \in tombstoned' : id \in Ids /\ adds'[id] # 0
  PROVE  ContentShape'
  <1>1. P \subseteq Ids
    BY Facts
  <1>2. ASSUME NEW id \in Ids
        PROVE  /\ store'[id] \in [ver : 0 .. MaxAdds, deps : SUBSET Ids]
               /\ store'[id].ver <= adds'[id]
    <2>1. /\ adds[id] \in Nat /\ adds'[id] \in Nat /\ adds[id] <= adds'[id]
          /\ store[id] \in [ver : 0 .. MaxAdds, deps : SUBSET Ids]
          /\ store[id].ver \in Nat /\ store[id].ver <= adds[id]
          /\ val[id] \in 0 .. MaxAdds /\ val[id] <= adds[id]
      BY DEF ManagerInv, ContentShape
    <2>2. deps[id] \in SUBSET Ids
      BY Facts DEF ManagerInv, OrderShape
    <2>3. store'[id] = IF id \in P THEN [ver |-> val[id], deps |-> deps[id]] ELSE store[id]
      BY DEF Stored
    <2>4. CASE id \in P
      <3>1. store'[id] = [ver |-> val[id], deps |-> deps[id]]
        BY <2>3, <2>4
      <3>. QED BY <2>1, <2>2, <3>1
    <2>5. CASE id \notin P
      <3>1. store'[id] = store[id]
        BY <2>3, <2>5
      <3>. QED BY <2>1, <3>1
    <2>. QED BY <2>4, <2>5
  <1>3. store' \in [Ids -> [ver : 0 .. MaxAdds, deps : SUBSET Ids]]
    BY <1>2 DEF Stored
  <1>4. \A id \in tombstoned' : adds'[id] # 0
    OBVIOUS
  <1>. QED BY <1>2, <1>3, <1>4 DEF ContentShape

\* Entries written to the manifest.
LEMMA LogKept ==
  ASSUME ManagerInv, NEW P, NEW over, logged' = Logged(P, over)
  PROVE  logged' \in [Ids -> {"none", "stored", "tombstone"}]
  BY DEF ManagerInv, OtherShape, Logged

\* What such an operation does to the DAG: at most a node joins it.
DagGrows ==
  /\ OrderShape' /\ Nodes \subseteq Nodes' /\ gone' \in SUBSET Ids
  /\ \A id \in Nodes : val'[id] = val[id] /\ deps'[id] = deps[id]
  /\ \A id \in Nodes' \ Nodes : adds[id] < MaxAdds
  /\ adds' \in [Ids -> 0 .. MaxAdds] /\ \A id \in Ids : adds[id] <= adds'[id]
  /\ val' \in [Ids -> 0 .. MaxAdds] /\ \A id \in Ids : val'[id] <= adds'[id]
  /\ \A id \in Nodes' : val'[id] # 0

Rearranges(out) ==
  /\ Rearranged(out)
  /\ DagGrows
  /\ UNCHANGED <<capacity, stops>>
  /\ state \in {"open", "resizing"} /\ state' \in {"open", "resizing"}
  /\ failures' = 0 /\ state' = "open" => state = "open" \/ Cardinality(red') <= capacity

\* The invariant survives an operation that rearranges the tiers.
LEMMA RearrangedKeeps ==
  ASSUME ManagerInv, NEW out, Rearranges(out)
  PROVE  ManagerInv'
  <1>0. /\ Rearranged(out)
        /\ OrderShape' /\ Nodes \subseteq Nodes' /\ gone' \in SUBSET Ids
        /\ adds' \in [Ids -> 0 .. MaxAdds] /\ \A id \in Ids : adds[id] <= adds'[id]
        /\ val' \in [Ids -> 0 .. MaxAdds] /\ \A id \in Ids : val'[id] <= adds'[id]
        /\ \A id \in Nodes' : val'[id] # 0
        /\ UNCHANGED <<capacity, stops>>
        /\ state \in {"open", "resizing"} /\ state' \in {"open", "resizing"}
        /\ failures' = 0 /\ state' = "open" => state = "open" \/ Cardinality(red') <= capacity
    BY Zenon DEF Rearranges, DagGrows
  <1>1. PICK w, cold, enter, fresh :
          /\ w \in Seq(Ids) /\ cold \in SUBSET blue
          /\ enter \in SUBSET Nodes' /\ fresh \in SUBSET enter
          /\ Elements(w) \subseteq Elements(warm)
          /\ Turnover(cold, w, enter, fresh)
    BY <1>0, Zenon DEF Rearranged
  <1>2. PICK V, P, lost, over :
          /\ V \in SUBSET red /\ P \in SUBSET (Elements(w) \union V)
          /\ store' = Stored(P)
          /\ logged' = Logged(P, over)
          /\ drained' = drained /\ tombstoned' = tombstoned
          /\ \/ failures' = failures
             \/ failures < MaxFailures /\ failures' = failures + 1
    BY <1>1, Zenon DEF Turnover, TurnsOver
  <1>3. Nodes' \subseteq Ids
    BY <1>0 DEF OrderShape, Nodes, Elements
  <1>4. TierShape'
    BY <1>0, <1>3, RearrangedTiers
  <1>5. P \in SUBSET Nodes
    BY <1>1, <1>2 DEF ManagerInv, TierShape
  <1>6. ContentShape'
    <2>1. \A id \in tombstoned' : id \in Ids /\ adds'[id] # 0
      <3>1. ASSUME NEW id \in tombstoned
            PROVE  id \in Ids /\ adds'[id] # 0
        <4>1. id \in Ids /\ adds[id] # 0 /\ adds[id] \in Nat /\ adds'[id] \in Nat
          BY <1>0 DEF ManagerInv, ContentShape, TierShape
        <4>. QED BY <1>0, <4>1
      <3>. QED BY <1>2, <3>1
    <2>. QED BY <1>0, <1>2, <1>5, <2>1, ContentKept
  <1>7. /\ failures' \in 0 .. MaxFailures /\ (failures' = 0 => failures = 0)
        /\ stops' \in 0 .. MaxStops
    BY <1>0, <1>2, ManagerAssumption DEF ManagerInv, OtherShape
  <1>8. OtherShape'
    <2>1. logged' \in [Ids -> {"none", "stored", "tombstone"}]
      BY <1>2, LogKept
    <2>2. drained' \in [Ids -> {"none", "stored", "tombstone"}]
      BY <1>2 DEF ManagerInv, OtherShape
    <2>. QED BY <1>0, <1>7, <2>1, <2>2 DEF OtherShape
  <1>9. HotShape'
    <2>1. /\ Cardinality(red') \in Nat
          /\ Cardinality(red') <= Cardinality(red) \/ Cardinality(red') <= capacity
          /\ Cardinality(red) \in Nat /\ capacity \in Nat
      BY <1>0, RearrangedHot, Facts
    <2>2. capacity \in Capacities /\ Capacities' = Capacities /\ Capacities \subseteq Nat
      BY <1>0, CapacitiesAre DEF ManagerInv, HotShape, Capacities
    <2>3. PICK c \in Capacities : Cardinality(red) <= c
      BY DEF ManagerInv, HotShape
    <2>4. Cardinality(red') <= c \/ Cardinality(red') <= capacity
      BY <2>1, <2>2, <2>3
    <2>5. \E d \in Capacities : Cardinality(red') <= d
      BY <2>2, <2>4
    <2>6. failures' = 0 /\ state' = "open" => Cardinality(red') <= capacity
      BY <1>0, <1>7, <2>1 DEF ManagerInv, HotShape, HotFits
    <2>. QED BY <1>0, <2>2, <2>5, <2>6 DEF HotShape, HotFits
  <1>. QED BY <1>0, <1>4, <1>6, <1>8, <1>9 DEF ManagerInv

\* A node that is new is the latest; its dependencies are nodes.
LEMMA OrderGrows ==
  ASSUME OrderShape, NEW id \in Ids, NEW ds \in SUBSET Ids, AddNode(id, ds)
  PROVE  /\ OrderShape' /\ Nodes' = Nodes \union {id} /\ id \notin Nodes /\ ds \subseteq Nodes
         /\ deps'[id] = ds /\ \A x \in Ids \ {id} : deps'[x] = deps[x]
         /\ \A x \in Nodes : Precedes(order', x, id)
         /\ \A x, y : Precedes(order, x, y) => Precedes(order', x, y)
  <1>1. /\ id \notin Nodes /\ ds \subseteq Nodes
        /\ order' = Append(order, id)
        /\ deps' = [deps EXCEPT ![id] = ds]
        /\ derived' = IF ds = {} THEN derived ELSE derived \union {id}
    BY Zenon DEF AddNode
  <1>2. /\ order \in Seq(Ids) /\ Distinct(order)
        /\ deps \in [Ids -> SUBSET Nodes] /\ derived \in SUBSET Nodes
        /\ \A x \in Nodes : \A p \in deps[x] : Precedes(order, p, x)
        /\ Nodes \subseteq Ids
    BY DEF OrderShape, Nodes, Elements
  <1>3. /\ order' \in Seq(Ids) /\ Elements(order') = Nodes \union {id} /\ Distinct(order')
        /\ \A x \in Nodes : Precedes(order', x, id)
        /\ \A x, y : Precedes(order, x, y) => Precedes(order', x, y)
    BY <1>1, <1>2, AppendHas DEF Nodes
  <1>4. Nodes' = Nodes \union {id}
    BY <1>3 DEF Nodes, Elements
  <1>5. deps' \in [Ids -> SUBSET Nodes'] /\ derived' \in SUBSET Nodes'
    BY <1>1, <1>2, <1>4
  <1>6. deps'[id] = ds /\ \A x \in Ids \ {id} : deps'[x] = deps[x]
    BY <1>1, <1>2
  <1>7. \A x \in Nodes' : \A p \in deps'[x] : Precedes(order', p, x)
    BY <1>1, <1>2, <1>3, <1>4, <1>6
  <1>8. OrderShape'
    BY <1>3, <1>5, <1>7 DEF OrderShape
  <1>. QED BY <1>1, <1>3, <1>4, <1>6, <1>8

\* An add that registers its node.
LEMMA NodeAdded ==
  ASSUME ManagerInv, NEW id \in Ids, NEW ds \in SUBSET Ids, Counted(id), AddNode(id, ds)
  PROVE  DagGrows /\ Nodes' = Nodes \union {id} /\ id \notin Nodes /\ state = "open"
  <1>1. /\ state = "open"
        /\ val' = [val EXCEPT ![id] = adds[id] + 1]
        /\ gone' = gone \ {id}
        /\ adds[id] < MaxAdds
        /\ adds' = [adds EXCEPT ![id] = @ + 1]
    BY Zenon DEF Counted, AddNode
  <1>2. /\ OrderShape' /\ Nodes' = Nodes \union {id} /\ id \notin Nodes /\ Nodes \subseteq Ids
        /\ \A x \in Ids \ {id} : deps'[x] = deps[x]
    BY OrderGrows, Facts DEF ManagerInv
  <1>3. \A x \in Nodes : val'[x] = val[x] /\ deps'[x] = deps[x]
    BY <1>1, <1>2 DEF ManagerInv, ContentShape
  <1>4. /\ adds' \in [Ids -> 0 .. MaxAdds] /\ val' \in [Ids -> 0 .. MaxAdds]
        /\ \A x \in Ids : adds[x] <= adds'[x]
        /\ \A x \in Ids : val'[x] <= adds'[x]
    BY <1>1, ManagerAssumption DEF ManagerInv, ContentShape
  <1>5. \A x \in Nodes' : val'[x] # 0
    BY <1>1, <1>2, <1>3 DEF ManagerInv, ContentShape
  <1>6. gone' \in SUBSET Ids
    BY <1>1 DEF ManagerInv, TierShape
  <1>7. Nodes \subseteq Nodes' /\ \A x \in Nodes' \ Nodes : adds[x] < MaxAdds
    BY <1>1, <1>2
  <1>. QED BY <1>1, <1>2, <1>3, <1>4, <1>5, <1>6, <1>7 DEF DagGrows

\* The DAG as it was.
LEMMA DagStays ==
  ASSUME ManagerInv, UNCHANGED <<dag, gone, adds>>
  PROVE  DagGrows /\ Nodes' = Nodes
  <1>1. /\ order' = order /\ deps' = deps /\ derived' = derived /\ val' = val /\ gone' = gone
    BY DEF dag
  <1>2. Nodes' = Nodes /\ OrderShape'
    BY <1>1 DEF Nodes, OrderShape, ManagerInv
  <1>3. /\ adds \in [Ids -> 0 .. MaxAdds] /\ val \in [Ids -> 0 .. MaxAdds]
        /\ \A x \in Ids : val[x] <= adds[x]
        /\ \A x \in Nodes : val[x] # 0
        /\ gone \in SUBSET Ids
    BY DEF ManagerInv, ContentShape, TierShape
  <1>4. adds' \in [Ids -> 0 .. MaxAdds] /\ \A x \in Ids : adds[x] <= adds'[x]
    BY <1>3
  <1>5. \A x \in Ids : val[x] <= adds'[x]
    <2>1. ASSUME NEW x \in Ids
          PROVE  val[x] <= adds'[x]
      <3>1. val[x] \in Nat /\ adds[x] \in Nat /\ adds'[x] \in Nat /\ val[x] <= adds[x] /\ adds[x] <= adds'[x]
        BY <1>3, <1>4
      <3>. QED BY <3>1
    <2>. QED BY <2>1
  <1>. QED BY <1>1, <1>2, <1>3, <1>4, <1>5 DEF DagGrows

\* What is left of the warm tier when a checkpoint is taken out, or none.
WarmBut(w, out) ==
  /\ w \in Seq(Ids) /\ Distinct(w) /\ Len(w) <= WarmCapacity
  /\ Elements(w) = Elements(warm) \ out

\* The warm tier itself, and what Without leaves of it.
LEMMA WarmButIs ==
  ASSUME ManagerInv
  PROVE  /\ WarmBut(warm, {})
         /\ \A id : WarmBut(Without(warm, {id}), {id})
  <1>1. /\ warm \in Seq(Ids) /\ Distinct(warm) /\ Len(warm) <= WarmCapacity /\ WarmCapacity \in Nat
    BY Facts DEF ManagerInv, TierShape
  <1>2. ASSUME NEW id
        PROVE  WarmBut(Without(warm, {id}), {id})
    <2>1. /\ Without(warm, {id}) \in Seq(Ids) /\ Distinct(Without(warm, {id}))
          /\ Elements(Without(warm, {id})) = Elements(warm) \ {id}
          /\ Len(Without(warm, {id})) <= Len(warm)
      BY <1>1, WithoutHas
    <2>2. Len(Without(warm, {id})) <= WarmCapacity
      BY <1>1, <2>1
    <2>. QED BY <2>1, <2>2 DEF WarmBut
  <1>. QED BY <1>1, <1>2 DEF WarmBut

\* The tiers as an eviction leaves them that nothing enters after.
LEMMA OnlyEvicts ==
  ASSUME ManagerInv, NEW out, NEW w, WarmBut(w, out), Turnover(blue, w, {}, {})
  PROVE  Rearranged(out)
  <1>1. /\ Elements(w) \subseteq Elements(warm)
        /\ Elements(warm) \ Elements(w) \subseteq {} \union out
        /\ blue \in SUBSET blue /\ blue \ blue \subseteq {} /\ {} \in SUBSET Nodes' /\ {} \in SUBSET {}
        /\ \A id \in {} : id \notin Nodes
        /\ \A id \in {} \ {} : id \in (Elements(warm) \ Elements(w)) \union (blue \ blue)
        /\ \E id : {} \subseteq {id}
    BY DEF WarmBut
  <1>2. w \in Seq(Ids) /\ Distinct(w) /\ Len(w) <= WarmCapacity
    BY DEF WarmBut
  <1>. QED BY <1>1, <1>2, Zenon DEF Rearranged

\* The tiers as they are when a checkpoint has entered the hot one.
LEMMA OneEnters ==
  ASSUME ManagerInv, NEW w, NEW id \in Nodes', NEW cold, NEW fresh \in SUBSET {id},
         \/ fresh = {id} /\ id \notin Nodes /\ WarmBut(w, {}) /\ cold = blue
         \/ fresh = {} /\ WarmBut(w, {id}) /\ cold = blue /\ id \in Elements(warm)
         \/ fresh = {} /\ WarmBut(w, {}) /\ cold = blue \ {id} /\ id \in blue,
         Turnover(cold, w, {id}, fresh)
  PROVE  Rearranged({})
  <1>1. /\ w \in Seq(Ids) /\ Distinct(w) /\ Len(w) <= WarmCapacity
        /\ Elements(w) = Elements(warm) \/ Elements(w) = Elements(warm) \ {id}
    BY DEF WarmBut
  <1>2. /\ cold \in SUBSET blue /\ {id} \in SUBSET Nodes'
        /\ Elements(w) \subseteq Elements(warm)
        /\ Elements(warm) \ Elements(w) \subseteq {id} \union {}
        /\ blue \ cold \subseteq {id}
        /\ \A x \in fresh : x \notin Nodes
        /\ \A x \in {id} \ fresh : x \in (Elements(warm) \ Elements(w)) \union (blue \ cold)
        /\ \E x : {id} \subseteq {x}
    BY <1>1 DEF WarmBut
  <1>. QED BY <1>1, <1>2, Zenon DEF Rearranged

\* add(), insert() and add_ref(): the node joins the DAG and enters the hot tier.
LEMMA AddIs ==
  ASSUME ManagerInv, NEW id \in Ids, NEW ds \in SUBSET Ids, Add(id, ds)
  PROVE  Rearranges({})
  <1>1. Counted(id) /\ AddNode(id, ds) /\ UNCHANGED <<state, capacity, stops>>
    BY DEF Add
  <1>2. PICK s \in Evictions : EvictAll(red, blue, warm, s, {id}, {id})
    BY DEF Add
  <1>3. DagGrows /\ id \in Nodes' /\ id \notin Nodes /\ state = "open"
    BY <1>1, NodeAdded
  <1>4. WarmBut(warm, {})
    BY WarmButIs
  <1>5. Turnover(blue, warm, {id}, {id})
    BY <1>2, <1>4, EvictionIs DEF WarmBut
  <1>6. Rearranged({})
    BY <1>3, <1>4, <1>5, OneEnters
  <1>. QED BY <1>1, <1>3, <1>6 DEF Rearranges

\* add() whose eviction fails: the node joins the DAG and no tier.
LEMMA AddFailsIs ==
  ASSUME ManagerInv, NEW id \in Ids, NEW ds \in SUBSET Ids, AddFails(id, ds)
  PROVE  Rearranges({})
  <1>1. Counted(id) /\ AddNode(id, ds) /\ EvictionFails(warm) /\ UNCHANGED <<state, capacity, stops>>
    BY DEF AddFails
  <1>2. DagGrows /\ state = "open"
    BY <1>1, NodeAdded
  <1>3. WarmBut(warm, {})
    BY WarmButIs
  <1>4. Turnover(blue, warm, {}, {})
    BY <1>1, <1>3, EvictionFailsIs DEF WarmBut
  <1>5. Rearranged({})
    BY <1>3, <1>4, OnlyEvicts
  <1>. QED BY <1>1, <1>2, <1>5 DEF Rearranges

\* insert() that is refused: the DAG stays, the evictions stand.
LEMMA InsertFailsIs ==
  ASSUME ManagerInv, InsertFails
  PROVE  Rearranges({})
  <1>1. UNCHANGED <<state, capacity, dag, gone, adds, stops>> /\ state = "open"
    BY DEF InsertFails
  <1>2. DagGrows
    BY <1>1, DagStays
  <1>3. WarmBut(warm, {})
    BY WarmButIs
  <1>4. Turnover(blue, warm, {}, {})
    <2>1. CASE EvictionFails(warm)
      BY <1>3, <2>1, EvictionFailsIs DEF WarmBut
    <2>2. CASE \E s \in Evictions : EvictAll(red, blue, warm, s, {}, {})
      BY <1>3, <2>2, EvictionIs DEF WarmBut
    <2>. QED BY <2>1, <2>2 DEF InsertFails
  <1>5. Rearranged({})
    BY <1>3, <1>4, OnlyEvicts
  <1>. QED BY <1>1, <1>2, <1>5 DEF Rearranges

\* load() of a warm checkpoint: it is taken out before the eviction.
LEMMA LoadWarmIs ==
  ASSUME ManagerInv, NEW id \in Ids, LoadWarm(id)
  PROVE  Rearranges({})
  <1>1. /\ UNCHANGED <<state, capacity, dag, gone, adds, stops>> /\ state = "open"
        /\ id \in Elements(warm)
    BY DEF LoadWarm
  <1>2. PICK s \in Evictions : EvictAll(red, blue, Without(warm, {id}), s, {id}, {})
    BY DEF LoadWarm
  <1>3. DagGrows /\ id \in Nodes'
    BY <1>1, DagStays DEF ManagerInv, TierShape
  <1>4. WarmBut(Without(warm, {id}), {id})
    BY WarmButIs
  <1>5. Turnover(blue, Without(warm, {id}), {id}, {})
    BY <1>2, <1>4, EvictionIs DEF WarmBut
  <1>6. Rearranged({})
    BY <1>1, <1>3, <1>4, <1>5, OneEnters
  <1>. QED BY <1>1, <1>3, <1>6 DEF Rearranges

\* load() of a warm checkpoint whose eviction fails: it is in no tier any more.
LEMMA LoadWarmFailsIs ==
  ASSUME ManagerInv, NEW id \in Ids, LoadWarmFails(id)
  PROVE  Rearranges({id})
  <1>1. /\ UNCHANGED <<state, capacity, dag, gone, adds, stops>> /\ state = "open"
        /\ EvictionFails(Without(warm, {id}))
    BY DEF LoadWarmFails
  <1>2. DagGrows
    BY <1>1, DagStays
  <1>3. WarmBut(Without(warm, {id}), {id})
    BY WarmButIs
  <1>4. Turnover(blue, Without(warm, {id}), {}, {})
    BY <1>1, <1>3, EvictionFailsIs DEF WarmBut
  <1>5. Rearranged({id})
    BY <1>3, <1>4, OnlyEvicts
  <1>. QED BY <1>1, <1>2, <1>5 DEF Rearranges

\* load() of a cold checkpoint, with an eviction that succeeds or fails.
LEMMA LoadColdIs ==
  ASSUME ManagerInv, NEW id \in Ids, LoadCold(id)
  PROVE  Rearranges({})
  <1>1. /\ UNCHANGED <<state, capacity, dag, gone, adds, stops>> /\ state = "open"
        /\ id \in blue
    BY DEF LoadCold
  <1>2. DagGrows /\ id \in Nodes'
    BY <1>1, DagStays DEF ManagerInv, TierShape
  <1>3. WarmBut(warm, {})
    BY WarmButIs
  <1>4. CASE \E s \in Evictions : EvictAll(red, blue \ {id}, warm, s, {id}, {})
    <2>1. PICK s \in Evictions : EvictAll(red, blue \ {id}, warm, s, {id}, {})
      BY <1>4
    <2>2. Turnover(blue \ {id}, warm, {id}, {})
      BY <1>3, <2>1, EvictionIs DEF WarmBut
    <2>3. \/ {} = {} /\ WarmBut(warm, {}) /\ blue \ {id} = blue \ {id} /\ id \in blue
      BY <1>1, <1>3
    <2>4. {} \in SUBSET {id}
      OBVIOUS
    <2>5. Rearranged({})
      BY <1>2, <2>2, <2>3, <2>4, OneEnters, Zenon
    <2>. QED BY <1>1, <1>2, <2>5 DEF Rearranges
  <1>5. CASE EvictionFails(warm)
    <2>1. Turnover(blue, warm, {}, {})
      BY <1>3, <1>5, EvictionFailsIs DEF WarmBut
    <2>2. Rearranged({})
      BY <1>3, <2>1, OnlyEvicts
    <2>. QED BY <1>1, <1>2, <2>2 DEF Rearranges
  <1>. QED BY <1>4, <1>5 DEF LoadCold

-------------------------------------------------------------------------------
(* Compressing and resizing *)

\* isqrt.
LEMMA RootIs ==
  \A n \in Nat : /\ Root(n) \in 0 .. n
                 /\ Root(n) * Root(n) <= n
  <1> DEFINE IsRoot(r, n) == r \in 0 .. n /\ r * r <= n /\ n < (r + 1) * (r + 1)
             S == {n \in Nat : \E r \in Nat : IsRoot(r, n)}
  <1>1. 0 \in S
    <2>1. IsRoot(0, 0)
      OBVIOUS
    <2>. QED BY <2>1
  <1>2. ASSUME NEW n \in Nat, n \in S
        PROVE  n + 1 \in S
    <2>1. PICK r \in Nat : IsRoot(r, n)
      BY <1>2
    <2>2. CASE n + 1 < (r + 1) * (r + 1)
      <3>1. IsRoot(r, n + 1)
        BY <2>1, <2>2
      <3>. QED BY <3>1
    <2>3. CASE ~(n + 1 < (r + 1) * (r + 1))
      <3>1. (r + 1) * (r + 1) = n + 1
        BY <2>1, <2>3
      <3>2. (r + 2) * (r + 2) = (r + 1) * (r + 1) + 2 * r + 3
        OBVIOUS
      <3>3. r + 1 \in 0 .. n + 1 /\ r + 1 \in Nat /\ n + 1 \in Nat
        BY <2>1
      <3>4. (r + 1 + 1) * (r + 1 + 1) = (r + 2) * (r + 2)
        OBVIOUS
      <3>5. n + 1 < (r + 1 + 1) * (r + 1 + 1)
        BY <3>1, <3>2, <3>4
      <3>6. (r + 1) * (r + 1) <= n + 1
        BY <3>1
      <3>7. IsRoot(r + 1, n + 1)
        BY <3>3, <3>5, <3>6, Zenon
      <3>. QED BY <3>3, <3>7, Zenon
    <2>. QED BY <2>2, <2>3
  <1>3. \A n \in Nat : n \in S
    <2> HIDE DEF S
    <2>. QED BY <1>1, <1>2, Induction, Zenon
  <1>4. ASSUME NEW n \in Nat
        PROVE  Root(n) \in 0 .. n /\ Root(n) * Root(n) <= n
    <2>1. \E r \in 0 .. n : r * r <= n /\ n < (r + 1) * (r + 1)
      BY <1>3, <1>4
    <2>2. /\ Root(n) \in 0 .. n
          /\ Root(n) * Root(n) <= n /\ n < (Root(n) + 1) * (Root(n) + 1)
      BY <2>1, Zenon DEF Root
    <2>. QED BY <2>2
  <1>. QED BY <1>4

\* The tiers hold no more than there are ids.
LEMMA TotalIs ==
  ASSUME ManagerInv
  PROVE  Total \in Nat /\ Total <= Cardinality(Ids) /\ Cardinality(Ids) \in Nat \ {0}
  <1>1. /\ red \in SUBSET Ids /\ blue \in SUBSET Ids /\ Elements(warm) \in SUBSET Ids
        /\ red \intersect blue = {} /\ (red \union blue) \intersect Elements(warm) = {}
        /\ warm \in Seq(Ids) /\ Distinct(warm)
    BY Facts DEF ManagerInv, TierShape
  <1>2. IsFiniteSet(Ids) /\ Ids # {}
    BY ManagerAssumption
  <1>3. Cardinality(Ids) \in Nat \ {0}
    BY <1>2, FS_CardinalityType, FS_EmptySet
  <1>4. IsFiniteSet(red) /\ IsFiniteSet(blue)
    BY <1>1, <1>2, FS_Subset
  <1>5. IsFiniteSet(Elements(warm)) /\ Cardinality(Elements(warm)) = Len(warm)
    BY <1>1, DistinctCount
  <1>6. /\ IsFiniteSet(red \union blue)
        /\ Cardinality(red \union blue) = Cardinality(red) + Cardinality(blue)
    <2>1. /\ IsFiniteSet(red \union blue)
          /\ Cardinality(red \union blue) =
               Cardinality(red) + Cardinality(blue) - Cardinality(red \intersect blue)
      BY <1>4, FS_Union
    <2>2. Cardinality(red \intersect blue) = 0
      BY <1>1, FS_EmptySet
    <2>. QED BY <1>4, <2>1, <2>2, FS_CardinalityType
  <1>7. /\ IsFiniteSet((red \union blue) \union Elements(warm))
        /\ Cardinality((red \union blue) \union Elements(warm)) =
             Cardinality(red) + Cardinality(blue) + Len(warm)
    <2>1. /\ IsFiniteSet((red \union blue) \union Elements(warm))
          /\ Cardinality((red \union blue) \union Elements(warm)) =
               Cardinality(red \union blue) + Cardinality(Elements(warm))
                 - Cardinality((red \union blue) \intersect Elements(warm))
      BY <1>5, <1>6, FS_Union
    <2>2. Cardinality((red \union blue) \intersect Elements(warm)) = 0
      BY <1>1, FS_EmptySet
    <2>. QED BY <1>4, <1>5, <1>6, <2>1, <2>2, FS_CardinalityType
  <1>8. (red \union blue) \union Elements(warm) \in SUBSET Ids
    BY <1>1
  <1>9. /\ Cardinality((red \union blue) \union Elements(warm)) <= Cardinality(Ids)
        /\ Cardinality((red \union blue) \union Elements(warm)) \in Nat
    BY <1>2, <1>7, <1>8, FS_Subset, FS_CardinalityType
  <1>. QED BY <1>3, <1>7, <1>9 DEF Total

\* resize_optimal asks for a capacity that a manager of so many checkpoints can have.
LEMMA OptimalIs ==
  ASSUME ManagerInv
  PROVE  Optimal \in Capacities
  <1> DEFINE c == Cardinality(Ids)
             r == Root(Total)
  <1>1. Total \in Nat /\ Total <= c /\ c \in Nat \ {0}
    BY TotalIs
  <1>2. r \in 0 .. Total /\ r * r <= Total
    BY <1>1, RootIs
  <1>3. Optimal = IF r > 1 THEN r ELSE 1
    BY DEF Optimal
  <1>4. 1 * 1 = 1
    OBVIOUS
  <1> HIDE DEF c, r
  <1>5. Optimal \in 1 .. c /\ Optimal * Optimal <= c
    <2>1. CASE r > 1
      <3>1. Optimal = r /\ r \in 1 .. c
        BY <1>1, <1>2, <1>3, <2>1
      <3>2. r * r <= c
        BY <1>1, <1>2, <3>1
      <3>. QED BY <3>1, <3>2
    <2>2. CASE ~(r > 1)
      BY <1>1, <1>3, <2>2
    <2>. QED BY <2>1, <2>2
  <1>. QED BY <1>5 DEF Capacities, c

\* compress(): a batch is evicted as far as the writes succeed.
LEMMA CompressIs ==
  ASSUME ManagerInv, Compress
  PROVE  Rearranges({})
  <1> DEFINE count == Cardinality(red) - Root(Total)
  <1>1. count \in Nat
    <2>1. Root(Total) \in 0 .. Total /\ Total \in Nat
      BY TotalIs, RootIs
    <2>2. Root(Total) \in Int
      BY <2>1
    <2>3. count \in Int
      BY <2>2, Facts
    <2>4. count > 0
      BY DEF Compress
    <2>. QED BY <2>3, <2>4
  <1>2. UNCHANGED <<state, capacity, dag, gone, adds, stops>> /\ state = "open"
    BY DEF Compress
  <1>3. PICK s \in Batches(count) :
          \/ EvictAll(red, blue, warm, s, {}, {})
          \/ \E n \in 0 .. Len(s) - 1 : EvictFails(red, warm, s, n)
    BY DEF Compress
  <1> HIDE DEF count
  <1>4. s \in Seq(Ids) /\ Distinct(s) /\ Elements(s) \subseteq red
    BY <1>1, <1>3, Facts, BatchIs
  <1>5. DagGrows
    BY <1>2, DagStays
  <1>6. WarmBut(warm, {}) /\ warm \in Seq(Ids) /\ Distinct(warm)
    BY WarmButIs DEF WarmBut
  <1>7. Turnover(blue, warm, {}, {})
    <2>1. CASE EvictAll(red, blue, warm, s, {}, {})
      BY <1>4, <1>6, <2>1, EvictAllIs
    <2>2. CASE \E n \in 0 .. Len(s) - 1 : EvictFails(red, warm, s, n)
      BY <1>4, <1>6, <2>2, EvictFailsIs
    <2>. QED BY <1>3, <2>1, <2>2
  <1>8. Rearranged({})
    BY <1>6, <1>7, OnlyEvicts
  <1>. QED BY <1>2, <1>5, <1>8 DEF Rearranges

\* resize_hot(): a batch, after which the hot tier fits or the next one is due.
LEMMA ResizeEvictsIs ==
  ASSUME ManagerInv, ResizeEvicts
  PROVE  Rearranges({})
  <1>1. /\ UNCHANGED <<capacity, dag, gone, adds, stops>> /\ state = "resizing"
        /\ state' = IF Cardinality(red') > capacity THEN "resizing" ELSE "open"
    BY DEF ResizeEvicts
  <1>2. PICK s \in Evictions : EvictAll(red, blue, warm, s, {}, {})
    BY DEF ResizeEvicts
  <1>3. DagGrows
    BY <1>1, DagStays
  <1>4. WarmBut(warm, {})
    BY WarmButIs
  <1>5. Turnover(blue, warm, {}, {})
    BY <1>2, <1>4, EvictionIs DEF WarmBut
  <1>6. Rearranged({})
    BY <1>4, <1>5, OnlyEvicts
  <1>7. Cardinality(red') \in Nat /\ capacity \in Nat
    BY <1>6, RearrangedHot, Facts
  <1>8. state' = "open" => Cardinality(red') <= capacity
    BY <1>1, <1>7
  <1>. QED BY <1>1, <1>3, <1>6, <1>8 DEF Rearranges

\* resize_hot(): a batch with a write that fails, which ends the resize.
LEMMA ResizeFailsIs ==
  ASSUME ManagerInv, ResizeFails
  PROVE  Rearranges({})
  <1>1. /\ UNCHANGED <<capacity, dag, gone, adds, stops>> /\ state = "resizing" /\ state' = "open"
        /\ EvictionFails(warm)
    BY DEF ResizeFails
  <1>2. DagGrows
    BY <1>1, DagStays
  <1>3. WarmBut(warm, {})
    BY WarmButIs
  <1>4. Turnover(blue, warm, {}, {}) /\ failures' # 0
    BY <1>1, <1>3, EvictionFailsIs DEF WarmBut
  <1>5. Rearranged({})
    BY <1>3, <1>4, OnlyEvicts
  <1>. QED BY <1>1, <1>2, <1>4, <1>5 DEF Rearranges

\* The steps that move checkpoints between the tiers or bring one in.
Moving ==
  \/ \E id \in Ids : \E ds \in SUBSET Ids : Add(id, ds) \/ AddFails(id, ds)
  \/ \E id \in Ids : LoadWarm(id) \/ LoadCold(id)
  \/ InsertFails \/ Compress \/ ResizeEvicts \/ ResizeFails

\* All of these rearrange the tiers, and no checkpoint leaves the warm tier for good.
LEMMA MovingIs ==
  ASSUME ManagerInv, Moving
  PROVE  Rearranges({})
  BY AddIs, AddFailsIs, InsertFailsIs, LoadWarmIs, LoadColdIs, CompressIs, ResizeEvictsIs, ResizeFailsIs
  DEF Moving

\* A resize sets the capacity and leaves the evictions to the steps that follow.
LEMMA ResizeKeeps ==
  ASSUME ManagerInv, NEW c \in Resizes \union {Optimal}, Resize(c)
  PROVE  ManagerInv'
  <1>1. /\ capacity' = c /\ state' = IF Cardinality(red) > c THEN "resizing" ELSE "open"
        /\ UNCHANGED <<order, deps, derived, val, red, warm, blue, dirty, tombstoned, store,
                       logged, drained, gone, adds, failures, stops>>
    BY DEF Resize, dag, tiers, manifest, counters
  <1>2. c \in Capacities /\ Capacities' = Capacities /\ c \in Nat /\ Cardinality(red) \in Nat
    BY OptimalIs, CapacitiesAre, Facts DEF Capacities
  <1>3. OrderShape' /\ TierShape' /\ ContentShape' /\ OtherShape'
    <2>1. Nodes' = Nodes /\ Elements(warm)' = Elements(warm)
      BY <1>1 DEF Nodes
    <2>2. OrderShape' /\ TierShape' /\ ContentShape'
      BY <1>1, <2>1 DEF ManagerInv, OrderShape, TierShape, ContentShape
    <2>3. OtherShape'
      BY <1>1 DEF ManagerInv, OtherShape
    <2>. QED BY <2>2, <2>3
  <1>4. state' = "open" => Cardinality(red') <= capacity'
    BY <1>1, <1>2
  <1>5. HotShape'
    BY <1>1, <1>2, <1>4 DEF ManagerInv, HotShape, HotFits
  <1>. QED BY <1>3, <1>5 DEF ManagerInv

-------------------------------------------------------------------------------
(* Flushing *)

\* Sorted by age, the nodes in S are all there and each of them once.
LEMMA ByAgeIs ==
  ASSUME ManagerInv, NEW S \in SUBSET Nodes
  PROVE  /\ ByAge(S) \in Seq(Ids) /\ Distinct(ByAge(S)) /\ Elements(ByAge(S)) = S
         /\ Len(ByAge(S)) = Cardinality(S) /\ Len(ByAge(S)) \in Nat
         /\ \A x, y \in S : Precedes(order, x, y) => Precedes(ByAge(S), x, y)
  <1>1. order \in Seq(Ids) /\ Distinct(order)
    BY DEF ManagerInv, OrderShape
  <1>2. /\ ByAge(S) \in Seq(Ids) /\ Distinct(ByAge(S))
        /\ Elements(ByAge(S)) = Elements(order) \intersect S
        /\ \A x, y \in S : Precedes(order, x, y) => Precedes(ByAge(S), x, y)
    BY <1>1, OnlyHas DEF ByAge
  <1>3. Elements(ByAge(S)) = S
    BY <1>2 DEF Nodes
  <1>4. Cardinality(Elements(ByAge(S))) = Len(ByAge(S)) /\ Cardinality(Elements(ByAge(S))) \in Nat
    BY <1>2, DistinctCount
  <1>. QED BY <1>2, <1>3, <1>4

\* What a flush writes: every warm checkpoint and every dirty hot one, once.
LEMMA FlushedInOrder ==
  ASSUME ManagerInv
  PROVE  /\ WarmByAge \in Seq(Ids) /\ Distinct(WarmByAge) /\ Elements(WarmByAge) = Elements(warm)
         /\ Len(WarmByAge) = Len(warm) /\ Len(warm) \in Nat
         /\ DirtyByAge \in Seq(Ids) /\ Distinct(DirtyByAge) /\ Elements(DirtyByAge) = dirty \intersect red
  <1>1. /\ Elements(warm) \in SUBSET Nodes /\ dirty \intersect red \in SUBSET Nodes
        /\ warm \in Seq(Ids) /\ Distinct(warm)
    BY DEF ManagerInv, TierShape
  <1>2. Cardinality(Elements(warm)) = Len(warm)
    BY <1>1, DistinctCount
  <1>. QED BY <1>1, <1>2, ByAgeIs DEF WarmByAge, DirtyByAge

\* A flush, complete or cut short by a write that fails: X leave the warm tier
\* for the cold one, W are written.
Flushed ==
  \E X, W, over :
    /\ X \in SUBSET Elements(warm) /\ X \subseteq W /\ W \subseteq X \union (dirty \intersect red)
    /\ over \in SUBSET Ids /\ over \intersect W = {}
    /\ red' = red
    /\ warm' \in Seq(Ids) /\ Distinct(warm') /\ Len(warm') <= WarmCapacity
    /\ Elements(warm') = Elements(warm) \ X
    /\ blue' = blue \union X
    /\ dirty' \subseteq dirty
    /\ store' = Stored(W)
    /\ logged' = Logged(W, over)
    /\ \/ failures' = failures /\ X = Elements(warm) /\ dirty \intersect red \subseteq W
       \/ failures < MaxFailures /\ failures' = failures + 1

\* A flush whose writes succeed.
LEMMA FlushAllIs ==
  ASSUME ManagerInv, FlushAll
  PROVE  Flushed
  <1> DEFINE W == Elements(warm) \union (dirty \intersect red)
             X == Elements(warm)
  <1>1. /\ red' = red /\ warm' = <<>> /\ blue' = blue \union X /\ dirty' = {}
        /\ store' = Stored(W) /\ logged' = Logged(W, {})
        /\ failures' = failures
    BY Zenon DEF FlushAll
  <1>2. warm' \in Seq(Ids) /\ Distinct(warm') /\ Elements(warm') = X \ X /\ Len(warm') <= WarmCapacity
    <2>1. Elements(warm') = {} /\ Distinct(warm') /\ warm' \in Seq(Ids)
      BY <1>1, NoneHas
    <2>2. Len(warm') = 0 /\ WarmCapacity \in Nat
      BY <1>1, Facts
    <2>. QED BY <2>1, <2>2
  <1>3. /\ X \in SUBSET Elements(warm) /\ X \subseteq W /\ W \subseteq X \union (dirty \intersect red)
        /\ {} \in SUBSET Ids /\ {} \intersect W = {} /\ dirty' \subseteq dirty
        /\ dirty \intersect red \subseteq W
    BY <1>1
  <1>. QED BY <1>1, <1>2, <1>3, Zenon DEF Flushed

\* A flush whose k-th warm write fails: the item and those behind it stay warm.
LEMMA FlushWarmFailsIs ==
  ASSUME ManagerInv, NEW k \in DOMAIN WarmByAge, FlushWarmFails(k)
  PROVE  Flushed
  <1> DEFINE t == WarmByAge
             a == SubSeq(t, 1, k - 1)
             b == SubSeq(t, k, Len(t))
             X == Elements(a)
             item == t[k]
  <1>1. /\ t \in Seq(Ids) /\ Distinct(t) /\ Elements(t) = Elements(warm)
        /\ Len(t) = Len(warm) /\ Len(warm) \in Nat /\ k \in DOMAIN t
    BY FlushedInOrder
  <1>2. /\ failures < MaxFailures /\ failures' = failures + 1
        /\ red' = red /\ warm' = b /\ blue' = blue \union X /\ dirty' = dirty \ X
        /\ store' = Stored(X) /\ logged' = Logged(X, {item})
    BY <1>1 DEF FlushWarmFails
  <1> HIDE DEF t
  <1>3. k - 1 \in 0 .. Len(t) /\ k - 1 + 1 = k /\ item \in Ids
    BY <1>1
  <1>4. Parts(Ids, t, k - 1, a, b)
    BY <1>1, <1>3, HalvesHave, Zenon
  <1>5. item \in Elements(b)
    <2>1. Len(b) \in Nat /\ 1 \in DOMAIN b /\ b[1] = t[k]
      BY <1>1
    <2>. QED BY <2>1 DEF Elements
  <1> HIDE DEF a, b, item
  <1>6. /\ b \in Seq(Ids) /\ Len(b) = Len(t) - (k - 1) /\ Distinct(b)
        /\ Elements(t) = Elements(a) \union Elements(b)
        /\ Elements(a) \intersect Elements(b) = {}
    BY <1>1, <1>4 DEF Parts, HoldsBoth
  <1>7. /\ warm' \in Seq(Ids) /\ Distinct(warm') /\ Len(warm') <= WarmCapacity
        /\ Elements(warm') = Elements(warm) \ X
    <2>1. Len(warm) <= WarmCapacity /\ WarmCapacity \in Nat
      BY Facts DEF ManagerInv, TierShape
    <2>2. Len(b) <= Len(t)
      BY <1>1, <1>3, <1>6
    <2>. QED BY <1>1, <1>2, <1>6, <2>1, <2>2
  <1>8. /\ X \in SUBSET Elements(warm) /\ X \subseteq X /\ X \subseteq X \union (dirty \intersect red)
        /\ {item} \in SUBSET Ids /\ {item} \intersect X = {} /\ dirty' \subseteq dirty
    BY <1>1, <1>2, <1>3, <1>5, <1>6
  <1> HIDE DEF X
  <1>. QED BY <1>2, <1>7, <1>8, Zenon DEF Flushed

\* A flush whose k-th write of a dirty hot item fails: nothing is warm by then.
LEMMA FlushDirtyFailsIs ==
  ASSUME ManagerInv, NEW k \in DOMAIN DirtyByAge, FlushDirtyFails(k)
  PROVE  Flushed
  <1> DEFINE t == DirtyByAge
             a == SubSeq(t, 1, k - 1)
             b == SubSeq(t, k, Len(t))
             X == Elements(warm)
             W == X \union Elements(a)
             item == t[k]
  <1>1. /\ t \in Seq(Ids) /\ Distinct(t) /\ Elements(t) = dirty \intersect red
        /\ k \in DOMAIN t /\ Len(t) \in Nat
    BY FlushedInOrder
  <1>2. /\ failures < MaxFailures /\ failures' = failures + 1
        /\ red' = red /\ warm' = <<>> /\ blue' = blue \union X /\ dirty' = {}
        /\ store' = Stored(W) /\ logged' = Logged(W, {item})
    BY <1>1 DEF FlushDirtyFails
  <1> HIDE DEF t
  <1>3. k - 1 \in 0 .. Len(t) /\ k - 1 + 1 = k /\ item \in Ids
    BY <1>1
  <1>4. Parts(Ids, t, k - 1, a, b)
    BY <1>1, <1>3, HalvesHave, Zenon
  <1>5. item \in Elements(b)
    <2>1. Len(b) \in Nat /\ 1 \in DOMAIN b /\ b[1] = t[k]
      BY <1>1
    <2>. QED BY <2>1 DEF Elements
  <1> HIDE DEF a, b, item
  <1>6. /\ Elements(t) = Elements(a) \union Elements(b)
        /\ Elements(a) \intersect Elements(b) = {}
    BY <1>1, <1>4 DEF Parts, HoldsBoth
  <1>7. warm' \in Seq(Ids) /\ Distinct(warm') /\ Elements(warm') = X \ X /\ Len(warm') <= WarmCapacity
    <2>1. Elements(warm') = {} /\ Distinct(warm') /\ warm' \in Seq(Ids)
      BY <1>2, NoneHas
    <2>2. Len(warm') = 0 /\ WarmCapacity \in Nat
      BY <1>2, Facts
    <2>. QED BY <2>1, <2>2
  <1>8. X \intersect red = {}
    BY DEF ManagerInv, TierShape
  <1>9. /\ X \in SUBSET Elements(warm) /\ X \subseteq W /\ W \subseteq X \union (dirty \intersect red)
        /\ {item} \in SUBSET Ids /\ {item} \intersect W = {} /\ dirty' \subseteq dirty
    BY <1>1, <1>2, <1>3, <1>5, <1>6, <1>8
  <1> HIDE DEF W
  <1>. QED BY <1>2, <1>7, <1>9, Zenon DEF Flushed

\* Every flush moves part of the warm tier to the cold one and writes what it moves.
LEMMA FlushIs ==
  ASSUME ManagerInv, FlushAll \/ FlushFails
  PROVE  Flushed
  BY FlushAllIs, FlushWarmFailsIs, FlushDirtyFailsIs DEF FlushFails

\* flush(), close() and drop.
Flushes ==
  /\ Flushed
  /\ UNCHANGED <<capacity, dag, tombstoned, gone, adds>>
  /\ state' \in {"open", "closing", "closed", "dropped"} /\ (state' = "open" => state = "open")
  /\ stops' \in 0 .. MaxStops
  /\ drained' \in {drained, logged'}

\* flush(), close() and drop flush and leave the DAG alone.
LEMMA FlushesIs ==
  ASSUME ManagerInv, Flush \/ Close \/ Drop
  PROVE  Flushes
  <1>1. stops \in 0 .. MaxStops /\ MaxStops \in Nat
    BY ManagerAssumption DEF ManagerInv, OtherShape
  <1>2. stops' \in 0 .. MaxStops
    BY <1>1 DEF Flush, Close, Drop, Stops
  <1>3. Flushed
    BY FlushIs DEF Flush, Close, Drop
  <1>4. /\ UNCHANGED <<capacity, dag, tombstoned, gone, adds>>
        /\ state' \in {"open", "closing", "closed", "dropped"} /\ (state' = "open" => state = "open")
        /\ drained' \in {drained, logged'}
    BY DEF Flush, Close, Drop
  <1>. QED BY <1>2, <1>3, <1>4 DEF Flushes

\* The invariant survives a flush.
LEMMA FlushKeeps ==
  ASSUME ManagerInv, Flushes
  PROVE  ManagerInv'
  <1>1. PICK X, W, over :
          /\ X \in SUBSET Elements(warm) /\ X \subseteq W /\ W \subseteq X \union (dirty \intersect red)
          /\ over \in SUBSET Ids
          /\ red' = red
          /\ warm' \in Seq(Ids) /\ Distinct(warm') /\ Len(warm') <= WarmCapacity
          /\ Elements(warm') = Elements(warm) \ X
          /\ blue' = blue \union X
          /\ dirty' \subseteq dirty
          /\ store' = Stored(W)
          /\ logged' = Logged(W, over)
          /\ failures' = failures \/ (failures < MaxFailures /\ failures' = failures + 1)
    BY Zenon DEF Flushes, Flushed
  <1>2. /\ UNCHANGED <<capacity, order, deps, derived, val, tombstoned, gone, adds>>
        /\ state' \in {"open", "closing", "closed", "dropped"} /\ (state' = "open" => state = "open")
        /\ stops' \in 0 .. MaxStops
        /\ drained' \in {drained, logged'}
    BY DEF Flushes, dag
  <1>3. Nodes' = Nodes /\ OrderShape'
    BY <1>2 DEF Nodes, ManagerInv, OrderShape
  <1>4. /\ red \in SUBSET Nodes /\ blue \in SUBSET Nodes /\ Elements(warm) \subseteq Nodes
        /\ red \intersect blue = {} /\ Elements(warm) \intersect (red \union blue) = {}
        /\ dirty \in SUBSET Ids /\ tombstoned \in SUBSET Ids /\ gone \in SUBSET Ids
    BY DEF ManagerInv, TierShape
  <1>5. Elements(warm') = Elements(warm)'
    BY DEF Elements
  <1>6. TierShape'
    <2>1. Elements(warm)' \subseteq Nodes' /\ Elements(warm)' \intersect (red' \union blue') = {}
      BY <1>1, <1>3, <1>4, <1>5
    <2>2. red' \in SUBSET Nodes' /\ blue' \in SUBSET Nodes' /\ red' \intersect blue' = {}
      BY <1>1, <1>3, <1>4
    <2>. QED BY <1>1, <1>2, <1>4, <2>1, <2>2 DEF TierShape
  <1>7. HotShape'
    <2>1. Capacities' = Capacities
      BY DEF Capacities
    <2>2. failures' = 0 => failures = 0
      BY <1>1 DEF ManagerInv, OtherShape
    <2>. QED BY <1>1, <1>2, <2>1, <2>2 DEF ManagerInv, HotShape, HotFits
  <1>8. ContentShape'
    <2>1. W \in SUBSET Nodes
      BY <1>1, <1>4
    <2>2. /\ adds' \in [Ids -> 0 .. MaxAdds] /\ \A id \in Ids : adds[id] <= adds'[id]
          /\ val' \in [Ids -> 0 .. MaxAdds] /\ \A id \in Ids : val'[id] <= adds'[id]
          /\ \A id \in Nodes' : val'[id] # 0
          /\ \A id \in tombstoned' : id \in Ids /\ adds'[id] # 0
      BY <1>2, <1>3, <1>4 DEF ManagerInv, ContentShape
    <2>. QED BY <1>1, <2>1, <2>2, ContentKept
  <1>9. OtherShape'
    <2>1. logged' \in [Ids -> {"none", "stored", "tombstone"}]
      BY <1>1, LogKept
    <2>2. drained' \in [Ids -> {"none", "stored", "tombstone"}]
      BY <1>2, <2>1 DEF ManagerInv, OtherShape
    <2>3. failures' \in 0 .. MaxFailures
      BY <1>1, ManagerAssumption DEF ManagerInv, OtherShape
    <2>. QED BY <1>2, <2>1, <2>2, <2>3 DEF OtherShape
  <1>. QED BY <1>3, <1>6, <1>7, <1>8, <1>9 DEF ManagerInv

-------------------------------------------------------------------------------
(* Stopping, removing and recovering *)

\* A crash leaves what a flush has written by then in storage.
CrashStores(k) ==
  \E W :
    /\ W \in SUBSET (Elements(warm) \union (dirty \intersect red))
    /\ store' = Stored(W)
    /\ \A p, x \in Elements(warm) : Precedes(order, p, x) /\ x \in W => p \in W
    /\ \A p, x \in dirty \intersect red : Precedes(order, p, x) /\ x \in W => p \in W
    /\ \A x \in dirty \intersect red : x \in W => Elements(warm) \subseteq W

\* What the first items of a sequence without duplicates are is closed under coming first.
LEMMA PrefixHas ==
  ASSUME NEW T, NEW s \in Seq(T), Distinct(s), NEW n \in 0 .. Len(s)
  PROVE  /\ Elements(SubSeq(s, 1, n)) \subseteq Elements(s)
         /\ \A x, y : Precedes(s, x, y) /\ y \in Elements(SubSeq(s, 1, n)) => x \in Elements(SubSeq(s, 1, n))
  <1> DEFINE a == SubSeq(s, 1, n)
  <1>1. /\ Len(s) \in Nat /\ DOMAIN s = 1 .. Len(s) /\ n \in Nat
        /\ DOMAIN a = 1 .. n /\ \A i \in 1 .. n : i \in DOMAIN s /\ a[i] = s[i]
    OBVIOUS
  <1> HIDE DEF a
  <1>2. Elements(a) \subseteq Elements(s)
    BY <1>1 DEF Elements
  <1>3. ASSUME NEW x, NEW y, Precedes(s, x, y), y \in Elements(a)
        PROVE  x \in Elements(a)
    <2>1. PICK i \in DOMAIN s, j \in DOMAIN s : i < j /\ s[i] = x /\ s[j] = y
      BY <1>3 DEF Precedes
    <2>2. PICK k \in 1 .. n : a[k] = y
      BY <1>1, <1>3 DEF Elements
    <2>3. k = j
      BY <1>1, <2>1, <2>2 DEF Distinct
    <2>4. i \in 1 .. n /\ a[i] = x
      BY <1>1, <2>1, <2>2, <2>3
    <2>. QED BY <1>1, <2>4 DEF Elements
  <1>. QED BY <1>2, <1>3 DEF a

\* What a crash leaves of a flush: the first writes in the order of creation.
LEMMA CrashIs ==
  ASSUME ManagerInv, NEW k \in Nat, Crash(k)
  PROVE  CrashStores(k)
  <1> DEFINE t == WarmByAge \o DirtyByAge
             W == Elements(SubSeq(t, 1, k))
             D == dirty \intersect red
  <1>1. /\ WarmByAge \in Seq(Ids) /\ Distinct(WarmByAge) /\ Elements(WarmByAge) = Elements(warm)
        /\ DirtyByAge \in Seq(Ids) /\ Distinct(DirtyByAge) /\ Elements(DirtyByAge) = D
    BY FlushedInOrder
  <1>2. Elements(warm) \in SUBSET Nodes /\ D \in SUBSET Nodes /\ Elements(warm) \intersect D = {}
    BY DEF ManagerInv, TierShape
  <1>3. t \in Seq(Ids) /\ HoldsBoth(t, WarmByAge, DirtyByAge)
    BY <1>1, ConcatHas, Zenon
  <1>4. store' = Stored(W) /\ k <= Len(t)
    BY DEF Crash
  <1> HIDE DEF t
  <1>5. k \in 0 .. Len(t)
    BY <1>3, <1>4
  <1>6. Distinct(t) /\ Elements(t) = Elements(warm) \union D
    BY <1>1, <1>2, <1>3 DEF HoldsBoth
  <1>7. /\ W \subseteq Elements(t)
        /\ \A x, y : Precedes(t, x, y) /\ y \in W => x \in W
    BY <1>3, <1>5, <1>6, PrefixHas
  <1>8. /\ \A x, y : Precedes(WarmByAge, x, y) \/ Precedes(DirtyByAge, x, y) => Precedes(t, x, y)
        /\ \A x \in Elements(warm), y \in D : Precedes(t, x, y)
    BY <1>1, <1>3, Zenon DEF HoldsBoth
  <1>9. /\ \A x, y \in Elements(warm) : Precedes(order, x, y) => Precedes(WarmByAge, x, y)
        /\ \A x, y \in D : Precedes(order, x, y) => Precedes(DirtyByAge, x, y)
    BY <1>2, ByAgeIs DEF WarmByAge, DirtyByAge
  <1> HIDE DEF W, D
  <1>10. W \in SUBSET (Elements(warm) \union D)
    BY <1>6, <1>7
  <1>11. /\ \A p, x \in Elements(warm) : Precedes(order, p, x) /\ x \in W => p \in W
         /\ \A p, x \in D : Precedes(order, p, x) /\ x \in W => p \in W
         /\ \A x \in D : x \in W => Elements(warm) \subseteq W
    BY <1>7, <1>8, <1>9
  <1>. QED BY <1>4, <1>10, <1>11 DEF CrashStores, D

\* The invariant survives a crash.
LEMMA CrashKeeps ==
  ASSUME ManagerInv, NEW k \in Nat, Crash(k)
  PROVE  ManagerInv'
  <1>1. PICK W : W \in SUBSET (Elements(warm) \union (dirty \intersect red)) /\ store' = Stored(W)
    BY CrashIs DEF CrashStores
  <1>2. /\ UNCHANGED <<capacity, order, deps, derived, val, red, warm, blue, dirty, tombstoned,
                       logged, drained, gone, adds, failures>>
        /\ state' = "crashed" /\ stops < MaxStops /\ stops' = stops + 1
    BY DEF Crash, Stops, dag, tiers, manifest
  <1>3. Nodes' = Nodes /\ Elements(warm)' = Elements(warm) /\ Capacities' = Capacities
    BY <1>2 DEF Nodes, Capacities
  <1>4. OrderShape' /\ TierShape'
    BY <1>2, <1>3 DEF ManagerInv, OrderShape, TierShape
  <1>5. HotShape'
    BY <1>2, <1>3 DEF ManagerInv, HotShape, HotFits
  <1>6. ContentShape'
    <2>1. W \in SUBSET Nodes
      BY <1>1 DEF ManagerInv, TierShape
    <2>2. /\ adds' \in [Ids -> 0 .. MaxAdds] /\ \A id \in Ids : adds[id] <= adds'[id]
          /\ val' \in [Ids -> 0 .. MaxAdds] /\ \A id \in Ids : val'[id] <= adds'[id]
          /\ \A id \in Nodes' : val'[id] # 0
          /\ \A id \in tombstoned' : id \in Ids /\ adds'[id] # 0
      BY <1>2, <1>3 DEF ManagerInv, ContentShape, TierShape
    <2>. QED BY <1>1, <2>1, <2>2, ContentKept
  <1>7. OtherShape'
    BY <1>2, ManagerAssumption DEF ManagerInv, OtherShape
  <1>. QED BY <1>4, <1>5, <1>6, <1>7 DEF ManagerInv

\* The tiers and the DAG lose the nodes S.
Loses(S) ==
  /\ S \in SUBSET Nodes
  /\ red' = red \ S /\ blue' = blue \ S /\ dirty' = dirty \ S
  /\ Elements(warm') = Elements(warm) \ S
  /\ Nodes' = Nodes \ S
  /\ deps' = [id \in Ids |-> IF id \in S THEN {} ELSE deps[id] \ S]
  /\ val' = val /\ capacity' = capacity /\ state = "open" /\ state' = "open"
  /\ adds' = adds /\ failures' = failures /\ stops' = stops

\* The DAG keeps its order without the nodes S.
LEMMA OrderShrinks ==
  ASSUME OrderShape, NEW S \in SUBSET Ids, LeaveDag(S)
  PROVE  /\ OrderShape' /\ Nodes' = Nodes \ S
         /\ \A x \in Ids : deps'[x] = IF x \in S THEN {} ELSE deps[x] \ S
         /\ \A x, y \in Nodes \ S : Precedes(order, x, y) => Precedes(order', x, y)
  <1>1. /\ order' = Without(order, S)
        /\ deps' = [id \in Ids |-> IF id \in S THEN {} ELSE deps[id] \ S]
        /\ derived' = derived \ S
    BY Zenon DEF LeaveDag
  <1>2. /\ order \in Seq(Ids) /\ Distinct(order)
        /\ deps \in [Ids -> SUBSET Nodes] /\ derived \in SUBSET Nodes
        /\ \A id \in Nodes : \A p \in deps[id] : Precedes(order, p, id)
        /\ Nodes \subseteq Ids
    BY DEF OrderShape, Nodes, Elements
  <1>3. /\ order' \in Seq(Ids) /\ Distinct(order') /\ Elements(order') = Nodes \ S
    BY <1>1, <1>2, WithoutHas DEF Nodes
  <1>4. Nodes' = Nodes \ S
    BY <1>3 DEF Nodes, Elements
  <1>5. \A x, y \in Nodes \ S : Precedes(order, x, y) => Precedes(order', x, y)
    BY <1>1, <1>2, OnlyHas DEF Without, Nodes
  <1>6. deps' \in [Ids -> SUBSET Nodes'] /\ derived' \in SUBSET Nodes'
    BY <1>1, <1>2, <1>4
  <1>7. ASSUME NEW id \in Nodes', NEW p \in deps'[id]
        PROVE  Precedes(order', p, id)
    <2>1. id \in Nodes /\ id \notin S /\ id \in Ids
      BY <1>2, <1>4
    <2>2. p \in deps[id] /\ p \notin S
      BY <1>1, <2>1
    <2>3. p \in Nodes \ S /\ id \in Nodes \ S /\ Precedes(order, p, id)
      BY <1>2, <2>1, <2>2
    <2>. QED BY <1>5, <2>3
  <1>8. OrderShape'
    BY <1>3, <1>6, <1>7 DEF OrderShape
  <1>. QED BY <1>1, <1>4, <1>5, <1>8

\* The nodes S leave every tier and the DAG.
LEMMA LeaveIs ==
  ASSUME ManagerInv, NEW S \in SUBSET Nodes, LeaveTiers(S), LeaveDag(S),
         tombstoned' \in SUBSET Ids, gone' \in SUBSET Ids
  PROVE  /\ OrderShape' /\ TierShape' /\ Nodes' = Nodes \ S
         /\ red' = red \ S /\ blue' = blue \ S /\ dirty' = dirty \ S
         /\ Elements(warm') = Elements(warm) \ S
  <1>1. /\ red' = red \ S
        /\ warm' = Without(warm, S \ red)
        /\ blue' = blue \ (S \ (red \union Elements(warm)))
        /\ dirty' = dirty \ S
    BY Zenon DEF LeaveTiers
  <1>3. /\ red \in SUBSET Nodes /\ blue \in SUBSET Nodes /\ Elements(warm) \subseteq Nodes
        /\ warm \in Seq(Ids) /\ Distinct(warm) /\ Len(warm) <= WarmCapacity /\ Len(warm) \in Nat
        /\ red \intersect blue = {} /\ Elements(warm) \intersect (red \union blue) = {}
        /\ dirty \in SUBSET Ids /\ WarmCapacity \in Nat /\ Nodes \subseteq Ids
    BY Facts DEF ManagerInv, TierShape
  <1>5. OrderShape' /\ Nodes' = Nodes \ S
    BY <1>3, OrderShrinks DEF ManagerInv
  <1>8. /\ warm' \in Seq(Ids) /\ Distinct(warm') /\ Len(warm') <= Len(warm)
        /\ Elements(warm') = Elements(warm) \ (S \ red)
    BY <1>1, <1>3, WithoutHas
  <1>9. Elements(warm') = Elements(warm) \ S /\ blue' = blue \ S
    BY <1>1, <1>3, <1>8
  <1>10. Elements(warm') = Elements(warm)'
    BY DEF Elements
  <1>11. TierShape'
    <2>1. /\ red' \in SUBSET Nodes' /\ blue' \in SUBSET Nodes' /\ Elements(warm)' \subseteq Nodes'
          /\ red' \intersect blue' = {} /\ Elements(warm)' \intersect (red' \union blue') = {}
          /\ dirty' \in SUBSET Ids
      BY <1>1, <1>3, <1>5, <1>9, <1>10
    <2>2. Len(warm') <= WarmCapacity
      BY <1>3, <1>8
    <2>. QED BY <1>8, <2>1, <2>2 DEF TierShape
  <1>. QED BY <1>1, <1>5, <1>9, <1>11

\* remove() and compact(): the nodes S leave, the copies in `purged` leave storage.
Leaves(S, purged) ==
  /\ S \in SUBSET Nodes /\ LeaveTiers(S) /\ LeaveDag(S)
  /\ store' = [id \in Ids |-> IF id \in purged THEN Absent ELSE store[id]]
  /\ tombstoned' \subseteq tombstoned \union (S \intersect blue)
  /\ logged' \in [Ids -> {"none", "stored", "tombstone"}]
  /\ gone' = gone \union S
  /\ state = "open" /\ Removes
  /\ UNCHANGED <<state, capacity, val, drained, adds, failures, stops>>

\* remove() of one checkpoint purges no copy.
LEMMA RemoveIs ==
  ASSUME ManagerInv, NEW id \in Ids, Remove(id)
  PROVE  Leaves({id}, {})
  <1>1. /\ state = "open" /\ Removes
        /\ id \in red \union blue \union Elements(warm)
        /\ LeaveTiers({id}) /\ LeaveDag({id})
        /\ \/ id \in red \union Elements(warm) /\ tombstoned' = tombstoned /\ logged' = logged
           \/ /\ id \notin red \union Elements(warm)
              /\ tombstoned' = tombstoned \union {id} /\ logged' = Logged({}, {id})
        /\ gone' = gone \union {id}
        /\ UNCHANGED <<state, capacity, val, store, drained, adds, failures, stops>>
    BY Zenon DEF Remove, counters
  <1>2. {id} \in SUBSET Nodes
    BY <1>1 DEF ManagerInv, TierShape
  <1>3. tombstoned' \subseteq tombstoned \union ({id} \intersect blue)
    BY <1>1
  <1>4. logged' \in [Ids -> {"none", "stored", "tombstone"}]
    BY <1>1, LogKept DEF ManagerInv, OtherShape
  <1>5. store' = [x \in Ids |-> IF x \in {} THEN Absent ELSE store[x]]
    BY <1>1 DEF ManagerInv, ContentShape
  <1>. QED BY <1>1, <1>2, <1>3, <1>4, <1>5, Zenon DEF Leaves

\* compact() removes the orphans and purges them and what was marked.
LEMMA CompactIs ==
  ASSUME ManagerInv, Compact
  PROVE  Leaves(Orphans, tombstoned \union Orphans) /\ tombstoned' = {}
  <1>1. /\ state = "open" /\ Removes
        /\ store' = [id \in Ids |-> IF id \in tombstoned \union Orphans THEN Absent ELSE store[id]]
        /\ tombstoned' = {}
        /\ LeaveTiers(Orphans) /\ LeaveDag(Orphans)
        /\ logged' = Logged({}, {id \in Orphans : InStore(id) /\ id \notin tombstoned})
        /\ gone' = gone \union Orphans
        /\ UNCHANGED <<state, capacity, val, drained, adds, failures, stops>>
    BY Zenon DEF Compact, counters
  <1>2. Orphans \in SUBSET Nodes
    BY DEF Orphans, LeastClosed, ManagerInv, OrderShape
  <1>3. logged' \in [Ids -> {"none", "stored", "tombstone"}]
    BY <1>1, LogKept
  <1>4. tombstoned' \subseteq tombstoned \union (Orphans \intersect blue)
    BY <1>1
  <1>. QED BY <1>1, <1>2, <1>3, <1>4, Zenon DEF Leaves

\* The invariant survives removals.
LEMMA LeavesKeep ==
  ASSUME ManagerInv, NEW S, NEW purged, Leaves(S, purged)
  PROVE  ManagerInv'
  <1>1. /\ S \in SUBSET Nodes /\ LeaveTiers(S) /\ LeaveDag(S)
        /\ store' = [id \in Ids |-> IF id \in purged THEN Absent ELSE store[id]]
        /\ tombstoned' \subseteq tombstoned \union (S \intersect blue)
        /\ logged' \in [Ids -> {"none", "stored", "tombstone"}]
        /\ gone' = gone \union S
        /\ UNCHANGED <<state, capacity, val, drained, adds, failures, stops>>
    BY Zenon DEF Leaves
  <1>2. Nodes \subseteq Ids /\ IsFiniteSet(red) /\ Cardinality(red) \in Nat
    BY Facts
  <1>3. tombstoned' \in SUBSET Ids /\ gone' \in SUBSET Ids
    BY <1>1, <1>2 DEF ManagerInv, TierShape
  <1>4. /\ OrderShape' /\ TierShape' /\ Nodes' = Nodes \ S
        /\ red' = red \ S
    BY <1>1, <1>3, LeaveIs
  <1>5. HotShape'
    <2>1. red' \in SUBSET red
      BY <1>4
    <2>2. Cardinality(red') <= Cardinality(red) /\ Cardinality(red') \in Nat
      BY <1>2, <2>1, FS_Subset, FS_CardinalityType
    <2>3. capacity \in Capacities /\ Capacities' = Capacities /\ Capacities \subseteq Nat
      BY CapacitiesAre DEF ManagerInv, HotShape, Capacities
    <2>4. PICK c \in Capacities : Cardinality(red) <= c
      BY DEF ManagerInv, HotShape
    <2>5. Cardinality(red') <= c
      BY <1>2, <2>2, <2>3, <2>4
    <2>6. failures' = 0 => HotFits'
      BY <1>1, <1>2, <2>2, <2>3 DEF ManagerInv, HotShape, HotFits
    <2>. QED BY <1>1, <2>3, <2>4, <2>5, <2>6 DEF HotShape
  <1>6. ContentShape'
    <2>1. /\ adds' \in [Ids -> 0 .. MaxAdds] /\ val' \in [Ids -> 0 .. MaxAdds]
          /\ \A id \in Nodes' : val'[id] # 0
      BY <1>1, <1>4 DEF ManagerInv, ContentShape
    <2>2. ASSUME NEW id \in Ids
          PROVE  /\ store'[id] \in [ver : 0 .. MaxAdds, deps : SUBSET Ids]
                 /\ store'[id].ver <= adds'[id] /\ val'[id] <= adds'[id]
      <3>1. /\ store[id] \in [ver : 0 .. MaxAdds, deps : SUBSET Ids]
            /\ store[id].ver <= adds[id] /\ adds[id] \in 0 .. MaxAdds /\ val[id] <= adds[id]
        BY DEF ManagerInv, ContentShape
      <3>2. store'[id] = IF id \in purged THEN Absent ELSE store[id]
        BY <1>1
      <3>3. CASE id \in purged
        <4>1. store'[id] = [ver |-> 0, deps |-> {}]
          BY <3>2, <3>3 DEF Absent
        <4>. QED BY <1>1, <3>1, <4>1, ManagerAssumption
      <3>4. CASE id \notin purged
        <4>1. store'[id] = store[id]
          BY <3>2, <3>4
        <4>. QED BY <1>1, <3>1, <4>1
      <3>. QED BY <3>3, <3>4
    <2>3. store' \in [Ids -> [ver : 0 .. MaxAdds, deps : SUBSET Ids]]
      BY <1>1, <2>2
    <2>4. ASSUME NEW id \in tombstoned'
          PROVE  adds'[id] # 0
      <3>1. CASE id \in tombstoned
        BY <1>1, <3>1 DEF ManagerInv, ContentShape
      <3>2. CASE id \in S
        <4>1. id \in Ids /\ val[id] # 0 /\ val[id] <= adds[id] /\ val[id] \in Nat
          BY <1>1, <1>2, <3>2 DEF ManagerInv, ContentShape
        <4>. QED BY <1>1, <4>1
      <3>. QED BY <1>1, <3>1, <3>2
    <2>. QED BY <2>1, <2>2, <2>3, <2>4 DEF ContentShape
  <1>7. OtherShape'
    BY <1>1 DEF ManagerInv, OtherShape
  <1>. QED BY <1>4, <1>5, <1>6, <1>7 DEF ManagerInv

\* A recovered order has every recoverable checkpoint once, behind its dependencies.
LEMMA RecoveryIs ==
  ASSUME ManagerInv, NEW s \in RecoveryOrders
  PROVE  /\ s \in Seq(Ids) /\ Distinct(s) /\ Elements(s) = Recoverable /\ Len(s) \in Nat
         /\ \A x \in Recoverable : \A p \in store[x].deps : Precedes(s, p, x) /\ p \in Recoverable
         /\ Recent(s) \subseteq Recoverable /\ Recent(s) \in SUBSET Ids
         /\ Cardinality(Recent(s)) <= HotCapacity
  <1> DEFINE n == Cardinality(Recoverable)
  <1>1. /\ s \in [1 .. n -> Recoverable] /\ Elements(s) = Recoverable
        /\ \A i \in DOMAIN s : store[s[i]].deps \subseteq Elements(SubSeq(s, 1, i - 1))
    BY Zenon DEF RecoveryOrders
  <1>2. Recoverable \in SUBSET Ids
    BY DEF Recoverable, LeastClosed, InStorage
  <1>3. n \in Nat
    BY <1>2, ManagerAssumption, FS_Subset, FS_CardinalityType
  <1>4. s \in Seq(Ids) /\ Len(s) = n
    <2> HIDE DEF n
    <2>. QED BY <1>1, <1>2, <1>3
  <1>5. Distinct(s)
    BY <1>1, <1>4, DistinctCount
  <1>6. ASSUME NEW x \in Recoverable, NEW p \in store[x].deps
        PROVE  Precedes(s, p, x) /\ p \in Recoverable
    <2>1. PICK i \in DOMAIN s : s[i] = x
      BY <1>1 DEF Elements
    <2> DEFINE a == SubSeq(s, 1, i - 1)
    <2>2. /\ i \in 1 .. Len(s) /\ DOMAIN s = 1 .. Len(s) /\ DOMAIN a = 1 .. i - 1
          /\ \A j \in 1 .. i - 1 : a[j] = s[j] /\ j \in DOMAIN s /\ j < i
      BY <1>4
    <2>3. p \in Elements(a)
      BY <1>1, <2>1
    <2> HIDE DEF a
    <2>4. PICK j \in 1 .. i - 1 : a[j] = p
      BY <2>2, <2>3 DEF Elements
    <2>5. j \in DOMAIN s /\ j < i /\ s[j] = p
      BY <2>2, <2>4
    <2>6. p \in Elements(s)
      BY <2>5 DEF Elements
    <2>. QED BY <1>1, <2>1, <2>5, <2>6 DEF Precedes
  <1>7. /\ Recent(s) \subseteq Recoverable /\ Recent(s) \in SUBSET Ids
        /\ Cardinality(Recent(s)) <= HotCapacity
    <2> DEFINE m == Least(HotCapacity, Len(s))
               k == Len(s) - m
               b == SubSeq(s, k + 1, Len(s))
    <2>1. m \in 0 .. Len(s) /\ m <= HotCapacity /\ Len(s) \in Nat /\ HotCapacity \in Nat /\ m \in Nat
      BY <1>3, <1>4, ManagerAssumption DEF Least
    <2>2. k \in 0 .. Len(s) /\ Len(s) - k = m
      <3> HIDE DEF m
      <3>. QED BY <2>1
    <2>3. Recent(s) = Elements(b)
      BY DEF Recent
    <2> HIDE DEF k, m
    <2>4. Parts(Ids, s, k, SubSeq(s, 1, k), b)
      BY <1>4, <2>2, HalvesHave, Zenon
    <2> HIDE DEF b
    <2>5. b \in Seq(Ids) /\ Len(b) = m /\ Elements(b) \subseteq Elements(s)
      BY <2>2, <2>4 DEF Parts, HoldsBoth
    <2>6. Cardinality(Elements(b)) <= m /\ Cardinality(Elements(b)) \in Nat
      BY <2>5, DistinctCount
    <2>. QED BY <1>1, <1>2, <2>1, <2>3, <2>5, <2>6
  <1>. QED BY <1>1, <1>3, <1>4, <1>5, <1>6, <1>7

\* The invariant holds of a manager that has recovered.
LEMMA RecoverKeeps ==
  ASSUME ManagerInv, Recover
  PROVE  ManagerInv'
  <1>1. /\ state' = "open" /\ capacity' = HotCapacity
        /\ deps' = [id \in Ids |-> IF id \in Recoverable THEN store[id].deps ELSE {}]
        /\ derived' = {id \in Recoverable : store[id].deps # {}}
        /\ val' = [id \in Ids |-> IF id \in Recoverable THEN store[id].ver ELSE val[id]]
        /\ warm' = <<>> /\ dirty' = {} /\ tombstoned' = {}
        /\ logged' = drained
        /\ UNCHANGED <<store, drained, gone, adds, failures, stops>>
    BY DEF Recover, counters
  <1>2. PICK s \in RecoveryOrders : order' = s /\ red' = Recent(s) /\ blue' = Recoverable \ Recent(s)
    BY DEF Recover
  <1>3. /\ s \in Seq(Ids) /\ Distinct(s) /\ Elements(s) = Recoverable
        /\ \A x \in Recoverable : \A p \in store[x].deps : Precedes(s, p, x) /\ p \in Recoverable
        /\ Recent(s) \subseteq Recoverable /\ Recent(s) \in SUBSET Ids
        /\ Cardinality(Recent(s)) <= HotCapacity
    BY RecoveryIs
  <1>4. Recoverable \in SUBSET Ids /\ \A id \in Recoverable : store[id].ver # 0
    BY DEF Recoverable, LeastClosed, InStorage, InStore
  <1>5. Nodes' = Recoverable
    BY <1>2, <1>3 DEF Nodes, Elements
  <1>6. OrderShape'
    <2>1. deps' \in [Ids -> SUBSET Nodes'] /\ derived' \in SUBSET Nodes'
      BY <1>1, <1>3, <1>5
    <2>2. \A id \in Nodes' : \A p \in deps'[id] : Precedes(order', p, id)
      BY <1>1, <1>2, <1>3, <1>4, <1>5
    <2>. QED BY <1>2, <1>3, <2>1, <2>2 DEF OrderShape
  <1>7. TierShape'
    <2>1. Elements(warm') = {} /\ Elements(warm') = Elements(warm)' /\ Distinct(warm') /\ warm' \in Seq(Ids)
      BY <1>1, NoneHas DEF Elements
    <2>2. Len(warm') = 0 /\ WarmCapacity \in Nat
      BY <1>1, Facts
    <2>3. Len(warm') <= WarmCapacity
      BY <2>2
    <2>. QED BY <1>1, <1>2, <1>3, <1>5, <2>1, <2>3 DEF TierShape, ManagerInv
  <1>8. HotShape'
    <2>1. HotCapacity \in Capacities /\ Capacities' = Capacities
      BY DEF Capacities
    <2>. QED BY <1>1, <1>2, <1>3, <2>1 DEF HotShape, HotFits
  <1>9. ContentShape'
    <2>1. /\ adds \in [Ids -> 0 .. MaxAdds] /\ val \in [Ids -> 0 .. MaxAdds]
          /\ store \in [Ids -> [ver : 0 .. MaxAdds, deps : SUBSET Ids]]
          /\ \A id \in Ids : val[id] <= adds[id] /\ store[id].ver <= adds[id]
      BY DEF ManagerInv, ContentShape
    <2>2. \A id \in Ids : val'[id] \in 0 .. MaxAdds /\ val'[id] <= adds'[id]
      BY <1>1, <2>1
    <2>3. val' \in [Ids -> 0 .. MaxAdds]
      BY <1>1, <2>2
    <2>4. \A id \in Nodes' : val'[id] # 0
      BY <1>1, <1>4, <1>5
    <2>. QED BY <1>1, <2>1, <2>2, <2>3, <2>4 DEF ContentShape
  <1>10. OtherShape'
    BY <1>1 DEF ManagerInv, OtherShape
  <1>. QED BY <1>6, <1>7, <1>8, <1>9, <1>10 DEF ManagerInv

-------------------------------------------------------------------------------
(* The invariant *)

\* The invariant holds of a new manager.
LEMMA Initially ==
  ASSUME Init
  PROVE  ManagerInv
  <1>1. /\ state = "open" /\ capacity = HotCapacity
        /\ order = <<>> /\ deps = [id \in Ids |-> {}] /\ derived = {}
        /\ val = [id \in Ids |-> 0]
        /\ red = {} /\ warm = <<>> /\ blue = {} /\ dirty = {} /\ tombstoned = {}
        /\ store = [id \in Ids |-> Absent]
        /\ logged = [id \in Ids |-> "none"] /\ drained = [id \in Ids |-> "none"]
        /\ gone = {}
        /\ adds = [id \in Ids |-> 0] /\ failures = 0 /\ stops = 0
    BY DEF Init
  <1>2. Elements(<<>>) = {} /\ Distinct(<<>>) /\ <<>> \in Seq(Ids)
    BY NoneHas
  <1>3. Nodes = {}
    BY <1>1, <1>2 DEF Nodes
  <1>4. OrderShape
    BY <1>1, <1>2, <1>3 DEF OrderShape
  <1>5. TierShape
    <2>1. Len(warm) = 0 /\ WarmCapacity \in Nat
      BY <1>1, ManagerAssumption
    <2>. QED BY <1>1, <1>2, <1>3, <2>1 DEF TierShape
  <1>6. HotShape
    <2>1. Cardinality(red) = 0 /\ HotCapacity \in Nat
      BY <1>1, ManagerAssumption, FS_EmptySet
    <2>2. HotCapacity \in Capacities
      BY DEF Capacities
    <2>. QED BY <1>1, <2>1, <2>2 DEF HotShape, HotFits
  <1>7. ContentShape
    <2>1. \A id \in Ids : store[id] = [ver |-> 0, deps |-> {}]
      BY <1>1 DEF Absent
    <2>. QED BY <1>1, <1>3, <2>1, ManagerAssumption DEF ContentShape
  <1>8. OtherShape
    BY <1>1, ManagerAssumption DEF OtherShape
  <1>. QED BY <1>4, <1>5, <1>6, <1>7, <1>8 DEF ManagerInv

\* The kinds of steps there are.
LEMMA StepIs ==
  ASSUME ManagerInv, Next
  PROVE  \/ Rearranges({})
         \/ \E id \in Ids : LoadWarmFails(id) /\ Rearranges({id})
         \/ \E c \in Resizes \union {Optimal} : Resize(c)
         \/ (Flush \/ Close \/ Drop) /\ Flushes
         \/ \E k \in Nat : Crash(k)
         \/ \E id \in Ids : Remove(id) /\ Leaves({id}, {})
         \/ Compact /\ Leaves(Orphans, tombstoned \union Orphans)
         \/ Recover
  <1>1. CASE Moving
    BY <1>1, MovingIs
  <1>2. CASE \E id \in Ids : LoadWarmFails(id)
    BY <1>2, LoadWarmFailsIs
  <1>3. CASE Flush \/ Close \/ Drop
    BY <1>3, FlushesIs
  <1>4. CASE \E k \in 0 .. 2 * Cardinality(Ids) : Crash(k)
    <2>1. 0 .. 2 * Cardinality(Ids) \subseteq Nat
      OBVIOUS
    <2>. QED BY <1>4, <2>1
  <1>5. CASE \E id \in Ids : Remove(id)
    BY <1>5, RemoveIs
  <1>6. CASE Compact
    BY <1>6, CompactIs
  <1>7. \/ Moving
        \/ \E id \in Ids : LoadWarmFails(id)
        \/ \E c \in Resizes \union {Optimal} : Resize(c)
        \/ Flush \/ Close \/ Drop
        \/ \E k \in 0 .. 2 * Cardinality(Ids) : Crash(k)
        \/ \E id \in Ids : Remove(id)
        \/ Compact
        \/ Recover
    BY Zenon DEF Next, Moving
  <1>. QED BY <1>1, <1>2, <1>3, <1>4, <1>5, <1>6, <1>7, Zenon

\* The invariant survives every step.
LEMMA StepKeeps ==
  ASSUME ManagerInv, [Next]_vars
  PROVE  ManagerInv'
  <1>1. CASE Next
    <2>1. CASE \E k \in Nat : Crash(k)
      BY <2>1, CrashKeeps
    <2>2. CASE \E c \in Resizes \union {Optimal} : Resize(c)
      BY <2>2, ResizeKeeps
    <2>. QED BY <1>1, <2>1, <2>2, StepIs, RearrangedKeeps, FlushKeeps, LeavesKeep, RecoverKeeps
  <1>2. CASE UNCHANGED vars
    <2>1. UNCHANGED <<state, capacity, order, deps, derived, val, red, warm, blue, dirty, tombstoned,
                      store, logged, drained, gone, adds, failures, stops>>
      BY <1>2 DEF vars, dag, tiers, manifest, counters
    <2>2. Nodes' = Nodes /\ Elements(warm)' = Elements(warm) /\ Capacities' = Capacities
      BY <2>1 DEF Nodes, Capacities
    <2>3. OrderShape' /\ TierShape' /\ ContentShape'
      BY <2>1, <2>2 DEF ManagerInv, OrderShape, TierShape, ContentShape
    <2>4. HotShape' /\ OtherShape'
      BY <2>1, <2>2 DEF ManagerInv, HotShape, HotFits, OtherShape
    <2>. QED BY <2>3, <2>4 DEF ManagerInv
  <1>. QED BY <1>1, <1>2

\* What the properties below rest on.
THEOREM ManagerInvHolds == Spec => []ManagerInv
  <1>1. Init => ManagerInv
    BY Initially
  <1>2. ManagerInv /\ [Next]_vars => ManagerInv'
    BY StepKeeps
  <1>. QED BY <1>1, <1>2, PTL DEF Spec

\* Whatever is added, loaded, evicted, resized, removed, flushed and recovered, and
\* whichever writes fail: a checkpoint is in one tier at most and is a node, and the
\* tiers keep to their capacities.
THEOREM TiersHold == Spec => []TiersAgree
  <1>1. ManagerInv => TiersAgree
    <2> SUFFICES ASSUME ManagerInv PROVE TiersAgree
      OBVIOUS
    <2>1. Cardinality(Elements(warm)) = Len(warm)
      BY DistinctCount DEF ManagerInv, TierShape
    <2>2. Nodes \subseteq Ids
      BY Facts
    <2>3. TypeOK
      BY <2>2 DEF TypeOK, ManagerInv, OrderShape, TierShape, HotShape, ContentShape, OtherShape
    <2>4. Held \subseteq Nodes
      BY DEF Held, InMemory, ManagerInv, TierShape
    <2>5. OneTier
      BY <2>1, <2>4 DEF OneTier, ManagerInv, TierShape, HotShape
    <2>. QED BY <2>3, <2>5 DEF TiersAgree
  <1>. QED BY <1>1, ManagerInvHolds, PTL

\* Creation order is topological, after removals and after a recovery that takes up
\* whatever it finds in storage: no flush writes a child before its parent for it.
THEOREM OrderHolds == Spec => []OrderIsTopological
  <1>1. ManagerInv => OrderIsTopological
    <2> SUFFICES ASSUME ManagerInv, NEW i \in DOMAIN order, NEW p \in deps[order[i]]
                 PROVE  p \in Elements(SubSeq(order, 1, i - 1))
      BY DEF OrderIsTopological
    <2>1. order \in Seq(Ids) /\ Distinct(order) /\ order[i] \in Nodes
      BY DEF ManagerInv, OrderShape, Nodes, Elements
    <2>2. Precedes(order, p, order[i])
      BY <2>1 DEF ManagerInv, OrderShape
    <2>3. PICK a \in DOMAIN order, b \in DOMAIN order : a < b /\ order[a] = p /\ order[b] = order[i]
      BY <2>2 DEF Precedes
    <2>4. b = i
      BY <2>1, <2>3 DEF Distinct
    <2> DEFINE t == SubSeq(order, 1, i - 1)
    <2>5. a \in DOMAIN t /\ t[a] = p
      BY <2>1, <2>3, <2>4
    <2> HIDE DEF t
    <2>6. p \in Elements(t)
      BY <2>5 DEF Elements
    <2>. QED BY <2>6 DEF t
  <1>. QED BY <1>1, ManagerInvHolds, PTL

-------------------------------------------------------------------------------
(* What is in storage *)

\* An id that has been removed is not used again: its tombstone, which compact()
\* purges by, may outlive it, and would then meet the copy of a new checkpoint.
NoReuse == Removes => MaxAdds <= 1

\* The copies of checkpoints that count as written.
Written ==
  /\ ~Removes => tombstoned = {}
  /\ tombstoned \intersect Nodes = {}
  /\ BlueReadsBack
  /\ failures = 0 => \A id \in InMemory \ dirty : store[id].ver = val[id]
  /\ failures = 0 => ClosedReachesStorage

\* A node has an up-to-date copy when it is written, and while it had one before.
LEMMA CopiedIs ==
  ASSUME ManagerInv, NEW P \in SUBSET Nodes, store' = Stored(P)
  PROVE  /\ \A id \in Ids : store'[id] = IF id \in P THEN [ver |-> val[id], deps |-> deps[id]]
                                                     ELSE store[id]
         /\ \A id \in P : store'[id].ver = val[id]
         /\ \A id \in Nodes : store[id].ver = val[id] => store'[id].ver = val[id]
  <1>1. Nodes \subseteq Ids
    BY Facts
  <1>2. \A id \in Ids : store'[id] = IF id \in P THEN [ver |-> val[id], deps |-> deps[id]]
                                                 ELSE store[id]
    BY DEF Stored
  <1>3. ASSUME NEW id \in P
        PROVE  store'[id].ver = val[id]
    <2>1. store'[id] = [ver |-> val[id], deps |-> deps[id]]
      BY <1>1, <1>2
    <2>. QED BY <2>1
  <1>4. ASSUME NEW id \in Nodes, store[id].ver = val[id]
        PROVE  store'[id].ver = val[id]
    <2>1. CASE id \in P
      BY <1>3, <2>1
    <2>2. CASE id \notin P
      <3>1. store'[id] = store[id]
        BY <1>1, <1>2, <2>2
      <3>. QED BY <1>4, <3>1
    <2>. QED BY <2>1, <2>2
  <1>. QED BY <1>2, <1>3, <1>4


\* Evictions write before they count a checkpoint as cold, and only then unmark it.
LEMMA RearrangedWritten ==
  ASSUME NoReuse, ManagerInv, Written, NEW out, Rearranges(out)
  PROVE  Written'
  <1>1. /\ Rearranged(out) /\ state' # "closed"
        /\ \A id \in Nodes : val'[id] = val[id]
        /\ \A id \in Nodes' \ Nodes : adds[id] < MaxAdds
    BY Zenon DEF Rearranges, DagGrows
  <1>2. PICK w, cold, enter, fresh :
          /\ cold \in SUBSET blue /\ enter \in SUBSET Nodes' /\ fresh \in SUBSET enter
          /\ Elements(w) \subseteq Elements(warm)
          /\ \A id \in enter \ fresh : id \in (Elements(warm) \ Elements(w)) \union (blue \ cold)
          /\ Turnover(cold, w, enter, fresh)
    BY <1>1, Zenon DEF Rearranged
  <1>3. PICK V, P, lost, over :
          /\ V \in SUBSET red /\ P \in SUBSET (Elements(w) \union V) /\ lost \in SUBSET V
          /\ red' = (red \ V) \union enter
          /\ Elements(warm') = ((Elements(w) \union V) \ P) \ lost
          /\ blue' = cold \union P
          /\ dirty' = (dirty \ P) \union fresh
          /\ store' = Stored(P) /\ tombstoned' = tombstoned
          /\ failures' = failures \/ (failures < MaxFailures /\ failures' = failures + 1)
    BY <1>2, ZenonT(40) DEF Turnover, TurnsOver
  <1>4. /\ red \in SUBSET Nodes /\ blue \in SUBSET Nodes /\ Elements(warm) \subseteq Nodes
        /\ tombstoned \in SUBSET Ids
        /\ failures \in Nat
    BY DEF ManagerInv, TierShape, OtherShape
  <1>5. P \in SUBSET Nodes
    BY <1>2, <1>3, <1>4
  <1>6. /\ \A id \in P : store'[id].ver = val[id]
        /\ \A id \in Nodes : store[id].ver = val[id] => store'[id].ver = val[id]
    BY <1>3, <1>5, CopiedIs
  <1>7. tombstoned' \intersect Nodes' = {}
    <2>1. ASSUME NEW id \in tombstoned, id \in Nodes'
          PROVE  FALSE
      <3>1. id \notin Nodes /\ Removes
        BY <2>1 DEF Written
      <3>2. adds[id] < MaxAdds
        BY <1>1, <2>1, <3>1
      <3>3. adds[id] \in Nat /\ adds[id] # 0 /\ id \in Ids
        BY <1>4 DEF ManagerInv, ContentShape
      <3>. QED BY <3>1, <3>2, <3>3, ManagerAssumption DEF NoReuse
    <2>. QED BY <1>3, <2>1
  <1>8. \A id \in blue : store[id].ver = val[id]
    BY DEF Written, BlueReadsBack
  <1>9. ASSUME NEW id \in blue'
        PROVE  store'[id].ver = val'[id]
    <2>1. id \in Nodes /\ (id \in P \/ id \in blue)
      BY <1>2, <1>3, <1>4, <1>5
    <2>. QED BY <1>1, <1>6, <1>8, <2>1
  <1>10. Elements(warm') = Elements(warm)'
    BY DEF Elements
  <1>11. ASSUME failures' = 0, NEW id \in (red' \union Elements(warm')) \ dirty'
         PROVE  store'[id].ver = val'[id]
    <2>1. failures = 0
      BY <1>3, <1>4, <1>11
    <2>2. \A x \in (red \union Elements(warm)) \ dirty : store[x].ver = val[x]
      BY <2>1 DEF Written, InMemory
    <2>3. id \notin fresh /\ (id \in dirty => id \in P)
      BY <1>3, <1>11
    <2>4. id \in red \union Elements(warm) \union blue
      BY <1>2, <1>3, <1>11, <2>3
    <2>5. id \in Nodes
      BY <1>4, <2>4
    <2>. QED BY <1>1, <1>6, <1>8, <2>2, <2>3, <2>4, <2>5
  <1>. QED BY <1>1, <1>3, <1>7, <1>9, <1>10, <1>11
       DEF Written, BlueReadsBack, InMemory, ClosedReachesStorage

\* A flush without a failed write leaves an up-to-date copy of everything in memory.
LEMMA FlushWritten ==
  ASSUME ManagerInv, Written, Flushes
  PROVE  Written'
  <1>1. PICK X, W, over :
          /\ X \in SUBSET Elements(warm) /\ X \subseteq W /\ W \subseteq X \union (dirty \intersect red)
          /\ red' = red
          /\ Elements(warm') = Elements(warm) \ X
          /\ blue' = blue \union X
          /\ store' = Stored(W)
          /\ \/ failures' = failures /\ X = Elements(warm) /\ dirty \intersect red \subseteq W
             \/ failures < MaxFailures /\ failures' = failures + 1
    BY Zenon DEF Flushes, Flushed
  <1>2. val' = val /\ tombstoned' = tombstoned /\ order' = order
    BY DEF Flushes, dag
  <1>3. Nodes' = Nodes
    BY <1>2 DEF Nodes
  <1>4. /\ red \in SUBSET Nodes /\ blue \in SUBSET Nodes /\ Elements(warm) \subseteq Nodes
        /\ failures \in Nat
    BY DEF ManagerInv, TierShape, OtherShape
  <1>5. W \in SUBSET Nodes
    BY <1>1, <1>4
  <1>6. /\ \A id \in W : store'[id].ver = val[id]
        /\ \A id \in Nodes : store[id].ver = val[id] => store'[id].ver = val[id]
    BY <1>1, <1>5, CopiedIs
  <1>7. Elements(warm') = Elements(warm)'
    BY DEF Elements
  <1>8. \A id \in blue' : store'[id].ver = val'[id]
    <2>1. \A id \in blue : store[id].ver = val[id]
      BY DEF Written, BlueReadsBack
    <2>. QED BY <1>1, <1>2, <1>4, <1>6, <2>1
  <1>9. ASSUME failures' = 0, NEW id \in red' \union Elements(warm')
        PROVE  store'[id].ver = val'[id]
    <2>1. failures = 0 /\ X = Elements(warm) /\ dirty \intersect red \subseteq W
      BY <1>1, <1>4, <1>9
    <2>2. \A x \in (red \union Elements(warm)) \ dirty : store[x].ver = val[x]
      BY <2>1 DEF Written, InMemory
    <2>3. id \in red /\ id \in Nodes
      BY <1>1, <1>4, <1>9, <2>1
    <2>. QED BY <1>2, <1>6, <2>1, <2>2, <2>3
  <1>. QED BY <1>2, <1>3, <1>7, <1>8, <1>9
       DEF Written, BlueReadsBack, InMemory, Held, ClosedReachesStorage

\* The writes of a crashed flush are of contents as they are.
LEMMA CrashWritten ==
  ASSUME ManagerInv, Written, NEW k \in Nat, Crash(k)
  PROVE  Written'
  <1>1. PICK W : W \in SUBSET (Elements(warm) \union (dirty \intersect red)) /\ store' = Stored(W)
    BY CrashIs DEF CrashStores
  <1>2. /\ UNCHANGED <<order, val, red, warm, blue, dirty, tombstoned, failures>> /\ state' = "crashed"
    BY DEF Crash, dag, tiers
  <1>3. Nodes' = Nodes /\ Elements(warm)' = Elements(warm)
    BY <1>2 DEF Nodes
  <1>4. W \in SUBSET Nodes /\ red \union blue \union Elements(warm) \subseteq Nodes
    BY <1>1 DEF ManagerInv, TierShape
  <1>5. \A id \in Nodes : store[id].ver = val[id] => store'[id].ver = val[id]
    BY <1>1, <1>4, CopiedIs
  <1>. QED BY <1>2, <1>3, <1>4, <1>5
       DEF Written, BlueReadsBack, InMemory, ClosedReachesStorage

\* What is purged is no node any more.
LEMMA LeavesWritten ==
  ASSUME ManagerInv, Written, NEW S, NEW purged, Leaves(S, purged), purged \subseteq tombstoned \union S
  PROVE  Written'
  <1>1. /\ S \in SUBSET Nodes /\ LeaveTiers(S) /\ LeaveDag(S)
        /\ store' = [id \in Ids |-> IF id \in purged THEN Absent ELSE store[id]]
        /\ tombstoned' \subseteq tombstoned \union (S \intersect blue)
        /\ gone' = gone \union S
        /\ state = "open" /\ Removes
        /\ UNCHANGED <<state, val, failures>>
    BY Zenon DEF Leaves
  <1>2. Nodes \subseteq Ids
    BY Facts
  <1>3. tombstoned' \in SUBSET Ids /\ gone' \in SUBSET Ids
    BY <1>1, <1>2 DEF ManagerInv, TierShape
  <1>4. /\ Nodes' = Nodes \ S
        /\ red' = red \ S /\ blue' = blue \ S /\ dirty' = dirty \ S
        /\ Elements(warm') = Elements(warm) \ S
    BY <1>1, <1>3, LeaveIs
  <1>5. Elements(warm') = Elements(warm)'
    BY DEF Elements
  <1>6. red \union blue \union Elements(warm) \subseteq Nodes /\ tombstoned \intersect Nodes = {}
    BY DEF ManagerInv, TierShape, Written
  <1>7. \A id \in Nodes \ S : store'[id] = store[id]
    BY <1>1, <1>2, <1>6
  <1>8. tombstoned' \intersect Nodes' = {}
    BY <1>1, <1>4, <1>6
  <1>. QED BY <1>1, <1>4, <1>5, <1>6, <1>7, <1>8
       DEF Written, BlueReadsBack, InMemory, ClosedReachesStorage

\* Recovery takes the contents from the copies.
LEMMA RecoverWritten ==
  ASSUME ManagerInv, Recover
  PROVE  Written'
  <1>1. /\ state' = "open" /\ warm' = <<>> /\ tombstoned' = {} /\ store' = store
        /\ val' = [id \in Ids |-> IF id \in Recoverable THEN store[id].ver ELSE val[id]]
    BY DEF Recover
  <1>2. PICK s \in RecoveryOrders : red' = Recent(s) /\ blue' = Recoverable \ Recent(s)
    BY DEF Recover
  <1>3. Recent(s) \subseteq Recoverable /\ Recoverable \in SUBSET Ids
    BY RecoveryIs DEF Recoverable, LeastClosed, InStorage
  <1>4. Elements(warm)' = {}
    BY <1>1, NoneHas
  <1>. QED BY <1>1, <1>2, <1>3, <1>4 DEF Written, BlueReadsBack, InMemory, ClosedReachesStorage

\* A resize by itself touches no checkpoint.
LEMMA ResizeWritten ==
  ASSUME ManagerInv, Written, NEW c, Resize(c)
  PROVE  Written'
  <1>1. /\ UNCHANGED <<order, val, red, warm, blue, dirty, tombstoned, store, failures>>
        /\ state' # "closed"
    BY DEF Resize, dag, tiers, counters
  <1>2. Nodes' = Nodes /\ Elements(warm)' = Elements(warm)
    BY <1>1 DEF Nodes
  <1>. QED BY <1>1, <1>2 DEF Written, BlueReadsBack, InMemory, ClosedReachesStorage

\* The copies of checkpoints that count as written are there and up to date.
THEOREM WrittenHolds ==
  ASSUME NoReuse
  PROVE  Spec => []Written
  <1>1. Init => Written
    <2> SUFFICES ASSUME Init PROVE Written
      OBVIOUS
    <2>1. red = {} /\ warm = <<>> /\ blue = {} /\ tombstoned = {} /\ state = "open" /\ Elements(warm) = {}
      BY NoneHas DEF Init
    <2>. QED BY <2>1 DEF Written, BlueReadsBack, InMemory, ClosedReachesStorage
  <1>2. ManagerInv /\ Written /\ [Next]_vars => Written'
    <2> SUFFICES ASSUME ManagerInv, Written, [Next]_vars PROVE Written'
      OBVIOUS
    <2>1. CASE Next
      <3>1. ASSUME NEW id \in Ids, Leaves({id}, {})
            PROVE  Written'
        <4>1. {} \subseteq tombstoned \union {id}
          OBVIOUS
        <4>. QED BY <3>1, <4>1, LeavesWritten
      <3>2. ASSUME Leaves(Orphans, tombstoned \union Orphans)
            PROVE  Written'
        BY <3>2, LeavesWritten
      <3>3. ASSUME NEW out, Rearranges(out)
            PROVE  Written'
        BY <3>3, RearrangedWritten
      <3>4. ASSUME NEW c, Resize(c)
            PROVE  Written'
        BY <3>4, ResizeWritten
      <3>5. ASSUME NEW k \in Nat, Crash(k)
            PROVE  Written'
        BY <3>5, CrashWritten
      <3>. QED BY <2>1, <3>1, <3>2, <3>3, <3>4, <3>5, StepIs, FlushWritten, RecoverWritten
    <2>2. CASE UNCHANGED vars
      <3>1. UNCHANGED <<state, order, val, red, warm, blue, dirty, tombstoned, store, failures>>
        BY <2>2 DEF vars, dag, tiers, counters
      <3>2. Nodes' = Nodes /\ Elements(warm)' = Elements(warm)
        BY <3>1 DEF Nodes
      <3>. QED BY <3>1, <3>2 DEF Written, BlueReadsBack, InMemory, Held, ClosedReachesStorage
    <2>. QED BY <2>1, <2>2
  <1>. QED BY <1>1, <1>2, ManagerInvHolds, PTL DEF Spec

\* As long as no write has failed, every checkpoint in memory without the dirty mark
\* has an up-to-date copy in storage, whatever loads, evictions, removals and
\* compactions came before, so that a close() that has flushed the marked ones and
\* the warm tier has brought everything to storage.
THEOREM CloseHolds ==
  ASSUME NoReuse
  PROVE  Spec => [](failures = 0 => CloseIsDurable)
  <1>1. Written => (failures = 0 => CloseIsDurable)
    BY DEF Written, CloseIsDurable, DirtyTracksStore, InMemory
  <1>. QED BY <1>1, WrittenHolds, PTL

\* What is announced as stored, in the manifest or its spout, is in storage.
Announced ==
  \A id \in Ids : logged[id] = "stored" \/ drained[id] = "stored" => InStore(id)

\* Writes and their announcements go together.
LEMMA AnnouncedKeeps ==
  ASSUME ManagerInv, Announced, NEW P \in SUBSET Nodes, NEW over,
         store' = Stored(P), logged' = Logged(P, over), drained' \in {drained, logged'}
  PROVE  Announced'
  <1>1. ASSUME NEW id \in Ids, logged'[id] = "stored" \/ drained'[id] = "stored"
        PROVE  store'[id].ver # 0
    <2>1. CASE id \in P
      <3>1. store'[id].ver = val[id]
        BY <2>1, CopiedIs
      <3>2. val[id] # 0
        BY <2>1 DEF ManagerInv, ContentShape
      <3>. QED BY <3>1, <3>2
    <2>2. CASE id \notin P
      <3>1. store'[id] = store[id]
        BY <2>2 DEF Stored
      <3>2. logged'[id] = "stored" => logged[id] = "stored"
        BY <2>2 DEF Logged
      <3>3. store[id].ver # 0
        BY <1>1, <3>2 DEF Announced, InStore
      <3>. QED BY <3>1, <3>3
    <2>. QED BY <2>1, <2>2
  <1>. QED BY <1>1 DEF Announced, InStore

\* Every step keeps announcements true, as long as nothing is removed.
LEMMA AnnouncedStep ==
  ASSUME ~Removes, ManagerInv, Announced, [Next]_vars
  PROVE  Announced'
  <1>1. ASSUME NEW out, Rearranges(out)
        PROVE  Announced'
    <2>1. PICK w, cold, enter, fresh :
            Elements(w) \subseteq Elements(warm) /\ Turnover(cold, w, enter, fresh)
      BY <1>1, Zenon DEF Rearranges, Rearranged
    <2>2. PICK V, P, lost, over :
            /\ V \in SUBSET red /\ P \in SUBSET (Elements(w) \union V)
            /\ store' = Stored(P) /\ logged' = Logged(P, over) /\ drained' = drained
      BY <2>1, Zenon DEF Turnover, TurnsOver
    <2>3. P \in SUBSET Nodes
      BY <2>1, <2>2 DEF ManagerInv, TierShape
    <2>. QED BY <2>2, <2>3, AnnouncedKeeps
  <1>2. ASSUME Flushes
        PROVE  Announced'
    <2>1. PICK X, W, over :
            /\ X \in SUBSET Elements(warm) /\ W \subseteq X \union (dirty \intersect red)
            /\ store' = Stored(W) /\ logged' = Logged(W, over)
      BY <1>2, Zenon DEF Flushes, Flushed
    <2>2. W \in SUBSET Nodes /\ drained' \in {drained, logged'}
      BY <1>2, <2>1 DEF ManagerInv, TierShape, Flushes
    <2>. QED BY <2>1, <2>2, AnnouncedKeeps
  <1>3. ASSUME NEW k \in Nat, Crash(k)
        PROVE  Announced'
    <2>1. PICK W : W \in SUBSET (Elements(warm) \union (dirty \intersect red)) /\ store' = Stored(W)
      BY <1>3, CrashIs DEF CrashStores
    <2>2. W \in SUBSET Nodes /\ logged' = logged /\ drained' = drained
      BY <1>3, <2>1 DEF ManagerInv, TierShape, Crash, manifest
    <2>3. ASSUME NEW id \in Ids, store[id].ver # 0
          PROVE  store'[id].ver # 0
      <3>1. CASE id \in W
        <4>1. store'[id].ver = val[id]
          BY <2>1, <2>2, <3>1, CopiedIs
        <4>2. val[id] # 0
          BY <2>2, <3>1 DEF ManagerInv, ContentShape
        <4>. QED BY <4>1, <4>2
      <3>2. CASE id \notin W
        <4>1. store'[id] = store[id]
          BY <2>1, <3>2 DEF Stored
        <4>. QED BY <2>3, <4>1
      <3>. QED BY <3>1, <3>2
    <2>. QED BY <2>2, <2>3 DEF Announced, InStore
  <1>4. ASSUME Recover
        PROVE  Announced'
    <2>1. logged' = drained /\ drained' = drained /\ store' = store
      BY <1>4 DEF Recover
    <2>. QED BY <2>1 DEF Announced, InStore
  <1>5. ASSUME NEW c, Resize(c)
        PROVE  Announced'
    <2>1. logged' = logged /\ drained' = drained /\ store' = store
      BY <1>5 DEF Resize, manifest
    <2>. QED BY <2>1 DEF Announced, InStore
  <1>6. ASSUME NEW S, NEW purged, Leaves(S, purged)
        PROVE  FALSE
    BY <1>6 DEF Leaves
  <1>7. CASE Next
    BY <1>1, <1>2, <1>3, <1>4, <1>5, <1>6, <1>7, StepIs
  <1>8. CASE UNCHANGED vars
    <2>1. logged' = logged /\ drained' = drained /\ store' = store
      BY <1>8 DEF vars, manifest
    <2>. QED BY <2>1 DEF Announced, InStore
  <1>. QED BY <1>7, <1>8

\* Whichever writes fail, every cold checkpoint reads back as it was added, and the
\* manifest announces nothing that is not in storage.  For a caller that never
\* removes: the manifest's ring is not drained by compact(), and a recovery may find
\* announcements of what it purged.
THEOREM StorageHolds ==
  ASSUME ~Removes
  PROVE  Spec => []StorageAgrees
  <1>1. Init => Announced
    BY DEF Init, Announced
  <1>2. ManagerInv /\ Announced /\ [Next]_vars => Announced'
    BY AnnouncedStep
  <1>3. NoReuse
    BY DEF NoReuse
  <1>4. Spec => []Written
    BY <1>3, WrittenHolds
  <1>5. Written /\ Announced => StorageAgrees
    BY DEF Written, Announced, StorageAgrees, LogMatchesStore
  <1>. QED BY <1>1, <1>2, <1>4, <1>5, ManagerInvHolds, PTL DEF Spec

\* A crash in the middle of a flush: the copies of what was due before a checkpoint
\* in the same phase, or in an earlier one, are in storage when its copy is.
THEOREM ParentsHold == Spec => FlushStoresParentsFirst
  <1> DEFINE First ==
        state' = "crashed" =>
          \A id \in InStorage' \ InStorage : \A p \in deps[id] :
            \/ p \in Elements(warm)
            \/ p \in red \intersect dirty /\ id \in red
            => p \in InStorage'
  <1>1. ManagerInv /\ Next => First
    <2> SUFFICES ASSUME ManagerInv, Next, state' = "crashed",
                        NEW id \in InStorage' \ InStorage, NEW p \in deps[id],
                        \/ p \in Elements(warm)
                        \/ p \in red \intersect dirty /\ id \in red
                 PROVE  p \in InStorage'
      BY DEF First
    <2>1. PICK k \in Nat : Crash(k)
      BY StepIs DEF Rearranges, Resize, Flushes, Leaves, Recover
    <2>2. PICK W :
            /\ W \in SUBSET (Elements(warm) \union (dirty \intersect red))
            /\ store' = Stored(W)
            /\ \A q, x \in Elements(warm) : Precedes(order, q, x) /\ x \in W => q \in W
            /\ \A q, x \in dirty \intersect red : Precedes(order, q, x) /\ x \in W => q \in W
            /\ \A x \in dirty \intersect red : x \in W => Elements(warm) \subseteq W
      BY <2>1, CrashIs, Zenon DEF CrashStores
    <2>3. id \in Ids /\ store'[id].ver # 0 /\ store[id].ver = 0
      BY DEF InStorage, InStore
    <2>4. id \in W
      BY <2>2, <2>3 DEF Stored
    <2>5. /\ W \in SUBSET Nodes /\ Elements(warm) \intersect red = {}
      BY <2>2 DEF ManagerInv, TierShape
    <2>6. Precedes(order, p, id) /\ Nodes \subseteq Ids
      BY <2>4, <2>5, Facts DEF ManagerInv, OrderShape
    <2>7. p \in W
      BY <2>2, <2>4, <2>5, <2>6
    <2>8. store'[p].ver = val[p] /\ val[p] # 0
      BY <2>2, <2>5, <2>7, CopiedIs DEF ManagerInv, ContentShape
    <2>. QED BY <2>5, <2>6, <2>7, <2>8 DEF InStorage, InStore
  <1>2. ManagerInv /\ [Next]_vars => [First]_vars
    BY <1>1
  <1> HIDE DEF First
  <1>3. Spec => [][First]_vars
    BY <1>2, ManagerInvHolds, PTL DEF Spec
  <1>. QED BY <1>3 DEF FlushStoresParentsFirst, First

-------------------------------------------------------------------------------
(* What load() returns *)

\* The ids S excepted, a checkpoint that is a node before and after is held after if
\* it was before, and keeps its content.
StaysHeld(S) ==
  /\ \A id \in Nodes \intersect Nodes' : val'[id] = val[id]
  /\ (Held \intersect Nodes') \ S \subseteq Held'

\* load() returns the content of what the tiers hold, from whichever tier.
LEMMA HeldContent ==
  ASSUME ManagerInv, Written
  PROVE  \A id \in Ids : Content(id) = IF id \in Held THEN val[id] ELSE 0
  BY DEF Content, Held, InMemory, Written, BlueReadsBack

\* What stays held keeps its content.
LEMMA HeldKeepsContent ==
  ASSUME ManagerInv, Written, ManagerInv', Written', NEW S, StaysHeld(S)
  PROVE  KeepsContent(S)
  <1>1. /\ \A id \in Ids : Content(id) = IF id \in Held THEN val[id] ELSE 0
        /\ \A id \in Ids : Content(id)' = IF id \in Held' THEN val'[id] ELSE 0
    <2>1. \A id \in Ids : Content(id) = IF id \in Held THEN val[id] ELSE 0
      BY HeldContent
    <2>2. (\A id \in Ids : Content(id) = IF id \in Held THEN val[id] ELSE 0)'
      BY HeldContent DEF Content, Held, InMemory, Written, BlueReadsBack
    <2>. QED BY <2>1, <2>2
  <1>2. ASSUME NEW id \in (Nodes \intersect Nodes') \ S, Content(id) # 0
        PROVE  Content(id)' = Content(id)
    <2>1. id \in Ids
      BY Facts
    <2>2. id \in Held /\ id \in Held' /\ val'[id] = val[id]
      BY <1>1, <1>2, <2>1 DEF StaysHeld
    <2>. QED BY <1>1, <2>1, <2>2
  <1>. QED BY <1>2 DEF KeepsContent

\* Where there is a warm tier, or the writes succeed, no eviction costs a checkpoint.
LEMMA RearrangedStays ==
  ASSUME WarmCapacity # 0 \/ failures' = failures, ManagerInv, NEW out, Rearranges(out)
  PROVE  StaysHeld(out)
  <1>1. PICK w, cold, enter, fresh :
          /\ cold \in SUBSET blue
          /\ Elements(w) \subseteq Elements(warm)
          /\ Elements(warm) \ Elements(w) \subseteq enter \union out
          /\ blue \ cold \subseteq enter
          /\ Turnover(cold, w, enter, fresh)
    BY Zenon DEF Rearranges, Rearranged
  <1>2. PICK V, P, lost, over :
          /\ V \in SUBSET red /\ P \in SUBSET (Elements(w) \union V)
          /\ red' = (red \ V) \union enter
          /\ Elements(warm') = ((Elements(w) \union V) \ P) \ lost
          /\ blue' = cold \union P
          /\ \/ failures' = failures /\ lost = {}
             \/ failures' = failures + 1 /\ (WarmCapacity # 0 => lost = {})
    BY <1>1, Zenon DEF Turnover, TurnsOver
  <1>3. Elements(warm') = Elements(warm)'
    BY DEF Elements
  <1>4. \A id \in Nodes : val'[id] = val[id]
    BY DEF Rearranges, DagGrows
  <1>5. lost = {}
    <2>1. failures \in Nat
      BY DEF ManagerInv, OtherShape
    <2>. QED BY <1>2, <2>1
  <1>. QED BY <1>1, <1>2, <1>3, <1>4, <1>5 DEF StaysHeld, Held, InMemory

\* A flush moves checkpoints from the warm to the cold tier.
LEMMA FlushStays ==
  ASSUME ManagerInv, Flushes
  PROVE  StaysHeld({})
  <1>1. PICK X, W, over :
          /\ red' = red /\ Elements(warm') = Elements(warm) \ X /\ blue' = blue \union X
    BY Zenon DEF Flushes, Flushed
  <1>2. val' = val /\ Elements(warm') = Elements(warm)'
    BY DEF Flushes, dag, Elements
  <1>. QED BY <1>1, <1>2 DEF StaysHeld, Held, InMemory

\* A removal takes away what it removes and nothing else.
LEMMA LeavesStay ==
  ASSUME ManagerInv, NEW S, NEW purged, Leaves(S, purged)
  PROVE  StaysHeld({})
  <1>1. /\ S \in SUBSET Nodes /\ LeaveTiers(S) /\ LeaveDag(S) /\ val' = val
        /\ tombstoned' \subseteq tombstoned \union (S \intersect blue) /\ gone' = gone \union S
    BY Zenon DEF Leaves
  <1>2. tombstoned' \in SUBSET Ids /\ gone' \in SUBSET Ids
    BY <1>1, Facts DEF ManagerInv, TierShape
  <1>3. /\ Nodes' = Nodes \ S
        /\ red' = red \ S /\ blue' = blue \ S
        /\ Elements(warm') = Elements(warm) \ S /\ Elements(warm') = Elements(warm)'
    BY <1>1, <1>2, LeaveIs DEF Elements
  <1>. QED BY <1>1, <1>3 DEF StaysHeld, Held, InMemory

\* A checkpoint that stays in the DAG keeps its content, wherever it is moved and
\* whichever write fails and is undone; at risk is only what a failed load has
\* taken out of the warm tier.  A manager without a warm tier has nowhere to put a
\* victim whose write has failed.
THEOREM ContentHolds ==
  ASSUME NoReuse, WarmCapacity # 0
  PROVE  Spec => OthersKeepContent
  <1> DEFINE Keeps == \/ KeepsContent({})
                      \/ \E id \in Ids : LoadWarmFails(id) /\ KeepsContent({id})
  <1>1. ManagerInv /\ Written /\ ManagerInv' /\ Written' /\ Next => Keeps
    <2> SUFFICES ASSUME ManagerInv, Written, ManagerInv', Written', Next PROVE Keeps
      OBVIOUS
    <2>1. ASSUME StaysHeld({})
          PROVE  Keeps
      BY <2>1, HeldKeepsContent
    <2>2. ASSUME NEW id \in Ids, LoadWarmFails(id), Rearranges({id})
          PROVE  Keeps
      <3>1. StaysHeld({id})
        BY <2>2, RearrangedStays
      <3>2. KeepsContent({id})
        BY <3>1, HeldKeepsContent
      <3>. QED BY <2>2, <3>2
    <2>3. ASSUME NEW c, Resize(c)
          PROVE  StaysHeld({})
      <3>1. val' = val /\ red' = red /\ warm' = warm /\ blue' = blue
        BY <2>3 DEF Resize, dag, tiers
      <3>. QED BY <3>1 DEF StaysHeld, Held, InMemory
    <2>4. ASSUME ~({state, state'} \subseteq {"open", "resizing"})
          PROVE  Keeps
      BY <2>4 DEF KeepsContent
    <2>5. ASSUME NEW k \in Nat, Crash(k)
          PROVE  Keeps
      <3>1. state' = "crashed"
        BY <2>5 DEF Crash
      <3>. QED BY <2>4, <3>1
    <2>6. ASSUME Recover
          PROVE  Keeps
      <3>1. state \in {"closed", "dropped", "crashed"}
        BY <2>6 DEF Recover
      <3>. QED BY <2>4, <3>1
    <2> HIDE DEF Keeps
    <2>. QED BY <2>1, <2>2, <2>3, <2>5, <2>6, StepIs, RearrangedStays, FlushStays, LeavesStay
  <1>2. ManagerInv /\ Written /\ ManagerInv' /\ Written' /\ [Next]_vars => [Keeps]_vars
    BY <1>1
  <1> HIDE DEF Keeps
  <1>3. Spec => [][Keeps]_vars
    BY <1>2, ManagerInvHolds, WrittenHolds, PTL DEF Spec
  <1>. QED BY <1>3 DEF OthersKeepContent, Keeps

-------------------------------------------------------------------------------
(* The map that the tiers implement, while no write fails                       *)

\* The least set that is closed is so, and holds nothing it does not have to.
LEMMA LeastClosedIs ==
  ASSUME NEW U, NEW D
  PROVE  LET L == LeastClosed(U, D)
         IN  /\ L \subseteq U
             /\ \A j \in U : D[j] \subseteq L => j \in L
             /\ \A j \in L : D[j] \subseteq L
             /\ \A S \in SUBSET U : (\A j \in U : D[j] \subseteq S => j \in S) => L \subseteq S
  <1> DEFINE L == LeastClosed(U, D)
             Closed(S) == \A j \in U : D[j] \subseteq S => j \in S
  <1>1. L = {id \in U : \A S \in SUBSET U : Closed(S) => id \in S}
    BY DEF LeastClosed
  <1> HIDE DEF L
  <1>2. L \subseteq U /\ \A S \in SUBSET U : Closed(S) => L \subseteq S
    BY <1>1
  <1>3. ASSUME NEW j \in U, D[j] \subseteq L
        PROVE  j \in L
    <2>1. ASSUME NEW S \in SUBSET U, Closed(S)
          PROVE  j \in S
      <3>1. D[j] \subseteq S
        BY <1>2, <1>3, <2>1
      <3>. QED BY <2>1, <3>1
    <2>. QED BY <1>1, <2>1
  <1>4. ASSUME NEW j \in L
        PROVE  D[j] \subseteq L
    <2>1. ASSUME ~(D[j] \subseteq L)
          PROVE  FALSE
      <3> DEFINE S == L \ {j}
      <3>1. S \in SUBSET U /\ j \notin S
        BY <1>2
      <3>2. ASSUME NEW x \in U, D[x] \subseteq S
            PROVE  x \in S
        <4>1. D[x] \subseteq L
          BY <3>2
        <4>2. x \in L
          BY <1>3, <4>1
        <4>3. x # j
          BY <2>1, <4>1
        <4>. QED BY <4>2, <4>3
      <3> HIDE DEF S
      <3>3. Closed(S)
        BY <3>2
      <3>. QED BY <1>2, <3>1, <3>3
    <2>. QED BY <2>1
  <1>. QED BY <1>2, <1>3, <1>4 DEF L

\* Every node is held by a tier.
MapInv ==
  /\ ManagerInv /\ Written
  /\ state # "closing"
  /\ stops = 0 => state \in {"open", "resizing"}
  /\ Nodes \subseteq Held

\* The map has the nodes, with their contents and dependencies.
LiveShown ==
  state \in Up =>
    Live = [id \in Ids |-> IF id \in Nodes THEN [ver |-> val[id], deps |-> deps[id]] ELSE Absent]

LEMMA LiveIs == MapInv => LiveShown
  <1> SUFFICES ASSUME MapInv, state \in Up PROVE LiveShown
    BY DEF LiveShown
  <1>1. Held = Nodes /\ Nodes \subseteq Ids
    BY Facts DEF MapInv, ManagerInv, TierShape, Held, InMemory
  <1>2. \A id \in Ids : Content(id) = IF id \in Nodes THEN val[id] ELSE 0
    BY <1>1, HeldContent DEF MapInv
  <1>3. \A id \in Nodes : val[id] # 0
    BY DEF MapInv, ManagerInv, ContentShape
  <1>4. Live = [id \in Ids |-> [ver |-> Content(id), deps |-> IF Content(id) = 0 THEN {} ELSE deps[id]]]
    BY DEF Live
  <1>5. \A id \in Ids : [ver |-> Content(id), deps |-> IF Content(id) = 0 THEN {} ELSE deps[id]]
                          = IF id \in Nodes THEN [ver |-> val[id], deps |-> deps[id]] ELSE Absent
    BY <1>2, <1>3 DEF Absent
  <1>. QED BY <1>4, <1>5 DEF LiveShown

\* The kinds of steps while no write fails.
QuietStep ==
  \/ \E id \in Ids : \E ds \in SUBSET Ids : Add(id, ds)
  \/ Rearranges({}) /\ UNCHANGED dag
  \/ \E c \in Resizes \union {Optimal} : Resize(c)
  \/ (Flush \/ Close \/ Drop) /\ Flushes /\ FlushAll
  \/ \E k \in Nat : Crash(k)
  \/ \E id \in Ids : Remove(id) /\ Leaves({id}, {})
  \/ Compact /\ Leaves(Orphans, tombstoned \union Orphans)
  \/ Recover

LEMMA QuietStepIs ==
  ASSUME MaxFailures = 0, ManagerInv, Next
  PROVE  failures' = 0 /\ failures = 0 /\ QuietStep
  <1>1. failures' = 0 /\ failures = 0
    <2>1. ManagerInv'
      BY StepKeeps
    <2>. QED BY <2>1 DEF ManagerInv, OtherShape
  <1>2. ASSUME NEW w, EvictionFails(w), w = warm \/ \E id : w = Without(warm, {id})
        PROVE  FALSE
    <2>1. w \in Seq(Ids) /\ Distinct(w) /\ Elements(w) \subseteq Elements(warm)
      BY <1>2, WarmButIs DEF WarmBut
    <2>. QED BY <1>1, <1>2, <2>1, EvictionFailsIs
  <1>3. ~FlushFails
    BY <1>1 DEF FlushFails, FlushWarmFails, FlushDirtyFails
  <1>4. CASE Moving
    <2>1. CASE \E id \in Ids : \E ds \in SUBSET Ids : AddFails(id, ds)
      BY <1>2, <2>1 DEF AddFails
    <2>2. CASE \E id \in Ids : LoadWarm(id) \/ LoadCold(id)
      BY <1>1, <1>4, <2>2, MovingIs DEF LoadWarm, LoadCold, QuietStep
    <2>3. CASE InsertFails \/ Compress \/ ResizeEvicts \/ ResizeFails
      BY <1>1, <1>4, <2>3, MovingIs DEF InsertFails, Compress, ResizeEvicts, ResizeFails, QuietStep
    <2>. QED BY <1>1, <1>4, <2>1, <2>2, <2>3 DEF Moving, QuietStep
  <1>5. ASSUME NEW id \in Ids, LoadWarmFails(id)
        PROVE  FALSE
    BY <1>2, <1>5 DEF LoadWarmFails
  <1>6. CASE (Flush \/ Close \/ Drop) /\ Flushes
    BY <1>1, <1>3, <1>6 DEF Flush, Close, Drop, QuietStep
  <1>7. CASE Rearranges({}) /\ ~Moving
    <2>1. \/ \E id \in Ids : LoadWarmFails(id)
          \/ \E c \in Resizes \union {Optimal} : Resize(c)
          \/ Flush \/ Close \/ Drop
          \/ \E k \in 0 .. 2 * Cardinality(Ids) : Crash(k)
          \/ \E id \in Ids : Remove(id)
          \/ Compact
          \/ Recover
      BY <1>7, Zenon DEF Next, Moving
    <2>. QED BY <1>1, <1>3, <1>5, <2>1, StepIs, FlushesIs, RemoveIs, CompactIs
         DEF Flush, Close, Drop, QuietStep
  <1>. QED BY <1>1, <1>4, <1>5, <1>6, <1>7, StepIs DEF QuietStep

\* An added node is hot.
LEMMA AddEnters ==
  ASSUME NEW id, NEW ds, Add(id, ds)
  PROVE  id \in red'
  BY DEF Add, EvictAll

\* Every step leaves every node with a tier that holds it.
LEMMA MapKeeps ==
  ASSUME NoReuse, MaxFailures = 0, MapInv, [Next]_vars, ManagerInv', Written'
  PROVE  MapInv'
  <1>1. ManagerInv /\ Written /\ Nodes \subseteq Held /\ state # "closing"
        /\ (stops = 0 => state \in {"open", "resizing"})
    BY DEF MapInv
  <1>2. CASE Next
    <2>1. failures' = failures
      BY <1>1, <1>2, QuietStepIs
    <2>2. ASSUME StaysHeld({}), Nodes' \subseteq Nodes
          PROVE  Nodes' \subseteq Held'
      BY <1>1, <2>2 DEF StaysHeld
    <2>3. ASSUME NEW id \in Ids, NEW ds \in SUBSET Ids, Add(id, ds)
          PROVE  MapInv'
      <3>1. /\ id \in red' /\ Nodes' = Nodes \union {id}
            /\ state' = state /\ stops' = stops
        BY <1>1, <2>3, AddEnters, NodeAdded DEF Add
      <3>2. StaysHeld({})
        BY <1>1, <2>1, <2>3, AddIs, RearrangedStays
      <3>. QED BY <1>1, <3>1, <3>2 DEF MapInv, StaysHeld, Held, InMemory
    <2>4. ASSUME Rearranges({}), UNCHANGED dag
          PROVE  MapInv'
      <3>1. StaysHeld({}) /\ Nodes' = Nodes
        BY <1>1, <2>1, <2>4, RearrangedStays DEF Nodes, dag
      <3>2. state' \in {"open", "resizing"} /\ stops' = stops
        BY <2>4 DEF Rearranges
      <3>. QED BY <1>1, <2>2, <3>1, <3>2 DEF MapInv
    <2>5. ASSUME NEW c, Resize(c)
          PROVE  MapInv'
      <3>1. /\ red' = red /\ warm' = warm /\ blue' = blue /\ order' = order
            /\ state' \in {"open", "resizing"} /\ stops' = stops
        BY <2>5 DEF Resize, tiers, dag, counters
      <3>. QED BY <1>1, <3>1 DEF MapInv, Held, InMemory, Nodes
    <2>6. ASSUME Flush \/ Close \/ Drop, Flushes, FlushAll
          PROVE  MapInv'
      <3>1. StaysHeld({}) /\ Nodes' = Nodes
        BY <1>1, <2>6, FlushStays DEF Flushes, dag, Nodes
      <3>2. ~FlushFails
        <4>1. failures' = failures + 1 => FALSE
          BY <1>1, <2>1 DEF ManagerInv, OtherShape
        <4>. QED BY <4>1 DEF FlushFails, FlushWarmFails, FlushDirtyFails
      <3>3. /\ stops \in Nat /\ state' # "closing"
            /\ \/ state' = "open" /\ stops' = stops
               \/ stops' = stops + 1
               \/ state = "closing"
        BY <2>6, <3>2 DEF Flush, Close, Drop, Stops, MapInv, ManagerInv, OtherShape
      <3>4. stops' = 0 => state' \in {"open", "resizing"}
        BY <1>1, <3>3
      <3>. QED BY <1>1, <2>2, <3>1, <3>3, <3>4 DEF MapInv
    <2>7. ASSUME NEW k \in Nat, Crash(k)
          PROVE  MapInv'
      <3>1. /\ red' = red /\ warm' = warm /\ blue' = blue /\ order' = order
            /\ state' = "crashed" /\ stops' = stops + 1 /\ stops \in Nat
        BY <1>1, <2>7 DEF Crash, Stops, tiers, dag, ManagerInv, OtherShape
      <3>2. stops' # 0
        BY <3>1
      <3>. QED BY <1>1, <3>1, <3>2 DEF MapInv, Held, InMemory, Nodes
    <2>8. ASSUME NEW S, NEW purged, Leaves(S, purged)
          PROVE  MapInv'
      <3>1. StaysHeld({})
        BY <1>1, <2>8, LeavesStay
      <3>2. /\ LeaveTiers(S) /\ LeaveDag(S) /\ S \in SUBSET Nodes
            /\ tombstoned' \in SUBSET Ids /\ gone' \in SUBSET Ids
            /\ state' = "open" /\ stops' = stops
        BY <1>1, <2>8, Facts DEF Leaves, ManagerInv, TierShape
      <3>3. Nodes' \subseteq Nodes
        BY <1>1, <3>2, LeaveIs
      <3>. QED BY <1>1, <2>2, <3>1, <3>2, <3>3 DEF MapInv
    <2>9. ASSUME Recover
          PROVE  MapInv'
      <3>1. PICK s \in RecoveryOrders : order' = s /\ red' = Recent(s) /\ blue' = Recoverable \ Recent(s)
        BY <2>9 DEF Recover
      <3>2. Nodes' = Recoverable
        BY <1>1, <3>1, RecoveryIs DEF Nodes, Elements
      <3>3. state' = "open"
        BY <2>9 DEF Recover
      <3>. QED BY <3>1, <3>2, <3>3 DEF MapInv, Held, InMemory
    <2>10. QuietStep
      BY <1>1, <1>2, QuietStepIs
    <2>. QED BY <2>3, <2>4, <2>5, <2>6, <2>7, <2>8, <2>9, <2>10 DEF QuietStep
  <1>3. CASE UNCHANGED vars
    <2>1. UNCHANGED <<red, warm, blue, order, state, stops>>
      BY <1>3 DEF vars, tiers, dag, counters
    <2>. QED BY <1>1, <2>1 DEF MapInv, Held, InMemory, Nodes
  <1>. QED BY <1>2, <1>3

THEOREM MapInvHolds ==
  ASSUME NoReuse, MaxFailures = 0
  PROVE  Spec => []MapInv
  <1>1. ManagerInv /\ Written /\ Init => MapInv
    <2> SUFFICES ASSUME ManagerInv, Written, Init PROVE MapInv
      OBVIOUS
    <2>1. Nodes = {} /\ state = "open"
      BY NoneHas DEF Init, Nodes
    <2>. QED BY <2>1 DEF MapInv
  <1>2. MapInv /\ [Next]_vars /\ ManagerInv' /\ Written' => MapInv'
    BY MapKeeps
  <1>. QED BY <1>1, <1>2, ManagerInvHolds, WrittenHolds, PTL DEF Spec

-------------------------------------------------------------------------------
(* Step by step                                                                 *)

\* The map before and after a step of a manager that is open.
MapSteps == LiveShown /\ LiveShown' /\ state \in Up /\ state' \in Up

\* An operation that leaves the DAG alone does not show.
LEMMA MapStutters ==
  ASSUME MapSteps, Nodes' = Nodes, \A id \in Nodes : val'[id] = val[id] /\ deps'[id] = deps[id]
  PROVE  UNCHANGED Map!vars
  <1>1. /\ Live = [id \in Ids |-> IF id \in Nodes THEN [ver |-> val[id], deps |-> deps[id]] ELSE Absent]
        /\ Live' = [id \in Ids |-> IF id \in Nodes' THEN [ver |-> val'[id], deps |-> deps'[id]] ELSE Absent]
        /\ state \in Up /\ state' \in Up
    BY DEF MapSteps, LiveShown, Absent, Up
  <1>2. Live' = Live
    BY <1>1
  <1>. QED BY <1>1, <1>2 DEF Map!vars, Up

\* The parts of an entry of the map.
EntryOf(r, v, d) ==
  /\ r.ver = v /\ r.deps = d
  /\ \A S : [r EXCEPT !.deps = @ \ S] = [ver |-> v, deps |-> d \ S]
LEMMA EntryIs == \A r, v, d : r = [ver |-> v, deps |-> d] => EntryOf(r, v, d)
  BY DEF EntryOf

\* What is present in the map are the nodes.
LEMMA PresentIs ==
  ASSUME MapInv, LiveShown, state \in Up
  PROVE  /\ Map!Present = Nodes /\ Nodes \subseteq Ids
         /\ \A id \in Nodes : Live[id] = [ver |-> val[id], deps |-> deps[id]]
         /\ \A id \in Ids \ Nodes : Live[id] = Absent
  <1>1. Nodes \subseteq Ids
    BY Facts DEF MapInv
  <1>2. /\ \A id \in Nodes : Live[id] = [ver |-> val[id], deps |-> deps[id]]
        /\ \A id \in Ids \ Nodes : Live[id] = Absent
    BY <1>1 DEF LiveShown
  <1>3. ASSUME NEW id \in Nodes
        PROVE  Live[id].ver # 0
    <2>1. val[id] # 0
      BY DEF MapInv, ManagerInv, ContentShape
    <2>2. EntryOf(Live[id], val[id], deps[id])
      BY <1>2, EntryIs, Zenon
    <2>3. Live[id].ver = val[id]
      BY <2>2, Zenon DEF EntryOf
    <2>. QED BY <2>1, <2>3
  <1>4. \A id \in Ids \ Nodes : Live[id].ver = 0
    BY <1>2 DEF Absent
  <1>5. Map!Present = Nodes
    BY <1>1, <1>3, <1>4 DEF Map!Present
  <1>. QED BY <1>1, <1>2, <1>5

\* add() adds to the map.
LEMMA MapAdds ==
  ASSUME MapInv, MapInv', LiveShown, LiveShown', NEW id \in Ids, NEW ds \in SUBSET Ids, Add(id, ds)
  PROVE  Map!Next
  <1>1. /\ ManagerInv /\ Counted(id) /\ AddNode(id, ds) /\ state' = state
    BY DEF Add, MapInv
  <1>2. /\ Nodes' = Nodes \union {id} /\ id \notin Nodes /\ state = "open"
        /\ \A x \in Nodes : val'[x] = val[x] /\ deps'[x] = deps[x]
    BY <1>1, NodeAdded DEF DagGrows
  <1>3. /\ ds \subseteq Nodes /\ deps'[id] = ds /\ val'[id] = adds[id] + 1 /\ adds[id] < MaxAdds
        /\ adds[id] \in Nat
    BY <1>1 DEF AddNode, Counted, ManagerInv, OrderShape, ContentShape
  <1>4. adds[id] + 1 \in 1 .. MaxAdds
    BY <1>3, ManagerAssumption
  <1>5. Map!Present = Nodes /\ Nodes \subseteq Ids
    BY <1>2, PresentIs DEF Up
  <1>6. /\ Live = [x \in Ids |-> IF x \in Nodes THEN [ver |-> val[x], deps |-> deps[x]] ELSE Absent]
        /\ Live' = [x \in Ids |-> IF x \in Nodes' THEN [ver |-> val'[x], deps |-> deps'[x]] ELSE Absent]
    BY <1>1, <1>2 DEF LiveShown, Absent, Up
  <1>7. Live' = [Live EXCEPT ![id] = [ver |-> adds[id] + 1, deps |-> ds]]
    BY <1>2, <1>3, <1>6
  <1>8. Map!Add(id, ds, adds[id] + 1)
    BY <1>1, <1>2, <1>3, <1>5, <1>7 DEF Map!Add, Up
  <1>. QED BY <1>4, <1>8 DEF Map!Next

\* What leaves is taken out of the map and out of the dependencies of the rest.
LEMMA MapLoses ==
  ASSUME MapInv, MapInv', LiveShown, LiveShown', NEW S, NEW purged, Leaves(S, purged)
  PROVE  Map!RemoveAll(S) /\ S \in SUBSET Ids
  <1>1. /\ S \in SUBSET Nodes /\ LeaveTiers(S) /\ LeaveDag(S)
        /\ state = "open" /\ state' = "open" /\ val' = val
        /\ tombstoned' \subseteq tombstoned \union (S \intersect blue) /\ gone' = gone \union S
    BY Zenon DEF Leaves
  <1>2. tombstoned' \in SUBSET Ids /\ gone' \in SUBSET Ids /\ ManagerInv
    BY <1>1, Facts DEF MapInv, ManagerInv, TierShape
  <1>3. /\ Nodes' = Nodes \ S
        /\ deps' = [id \in Ids |-> IF id \in S THEN {} ELSE deps[id] \ S]
    BY <1>1, <1>2, LeaveIs DEF LeaveDag
  <1>4. /\ Map!Present = Nodes /\ Nodes \subseteq Ids
        /\ \A id \in Nodes : Live[id] = [ver |-> val[id], deps |-> deps[id]]
        /\ \A id \in Ids \ Nodes : Live[id] = Absent
    BY <1>1, PresentIs DEF Up
  <1>5. Live' = [x \in Ids |-> IF x \in Nodes' THEN [ver |-> val'[x], deps |-> deps'[x]] ELSE Absent]
    BY <1>1 DEF LiveShown, Absent, Up
  <1>6. ASSUME NEW id \in Ids
        PROVE  Live'[id] = IF id \in S THEN Map!None ELSE [Live[id] EXCEPT !.deps = @ \ S]
    <2>1. CASE id \in S
      BY <1>1, <1>3, <1>5, <2>1 DEF Absent, Map!None
    <2>2. CASE id \in Nodes \ S
      <3>1. Live'[id] = [ver |-> val[id], deps |-> deps[id] \ S]
        BY <1>1, <1>3, <1>5, <2>2
      <3>2. [Live[id] EXCEPT !.deps = @ \ S] = [ver |-> val[id], deps |-> deps[id] \ S]
        <4>1. id \in Nodes
          BY <2>2
        <4>2. EntryOf(Live[id], val[id], deps[id])
          BY <1>4, <4>1, EntryIs, Zenon
        <4>. QED BY <4>2, Zenon DEF EntryOf
      <3>. QED BY <2>2, <3>1, <3>2
    <2>3. CASE id \notin Nodes
      <3>1. Live'[id] = Absent /\ id \notin S
        BY <1>1, <1>3, <1>5, <2>3
      <3>2. Live[id] = [ver |-> 0, deps |-> {}]
        BY <1>4, <2>3 DEF Absent
      <3>3. [Live[id] EXCEPT !.deps = @ \ S] = [ver |-> 0, deps |-> {} \ S]
        BY <3>2
      <3>. QED BY <3>1, <3>3 DEF Absent
    <2>. QED BY <2>1, <2>2, <2>3
  <1>7. Live' = [id \in Ids |-> IF id \in S THEN Map!None ELSE [Live[id] EXCEPT !.deps = @ \ S]]
    BY <1>5, <1>6
  <1>8. S \subseteq Map!Present /\ S \in SUBSET Ids
    BY <1>1, <1>4
  <1>. QED BY <1>1, <1>7, <1>8 DEF Map!RemoveAll, Up

\* Orphans are all of what they depended on that is left: compact() is a purge.
LEMMA MapPurges ==
  ASSUME MapInv, MapInv', LiveShown, LiveShown', Compact, Leaves(Orphans, tombstoned \union Orphans)
  PROVE  Map!Next
  <1>1. Map!RemoveAll(Orphans) /\ Orphans \in SUBSET Ids
    BY MapLoses
  <1>2. \A id \in Orphans : deps[id] \subseteq Orphans
    BY LeastClosedIs DEF Orphans
  <1>3. state = "open" /\ Orphans \in SUBSET Nodes
    BY DEF Leaves
  <1>4. \A id \in Orphans : Live[id].deps \subseteq Orphans
    <2>1. \A id \in Nodes : Live[id] = [ver |-> val[id], deps |-> deps[id]]
      BY <1>3, PresentIs DEF Up
    <2>2. ASSUME NEW id \in Orphans
          PROVE  Live[id].deps = deps[id]
      <3>1. id \in Nodes
        BY <1>3
      <3>2. EntryOf(Live[id], val[id], deps[id])
        BY <2>1, <3>1, EntryIs, Zenon
      <3>. QED BY <3>2, Zenon DEF EntryOf
    <2>. QED BY <1>2, <2>2
  <1>5. Map!Purge(Orphans)
    BY <1>1, <1>4 DEF Map!Purge
  <1>. QED BY <1>1, <1>5 DEF Map!Next

\* Every step but a recovery is one of a manager that is open.
LEMMA ActiveUp ==
  ASSUME MaxFailures = 0, ManagerInv, Next, ~Recover
  PROVE  state \in Up
  <1>1. QuietStep
    BY QuietStepIs
  <1>2. ASSUME NEW S, NEW purged, Leaves(S, purged)
        PROVE  state \in Up
    BY <1>2 DEF Leaves, Up
  <1>. QED BY <1>1, <1>2 DEF QuietStep, Add, Counted, Rearranges, Resize, Flush, Close, Drop, Crash, Up

\* While a manager is open, every step is one of the map's, or does not show.
LEMMA UpStepIs ==
  ASSUME NoReuse, MaxFailures = 0, MapInv, MapInv', LiveShown, LiveShown', Next,
         state \in Up, state' \in Up
  PROVE  Map!Next \/ UNCHANGED Map!vars
  <1>1. ManagerInv /\ Nodes \subseteq Held /\ state' \in {"open", "resizing"}
    BY DEF MapInv, Up, ManagerInv, OtherShape
  <1>2. ASSUME Nodes' = Nodes, \A id \in Nodes : val'[id] = val[id] /\ deps'[id] = deps[id]
        PROVE  UNCHANGED Map!vars
    BY <1>2, MapStutters DEF MapSteps
  <1>3. ASSUME NEW id \in Ids, NEW ds \in SUBSET Ids, Add(id, ds)
        PROVE  Map!Next
    BY <1>3, MapAdds
  <1>4. ASSUME UNCHANGED dag
        PROVE  UNCHANGED Map!vars
    BY <1>2, <1>4 DEF dag, Nodes
  <1>5. ASSUME NEW c, Resize(c)
        PROVE  UNCHANGED Map!vars
    BY <1>4, <1>5 DEF Resize
  <1>6. ASSUME Flushes
        PROVE  UNCHANGED Map!vars
    BY <1>4, <1>6 DEF Flushes
  <1>7. ASSUME NEW k \in Nat, Crash(k)
        PROVE  FALSE
    BY <1>1, <1>7 DEF Crash
  <1>8. ASSUME NEW id \in Ids, Remove(id), Leaves({id}, {})
        PROVE  Map!Next
    <2>1. Map!RemoveAll({id})
      BY <1>8, MapLoses
    <2>. QED BY <2>1 DEF Map!Next, Map!Remove
  <1>9. ASSUME Compact, Leaves(Orphans, tombstoned \union Orphans)
        PROVE  Map!Next
    BY <1>9, MapPurges
  <1>10. ASSUME Recover
         PROVE  FALSE
    BY <1>10 DEF Recover, Up
  <1>11. QuietStep
    BY <1>1, QuietStepIs
  <1>. QED BY <1>3, <1>4, <1>5, <1>6, <1>7, <1>8, <1>9, <1>10, <1>11, Zenon DEF QuietStep

\* Nothing happens to the map when nothing happens.
LEMMA MapStays ==
  ASSUME UNCHANGED vars
  PROVE  UNCHANGED Map!vars
  <1>1. Live' = Live /\ state' = state
    BY DEF vars, tiers, dag, counters, Live, Recoverable, LeastClosed, InStorage, InStore, Content, InMemory
  <1>. QED BY <1>1 DEF Map!vars

\* Until the manager is stopped, every step is one of the map's, or does not show.
StepShown == stops' = 0 => [Map!Next]_(Map!vars)

LEMMA StepIsShown ==
  ASSUME NoReuse, MaxFailures = 0, MapInv, MapInv', LiveShown, LiveShown', [Next]_vars
  PROVE  StepShown
  <1> SUFFICES ASSUME stops' = 0 PROVE [Map!Next]_(Map!vars)
    BY DEF StepShown
  <1>1. state' \in Up /\ ManagerInv
    BY DEF MapInv, Up
  <1>2. CASE Next
    <2>1. ~Recover
      <3> SUFFICES ASSUME Recover PROVE FALSE
        OBVIOUS
      <3>1. stops = 0 /\ state \in {"closed", "dropped", "crashed"}
        BY DEF Recover, counters
      <3>. QED BY <3>1 DEF MapInv
    <2>2. state \in Up
      BY <1>1, <1>2, <2>1, ActiveUp
    <2>. QED BY <1>1, <1>2, <2>2, UpStepIs
  <1>3. CASE UNCHANGED vars
    BY <1>3, MapStays
  <1>. QED BY <1>2, <1>3

\* Until its first stop, a manager whose writes succeed implements the map of
\* CheckpointStore, whatever is added, loaded, moved, removed and compacted.
THEOREM StepsHold ==
  ASSUME NoReuse, MaxFailures = 0
  PROVE  Spec => StepsUntilStop
  <1>1. MapInv /\ MapInv' /\ LiveShown /\ LiveShown' /\ [Next]_vars => StepShown
    BY StepIsShown
  <1>2. Spec => [][StepShown]_vars
    BY <1>1, MapInvHolds, LiveIs, PTL DEF Spec
  <1>. QED BY <1>2 DEF StepsUntilStop, StepShown

-------------------------------------------------------------------------------
(* Stopping and starting again, when nothing is removed and no id used twice    *)

\* What is in storage: copies of the nodes as they are, and copies that no recovery
\* can take up because a checkpoint they depend on is lost for good.
CopiesTrue ==
  /\ \A id \in Nodes : InStore(id) => store[id] = [ver |-> val[id], deps |-> deps[id]]
  /\ \A id \in InStorage : \A p \in store[id].deps : adds[p] # 0
  /\ \A id \in InStorage \ Nodes : \E p \in store[id].deps : p \notin Nodes

\* P is written; nodes are added at most.
Writes(P) ==
  /\ P \in SUBSET Nodes /\ store' = Stored(P)
  /\ Nodes \subseteq Nodes'
  /\ \A id \in Nodes : val'[id] = val[id] /\ deps'[id] = deps[id]
  /\ \A id \in Nodes' \ Nodes : adds[id] < MaxAdds
  /\ \A id \in Ids : adds[id] <= adds'[id]

\* An id that was never added has no copy; a node was added.
LEMMA AddedIs ==
  ASSUME ManagerInv
  PROVE  /\ \A id \in Ids : adds[id] \in Nat
         /\ \A id \in Nodes : adds[id] # 0
         /\ \A id \in InStorage : adds[id] # 0
  <1>1. /\ adds \in [Ids -> 0 .. MaxAdds] /\ val \in [Ids -> 0 .. MaxAdds] /\ Nodes \subseteq Ids
        /\ \A id \in Ids : val[id] <= adds[id] /\ store[id].ver <= adds[id]
        /\ \A id \in Nodes : val[id] # 0
    BY Facts DEF ManagerInv, ContentShape
  <1>2. \A id \in Ids : store[id].ver \in 0 .. MaxAdds
    BY DEF ManagerInv, ContentShape
  <1>3. MaxAdds \in Nat
    BY ManagerAssumption
  <1>4. \A id \in Nodes : adds[id] # 0
    BY <1>1, <1>3
  <1>5. \A id \in InStorage : id \in Ids /\ store[id].ver # 0
    BY DEF InStorage, InStore
  <1>6. \A id \in InStorage : adds[id] # 0
    BY <1>1, <1>2, <1>3, <1>5
  <1>. QED BY <1>1, <1>3, <1>4, <1>6

\* Writing nodes keeps the copies true, and a new node completes no old copy's dependencies.
LEMMA CopiesKeep ==
  ASSUME MaxAdds <= 1, ManagerInv, CopiesTrue, NEW P, Writes(P), ManagerInv'
  PROVE  CopiesTrue'
  <1>1. /\ Nodes \subseteq Ids /\ P \in SUBSET Nodes
        /\ Nodes \subseteq Nodes' /\ Nodes' \subseteq Ids
        /\ \A id \in Nodes : val'[id] = val[id] /\ deps'[id] = deps[id]
        /\ \A id \in Ids : adds[id] <= adds'[id]
    <2>1. Nodes' \subseteq Ids
      <3>1. order' \in Seq(Ids)
        BY DEF ManagerInv, OrderShape
      <3>. QED BY <3>1 DEF Nodes, Elements
    <2>. QED BY <2>1, Facts DEF Writes
  <1>2. \A id \in Ids : store'[id] = IF id \in P THEN [ver |-> val[id], deps |-> deps[id]] ELSE store[id]
    BY <1>1, CopiedIs DEF Writes
  <1>3. /\ \A id \in Ids : adds[id] \in Nat
        /\ \A id \in Nodes : adds[id] # 0
        /\ \A id \in InStorage : adds[id] # 0
    BY AddedIs
  <1>4. \A id \in Ids : adds'[id] \in Nat
    BY ManagerAssumption DEF ManagerInv, ContentShape
  <1>5. \A id \in Nodes' \ Nodes : adds[id] = 0 /\ id \notin InStorage
    <2>1. \A id \in Nodes' \ Nodes : adds[id] < MaxAdds
      BY DEF Writes
    <2>. QED BY <1>1, <1>3, <2>1, ManagerAssumption
  <1>6. \A id \in P : EntryOf(store'[id], val[id], deps[id])
    BY <1>1, <1>2, EntryIs
  <1>7. \A id \in P : store'[id].deps = deps[id]
    BY <1>6 DEF EntryOf
  <1>8. \A id \in Ids \ P : store'[id] = store[id]
    BY <1>2
  <1>9. InStorage' \subseteq InStorage \union P
    <2>1. /\ InStorage' = {id \in Ids : store'[id].ver # 0}
          /\ InStorage = {id \in Ids : store[id].ver # 0}
      BY DEF InStorage, InStore
    <2>2. ASSUME NEW id \in Ids, store'[id].ver # 0, id \notin P
          PROVE  store[id].ver # 0
      BY <1>8, <2>2
    <2>. QED BY <2>1, <2>2
  <1>10. \A id \in Nodes : deps[id] \subseteq Nodes
    BY <1>1 DEF ManagerInv, OrderShape
  <1>11. ASSUME NEW id \in Nodes', InStore(id)'
         PROVE  store'[id] = [ver |-> val'[id], deps |-> deps'[id]]
    <2>1. id \in InStorage'
      BY <1>1, <1>11 DEF InStorage
    <2>2. id \in Nodes
      BY <1>1, <1>5, <1>9, <2>1
    <2>3. CASE id \in P
      BY <1>1, <1>2, <2>2, <2>3
    <2>4. CASE id \notin P
      <3>1. id \in InStorage /\ store'[id] = store[id]
        BY <1>1, <1>8, <1>9, <2>1, <2>2, <2>4
      <3>2. store[id] = [ver |-> val[id], deps |-> deps[id]]
        BY <2>2, <3>1 DEF CopiesTrue, InStorage
      <3>. QED BY <1>1, <2>2, <3>1, <3>2
    <2>. QED BY <2>3, <2>4
  <1>12. ASSUME NEW id \in InStorage', NEW p \in store'[id].deps
         PROVE  adds'[p] # 0
    <2>1. p \in Ids /\ adds[p] # 0
      <3>1. CASE id \in P
        BY <1>1, <1>3, <1>7, <1>10, <3>1
      <3>2. CASE id \notin P
        <4>1. id \in InStorage /\ id \in Ids /\ store'[id] = store[id]
          BY <1>8, <1>9, <3>2 DEF InStorage
        <4>2. store[id].deps \in SUBSET Ids
          BY <4>1 DEF ManagerInv, ContentShape
        <4>. QED BY <1>12, <4>1, <4>2 DEF CopiesTrue
      <3>. QED BY <3>1, <3>2
    <2>. QED BY <1>1, <1>3, <1>4, <2>1
  <1>13. ASSUME NEW id \in InStorage' \ Nodes'
         PROVE  \E p \in store'[id].deps : p \notin Nodes'
    <2>1. id \in InStorage \ Nodes /\ id \in Ids /\ id \notin P
      BY <1>1, <1>9 DEF InStorage
    <2>2. PICK p \in store[id].deps : p \notin Nodes
      BY <2>1 DEF CopiesTrue
    <2>3. adds[p] # 0
      BY <2>1, <2>2 DEF CopiesTrue
    <2>4. p \notin Nodes'
      BY <1>5, <2>2, <2>3
    <2>. QED BY <1>8, <2>1, <2>2, <2>4
  <1>. QED BY <1>11, <1>12, <1>13 DEF CopiesTrue

\* What recovery leaves aside waits for something that it leaves aside.
LEMMA CopiesRecovered ==
  ASSUME ManagerInv, CopiesTrue, Recover
  PROVE  CopiesTrue'
  <1> DEFINE D == [id \in Ids |-> store[id].deps]
  <1>1. PICK s \in RecoveryOrders : order' = s
    BY DEF Recover
  <1>2. Nodes' = Recoverable
    BY <1>1, RecoveryIs DEF Nodes, Elements
  <1>3. /\ store' = store /\ adds' = adds
        /\ deps' = [id \in Ids |-> IF id \in Recoverable THEN store[id].deps ELSE {}]
        /\ val' = [id \in Ids |-> IF id \in Recoverable THEN store[id].ver ELSE val[id]]
    BY DEF Recover
  <1>4. /\ Recoverable \subseteq InStorage /\ InStorage \subseteq Ids /\ InStorage' = InStorage
        /\ \A j \in InStorage : D[j] \subseteq Recoverable => j \in Recoverable
    BY <1>3, LeastClosedIs DEF Recoverable, InStorage, InStore
  <1>5. \A id \in Ids : store[id] = [ver |-> store[id].ver, deps |-> store[id].deps]
    BY DEF ManagerInv, ContentShape
  <1>6. \A id \in Recoverable : store[id] = [ver |-> val'[id], deps |-> deps'[id]]
    BY <1>3, <1>4, <1>5
  <1>7. \A id \in InStorage \ Recoverable : \E p \in store[id].deps : p \notin Recoverable
    BY <1>4
  <1>. QED BY <1>2, <1>3, <1>4, <1>6, <1>7 DEF CopiesTrue

\* Every step but a recovery only writes nodes.
LEMMA CopiesStep ==
  ASSUME ~Removes, MaxAdds <= 1, ManagerInv, CopiesTrue, [Next]_vars, ManagerInv'
  PROVE  CopiesTrue'
  <1>1. Nodes \subseteq Ids /\ adds \in [Ids -> 0 .. MaxAdds] /\ MaxAdds \in Nat
    BY Facts, ManagerAssumption DEF ManagerInv, ContentShape
  <1>2. red \in SUBSET Nodes /\ Elements(warm) \subseteq Nodes
    BY DEF ManagerInv, TierShape
  <1>3. ASSUME NEW P, P \in SUBSET Nodes, store' = Stored(P), UNCHANGED dag, adds' = adds
        PROVE  CopiesTrue'
    <2>1. Writes(P)
      BY <1>1, <1>3 DEF Writes, dag, Nodes
    <2>. QED BY <2>1, CopiesKeep
  <1>4. ASSUME store' = store, UNCHANGED dag, adds' = adds
        PROVE  CopiesTrue'
    <2>1. store' = Stored({})
      BY <1>4 DEF Stored, ManagerInv, ContentShape
    <2>. QED BY <1>3, <1>4, <2>1
  <1>5. ASSUME NEW out, Rearranges(out)
        PROVE  CopiesTrue'
    <2>1. PICK w, cold, enter, fresh :
            /\ Elements(w) \subseteq Elements(warm)
            /\ Turnover(cold, w, enter, fresh)
      BY <1>5, Zenon DEF Rearranges, Rearranged
    <2>2. PICK V, P : V \in SUBSET red /\ P \in SUBSET (Elements(w) \union V) /\ store' = Stored(P)
      BY <2>1, ZenonT(40) DEF Turnover, TurnsOver
    <2>3. P \in SUBSET Nodes
      BY <1>2, <2>1, <2>2
    <2>4. Writes(P)
      BY <1>5, <2>2, <2>3 DEF Rearranges, DagGrows, Writes
    <2>. QED BY <2>4, CopiesKeep
  <1>6. ASSUME Flushes
        PROVE  CopiesTrue'
    <2>1. PICK X, W :
            /\ X \in SUBSET Elements(warm) /\ W \subseteq X \union (dirty \intersect red)
            /\ store' = Stored(W)
      BY <1>6, Zenon DEF Flushes, Flushed
    <2>2. W \in SUBSET Nodes
      BY <1>2, <2>1
    <2>. QED BY <1>3, <1>6, <2>1, <2>2 DEF Flushes
  <1>7. ASSUME NEW k \in Nat, Crash(k)
        PROVE  CopiesTrue'
    <2>1. PICK W : W \in SUBSET (Elements(warm) \union (dirty \intersect red)) /\ store' = Stored(W)
      BY <1>7, CrashIs DEF CrashStores
    <2>2. W \in SUBSET Nodes
      BY <1>2, <2>1
    <2>. QED BY <1>3, <1>7, <2>1, <2>2 DEF Crash
  <1>8. ASSUME NEW c, Resize(c)
        PROVE  CopiesTrue'
    BY <1>4, <1>8 DEF Resize
  <1>9. ASSUME NEW S, NEW purged, Leaves(S, purged)
        PROVE  FALSE
    BY <1>9 DEF Leaves
  <1>10. CASE Next
    BY <1>5, <1>6, <1>7, <1>8, <1>9, <1>10, StepIs, CopiesRecovered
  <1>11. CASE UNCHANGED vars
    BY <1>4, <1>11 DEF vars
  <1>. QED BY <1>10, <1>11

\* A copy that a recovery finds is of the checkpoint that was last added, or is
\* never taken up again.
THEOREM CopiesHold ==
  ASSUME ~Removes, MaxAdds <= 1
  PROVE  Spec => []CopiesTrue
  <1>1. Init => CopiesTrue
    <2> SUFFICES ASSUME Init PROVE CopiesTrue
      OBVIOUS
    <2>1. Nodes = {} /\ store = [id \in Ids |-> Absent]
      BY NoneHas DEF Init, Nodes
    <2>2. InStorage = {}
      BY <2>1 DEF InStorage, InStore, Absent
    <2>. QED BY <2>1, <2>2 DEF CopiesTrue
  <1>2. ManagerInv /\ CopiesTrue /\ [Next]_vars /\ ManagerInv' => CopiesTrue'
    BY CopiesStep
  <1>. QED BY <1>1, <1>2, ManagerInvHolds, PTL DEF Spec

\* Recovery takes up nodes only, as they were.
LEMMA RecoverableIs ==
  ASSUME ManagerInv, CopiesTrue
  PROVE  /\ Recoverable \subseteq Nodes /\ Recoverable \subseteq Ids
         /\ \A id \in Recoverable : store[id] = [ver |-> val[id], deps |-> deps[id]] /\ deps[id] \subseteq Recoverable
  <1> DEFINE D == [id \in Ids |-> store[id].deps]
             S == Nodes \intersect InStorage
  <1>1. InStorage \subseteq Ids /\ \A id \in InStorage : InStore(id) /\ D[id] = store[id].deps
    BY DEF InStorage
  <1>2. /\ Recoverable \subseteq InStorage
        /\ \A j \in Recoverable : D[j] \subseteq Recoverable
        /\ (\A j \in InStorage : D[j] \subseteq S => j \in S) => Recoverable \subseteq S
    BY LeastClosedIs DEF Recoverable
  <1> HIDE DEF D
  <1>3. \A j \in InStorage : D[j] \subseteq S => j \in S
    BY <1>1 DEF CopiesTrue
  <1>4. Recoverable \subseteq S
    BY <1>2, <1>3
  <1>5. ASSUME NEW id \in Recoverable
        PROVE  store[id] = [ver |-> val[id], deps |-> deps[id]] /\ deps[id] \subseteq Recoverable
    <2>1. store[id] = [ver |-> val[id], deps |-> deps[id]]
      BY <1>1, <1>2, <1>4 DEF CopiesTrue
    <2>2. EntryOf(store[id], val[id], deps[id])
      BY <2>1, EntryIs, Zenon
    <2>3. store[id].deps = deps[id]
      BY <2>2, Zenon DEF EntryOf
    <2>. QED BY <1>1, <1>2, <2>1, <2>3
  <1>. QED BY <1>1, <1>2, <1>4, <1>5

\* When every node has its copy, recovery takes up every node: each after what it
\* depends on, which was created before it.
LEMMA AllRecoverable ==
  ASSUME ManagerInv, CopiesTrue, Nodes \subseteq InStorage
  PROVE  Recoverable = Nodes
  <1> DEFINE D == [id \in Ids |-> store[id].deps]
             P == {n \in Nat : \A i \in DOMAIN order : i <= n => order[i] \in Recoverable}
  <1>1. Recoverable \subseteq Nodes /\ Nodes \subseteq Ids /\ InStorage \subseteq Ids
    BY RecoverableIs, Facts DEF InStorage
  <1>2. /\ order \in Seq(Ids) /\ Distinct(order) /\ Nodes = Elements(order)
        /\ \A id \in Nodes : \A p \in deps[id] : Precedes(order, p, id)
    BY DEF ManagerInv, OrderShape, Nodes
  <1>3. /\ \A id \in Nodes : D[id] = deps[id]
        /\ \A j \in InStorage : D[j] \subseteq Recoverable => j \in Recoverable
    <2>1. ASSUME NEW id \in Nodes
          PROVE  D[id] = deps[id]
      <3>1. store[id] = [ver |-> val[id], deps |-> deps[id]]
        BY DEF CopiesTrue, InStorage
      <3>2. EntryOf(store[id], val[id], deps[id])
        BY <3>1, EntryIs, Zenon
      <3>3. store[id].deps = deps[id]
        BY <3>2, Zenon DEF EntryOf
      <3>. QED BY <1>1, <3>3
    <2>2. \A j \in InStorage : D[j] \subseteq Recoverable => j \in Recoverable
      BY LeastClosedIs DEF Recoverable
    <2>. QED BY <2>1, <2>2
  <1> HIDE DEF D
  <1>4. DOMAIN order = 1 .. Len(order) /\ Len(order) \in Nat
    BY <1>2
  <1>5. 0 \in P
    BY <1>4
  <1>6. ASSUME NEW n \in Nat, n \in P
        PROVE  n + 1 \in P
    <2>1. ASSUME NEW i \in DOMAIN order, i = n + 1
          PROVE  order[i] \in Recoverable
      <3>1. order[i] \in Nodes
        BY <1>2 DEF Elements
      <3>2. ASSUME NEW p \in deps[order[i]]
            PROVE  p \in Recoverable
        <4>1. PICK a \in DOMAIN order, b \in DOMAIN order : a < b /\ order[a] = p /\ order[b] = order[i]
          BY <1>2, <3>1 DEF Precedes
        <4>2. b = i
          BY <1>2, <4>1 DEF Distinct
        <4>3. a <= n
          BY <1>4, <2>1, <4>1, <4>2
        <4>. QED BY <1>6, <4>1, <4>3
      <3>. QED BY <1>3, <3>1, <3>2
    <2>. QED BY <1>4, <1>6, <2>1
  <1>7. \A n \in Nat : n \in P
    BY <1>5, <1>6, Induction
  <1>8. ASSUME NEW id \in Nodes
        PROVE  id \in Recoverable
    <2>1. PICK i \in DOMAIN order : order[i] = id
      BY <1>2 DEF Elements
    <2>2. i \in Nat /\ i \in P
      BY <1>4, <1>7
    <2>. QED BY <2>1, <2>2
  <1>. QED BY <1>1, <1>8

\* What the next start will recover is whole, and after a close() it is every node.
RecoveredShown == Recoverable \subseteq Nodes /\ \A id \in Recoverable : deps[id] \subseteq Recoverable
ClosedShown == state = "closed" => Recoverable = Nodes

\* While no manager is open, the map has what the next one will recover.
DownShown ==
  state \notin Up =>
    Live = [id \in Ids |-> IF id \in Recoverable THEN [ver |-> val[id], deps |-> deps[id]] ELSE Absent]

LEMMA DownIs ==
  ASSUME MaxFailures = 0
  PROVE  MapInv /\ CopiesTrue => DownShown /\ ClosedShown /\ RecoveredShown
  <1> SUFFICES ASSUME MapInv, CopiesTrue PROVE DownShown /\ ClosedShown /\ RecoveredShown
    OBVIOUS
  <1>1. DownShown
    <2> SUFFICES ASSUME state \notin Up
                 PROVE  Live = [id \in Ids |-> IF id \in Recoverable THEN [ver |-> val[id], deps |-> deps[id]] ELSE Absent]
      BY DEF DownShown
    <2>1. Live = [id \in Ids |-> IF id \in Recoverable THEN store[id] ELSE Absent]
      BY DEF Live
    <2>2. \A id \in Recoverable : store[id] = [ver |-> val[id], deps |-> deps[id]]
      BY RecoverableIs DEF MapInv
    <2>. QED BY <2>1, <2>2
  <1>2. ClosedShown
    <2> SUFFICES ASSUME state = "closed" PROVE Recoverable = Nodes
      BY DEF ClosedShown
    <2>1. failures = 0
      BY DEF MapInv, ManagerInv, OtherShape
    <2>2. \A id \in Nodes : id \in Ids /\ store[id].ver = val[id] /\ val[id] # 0
      BY <2>1, Facts DEF MapInv, ManagerInv, ContentShape, Written, ClosedReachesStorage
    <2>3. Nodes \subseteq InStorage
      BY <2>2 DEF InStorage, InStore
    <2>. QED BY <2>3, AllRecoverable DEF MapInv
  <1>3. RecoveredShown
    BY RecoverableIs DEF MapInv, RecoveredShown
  <1>. QED BY <1>1, <1>2, <1>3

\* The map before and after a stop: what is recoverable survives it whole.
LEMMA StopIs ==
  ASSUME MaxFailures = 0, MapInv, MapInv', LiveShown, DownShown', ClosedShown', RecoveredShown', Next,
         state \in Up, state' \notin Up
  PROVE  Map!Next
  <1>1. ManagerInv /\ ManagerInv' /\ Nodes \subseteq Held
    BY DEF MapInv
  <1>2. UNCHANGED dag /\ state' \in {"closed", "dropped", "crashed"}
    <2>1. QuietStep
      BY <1>1, QuietStepIs
    <2>2. ASSUME NEW S, NEW purged, Leaves(S, purged)
          PROVE  FALSE
      BY <2>2 DEF Leaves, Up
    <2>3. ASSUME Rearranges({}) \/ (\E c : Resize(c)) \/ Recover
          PROVE  FALSE
      BY <2>3 DEF Rearranges, Resize, Recover, Up
    <2>4. ASSUME NEW id, NEW ds, Add(id, ds)
          PROVE  FALSE
      BY <2>4 DEF Add, Up
    <2>5. ASSUME Flushes \/ \E k : Crash(k)
          PROVE  UNCHANGED dag /\ state' \in {"closed", "dropped", "crashed"}
      BY <2>5 DEF Flushes, Crash, Up
    <2>. QED BY <2>1, <2>2, <2>3, <2>4, <2>5, Zenon DEF QuietStep
  <1>3. Nodes' = Nodes /\ val' = val /\ deps' = deps
    BY <1>2 DEF dag, Nodes
  <1>4. /\ Map!Present = Nodes /\ Nodes \subseteq Ids
        /\ \A id \in Nodes : Live[id] = [ver |-> val[id], deps |-> deps[id]]
        /\ \A id \in Ids \ Nodes : Live[id] = Absent
    BY PresentIs
  <1>5. Live' = [id \in Ids |-> IF id \in Recoverable' THEN [ver |-> val[id], deps |-> deps[id]] ELSE Absent]
    BY <1>3 DEF DownShown, Up, Absent
  <1>6. Recoverable' \subseteq Nodes /\ \A id \in Recoverable' : deps[id] \subseteq Recoverable'
    <2>1. Recoverable' \subseteq Nodes' /\ \A id \in Recoverable' : deps'[id] \subseteq Recoverable'
      BY DEF RecoveredShown
    <2>. QED BY <1>3, <2>1
  <1>7. CASE state' = "closed"
    <2>1. Recoverable' = Nodes
      BY <1>3, <1>7 DEF ClosedShown
    <2>2. Live' = [id \in Ids |-> IF id \in Nodes THEN [ver |-> val[id], deps |-> deps[id]] ELSE Absent]
      BY <1>5, <2>1
    <2>3. Live' = Live
      BY <2>2 DEF LiveShown, Absent
    <2>4. Map!Close
      BY <1>7, <2>3 DEF Map!Close, Up
    <2>. QED BY <2>4 DEF Map!Next
  <1>8. CASE state' \in {"dropped", "crashed"}
    <2> DEFINE S == Recoverable'
    <2>1. /\ S \subseteq Map!Present /\ S \in SUBSET Ids
      BY <1>4, <1>6
    <2>2. ASSUME NEW id \in S
          PROVE  Live[id].deps \subseteq S
      <3>1. id \in Nodes
        BY <1>6
      <3>2. EntryOf(Live[id], val[id], deps[id])
        BY <1>4, <3>1, EntryIs, Zenon
      <3>3. Live[id].deps = deps[id]
        BY <3>2, Zenon DEF EntryOf
      <3>. QED BY <1>6, <3>3
    <2>3. \A id \in S : Live[id] = [ver |-> val[id], deps |-> deps[id]]
      BY <1>4, <1>6
    <2>4. Live' = [id \in Ids |-> IF id \in S THEN Live[id] ELSE Map!None]
      BY <1>5, <2>3 DEF Absent, Map!None
    <2> HIDE DEF S
    <2>5. Map!Crash(S)
      BY <1>8, <2>1, <2>2, <2>4 DEF Map!Crash, Up
    <2>. QED BY <2>1, <2>5 DEF Map!Next
  <1>. QED BY <1>2, <1>7, <1>8

\* A start recovers what the map kept.
LEMMA RecoverOpens ==
  ASSUME MapInv, LiveShown', Recover
  PROVE  Map!Open
  <1>1. PICK s \in RecoveryOrders : order' = s
    BY DEF Recover
  <1>2. ManagerInv /\ Nodes' = Recoverable
    BY <1>1, RecoveryIs DEF MapInv, Nodes, Elements
  <1>3. /\ state \notin Up /\ state' = "open"
        /\ deps' = [id \in Ids |-> IF id \in Recoverable THEN store[id].deps ELSE {}]
        /\ val' = [id \in Ids |-> IF id \in Recoverable THEN store[id].ver ELSE val[id]]
    BY DEF Recover, Up
  <1>4. \A id \in Ids : store[id] = [ver |-> store[id].ver, deps |-> store[id].deps]
    BY <1>2 DEF ManagerInv, ContentShape
  <1>5. Live' = [id \in Ids |-> IF id \in Recoverable THEN [ver |-> val'[id], deps |-> deps'[id]] ELSE Absent]
    BY <1>2, <1>3 DEF LiveShown, Up, Absent
  <1>6. Live = [id \in Ids |-> IF id \in Recoverable THEN store[id] ELSE Absent]
    BY <1>3 DEF Live
  <1>7. Live' = Live
    BY <1>3, <1>4, <1>5, <1>6
  <1>8. (CASE state \in Up -> "up" [] state = "closed" -> "closed" [] OTHER -> "down") # "up"
    BY <1>3
  <1>9. (CASE state' \in Up -> "up" [] state' = "closed" -> "closed" [] OTHER -> "down") = "up"
    BY <1>3 DEF Up
  <1>. QED BY <1>7, <1>8, <1>9 DEF Map!Open, Up

\* Every step of the manager is a step of the map, or does not show.
MapShown == MapInv /\ LiveShown /\ DownShown /\ ClosedShown /\ RecoveredShown

LEMMA MapStepIs ==
  ASSUME NoReuse, MaxFailures = 0, MapShown, MapShown', [Next]_vars
  PROVE  [Map!Next]_(Map!vars)
  <1>1. /\ MapInv /\ MapInv' /\ LiveShown /\ LiveShown' /\ ManagerInv
        /\ DownShown' /\ ClosedShown' /\ RecoveredShown'
    BY DEF MapShown, MapInv
  <1>2. CASE Recover
    BY <1>1, <1>2, RecoverOpens DEF Map!Next
  <1>3. CASE Next /\ ~Recover
    <2>1. state \in Up
      BY <1>1, <1>3, ActiveUp
    <2>2. CASE state' \in Up
      BY <1>1, <1>3, <2>1, <2>2, UpStepIs
    <2>3. CASE state' \notin Up
      BY <1>1, <1>3, <2>1, <2>3, StopIs
    <2>. QED BY <2>2, <2>3
  <1>4. CASE UNCHANGED vars
    BY <1>4, MapStays
  <1>. QED BY <1>2, <1>3, <1>4

\* A manager whose writes succeed, that removes nothing and uses no id twice, implements
\* the map of CheckpointStore through stops and starts: close() keeps the map, a crash
\* in the middle of a flush or a drop leaves whole checkpoints together with all they
\* depend on, and a start brings back that and nothing else.
THEOREM StoreRefined ==
  ASSUME ~Removes, MaxAdds <= 1, MaxFailures = 0
  PROVE  Spec => ImplementsStore
  <1>1. NoReuse
    BY DEF NoReuse
  <1>2. Spec => []MapShown
    BY <1>1, MapInvHolds, CopiesHold, LiveIs, DownIs, PTL DEF MapShown
  <1>3. Init /\ MapShown => Map!Init
    <2> SUFFICES ASSUME Init, MapShown PROVE Map!Init
      OBVIOUS
    <2>1. Nodes = {} /\ state = "open"
      BY NoneHas DEF Init, Nodes
    <2>2. Live = [id \in Ids |-> Map!None]
      BY <2>1 DEF MapShown, LiveShown, Up, Absent, Map!None
    <2>. QED BY <2>1, <2>2 DEF Map!Init, Up
  <1>4. MapShown /\ MapShown' /\ [Next]_vars => [Map!Next]_(Map!vars)
    BY <1>1, MapStepIs
  <1>. QED BY <1>2, <1>3, <1>4, PTL DEF Spec, ImplementsStore, Map!Spec
===============================================================================
