--------------------------- MODULE Rebuild_proofs ---------------------------
(***************************************************************************)
(* Theorems about Rebuild for every set of ids and branch names, every      *)
(* capacity and every mix of adds, evictions, loads, removals, rebuilds and  *)
(* branches.                                                                *)
(***************************************************************************)
EXTENDS Rebuild, PebbleManager_proofs

-------------------------------------------------------------------------------
(* What holds in every reachable state.  A promotion leaves a checkpoint in the *)
(* hot and in the warm tier, so that ManagerInv does not hold here: a removal    *)
(* then leaves a copy in warm that no node stands for, and loading it brings it  *)
(* back to hot.                                                                 *)

\* Dependencies come first, and rebuild_depth rises from a node to its dependents.
DagShape ==
  /\ OrderShape
  /\ \A id \in Ids \ Nodes : deps[id] = {}
  /\ depth \in [Ids -> Nat]
  /\ \A id \in Nodes : \A p \in deps[id] : depth[p] < depth[id]

\* Whatever the manager still knows of, by the DAG, a tier, a tombstone or a
\* branch, has been added.
Points ==
  {branches[b].head : b \in DOMAIN branches} \union {branches[b].fork_point : b \in DOMAIN branches}
Seen == (Nodes \union Held) \union (tombstoned \union (Points \ {Nobody}))
SeenShape ==
  /\ Seen \subseteq Ids
  /\ adds \in [Ids -> Nat] /\ val \in [Ids -> Nat]
  /\ \A id \in Seen : adds[id] # 0 /\ val[id] # 0
  /\ ~Removes => Seen \subseteq Nodes

\* The hot tier fits its capacity, unless nothing in it can be evicted.
HotLoose == HotFits \/ red \intersect Nodes = {}
TiersLoose ==
  /\ state \in {"open", "resizing"} /\ failures = 0 /\ capacity \in Nat \ {0}
  /\ warm \in Seq(Ids)
  /\ tombstoned \intersect Nodes = {}
  /\ \A id \in blue \intersect Nodes : InStore(id)
  /\ HotLoose

\* A head that lives is the last of its branch's nodes, in the order of creation.
Info == [name : Names \union {"head"}, parent : Nat,
         fork_point : Ids \union {Nobody}, head : Ids \union {Nobody}]
BranchHas(b) ==
  LET info == branches[b]
  IN  /\ info.parent < b /\ (info.parent = 0 <=> b = HEAD)
      /\ info.head \in Nodes =>
           \A id \in Nodes : branchOf[id] = b => id = info.head \/ Precedes(order, id, info.head)
      /\ info.fork_point \in Nodes => branchOf[info.fork_point] \in {0, info.parent}
BranchShape ==
  /\ branching \in BOOLEAN
  /\ branches \in Seq(Info)
  /\ branchOf \in [Ids -> Nat]
  /\ \A id \in Ids : branchOf[id] # 0 => id \in Nodes /\ branchOf[id] \in DOMAIN branches
  /\ ~branching => \A id \in Ids : branchOf[id] = 0
  /\ branching => active \in DOMAIN branches
  /\ branching => \A id \in Held \intersect Nodes : branchOf[id] # 0
  /\ \A b \in DOMAIN branches : BranchHas(b)

RebuildInv == DagShape /\ SeenShape /\ TiersLoose /\ BranchShape

\* Types that every proof needs.
LEMMA Basics ==
  ASSUME RebuildInv
  PROVE  /\ IsFiniteSet(Ids) /\ Cardinality(Ids) \in Nat /\ WarmCapacity \in Nat
         /\ Nodes \subseteq Ids /\ Held \subseteq Ids /\ tombstoned \subseteq Ids
         /\ red \in SUBSET Ids /\ blue \in SUBSET Ids /\ Elements(warm) \subseteq Ids
         /\ IsFiniteSet(red) /\ Cardinality(red) \in Nat
         /\ IsFiniteSet(blue) /\ Cardinality(blue) \in Nat
         /\ capacity \in Nat \ {0} /\ BatchSize \in Nat \ {0}
         /\ Nobody \notin Ids
  <1>1. IsFiniteSet(Ids) /\ WarmCapacity \in Nat /\ Divisor \in Nat \ {0} /\ Nobody \notin Ids
    BY ManagerAssumption, RebuildAssumption
  <1>2. Seen \subseteq Ids
    BY DEF RebuildInv, SeenShape
  <1>3. /\ Nodes \subseteq Ids /\ Held \subseteq Ids /\ tombstoned \subseteq Ids
        /\ red \in SUBSET Ids /\ blue \in SUBSET Ids /\ Elements(warm) \subseteq Ids
    BY <1>2 DEF Seen, Held, InMemory
  <1>4. /\ IsFiniteSet(red) /\ Cardinality(red) \in Nat
        /\ IsFiniteSet(blue) /\ Cardinality(blue) \in Nat /\ Cardinality(Ids) \in Nat
    BY <1>1, <1>3, FS_Subset, FS_CardinalityType
  <1>5. capacity \in Nat \ {0}
    BY DEF RebuildInv, TiersLoose
  <1>6. capacity \div Divisor \in Int
    BY <1>1, <1>5
  <1>7. BatchSize \in Nat \ {0}
    BY <1>6 DEF BatchSize
  <1>. QED BY <1>1, <1>3, <1>4, <1>5, <1>7

-------------------------------------------------------------------------------
(* Evictions *)

\* A warm tier that takes in a batch has nothing but what it had and the batch, the
\* same item twice included.
LEMMA TakeHas ==
  ASSUME NEW q \in Seq(Ids), NEW id \in Ids
  PROVE  Take(q, id) \in Seq(Ids) /\ Elements(Take(q, id)) \subseteq Elements(q) \union {id}
  <1> DEFINE kept == KeptWarm(q)
             rest == Without(kept, {id})
             over == SubSeq(q, 1, Overflow(q))
  <1>1. /\ kept \in Seq(Ids) /\ Overflow(q) \in 0 .. Len(q)
        /\ Elements(q) = Elements(over) \union Elements(kept)
    BY OverflowIs DEF PassedOn
  <1>2. over \in Seq(Ids)
    BY <1>1
  <1> HIDE DEF kept, over
  <1>3. rest \in Seq(Ids) /\ Elements(rest) \subseteq Elements(kept)
    BY <1>1, OnlyHas DEF Without
  <1> HIDE DEF rest
  <1>4. Append(rest, id) \in Seq(Ids) /\ Elements(Append(rest, id)) = Elements(rest) \union {id}
    BY <1>3, AppendHas
  <1> DEFINE new == Append(rest, id)
  <1> HIDE DEF new
  <1>5. over \o new \in Seq(Ids) /\ HoldsBoth(over \o new, over, new)
    BY <1>2, <1>4, ConcatHas, Zenon DEF new
  <1>6. Elements(over \o new) = Elements(over) \union Elements(new)
    BY <1>5 DEF HoldsBoth
  <1>7. Append(q, id) \in Seq(Ids) /\ Elements(Append(q, id)) = Elements(q) \union {id}
    BY AppendHas
  <1>8. Take(q, id) \in {over \o new, Append(q, id)}
    BY DEF Take, kept, over, rest, new
  <1>. QED BY <1>1, <1>3, <1>4, <1>5, <1>6, <1>7, <1>8 DEF new

LEMMA TakenInHas ==
  ASSUME NEW w \in Seq(Ids), NEW s \in Seq(Ids)
  PROVE  /\ TakenIn(w, s) \in Seq(Ids)
         /\ Elements(TakenIn(w, s)) \subseteq Elements(w) \union Elements(s)
  <1> DEFINE n == Len(s)
             R == {q \in Seq(Ids) : Elements(q) \subseteq Elements(w) \union Elements(s)}
             G == [k \in 1 .. n |-> [q \in R |-> Take(q, s[k])]]
  <1>1. n \in Nat /\ DOMAIN s = 1 .. n /\ \A k \in 1 .. n : s[k] \in Ids /\ s[k] \in Elements(s)
    BY DEF Elements
  <1>2. w \in R
    OBVIOUS
  <1>3. G \in [1 .. n -> [R -> R]]
    <2>1. ASSUME NEW k \in 1 .. n, NEW q \in R
          PROVE  Take(q, s[k]) \in R
      BY <1>1, TakeHas
    <2> HIDE DEF R
    <2>. QED BY <2>1
  <1> HIDE DEF R, n
  <1>4. PICK f \in [0 .. n -> R] : RunsThrough(f, G, w, n)
    <2> HIDE DEF G
    <2>. QED BY <1>1, <1>2, <1>3, RoundsRun
  <1>5. TakesIn(f, w, s)
    <2>1. \A k \in 0 .. n : f[k] = IF k = 0 THEN w ELSE G[k][f[k - 1]]
      <3> HIDE DEF G
      <3>. QED BY <1>4, Zenon DEF RunsThrough
    <2>2. \A k \in 0 .. n : f[k] = IF k = 0 THEN w ELSE Take(f[k - 1], s[k])
      <3>1. \A k \in 0 .. n : k # 0 => k \in 1 .. n /\ f[k - 1] \in R
        BY <1>1
      <3>. QED BY <2>1, <3>1
    <2>3. f = [k \in 0 .. n |-> f[k]]
      OBVIOUS
    <2>. QED BY <2>2, <2>3, Zenon DEF TakesIn, n
  <1> DEFINE h == CHOOSE g : TakesIn(g, w, s)
  <1>6. TakesIn(h, w, s)
    BY <1>5, Zenon
  <1>7. TakenIn(w, s) = h[n]
    BY Zenon DEF TakenIn, TakesIn, Take, n
  <1> HIDE DEF h
  <1>8. h[0] = w /\ \A k \in 1 .. n : h[k] = Take(h[k - 1], s[k])
    <2>1. \A k \in 0 .. n : h[k] = IF k = 0 THEN w ELSE Take(h[k - 1], s[k])
      BY <1>6, Zenon DEF TakesIn, n
    <2>. QED BY <1>1, <2>1
  <1>9. \A k \in 1 .. n : h[k - 1] \in R => h[k] \in R
    <2>1. ASSUME NEW k \in 1 .. n, NEW q \in R
          PROVE  Take(q, s[k]) \in R
      <3>1. q \in Seq(Ids) /\ s[k] \in Ids /\ s[k] \in Elements(s)
        BY <1>1 DEF R
      <3>2. Take(q, s[k]) \in Seq(Ids) /\ Elements(Take(q, s[k])) \subseteq Elements(q) \union {s[k]}
        BY <3>1, TakeHas
      <3>. QED BY <3>1, <3>2 DEF R
    <2>. QED BY <1>8, <2>1
  <1>10. \A k \in 0 .. n : h[k] \in R
    BY <1>1, <1>2, <1>8, <1>9, RoundsKeep
  <1>11. h[n] \in R
    BY <1>1, <1>10
  <1>. QED BY <1>7, <1>11 DEF R

\* What an eviction in favour of `enter` makes of the tiers, the victims being V.
Evicts(V, enter) ==
  /\ red' = (red \ V) \union enter
  /\ warm' \in Seq(Ids)
  /\ Held' \subseteq Held \union enter
  /\ \A id \in Ids : InStore(id) => InStore(id)'
  /\ \A id \in blue' : id \in blue \/ InStore(id)'
  /\ tombstoned' = tombstoned /\ failures' = failures

\* What reaches storage has been in memory and has a content.
LEMMA EvictsAll ==
  ASSUME RebuildInv, NEW w \in Seq(Ids), Elements(w) \subseteq Elements(warm),
         NEW s \in Seq(Ids), Elements(s) \subseteq red, NEW cold \in SUBSET blue,
         NEW enter, NEW fresh, EvictAll(red, cold, w, s, enter, fresh)
  PROVE  Evicts(Elements(s), enter)
  <1> DEFINE q == TakenIn(w, s)
             P == PassedOn(q)
  <1>1. /\ q \in Seq(Ids) /\ Elements(q) \subseteq Elements(w) \union Elements(s)
    BY TakenInHas
  <1>2. /\ KeptWarm(q) \in Seq(Ids)
        /\ Elements(q) = P \union Elements(KeptWarm(q))
    <2> HIDE DEF q
    <2>. QED BY <1>1, OverflowIs
  <1>3. /\ red' = (red \ Elements(s)) \union enter
        /\ warm' = KeptWarm(q)
        /\ blue' = cold \union P
        /\ store' = Stored(P)
        /\ tombstoned' = tombstoned /\ failures' = failures
    BY Zenon DEF EvictAll
  <1> HIDE DEF q, P
  <1>4. P \subseteq Held /\ Elements(KeptWarm(q)) \subseteq Held
    BY <1>1, <1>2 DEF Held, InMemory
  <1>5. Elements(warm') = Elements(KeptWarm(q)) /\ Elements(warm') = Elements(warm)'
    <2>1. Elements(warm') = Elements(warm)'
      BY DEF Elements
    <2>. QED BY <1>3, <2>1, Zenon
  <1>6. Held' \subseteq Held \union enter
    <2>1. Held' = (red' \union Elements(warm)') \union blue'
      BY DEF Held, InMemory
    <2>. QED BY <1>3, <1>4, <1>5, <2>1 DEF Held, InMemory
  <1>7. ASSUME NEW id \in Ids
        PROVE  /\ id \in P => InStore(id)'
               /\ InStore(id) => InStore(id)'
    <2>1. store'[id] = IF id \in P THEN [ver |-> val[id], deps |-> deps[id]] ELSE store[id]
      BY <1>3 DEF Stored
    <2>2. id \in P => val[id] # 0
      BY <1>4 DEF RebuildInv, SeenShape, Seen
    <2>. QED BY <2>1, <2>2 DEF InStore
  <1>8. \A id \in blue' : id \in blue \/ InStore(id)'
    BY <1>3, <1>4, <1>7, Basics
  <1>. QED BY <1>2, <1>3, <1>6, <1>7, <1>8 DEF Evicts

\* Nothing can be evicted only if no hot checkpoint is a node.
LEMMA NothingToEvict ==
  ASSUME RebuildInv, Candidates = {}
  PROVE  red \intersect Nodes = {}
  <1>1. \A c \in red \ Nodes : deps[c] = {}
    BY Basics DEF RebuildInv, DagShape
  <1>2. OrderShape
    BY DEF RebuildInv, DagShape
  <1>. QED BY <1>1, <1>2, CandidateExists

\* An eviction that makes room: one checkpoint more fits.
LEMMA MakesRoom ==
  ASSUME RebuildInv, state = "open", NEW s \in Evictions
  PROVE  /\ s \in Seq(Ids) /\ Elements(s) \subseteq red
         /\ \A id : /\ IsFiniteSet((red \ Elements(s)) \union {id})
                    /\ Cardinality((red \ Elements(s)) \union {id}) <= capacity
  <1> DEFINE V == Elements(s)
  <1>1. ASSUME NEW id
        PROVE  /\ IsFiniteSet((red \ V) \union {id}) /\ Cardinality(red \ V) \in Nat
               /\ Cardinality((red \ V) \union {id}) <= Cardinality(red \ V) + 1
               /\ Cardinality(red \ V) <= Cardinality(red)
               /\ (red \intersect V # {} => Cardinality(red \ V) < Cardinality(red))
    <2> HIDE DEF V
    <2>1. red \ V \in SUBSET red
      OBVIOUS
    <2>2. IsFiniteSet(red \ V) /\ Cardinality(red \ V) \in Nat
      BY <2>1, Basics, FS_Subset, FS_CardinalityType
    <2>3. Cardinality(red \ V) <= Cardinality(red)
      BY <2>1, Basics, FS_Subset
    <2>4. red \intersect V # {} => Cardinality(red \ V) < Cardinality(red)
      <3>1. red \intersect V # {} => red \ V # red
        OBVIOUS
      <3>2. red \ V # red => Cardinality(red \ V) # Cardinality(red)
        BY <2>1, Basics, FS_Subset
      <3>. QED BY <2>2, <2>3, <3>1, <3>2, Basics
    <2>5. /\ IsFiniteSet((red \ V) \union {id})
          /\ Cardinality((red \ V) \union {id}) = IF id \in red \ V THEN Cardinality(red \ V) ELSE Cardinality(red \ V) + 1
      BY <2>2, FS_AddElement
    <2>. QED BY <2>2, <2>3, <2>4, <2>5
  <1>2. \A n, m, k, c \in Nat : k <= n + 1 /\ n <= m /\ (m < c \/ (n < m /\ m <= c)) => k <= c
    OBVIOUS
  <1>3. CASE Cardinality(red) >= capacity
    <2>1. s \in Batches(BatchSize) /\ s # <<>>
      BY <1>3 DEF Evictions
    <2>2. s \in Seq(Ids) /\ V \subseteq red /\ V \subseteq Candidates
      BY <2>1, Basics, BatchIs
    <2>3. V # {}
      BY <2>1, <2>2, NoneHas
    <2>4. red \intersect Nodes # {}
      BY <2>2, <2>3 DEF Candidates
    <2>5. Cardinality(red) <= capacity
      BY <2>4 DEF RebuildInv, TiersLoose, HotLoose, HotFits
    <2> HIDE DEF V
    <2>6. ASSUME NEW id
          PROVE  Cardinality((red \ V) \union {id}) <= capacity
      <3>1. Cardinality((red \ V) \union {id}) \in Nat
        BY <1>1, FS_CardinalityType
      <3>2. /\ Cardinality(red \ V) \in Nat /\ Cardinality(red) \in Nat /\ capacity \in Nat
            /\ Cardinality((red \ V) \union {id}) <= Cardinality(red \ V) + 1
            /\ Cardinality(red \ V) <= Cardinality(red) /\ Cardinality(red \ V) < Cardinality(red)
        BY <1>1, <2>2, <2>3, Basics
      <3>. QED BY <1>2, <2>5, <3>1, <3>2, Zenon
    <2>. QED BY <1>1, <2>2, <2>6 DEF V
  <1>4. CASE ~(Cardinality(red) >= capacity)
    <2>1. s = <<>>
      BY <1>4 DEF Evictions
    <2>2. s \in Seq(Ids) /\ V \subseteq red
      BY <2>1, NoneHas
    <2> HIDE DEF V
    <2>3. ASSUME NEW id
          PROVE  Cardinality((red \ V) \union {id}) <= capacity
      <3>1. Cardinality((red \ V) \union {id}) \in Nat
        BY <1>1, FS_CardinalityType
      <3>2. /\ Cardinality(red \ V) \in Nat
            /\ Cardinality((red \ V) \union {id}) <= Cardinality(red \ V) + 1
            /\ Cardinality(red \ V) <= Cardinality(red)
        BY <1>1
      <3>3. Cardinality(red) \in Nat /\ capacity \in Nat
        BY Basics
      <3>4. Cardinality(red) < capacity
        BY <1>4, <3>3
      <3>. QED BY <1>2, <3>1, <3>2, <3>3, <3>4, Zenon
    <2>. QED BY <1>1, <2>2, <2>3 DEF V
  <1>. QED BY <1>3, <1>4

\* An eviction in favour of one checkpoint.
LEMMA OneEntersLoose ==
  ASSUME RebuildInv, state = "open", NEW w \in Seq(Ids), Elements(w) \subseteq Elements(warm),
         NEW cold \in SUBSET blue, NEW id \in Ids, NEW fresh,
         \E s \in Evictions : EvictAll(red, cold, w, s, {id}, fresh)
  PROVE  /\ \E V : Evicts(V, {id})
         /\ Cardinality(red') <= capacity
  <1>1. PICK s \in Evictions : EvictAll(red, cold, w, s, {id}, fresh)
    OBVIOUS
  <1>2. /\ s \in Seq(Ids) /\ Elements(s) \subseteq red
        /\ Cardinality((red \ Elements(s)) \union {id}) <= capacity
    BY MakesRoom
  <1>3. Evicts(Elements(s), {id})
    BY <1>1, <1>2, EvictsAll
  <1>4. red' = (red \ Elements(s)) \union {id}
    BY <1>3 DEF Evicts
  <1>. QED BY <1>2, <1>3, <1>4

\* Writes do not fail, so that an eviction fails only for want of a candidate.
LEMMA EvictionFailsLoose ==
  ASSUME RebuildInv, NEW w, EvictionFails(w)
  PROVE  /\ red \intersect Nodes = {}
         /\ warm' = w
         /\ red' = red /\ blue' = blue /\ store' = store
         /\ tombstoned' = tombstoned /\ failures' = failures
  <1>1. ASSUME NEW s, NEW n, EvictFails(red, w, s, n)
        PROVE  FALSE
    <2>1. failures < MaxFailures
      BY <1>1 DEF EvictFails
    <2>. QED BY <2>1, RebuildAssumption DEF RebuildInv, TiersLoose
  <1>2. /\ Evictions = {}
        /\ warm' = w
        /\ red' = red /\ blue' = blue /\ store' = store
        /\ tombstoned' = tombstoned /\ failures' = failures
    BY <1>1 DEF EvictionFails
  <1>3. Candidates = {}
    BY <1>2, Basics, EvictionsFound
  <1>. QED BY <1>2, <1>3, NothingToEvict

\* A list of victims is one of hot checkpoints.
LEMMA EvictionHas ==
  ASSUME RebuildInv, NEW s \in Evictions
  PROVE  s \in Seq(Ids) /\ Elements(s) \subseteq red
  <1>1. CASE s = <<>>
    BY <1>1, NoneHas
  <1>2. CASE s # <<>>
    <2>1. s \in Batches(BatchSize)
      BY <1>2 DEF Evictions
    <2>. QED BY <2>1, Basics, BatchIs
  <1>. QED BY <1>1, <1>2

-------------------------------------------------------------------------------
(* Steps that leave the nodes as they are *)

Settles ==
  /\ order' = order /\ deps' = deps /\ derived' = derived /\ val' = val /\ depth' = depth
  /\ branching' = branching /\ branches' = branches /\ branchOf' = branchOf /\ active' = active
  /\ tombstoned' = tombstoned /\ failures' = failures
  /\ adds' \in [Ids -> Nat] /\ \A id \in Ids : adds[id] # 0 => adds'[id] # 0
  /\ Held' \subseteq Held
  /\ warm' \in Seq(Ids)
  /\ \A id \in Ids : InStore(id) => InStore(id)'
  /\ \A id \in blue' : id \in blue \/ InStore(id)'
  /\ state' \in {"open", "resizing"} /\ capacity' \in Nat \ {0}
  /\ HotLoose'

LEMMA SettlesKeeps ==
  ASSUME RebuildInv, Settles
  PROVE  RebuildInv'
  <1>1. Nodes' = Nodes /\ Points' = Points
    BY DEF Settles, Nodes, Points
  <1>2. DagShape'
    BY <1>1 DEF RebuildInv, Settles, DagShape, OrderShape
  <1>3. SeenShape'
    <2>1. Seen' \subseteq Seen
      BY <1>1 DEF Settles, Seen
    <2>. QED BY <1>1, <2>1 DEF RebuildInv, Settles, SeenShape
  <1>4. TiersLoose'
    <2>1. \A id \in blue' \intersect Nodes' : InStore(id)'
      BY <1>1, Basics DEF RebuildInv, Settles, TiersLoose
    <2>. QED BY <1>1, <2>1 DEF RebuildInv, Settles, TiersLoose
  <1>5. BranchShape'
    <2>1. \A b \in DOMAIN branches : BranchHas(b)'
      BY <1>1 DEF RebuildInv, BranchShape, BranchHas, Settles
    <2>. QED BY <1>1, <2>1 DEF RebuildInv, BranchShape, Settles
  <1>. QED BY <1>2, <1>3, <1>4, <1>5 DEF RebuildInv

\* The DAG, the branches, the capacity and the attempted adds as they were.
Quiet ==
  /\ UNCHANGED <<capacity, dag, adds, depth, lines>>
  /\ state' \in {"open", "resizing"}

LEMMA QuietIs ==
  ASSUME RebuildInv, Quiet
  PROVE  /\ order' = order /\ deps' = deps /\ derived' = derived /\ val' = val /\ depth' = depth
         /\ branching' = branching /\ branches' = branches /\ branchOf' = branchOf /\ active' = active
         /\ adds' \in [Ids -> Nat] /\ \A id \in Ids : adds[id] # 0 => adds'[id] # 0
         /\ state' \in {"open", "resizing"} /\ capacity' \in Nat \ {0}
         /\ capacity' = capacity /\ Nodes' = Nodes
  <1>1. /\ order' = order /\ deps' = deps /\ derived' = derived /\ val' = val /\ depth' = depth
        /\ branching' = branching /\ branches' = branches /\ branchOf' = branchOf /\ active' = active
        /\ capacity' = capacity
    BY DEF Quiet, dag, lines
  <1>2. adds' \in [Ids -> Nat] /\ \A id \in Ids : adds[id] # 0 => adds'[id] # 0
    <2>1. adds \in [Ids -> Nat]
      BY DEF RebuildInv, SeenShape
    <2>. QED BY <2>1 DEF Quiet
  <1>3. Nodes' = Nodes
    BY <1>1 DEF Nodes
  <1>. QED BY <1>1, <1>2, <1>3, Basics DEF Quiet

\* A hot tier that lost something fits if it did before.
LEMMA HotShrinks ==
  ASSUME RebuildInv, red' \subseteq red, capacity' = capacity, Nodes' \subseteq Nodes,
         state' = "open" => state = "open"
  PROVE  HotLoose'
  <1>1. Cardinality(red') \in Nat /\ Cardinality(red') <= Cardinality(red) /\ Cardinality(red) \in Nat
    <2>1. red' \in SUBSET red
      OBVIOUS
    <2>2. IsFiniteSet(red')
      BY <2>1, Basics, FS_Subset
    <2>. QED BY <2>1, <2>2, Basics, FS_Subset, FS_CardinalityType
  <1>2. HotFits \/ red \intersect Nodes = {}
    BY DEF RebuildInv, TiersLoose, HotLoose
  <1>3. CASE HotFits
    <2>1. state' = "open" => Cardinality(red') <= capacity
      BY <1>1, <1>3, Basics DEF HotFits
    <2>. QED BY <2>1 DEF HotLoose, HotFits
  <1>4. CASE red \intersect Nodes = {}
    BY <1>4 DEF HotLoose
  <1>. QED BY <1>2, <1>3, <1>4

\* An eviction in favour of a checkpoint that the manager already holds.
LEMMA EvictsSettles ==
  ASSUME RebuildInv, Quiet, NEW V, NEW enter \in SUBSET Held, Evicts(V, enter), HotLoose'
  PROVE  Settles
  <1>1. Held' \subseteq Held
    BY DEF Evicts
  <1>. QED BY <1>1, QuietIs DEF Evicts, Settles

\* An eviction that found nothing to evict.
LEMMA FailureSettles ==
  ASSUME RebuildInv, Quiet, NEW w \in Seq(Ids), Elements(w) \subseteq Elements(warm),
         EvictionFails(w)
  PROVE  Settles
  <1>1. /\ red \intersect Nodes = {}
        /\ warm' = w
        /\ red' = red /\ blue' = blue /\ store' = store
        /\ tombstoned' = tombstoned /\ failures' = failures
    BY EvictionFailsLoose
  <1>2. HotLoose'
    BY <1>1, QuietIs DEF HotLoose
  <1>3. Held' \subseteq Held
    <2>1. Held' = (red' \union Elements(warm')) \union blue'
      BY DEF Held, InMemory, Elements
    <2>. QED BY <1>1, <2>1 DEF Held, InMemory
  <1>4. /\ \A id \in Ids : InStore(id) => InStore(id)'
        /\ \A id \in blue' : id \in blue
    BY <1>1 DEF InStore
  <1>. QED BY <1>1, <1>2, <1>3, <1>4, QuietIs DEF Settles

\* A room that was made.
LEMMA EntrySettles ==
  ASSUME RebuildInv, Quiet, state = "open",
         NEW w \in Seq(Ids), Elements(w) \subseteq Elements(warm),
         NEW cold \in SUBSET blue, NEW id \in Held, NEW fresh,
         \E s \in Evictions : EvictAll(red, cold, w, s, {id}, fresh)
  PROVE  Settles
  <1>0. id \in Ids
    BY Basics
  <1>1. (\E V : Evicts(V, {id})) /\ Cardinality(red') <= capacity
    BY <1>0, OneEntersLoose
  <1>2. HotLoose'
    BY <1>1, QuietIs DEF HotLoose, HotFits
  <1>. QED BY <1>1, <1>2, EvictsSettles

LEMMA WithoutLoose ==
  ASSUME RebuildInv, NEW S
  PROVE  /\ Without(warm, S) \in Seq(Ids) /\ Elements(Without(warm, S)) \subseteq Elements(warm)
         /\ Elements(Without(warm, S)) = Elements(warm) \ S
  BY OnlyHas DEF RebuildInv, TiersLoose, Without

LEMMA LoadWarmSettles ==
  ASSUME RebuildInv, NEW id \in Ids, LoadWarm(id) \/ LoadWarmFails(id) \/ RebuildWarm(id),
         UNCHANGED <<depth, lines>>
  PROVE  Settles
  <1>1. /\ state = "open" /\ id \in Elements(warm) /\ Quiet
        /\ \/ \E s \in Evictions : EvictAll(red, blue, Without(warm, {id}), s, {id}, {})
           \/ EvictionFails(Without(warm, {id}))
    BY DEF LoadWarm, LoadWarmFails, RebuildWarm, Quiet
  <1>2. /\ Without(warm, {id}) \in Seq(Ids) /\ Elements(Without(warm, {id})) \subseteq Elements(warm)
        /\ id \in Held
    BY <1>1, WithoutLoose DEF Held, InMemory
  <1>. QED BY <1>1, <1>2, EntrySettles, FailureSettles

LEMMA LoadColdSettles ==
  ASSUME RebuildInv, NEW id \in Ids, LoadCold(id), UNCHANGED <<depth, lines>>
  PROVE  Settles
  <1>1. /\ state = "open" /\ id \in blue /\ Quiet
        /\ \/ \E s \in Evictions : EvictAll(red, blue \ {id}, warm, s, {id}, {})
           \/ EvictionFails(warm)
    BY DEF LoadCold, Quiet
  <1>2. warm \in Seq(Ids) /\ id \in Held /\ blue \ {id} \in SUBSET blue
    BY <1>1 DEF RebuildInv, TiersLoose, Held
  <1>. QED BY <1>1, <1>2, EntrySettles, FailureSettles

LEMMA InsertFailsSettles ==
  ASSUME RebuildInv, InsertFails, UNCHANGED <<depth, lines>>
  PROVE  Settles
  <1>1. /\ state = "open" /\ state' = "open" /\ Quiet
        /\ \/ \E s \in Evictions : EvictAll(red, blue, warm, s, {}, {})
           \/ EvictionFails(warm)
    BY DEF InsertFails, Quiet
  <1>2. warm \in Seq(Ids)
    BY DEF RebuildInv, TiersLoose
  <1>3. ASSUME NEW s \in Evictions, EvictAll(red, blue, warm, s, {}, {})
        PROVE  Settles
    <2>1. Evicts(Elements(s), {})
      BY <1>2, <1>3, EvictionHas, EvictsAll
    <2>2. red' \subseteq red
      BY <2>1 DEF Evicts
    <2>3. HotLoose'
      BY <1>1, <2>2, QuietIs, HotShrinks
    <2>. QED BY <1>1, <2>1, <2>3, EvictsSettles
  <1>. QED BY <1>1, <1>2, <1>3, FailureSettles

LEMMA TotalLoose ==
  ASSUME RebuildInv
  PROVE  Total \in Nat /\ Root(Total) \in Nat /\ Optimal \in Nat \ {0}
  <1>1. Len(warm) \in Nat
    BY DEF RebuildInv, TiersLoose
  <1>2. Total \in Nat
    BY <1>1, Basics DEF Total
  <1>3. Root(Total) \in Nat
    BY <1>2, RootIs
  <1>. QED BY <1>2, <1>3 DEF Optimal

LEMMA CompressSettles ==
  ASSUME RebuildInv, Compress, UNCHANGED <<depth, lines>>
  PROVE  Settles
  <1> DEFINE count == Cardinality(red) - Root(Total)
  <1>1. /\ state = "open" /\ state' = "open" /\ Quiet
        /\ count > 0
        /\ \E s \in Batches(count) :
             \/ EvictAll(red, blue, warm, s, {}, {})
             \/ \E n \in 0 .. Len(s) - 1 : EvictFails(red, warm, s, n)
    BY DEF Compress, Quiet, RebuildInv, TiersLoose
  <1>2. count \in Nat
    BY <1>1, TotalLoose, Basics
  <1> HIDE DEF count
  <1>3. PICK s \in Batches(count) : EvictAll(red, blue, warm, s, {}, {})
    <2>1. \A s, n : ~EvictFails(red, warm, s, n)
      BY RebuildAssumption DEF EvictFails, RebuildInv, TiersLoose
    <2>. QED BY <1>1, <2>1
  <1>4. s \in Seq(Ids) /\ Elements(s) \subseteq red
    BY <1>2, Basics, BatchIs
  <1>5. Evicts(Elements(s), {})
    <2>1. warm \in Seq(Ids)
      BY DEF RebuildInv, TiersLoose
    <2>. QED BY <1>3, <1>4, <2>1, EvictsAll
  <1>6. red' \subseteq red
    BY <1>5 DEF Evicts
  <1>7. HotLoose'
    BY <1>1, <1>6, QuietIs, HotShrinks
  <1>. QED BY <1>1, <1>5, <1>7, EvictsSettles

LEMMA ResizeSettles ==
  ASSUME RebuildInv, NEW c \in Resizes \union {Optimal}, Resize(c), UNCHANGED <<depth, lines>>
  PROVE  Settles
  <1>1. /\ capacity' = c
        /\ state' = IF Cardinality(red) > c THEN "resizing" ELSE "open"
        /\ order' = order /\ deps' = deps /\ derived' = derived /\ val' = val /\ depth' = depth
        /\ branching' = branching /\ branches' = branches /\ branchOf' = branchOf /\ active' = active
        /\ red' = red /\ warm' = warm /\ blue' = blue /\ tombstoned' = tombstoned
        /\ store' = store /\ adds' = adds /\ failures' = failures
    BY DEF Resize, dag, tiers, counters, lines
  <1>2. c \in Nat \ {0}
    BY TotalLoose, ManagerAssumption
  <1>3. HotLoose'
    <2>1. state' = "open" => Cardinality(red') <= capacity'
      BY <1>1, <1>2, Basics
    <2>. QED BY <2>1 DEF HotLoose, HotFits
  <1>4. Held' = Held
    BY <1>1 DEF Held, InMemory, Elements
  <1>5. \A id \in Ids : InStore(id) => InStore(id)'
    BY <1>1 DEF InStore
  <1>6. adds' \in [Ids -> Nat] /\ \A id \in Ids : adds[id] # 0 => adds'[id] # 0
    BY <1>1 DEF RebuildInv, SeenShape
  <1>7. warm' \in Seq(Ids) /\ state' \in {"open", "resizing"} /\ capacity' \in Nat \ {0}
    BY <1>1, <1>2 DEF RebuildInv, TiersLoose
  <1>. QED BY <1>1, <1>3, <1>4, <1>5, <1>6, <1>7 DEF Settles

LEMMA ResizeEvictsSettles ==
  ASSUME RebuildInv, ResizeEvicts, UNCHANGED <<depth, lines>>
  PROVE  Settles
  <1>1. /\ state = "resizing"
        /\ state' = IF Cardinality(red') > capacity THEN "resizing" ELSE "open"
        /\ capacity' = capacity /\ Quiet
    BY DEF ResizeEvicts, Quiet
  <1>2. PICK s \in Evictions : EvictAll(red, blue, warm, s, {}, {})
    BY DEF ResizeEvicts
  <1>3. Evicts(Elements(s), {})
    <2>1. warm \in Seq(Ids)
      BY DEF RebuildInv, TiersLoose
    <2>. QED BY <1>2, <2>1, EvictionHas, EvictsAll
  <1>4. Cardinality(red') \in Nat
    <2>1. red' \in SUBSET red
      BY <1>3 DEF Evicts
    <2>. QED BY <2>1, Basics, FS_Subset, FS_CardinalityType
  <1>5. HotLoose'
    <2>1. state' = "open" => Cardinality(red') <= capacity'
      BY <1>1, <1>4, Basics
    <2>. QED BY <2>1 DEF HotLoose, HotFits
  <1>. QED BY <1>1, <1>3, <1>5, EvictsSettles

LEMMA ResizeFailsSettles ==
  ASSUME RebuildInv, ResizeFails, UNCHANGED <<depth, lines>>
  PROVE  Settles
  <1>1. Quiet /\ EvictionFails(warm) /\ warm \in Seq(Ids)
    BY DEF ResizeFails, Quiet, RebuildInv, TiersLoose
  <1>. QED BY <1>1, FailureSettles

\* What is flushed has been in memory and has a content.
LEMMA FlushSettles ==
  ASSUME RebuildInv, Flush, UNCHANGED <<depth, lines>>
  PROVE  Settles
  <1>1. ~FlushFails
    BY RebuildAssumption DEF FlushFails, FlushWarmFails, FlushDirtyFails, RebuildInv, TiersLoose
  <1>2. /\ state = "open" /\ state' = "open" /\ Quiet /\ FlushAll
        /\ tombstoned' = tombstoned
    BY <1>1 DEF Flush, Quiet
  <1>3. /\ red' = red /\ warm' = <<>>
        /\ blue' = blue \union Elements(warm)
        /\ store' = Stored(Elements(warm) \union (dirty \intersect red))
        /\ failures' = failures
    BY <1>2 DEF FlushAll
  <1>4. HotLoose'
    BY <1>2, <1>3, QuietIs, HotShrinks
  <1>5. Held' \subseteq Held
    <2>1. Elements(warm)' = {}
      BY <1>3 DEF Elements
    <2>. QED BY <1>3, <2>1 DEF Held, InMemory
  <1>6. ASSUME NEW id \in Ids
        PROVE  /\ id \in Elements(warm) => InStore(id)'
               /\ InStore(id) => InStore(id)'
    <2>1. store'[id] = IF id \in Elements(warm) \union (dirty \intersect red)
                       THEN [ver |-> val[id], deps |-> deps[id]] ELSE store[id]
      BY <1>3 DEF Stored
    <2>2. id \in Elements(warm) \union (dirty \intersect red) => id \in Seen
      BY DEF Seen, Held, InMemory
    <2>3. id \in Seen => val[id] # 0
      BY DEF RebuildInv, SeenShape
    <2>. QED BY <2>1, <2>2, <2>3 DEF InStore
  <1>7. \A id \in blue' : id \in blue \/ InStore(id)'
    BY <1>3, <1>6, Basics
  <1>8. warm' \in Seq(Ids)
    BY <1>3
  <1>. QED BY <1>2, <1>3, <1>4, <1>5, <1>6, <1>7, <1>8, QuietIs DEF Settles

LEMMA MoveSettles ==
  ASSUME RebuildInv, Move
  PROVE  Settles
  <1>1. UNCHANGED <<depth, lines>>
    BY DEF Move
  <1>. QED BY <1>1, InsertFailsSettles, LoadWarmSettles, LoadColdSettles, CompressSettles,
              ResizeSettles, ResizeEvictsSettles, ResizeFailsSettles, FlushSettles DEF Move

-------------------------------------------------------------------------------
(* The plan of a rebuild *)

\* Every set of numbers has a smallest one.
LEMMA SmallestExists ==
  ASSUME NEW S \in SUBSET Nat, S # {}
  PROVE  \E m \in S : \A x \in S : m <= x
  <1>1. PICK m \in S : \A y \in S : ~ (<<y, m>> \in OpToRel(<, Nat))
    BY NatLessThanWellFounded, WFMin, Zenon
  <1>2. \A y \in S : ~ (y < m)
    BY <1>1 DEF OpToRel
  <1>3. \A y \in S : m <= y
    BY <1>2
  <1>. QED BY <1>3

\* One round of Needed.
Further(X) == X \union ((UNION {deps[n] : n \in X \intersect Nodes}) \ red)
Planned(f, target) ==
  f = [k \in 0 .. Cardinality(Ids) |-> IF k = 0 THEN {target} \ red ELSE Further(f[k - 1])]

\* A plan: what is hot is not in it, what one of its members depends on is there or hot.
IsPlan(plan) ==
  /\ plan \in SUBSET Ids
  /\ plan \intersect red = {}
  /\ \A n \in plan : deps[n] \subseteq red \union plan

LEMMA NeededIs ==
  ASSUME RebuildInv, NEW target \in Ids
  PROVE  /\ IsPlan(Needed(target))
         /\ target \in Nodes => Needed(target) \subseteq Nodes
  <1> DEFINE N == Cardinality(Ids)
             R == {X \in SUBSET Ids : X \intersect red = {} /\ (target \in Nodes => X \subseteq Nodes)}
             G == [X \in SUBSET Ids |-> Further(X)]
             s == {target} \ red
  <1>0. /\ deps \in [Ids -> SUBSET Nodes] /\ Nodes \subseteq Ids
        /\ N \in Nat /\ IsFiniteSet(Ids)
        /\ \A id \in Ids \ Nodes : deps[id] = {}
    BY Basics DEF RebuildInv, DagShape, OrderShape
  <1>1. Adds(G, Ids)
    <2>1. \A X \in SUBSET Ids : Further(X) \in SUBSET Ids /\ X \subseteq Further(X)
      BY <1>0 DEF Further
    <2>. QED BY <2>1 DEF Adds
  <1>2. \A X \in R : Further(X) \in R
    BY <1>0 DEF Further
  <1>3. s \in SUBSET Ids /\ s \in R
    OBVIOUS
  <1> HIDE DEF N, s
  <1>4. PICK f \in [0 .. N -> SUBSET Ids] : Runs(f, G, s, N)
    <2>1. G \in [SUBSET Ids -> SUBSET Ids]
      BY <1>1 DEF Adds
    <2> HIDE DEF G
    <2>. QED BY <1>0, <1>3, <2>1, LoopRuns
  <1>5. Planned(f, target)
    <2>1. \A k \in 0 .. N : f[k] = IF k = 0 THEN s ELSE G[f[k - 1]]
      <3> HIDE DEF G
      <3>. QED BY <1>4, Zenon DEF Runs
    <2>2. \A k \in 0 .. N : k # 0 => f[k - 1] \in SUBSET Ids
      BY <1>0
    <2>3. \A k \in 0 .. N : f[k] = IF k = 0 THEN s ELSE Further(f[k - 1])
      BY <2>1, <2>2
    <2>4. f = [k \in 0 .. N |-> f[k]]
      OBVIOUS
    <2>. QED BY <2>3, <2>4, Zenon DEF Planned, N, s
  <1> DEFINE h == CHOOSE g : Planned(g, target)
  <1>6. Planned(h, target)
    BY <1>5, Zenon
  <1>7. Needed(target) = h[N]
    BY Zenon DEF Needed, Planned, Further, N
  <1> HIDE DEF h
  <1>8. \A k \in 0 .. N : h[k] = IF k = 0 THEN s ELSE Further(h[k - 1])
    BY <1>6, Zenon DEF Planned, N, s
  <1>9. h[0] = s /\ \A k \in 1 .. N : h[k] = Further(h[k - 1])
    BY <1>0, <1>8
  <1>10. \A k \in 0 .. N : h[k] \in R
    <2> HIDE DEF R
    <2>1. \A k \in 1 .. N : h[k - 1] \in R => h[k] \in R
      BY <1>2, <1>9
    <2>. QED BY <1>0, <1>3, <1>9, <2>1, RoundsKeep
  <1>11. Runs(h, G, s, N)
    <2>1. \A k \in 0 .. N : k # 0 => h[k - 1] \in SUBSET Ids
      BY <1>0, <1>10
    <2>2. \A k \in 0 .. N : h[k] = IF k = 0 THEN s ELSE G[h[k - 1]]
      BY <1>8, <2>1
    <2>3. h = [k \in 0 .. N |-> h[k]]
      BY <1>6, Zenon DEF Planned, N
    <2> HIDE DEF G
    <2>. QED BY <2>2, <2>3, Zenon DEF Runs
  <1>12. Complete(h[N], G, Ids)
    <2> HIDE DEF G
    <2>. QED BY <1>0, <1>1, <1>3, <1>11, ChainStops DEF N
  <1>13. h[N] \in SUBSET Ids /\ Further(h[N]) = h[N]
    BY <1>12 DEF Complete
  <1>14. h[N] \in R
    BY <1>0, <1>10
  <1>15. ASSUME NEW n \in h[N]
         PROVE  deps[n] \subseteq red \union h[N]
    <2>1. CASE n \in Nodes
      BY <1>13, <2>1 DEF Further
    <2>2. CASE n \notin Nodes
      BY <1>0, <1>13, <2>2
    <2>. QED BY <2>1, <2>2
  <1>. QED BY <1>7, <1>13, <1>14, <1>15 DEF IsPlan

LEMMA ShallowestIs ==
  ASSUME RebuildInv, NEW S \in SUBSET Ids, S # {}
  PROVE  Shallowest(S) \in S /\ \A m \in S : depth[Shallowest(S)] <= depth[m]
  <1>1. depth \in [Ids -> Nat]
    BY DEF RebuildInv, DagShape
  <1>2. \A id : Age(id) \in Nat
    <2>1. order \in Seq(Ids)
      BY DEF RebuildInv, DagShape, OrderShape
    <2>2. DOMAIN order \subseteq Nat
      BY <2>1
    <2>3. ASSUME NEW id \in Nodes
          PROVE  (CHOOSE i \in DOMAIN order : order[i] = id) \in DOMAIN order
      BY DEF Nodes, Elements
    <2>. QED BY <2>2, <2>3 DEF Age
  <1>3. PICK d \in {depth[n] : n \in S} : \A e \in {depth[n] : n \in S} : d <= e
    <2>1. {depth[n] : n \in S} \in SUBSET Nat /\ {depth[n] : n \in S} # {}
      BY <1>1
    <2>. QED BY <2>1, SmallestExists
  <1> DEFINE T == {n \in S : depth[n] = d}
  <1>4. PICK a \in {Age(n) : n \in T} : \A e \in {Age(n) : n \in T} : a <= e
    <2>1. {Age(n) : n \in T} \in SUBSET Nat /\ {Age(n) : n \in T} # {}
      BY <1>2, <1>3
    <2>. QED BY <2>1, SmallestExists
  <1>5. PICK n \in T : a = Age(n)
    BY <1>4
  <1>6. \A m \in S : depth[n] < depth[m] \/ (depth[n] = depth[m] /\ Age(n) <= Age(m))
    <2>1. ASSUME NEW m \in S, depth[m] # d
          PROVE  d < depth[m]
      <3>1. d <= depth[m] /\ d \in Nat /\ depth[m] \in Nat
        BY <1>1, <1>3
      <3>. QED BY <2>1, <3>1
    <2>. QED BY <1>4, <1>5, <2>1
  <1>7. n \in S
    BY <1>5
  <1> DEFINE First(x) == \A m \in S : depth[x] < depth[m] \/ (depth[x] = depth[m] /\ Age(x) <= Age(m))
  <1>8. Shallowest(S) \in S /\ First(Shallowest(S))
    <2>1. Shallowest(S) = CHOOSE x \in S : First(x)
      BY Zenon DEF Shallowest
    <2>2. \E x \in S : First(x)
      BY <1>6, <1>7
    <2> HIDE DEF First
    <2>. QED BY <2>1, <2>2, Zenon
  <1>. QED BY <1>1, <1>8

-------------------------------------------------------------------------------
(* Working off a plan *)

\* A node of the plan has a base.
HasBase(n) == n \in Elements(warm) \/ (n \in blue /\ InStore(n))

\* Where a rebuild with the plan stands: it has moved nothing to the hot tier, and as
\* long as it gets on, everything it has dealt with is in the workspace.
Standing(plan) ==
  [todo : SUBSET plan, space : SUBSET {n \in plan : HasBase(n)}, hot : {red}, cold : {blue}, ok : BOOLEAN]
OnCourse(plan) ==
  {w \in Standing(plan) : /\ w.ok => w.space = plan \ w.todo
                          /\ (\A n \in plan : HasBase(n)) => w.ok}

\* The shallowest node that is left finds its dependencies in the workspace.
LEMMA NothingToLoad ==
  ASSUME RebuildInv, NEW plan, IsPlan(plan), NEW w \in OnCourse(plan), w.ok, w.todo # {}
  PROVE  LET n == Shallowest(w.todo)
         IN  /\ n \in w.todo /\ n \in plan
             /\ deps[n] \subseteq Has(w) /\ ToLoad(w, n) = {}
  <1> DEFINE n == Shallowest(w.todo)
  <1>1. /\ w.todo \in SUBSET plan /\ w.hot = red /\ w.space = plan \ w.todo
    BY DEF OnCourse, Standing
  <1>2. n \in w.todo /\ \A m \in w.todo : depth[n] <= depth[m]
    <2>1. w.todo \in SUBSET Ids
      BY <1>1 DEF IsPlan
    <2>. QED BY <2>1, ShallowestIs
  <1> HIDE DEF n
  <1>3. n \in plan /\ n \in Ids
    BY <1>1, <1>2 DEF IsPlan
  <1>4. ASSUME NEW p \in deps[n], p \notin red
        PROVE  p \in w.space
    <2>1. p \in plan
      BY <1>3, <1>4 DEF IsPlan
    <2>2. n \in Nodes /\ p \in Ids
      BY <1>3, <1>4, <2>1 DEF RebuildInv, DagShape, IsPlan
    <2>3. depth[p] < depth[n] /\ depth[p] \in Nat /\ depth[n] \in Nat
      BY <1>3, <1>4, <2>2 DEF RebuildInv, DagShape
    <2>4. p \notin w.todo
      BY <1>2, <2>3
    <2>. QED BY <1>1, <2>1, <2>4
  <1>5. deps[n] \subseteq Has(w)
    BY <1>1, <1>4 DEF Has
  <1>6. ToLoad(w, n) = {}
    BY <1>5 DEF ToLoad
  <1>. QED BY <1>2, <1>3, <1>5, <1>6 DEF n

\* So it is computed, unless it has no base.
LEMMA AdvancedIs ==
  ASSUME RebuildInv, NEW plan, IsPlan(plan), NEW w \in OnCourse(plan)
  PROVE  Advanced(w) \in OnCourse(plan)
  <1>1. CASE w.todo = {}
    BY <1>1 DEF Advanced
  <1>2. CASE w.todo # {}
    <2> DEFINE n    == Shallowest(w.todo)
               v    == Computed(w, n)
               next == Moved(w, ToLoad(w, n))
    <2>1. /\ w \in Standing(plan)
          /\ w.todo \in SUBSET plan /\ w.space \in SUBSET {m \in plan : HasBase(m)}
          /\ w.hot = red /\ w.cold = blue /\ w.ok \in BOOLEAN
          /\ w.ok => w.space = plan \ w.todo
          /\ (\A m \in plan : HasBase(m)) => w.ok
      BY DEF OnCourse, Standing
    <2>2. w.ok => n \in w.todo /\ n \in plan /\ deps[n] \subseteq Has(w) /\ ToLoad(w, n) = {}
      BY <1>2, NothingToLoad
    <2>3. Advanced(w) = [v EXCEPT !.todo = @ \ {n}]
      BY <1>2 DEF Advanced
    <2> HIDE DEF n
    <2>4. CASE ~w.ok
      <3>1. v = w
        BY <2>4 DEF Computed
      <3>. QED BY <2>1, <2>3, <2>4, <3>1 DEF OnCourse, Standing
    <2>5. CASE w.ok /\ ~HasBase(n)
      <3>1. v = [w EXCEPT !.ok = FALSE]
        BY <2>1, <2>5 DEF Computed, Failed, HasBase
      <3>2. ~ \A m \in plan : HasBase(m)
        BY <2>2, <2>5
      <3> DEFINE u == [w EXCEPT !.ok = FALSE, !.todo = @ \ {n}]
      <3>3. u \in Standing(plan) /\ u.ok = FALSE
        BY <2>1 DEF Standing
      <3>4. Advanced(w) = u
        BY <2>1, <2>3, <3>1 DEF Standing
      <3>. QED BY <3>2, <3>3, <3>4 DEF OnCourse
    <2>6. CASE w.ok /\ HasBase(n)
      <3>1. v = [next EXCEPT !.space = @ \union {n}]
        BY <2>1, <2>2, <2>6 DEF Computed, HasBase
      <3>2. next = w
        BY <2>1, <2>2, <2>6 DEF Moved, Standing
      <3> HIDE DEF next, v
      <3> DEFINE u == [w EXCEPT !.space = @ \union {n}, !.todo = @ \ {n}]
      <3>3. Advanced(w) = u
        BY <2>1, <2>3, <3>1, <3>2 DEF Standing
      <3>4. /\ u \in Standing(plan) /\ u.ok = w.ok
            /\ u.space = w.space \union {n} /\ u.todo = w.todo \ {n}
        <4>1. n \in {m \in plan : HasBase(m)}
          BY <2>2, <2>6
        <4>. QED BY <2>1, <4>1 DEF Standing
      <3>5. u.space = plan \ u.todo
        BY <2>1, <2>2, <2>6, <3>4
      <3> HIDE DEF u
      <3>. QED BY <2>1, <3>3, <3>4, <3>5 DEF OnCourse
    <2>. QED BY <2>1, <2>4, <2>5, <2>6
  <1>. QED BY <1>1, <1>2

Begun(target) ==
  [todo |-> Needed(target), space |-> {}, hot |-> red, cold |-> blue, ok |-> TRUE]
Worked(f, target) ==
  f = [k \in 0 .. Cardinality(Ids) |-> IF k = 0 THEN Begun(target) ELSE Advanced(f[k - 1])]

LEMMA RoundsAre ==
  ASSUME RebuildInv, NEW target \in Ids, NEW k \in 0 .. Cardinality(Ids)
  PROVE  Rounds(target)[k] \in OnCourse(Needed(target))
  <1> DEFINE N    == Cardinality(Ids)
             plan == Needed(target)
             U    == OnCourse(plan)
             G    == [w \in U |-> Advanced(w)]
             s    == Begun(target)
  <1>1. N \in Nat /\ IsPlan(plan)
    BY Basics, NeededIs
  <1>2. s \in U
    BY DEF Begun, OnCourse, Standing
  <1> HIDE DEF plan
  <1>3. \A w \in U : Advanced(w) \in U
    BY <1>1, AdvancedIs
  <1> HIDE DEF N, U, s
  <1>4. PICK f \in [0 .. N -> U] : Runs(f, G, s, N)
    <2>1. G \in [U -> U]
      BY <1>3
    <2> HIDE DEF G
    <2>. QED BY <1>1, <1>2, <2>1, LoopRuns
  <1>5. Worked(f, target)
    <2>1. \A j \in 0 .. N : f[j] = IF j = 0 THEN s ELSE G[f[j - 1]]
      <3> HIDE DEF G
      <3>. QED BY <1>4, Zenon DEF Runs
    <2>2. \A j \in 0 .. N : j # 0 => f[j - 1] \in U
      BY <1>1
    <2>3. \A j \in 0 .. N : f[j] = IF j = 0 THEN s ELSE Advanced(f[j - 1])
      BY <2>1, <2>2
    <2>4. f = [j \in 0 .. N |-> f[j]]
      OBVIOUS
    <2>. QED BY <2>3, <2>4, Zenon DEF Worked, N, s
  <1> DEFINE h == CHOOSE g : Worked(g, target)
  <1>6. Worked(h, target)
    BY <1>5, Zenon
  <1>7. Rounds(target) = h
    BY Zenon DEF Rounds, Worked, Begun
  <1> HIDE DEF h
  <1>8. \A j \in 0 .. N : h[j] = IF j = 0 THEN s ELSE Advanced(h[j - 1])
    BY <1>6, Zenon DEF Worked, N, s
  <1>9. h[0] = s /\ \A j \in 1 .. N : h[j] = Advanced(h[j - 1])
    BY <1>1, <1>8
  <1>10. \A j \in 0 .. N : h[j] \in U
    <2>1. \A j \in 1 .. N : h[j - 1] \in U => h[j] \in U
      BY <1>3, <1>9
    <2>. QED BY <1>1, <1>2, <1>9, <2>1, RoundsKeep
  <1>11. h[k] \in U
    BY <1>10 DEF N
  <1>. QED BY <1>7, <1>11, Zenon DEF U, plan

LEMMA WorkIs ==
  ASSUME RebuildInv, NEW target \in Ids
  PROVE  Work(target) \in OnCourse(Needed(target))
  BY Basics, RoundsAre DEF Work

\* A load or a computation that fails cuts the plan short, with nothing moved.
LEMMA InterruptedIs ==
  ASSUME RebuildInv, NEW target \in Ids, NEW w \in Interrupted(target)
  PROVE  w \in Standing(Needed(target)) /\ ~w.ok
  <1>1. PICK v \in Underway(target) :
          \E M \in SUBSET {d \in ToLoad(v, Shallowest(v.todo)) : InStore(d)} : w = Failed(Moved(v, M))
    BY Zenon DEF Interrupted
  <1>2. v \in OnCourse(Needed(target)) /\ v.ok /\ v.todo # {}
    BY RoundsAre DEF Underway
  <1>3. ToLoad(v, Shallowest(v.todo)) = {}
    BY <1>2, NeededIs, NothingToLoad
  <1>4. w = Failed(Moved(v, {}))
    BY <1>1, <1>3
  <1>. QED BY <1>2, <1>4 DEF OnCourse, Standing, Failed, Moved

\* A rebuild promotes no more than there is room for.
LEMMA RebuildColdSettles ==
  ASSUME RebuildInv, NEW id \in Ids, RebuildCold(id)
  PROVE  Settles
  <1>0. PICK w \in {Work(id)} \union Interrupted(id) :
          \E P \in (IF w.ok THEN Promotions(w.space \ {id}, w.hot) ELSE {{}}) :
            /\ red' = w.hot \union P
            /\ blue' = w.cold \ P
    BY Zenon DEF RebuildCold
  <1>1. /\ w \in Standing(Needed(id)) /\ IsPlan(Needed(id))
    BY WorkIs, InterruptedIs, NeededIs DEF OnCourse
  <1>2. /\ w.hot = red /\ w.cold = blue /\ w.space \subseteq Held /\ w.space \in SUBSET Ids
    BY <1>1, Basics DEF Standing, HasBase, Held, InMemory
  <1>3. PICK P \in (IF w.ok THEN Promotions(w.space \ {id}, w.hot) ELSE {{}}) :
          /\ red' = w.hot \union P
          /\ blue' = w.cold \ P
    BY <1>0
  <1>4. /\ state = "open" /\ state' = "open" /\ capacity' = capacity
        /\ order' = order /\ deps' = deps /\ derived' = derived /\ val' = val /\ depth' = depth
        /\ branching' = branching /\ branches' = branches /\ branchOf' = branchOf /\ active' = active
        /\ warm' = warm /\ tombstoned' = tombstoned /\ failures' = failures
        /\ store' = store /\ adds' = adds
    BY DEF RebuildCold, dag, counters, lines
  <1>5. P \in SUBSET w.space /\ P \in SUBSET Ids /\ IsFiniteSet(P) /\ Cardinality(P) \in Nat
    <2>1. P \in SUBSET w.space
      BY <1>3 DEF Promotions
    <2>. QED BY <1>2, <2>1, Basics, FS_Subset, FS_CardinalityType
  <1>6. P = {} \/ Cardinality(P) + Cardinality(red) <= capacity
    <2>1. CASE w.ok
      <3> DEFINE S == w.space \ {id}
                 room == capacity - Cardinality(red)
      <3>1. Cardinality(P) = Least(Budget(red), Cardinality(S))
        BY <1>2, <1>3, <2>1 DEF Promotions
      <3>2. Cardinality(S) \in Nat
        BY <1>2, Basics, FS_Subset, FS_CardinalityType
      <3>3. Budget(red) = IF room < 0 THEN 0 ELSE Least(capacity \div Divisor, room)
        BY DEF Budget
      <3>4. capacity \div Divisor \in Int /\ room \in Int
        BY Basics, ManagerAssumption
      <3> HIDE DEF S, room
      <3>5. Cardinality(P) <= Budget(red) /\ Budget(red) \in Int
        BY <1>5, <3>1, <3>2, <3>3, <3>4 DEF Least
      <3>6. CASE room < 0
        BY <1>5, <3>3, <3>5, <3>6, FS_EmptySet
      <3>7. CASE ~(room < 0)
        <4>1. Cardinality(P) <= room
          BY <1>5, <3>3, <3>4, <3>5, <3>7 DEF Least
        <4>. QED BY <1>5, <4>1, Basics DEF room
      <3>. QED BY <3>6, <3>7
    <2>2. CASE ~w.ok
      BY <1>3, <2>2
    <2>. QED BY <2>1, <2>2
  <1>7. HotLoose'
    <2>1. CASE P = {}
      BY <1>2, <1>3, <1>4, <2>1, HotShrinks DEF Nodes
    <2>2. CASE Cardinality(P) + Cardinality(red) <= capacity
      <3>1. Cardinality(red \union P) <= Cardinality(red) + Cardinality(P) /\ Cardinality(red \union P) \in Nat
        <4>1. Cardinality(red \union P) = Cardinality(red) + Cardinality(P) - Cardinality(red \intersect P)
          BY <1>5, Basics, FS_Union
        <4>2. /\ IsFiniteSet(red \union P)
              /\ Cardinality(red \intersect P) \in Nat
          BY <1>5, Basics, FS_Union, FS_Intersection, FS_CardinalityType
        <4>. QED BY <1>5, <4>1, <4>2, Basics, FS_CardinalityType
      <3>2. Cardinality(red') <= capacity
        BY <1>2, <1>3, <1>5, <2>2, <3>1, Basics
      <3>. QED BY <1>4, <3>2 DEF HotLoose, HotFits
    <2>. QED BY <1>6, <2>1, <2>2
  <1>8. Held' \subseteq Held
    <2>1. Held' = (red' \union Elements(warm')) \union blue'
      BY DEF Held, InMemory, Elements
    <2>. QED BY <1>2, <1>3, <1>4, <1>5, <2>1 DEF Held, InMemory
  <1>9. /\ \A x \in Ids : InStore(x) => InStore(x)'
        /\ \A x \in blue' : x \in blue
    BY <1>2, <1>3, <1>4 DEF InStore
  <1>10. /\ adds' \in [Ids -> Nat] /\ \A x \in Ids : adds[x] # 0 => adds'[x] # 0
         /\ warm' \in Seq(Ids) /\ capacity' \in Nat \ {0}
    BY <1>4 DEF RebuildInv, SeenShape, TiersLoose
  <1>. QED BY <1>4, <1>7, <1>8, <1>9, <1>10 DEF Settles

-------------------------------------------------------------------------------
(* Adding.  Where checkpoints are removed an id is added once: what a branch, a *)
(* tombstone or the warm tier still says of it would be said of the new one.    *)

LEMMA Fresh ==
  ASSUME RebuildInv, NoReuse, NEW id \in Ids, Counted(id), id \notin Nodes
  PROVE  id \notin Seen
  <1>1. CASE Removes
    <2>1. adds[id] < MaxAdds /\ MaxAdds <= 1 /\ MaxAdds \in Nat /\ adds[id] \in Nat
      BY <1>1, ManagerAssumption DEF NoReuse, Counted, RebuildInv, SeenShape
    <2>2. adds[id] = 0
      BY <2>1
    <2>. QED BY <2>2 DEF RebuildInv, SeenShape
  <1>2. CASE ~Removes
    BY <1>2 DEF RebuildInv, SeenShape
  <1>. QED BY <1>1, <1>2

LEMMA DeeperThan ==
  ASSUME RebuildInv, NEW ds \in SUBSET Ids
  PROVE  DepthBelow(ds) \in Nat /\ \A p \in ds : depth[p] < DepthBelow(ds)
  <1>1. depth \in [Ids -> Nat]
    BY DEF RebuildInv, DagShape
  <1>2. CASE ds = {}
    BY <1>2 DEF DepthBelow
  <1>3. CASE ds # {}
    <2> DEFINE S == {depth[p] : p \in ds}
               Top(d) == \A p \in ds : depth[p] <= d
    <2>1. IsFiniteSet(ds)
      BY Basics, FS_Subset
    <2>2. S \in SUBSET Nat /\ S # {} /\ IsFiniteSet(S)
      <3> DEFINE g == [p \in ds |-> depth[p]]
      <3>1. g \in Surjection(ds, S)
        BY DEF Surjection
      <3>2. S \in SUBSET Nat /\ S # {}
        BY <1>1, <1>3
      <3> HIDE DEF g, S
      <3>. QED BY <2>1, <3>1, <3>2, FS_Surjection
    <2>3. \E m \in S : \A x \in S : m >= x
      <3> HIDE DEF S
      <3>. QED BY <2>2, LargestExists
    <2>4. \E m \in S : Top(m)
      BY <1>1, <2>3
    <2>5. (CHOOSE d \in S : Top(d)) \in S /\ Top(CHOOSE d \in S : Top(d))
      <3> HIDE DEF S, Top
      <3>. QED BY <2>4, Zenon
    <2>6. DepthBelow(ds) = 1 + (CHOOSE d \in S : Top(d))
      BY <1>3 DEF DepthBelow
    <2> DEFINE d == CHOOSE d \in S : Top(d)
    <2>7. d \in Nat /\ \A p \in ds : depth[p] \in Nat /\ depth[p] <= d
      BY <1>1, <2>2, <2>5
    <2> HIDE DEF d
    <2>8. DepthBelow(ds) = 1 + d
      BY <2>6 DEF d
    <2>. QED BY <2>7, <2>8
  <1>. QED BY <1>2, <1>3

\* A new node, whatever becomes of its checkpoint.
Registers(id, ds) == Counted(id) /\ AddNode(id, ds) /\ Deepen(id, ds)

LEMMA RegistersIs ==
  ASSUME RebuildInv, NoReuse, NEW id \in Ids, NEW ds \in SUBSET Ids, Registers(id, ds)
  PROVE  /\ DagShape'
         /\ id \notin Seen /\ Nodes' = Nodes \union {id}
         /\ \A x \in Nodes : Precedes(order', x, id)
         /\ \A x, y : Precedes(order, x, y) => Precedes(order', x, y)
  <1>1. /\ OrderShape' /\ Nodes' = Nodes \union {id} /\ id \notin Nodes /\ ds \subseteq Nodes
        /\ deps'[id] = ds /\ \A x \in Ids \ {id} : deps'[x] = deps[x]
        /\ \A x \in Nodes : Precedes(order', x, id)
        /\ \A x, y : Precedes(order, x, y) => Precedes(order', x, y)
    BY OrderGrows DEF RebuildInv, DagShape, Registers
  <1>2. id \notin Seen
    BY <1>1, Fresh DEF Registers
  <1>3. /\ depth \in [Ids -> Nat] /\ \A x \in Ids \ Nodes : deps[x] = {}
        /\ \A x \in Nodes : \A p \in deps[x] : depth[p] < depth[x]
        /\ deps \in [Ids -> SUBSET Nodes] /\ Nodes \subseteq Ids
    BY Basics DEF RebuildInv, DagShape, OrderShape
  <1>4. /\ depth' \in [Ids -> Nat] /\ depth'[id] = DepthBelow(ds)
        /\ \A x \in Ids \ {id} : depth'[x] = depth[x]
        /\ \A p \in ds : depth[p] < DepthBelow(ds)
    <2>1. depth' = [depth EXCEPT ![id] = DepthBelow(ds)]
      BY DEF Registers, Deepen
    <2>2. DepthBelow(ds) \in Nat /\ \A p \in ds : depth[p] < DepthBelow(ds)
      BY DeeperThan
    <2>. QED BY <1>3, <2>1, <2>2
  <1>5. \A x \in Nodes' : \A p \in deps'[x] : depth'[p] < depth'[x]
    <2>1. ASSUME NEW x \in Nodes, NEW p \in deps'[x]
          PROVE  depth'[p] < depth'[x]
      <3>1. x # id /\ x \in Ids /\ p \in deps[x] /\ p \in Nodes /\ p # id /\ p \in Ids
        BY <1>1, <1>3, <2>1
      <3>. QED BY <1>3, <1>4, <3>1
    <2>2. ASSUME NEW p \in deps'[id]
          PROVE  depth'[p] < depth'[id]
      <3>1. p \in ds /\ p # id /\ p \in Ids
        BY <1>1, <1>3, <2>2
      <3>. QED BY <1>4, <3>1
    <2>. QED BY <1>1, <2>1, <2>2
  <1>6. \A x \in Ids \ Nodes' : deps'[x] = {}
    BY <1>1, <1>3
  <1>7. DagShape'
    BY <1>1, <1>4, <1>5, <1>6 DEF DagShape
  <1>. QED BY <1>1, <1>2, <1>7

\* What the manager knows of has been added, the new checkpoint included.
LEMMA RegistersSeen ==
  ASSUME RebuildInv, NoReuse, NEW id \in Ids, NEW ds \in SUBSET Ids, Registers(id, ds),
         Held' \subseteq Held \union {id}, tombstoned' = tombstoned,
         Points' \subseteq Points \union {id}
  PROVE  SeenShape'
  <1>1. Nodes' = Nodes \union {id} /\ id \notin Seen
    BY RegistersIs
  <1>2. Seen' \subseteq Seen \union {id}
    BY <1>1 DEF Seen
  <1>3. /\ adds' = [adds EXCEPT ![id] = @ + 1] /\ val' = [val EXCEPT ![id] = adds[id] + 1]
    BY DEF Registers, Counted, AddNode
  <1>4. /\ Seen \subseteq Ids /\ adds \in [Ids -> Nat] /\ val \in [Ids -> Nat]
        /\ \A x \in Seen : adds[x] # 0 /\ val[x] # 0
        /\ ~Removes => Seen \subseteq Nodes
    BY DEF RebuildInv, SeenShape
  <1>5. /\ adds' \in [Ids -> Nat] /\ val' \in [Ids -> Nat]
        /\ \A x \in Ids : x # id => adds'[x] = adds[x] /\ val'[x] = val[x]
        /\ adds'[id] # 0 /\ val'[id] # 0
    BY <1>3, <1>4
  <1>6. \A x \in Seen' : adds'[x] # 0 /\ val'[x] # 0
    BY <1>1, <1>2, <1>4, <1>5
  <1>. QED BY <1>1, <1>2, <1>4, <1>5, <1>6 DEF SeenShape

\* The tiers when the new checkpoint has entered, or has not.
LEMMA RegistersTiers ==
  ASSUME RebuildInv, NoReuse, NEW id \in Ids, NEW ds \in SUBSET Ids, Registers(id, ds),
         warm' \in Seq(Ids), tombstoned' = tombstoned, failures' = failures,
         \A x \in Ids : InStore(x) => InStore(x)',
         \A x \in blue' : x \in blue \/ InStore(x)',
         UNCHANGED <<state, capacity>>, HotLoose'
  PROVE  TiersLoose'
  <1>1. Nodes' = Nodes \union {id} /\ id \notin tombstoned /\ id \notin blue
    BY RegistersIs DEF Seen, Held
  <1>2. \A x \in blue' \intersect Nodes' : InStore(x)'
    BY <1>1, Basics DEF RebuildInv, TiersLoose
  <1>. QED BY <1>1, <1>2 DEF RebuildInv, TiersLoose

\* What a branch names is not the new checkpoint.
LEMMA NotNamed ==
  ASSUME RebuildInv, NEW id \in Ids, id \notin Seen, NEW b \in DOMAIN branches
  PROVE  branches[b].head # id /\ branches[b].fork_point # id
  <1>1. id # Nobody
    BY RebuildAssumption
  <1>. QED BY <1>1 DEF Seen, Points

\* A node that no branch takes.
LEMMA RegistersAside ==
  ASSUME RebuildInv, NoReuse, NEW id \in Ids, NEW ds \in SUBSET Ids, Registers(id, ds),
         UNCHANGED lines, Held' \subseteq Held \union {id}, branching => Held' \subseteq Held
  PROVE  BranchShape'
  <1>1. /\ id \notin Seen /\ Nodes' = Nodes \union {id}
        /\ \A x, y : Precedes(order, x, y) => Precedes(order', x, y)
    BY RegistersIs
  <1>2. branching' = branching /\ branches' = branches /\ branchOf' = branchOf /\ active' = active
    BY DEF lines
  <1>3. /\ branching \in BOOLEAN /\ branches \in Seq(Info) /\ branchOf \in [Ids -> Nat]
        /\ \A x \in Ids : branchOf[x] # 0 => x \in Nodes /\ branchOf[x] \in DOMAIN branches
        /\ ~branching => \A x \in Ids : branchOf[x] = 0
        /\ branching => active \in DOMAIN branches
        /\ branching => \A x \in Held \intersect Nodes : branchOf[x] # 0
        /\ \A b \in DOMAIN branches : BranchHas(b)
    BY DEF RebuildInv, BranchShape
  <1>4. id \notin Nodes /\ id \notin Held /\ branchOf[id] = 0
    BY <1>1, <1>3 DEF Seen
  <1>5. \A x \in Ids : branchOf[x] # 0 => x \in Nodes'
    BY <1>1, <1>3
  <1>6. branching => \A x \in Held' \intersect Nodes' : branchOf[x] # 0
    BY <1>1, <1>3, <1>4
  <1>7. ASSUME NEW b \in DOMAIN branches
        PROVE  BranchHas(b)'
    <2> DEFINE info == branches[b]
    <2>1. info.head # id /\ info.fork_point # id
      BY <1>1, NotNamed
    <2>2. b # 0
      BY <1>3
    <2>3. /\ info.parent < b /\ (info.parent = 0 <=> b = HEAD)
          /\ info.head \in Nodes =>
               \A x \in Nodes : branchOf[x] = b => x = info.head \/ Precedes(order, x, info.head)
          /\ info.fork_point \in Nodes => branchOf[info.fork_point] \in {0, info.parent}
      BY <1>3 DEF BranchHas
    <2> HIDE DEF info
    <2>4. /\ info.head \in Nodes' => info.head \in Nodes
          /\ info.fork_point \in Nodes' => info.fork_point \in Nodes
          /\ \A x \in Nodes' : branchOf[x] = b => x \in Nodes
      BY <1>1, <1>4, <2>1, <2>2
    <2>5. /\ info.head \in Nodes' =>
               \A x \in Nodes' : branchOf[x] = b => x = info.head \/ Precedes(order', x, info.head)
          /\ info.fork_point \in Nodes' => branchOf[info.fork_point] \in {0, info.parent}
      BY <1>1, <2>3, <2>4
    <2>. QED BY <1>2, <2>3, <2>5 DEF BranchHas, info
  <1>. QED BY <1>2, <1>3, <1>5, <1>6, <1>7 DEF BranchShape

\* A node that becomes the head of the active branch.
LEMMA RegistersOnBranch ==
  ASSUME RebuildInv, NoReuse, NEW id \in Ids, NEW ds \in SUBSET Ids, Registers(id, ds),
         branching, Track(id), Held' \subseteq Held \union {id}
  PROVE  BranchShape' /\ Points' \subseteq Points \union {id}
  <1>1. /\ id \notin Seen /\ Nodes' = Nodes \union {id}
        /\ \A x \in Nodes : Precedes(order', x, id)
        /\ \A x, y : Precedes(order, x, y) => Precedes(order', x, y)
    BY RegistersIs
  <1>2. /\ branchOf' = [branchOf EXCEPT ![id] = active]
        /\ branches' = [branches EXCEPT ![active].head = id]
        /\ branching' = branching /\ active' = active
    BY DEF Track
  <1>3. /\ branching \in BOOLEAN /\ branches \in Seq(Info) /\ branchOf \in [Ids -> Nat]
        /\ \A x \in Ids : branchOf[x] # 0 => x \in Nodes /\ branchOf[x] \in DOMAIN branches
        /\ active \in DOMAIN branches
        /\ \A x \in Held \intersect Nodes : branchOf[x] # 0
        /\ \A b \in DOMAIN branches : BranchHas(b)
    BY DEF RebuildInv, BranchShape
  <1>4. /\ active \in Nat \ {0} /\ DOMAIN branches \subseteq Nat \ {0}
        /\ \A b \in DOMAIN branches : branches[b] \in Info
    BY <1>3
  <1>5. /\ branches' \in Seq(Info) /\ DOMAIN branches' = DOMAIN branches
        /\ \A b \in DOMAIN branches : b # active => branches'[b] = branches[b]
        /\ branches'[active].head = id
        /\ branches'[active].fork_point = branches[active].fork_point
        /\ branches'[active].parent = branches[active].parent
    <2> DEFINE new == [branches[active] EXCEPT !.head = id]
    <2>1. branches' = [branches EXCEPT ![active] = new]
      BY <1>2
    <2>2. /\ new \in Info /\ new.head = id
          /\ new.fork_point = branches[active].fork_point /\ new.parent = branches[active].parent
      BY <1>3, <1>4 DEF Info
    <2> HIDE DEF new
    <2>. QED BY <1>3, <2>1, <2>2
  <1>6. /\ branchOf' \in [Ids -> Nat] /\ branchOf'[id] = active
        /\ \A x \in Ids : x # id => branchOf'[x] = branchOf[x]
    BY <1>2, <1>3, <1>4
  <1>7. id \notin Nodes /\ id \notin Held /\ Nodes \subseteq Ids
    BY <1>1, Basics DEF Seen
  <1>8. \A x \in Ids : branchOf'[x] # 0 => x \in Nodes' /\ branchOf'[x] \in DOMAIN branches'
    BY <1>1, <1>3, <1>5, <1>6
  <1>9. \A x \in Held' \intersect Nodes' : branchOf'[x] # 0
    BY <1>1, <1>3, <1>4, <1>6, <1>7
  <1>10. ASSUME NEW b \in DOMAIN branches
         PROVE  BranchHas(b)'
    <2> DEFINE old  == branches[b]
               info == branches'[b]
    <2>1. old.head # id /\ old.fork_point # id
      BY <1>1, NotNamed
    <2>2. /\ old.parent < b /\ (old.parent = 0 <=> b = HEAD)
          /\ old.head \in Nodes =>
               \A x \in Nodes : branchOf[x] = b => x = old.head \/ Precedes(order, x, old.head)
          /\ old.fork_point \in Nodes => branchOf[old.fork_point] \in {0, old.parent}
      BY <1>3 DEF BranchHas
    <2>3. /\ info.fork_point = old.fork_point /\ info.parent = old.parent
          /\ info.head = IF b = active THEN id ELSE old.head
      BY <1>5
    <2> HIDE DEF info, old
    <2>4. info.fork_point \in Nodes' => branchOf'[info.fork_point] \in {0, info.parent}
      BY <1>1, <1>6, <1>7, <2>1, <2>2, <2>3
    <2>5. ASSUME info.head \in Nodes', NEW x \in Nodes', branchOf'[x] = b
          PROVE  x = info.head \/ Precedes(order', x, info.head)
      <3>1. CASE b = active
        BY <1>1, <2>3, <2>5, <3>1
      <3>2. CASE b # active
        <4>1. x # id /\ x \in Nodes /\ branchOf[x] = b
          BY <1>1, <1>6, <1>7, <2>5, <3>2
        <4>2. info.head = old.head /\ old.head \in Nodes
          BY <1>1, <2>1, <2>3, <2>5, <3>2
        <4>. QED BY <1>1, <2>2, <4>1, <4>2
      <3>. QED BY <3>1, <3>2
    <2>6. info.parent < b /\ (info.parent = 0 <=> b = HEAD)
      BY <2>2, <2>3
    <2>. QED BY <2>4, <2>5, <2>6 DEF BranchHas, info
  <1>11. Points' \subseteq Points \union {id}
    <2>1. ASSUME NEW b \in DOMAIN branches
          PROVE  {branches'[b].head, branches'[b].fork_point} \subseteq Points \union {id}
      <3>1. {branches[b].head, branches[b].fork_point} \subseteq Points
        BY DEF Points
      <3>. QED BY <1>5, <3>1
    <2>. QED BY <1>5, <2>1 DEF Points
  <1>. QED BY <1>2, <1>3, <1>5, <1>6, <1>8, <1>9, <1>10, <1>11 DEF BranchShape

LEMMA AddKeeps ==
  ASSUME RebuildInv, NoReuse, NEW id \in Ids, NEW ds \in SUBSET Ids, AddOnBranch(id, ds)
  PROVE  RebuildInv'
  <1>0. warm \in Seq(Ids)
    BY DEF RebuildInv, TiersLoose
  <1>1. CASE Add(id, ds) /\ Track(id)
    <2>1. /\ Registers(id, ds) /\ state = "open" /\ UNCHANGED <<state, capacity>>
          /\ \E s \in Evictions : EvictAll(red, blue, warm, s, {id}, {id})
      BY <1>1 DEF AddOnBranch, Add, Registers, Counted
    <2>2. PICK V : Evicts(V, {id})
      BY <1>0, <2>1, Basics, OneEntersLoose
    <2>3. HotLoose'
      <3>1. Cardinality(red') <= capacity
        BY <1>0, <2>1, Basics, OneEntersLoose
      <3>. QED BY <2>1, <3>1 DEF HotLoose, HotFits
    <2>4. TiersLoose'
      BY <2>1, <2>2, <2>3, RegistersTiers DEF Evicts
    <2>5. BranchShape' /\ Points' \subseteq Points \union {id}
      <3>1. CASE branching
        BY <1>1, <2>1, <2>2, <3>1, RegistersOnBranch DEF Evicts
      <3>2. CASE ~branching
        <4>1. UNCHANGED lines
          BY <1>1, <3>2 DEF Track, lines
        <4>2. Points' = Points
          BY <4>1 DEF lines, Points
        <4>. QED BY <2>1, <2>2, <3>2, <4>1, <4>2, RegistersAside DEF Evicts
      <3>. QED BY <3>1, <3>2
    <2>6. DagShape' /\ SeenShape'
      BY <2>1, <2>2, <2>5, RegistersIs, RegistersSeen DEF Evicts
    <2>. QED BY <2>4, <2>5, <2>6 DEF RebuildInv
  <1>2. CASE AddFails(id, ds) /\ UNCHANGED lines
    <2>1. /\ Registers(id, ds) /\ UNCHANGED <<state, capacity>>
          /\ EvictionFails(warm)
      BY <1>2 DEF AddOnBranch, AddFails, Registers
    <2>2. /\ red \intersect Nodes = {}
          /\ warm' = warm
          /\ red' = red /\ blue' = blue /\ store' = store
          /\ tombstoned' = tombstoned /\ failures' = failures
      BY <2>1, EvictionFailsLoose
    <2>3. Nodes' = Nodes \union {id} /\ id \notin red
      BY <2>1, RegistersIs DEF Seen, Held, InMemory
    <2>4. HotLoose'
      BY <2>2, <2>3 DEF HotLoose
    <2>5. Held' = Held /\ \A x \in Ids : InStore(x) => InStore(x)'
      BY <2>2 DEF Held, InMemory, Elements, InStore
    <2>6. TiersLoose'
      BY <1>0, <2>1, <2>2, <2>4, <2>5, RegistersTiers
    <2>7. Points' = Points
      BY <1>2 DEF lines, Points
    <2>8. BranchShape' /\ DagShape' /\ SeenShape'
      BY <1>2, <2>1, <2>2, <2>5, <2>7, RegistersAside, RegistersIs, RegistersSeen
    <2>. QED BY <2>6, <2>8 DEF RebuildInv
  <1>. QED BY <1>1, <1>2 DEF AddOnBranch

-------------------------------------------------------------------------------
(* Removing *)

\* The checkpoints S leave, and copies in storage that no node stands for then.
LEMMA LossKeeps ==
  ASSUME RebuildInv, Removes, NEW S \in SUBSET Ids, LeaveTiers(S), LeaveDag(S), Untrack(S),
         \A id \in Nodes \ S : store'[id] = store[id],
         tombstoned' \subseteq tombstoned \union (S \intersect Held),
         UNCHANGED <<state, capacity, val, adds, failures, depth>>
  PROVE  RebuildInv'
  <1>1. /\ OrderShape' /\ Nodes' = Nodes \ S
        /\ \A x \in Ids : deps'[x] = IF x \in S THEN {} ELSE deps[x] \ S
        /\ \A x, y \in Nodes \ S : Precedes(order, x, y) => Precedes(order', x, y)
    BY OrderShrinks DEF RebuildInv, DagShape
  <1>2. /\ red' \subseteq red /\ blue' \subseteq blue
        /\ warm' \in Seq(Ids) /\ Elements(warm') \subseteq Elements(warm)
    <2>1. warm' = Without(warm, S \ red)
      BY DEF LeaveTiers
    <2>2. Without(warm, S \ red) \in Seq(Ids) /\ Elements(Without(warm, S \ red)) \subseteq Elements(warm)
      BY WithoutLoose
    <2>. QED BY <2>1, <2>2 DEF LeaveTiers
  <1>3. Held' \subseteq Held
    <2>1. Held' = (red' \union Elements(warm')) \union blue'
      BY DEF Held, InMemory, Elements
    <2>. QED BY <1>2, <2>1 DEF Held, InMemory
  <1>4. /\ branchOf' = [id \in Ids |-> IF id \in S THEN 0 ELSE branchOf[id]]
        /\ branching' = branching /\ branches' = branches /\ active' = active
    BY DEF Untrack
  <1>5. DagShape'
    <2>1. /\ depth' = depth /\ depth \in [Ids -> Nat] /\ Nodes \subseteq Ids
          /\ \A x \in Ids \ Nodes : deps[x] = {}
          /\ \A x \in Nodes : \A p \in deps[x] : depth[p] < depth[x]
      BY Basics DEF RebuildInv, DagShape
    <2>2. \A x \in Ids \ Nodes' : deps'[x] = {}
      BY <1>1, <2>1
    <2>3. \A x \in Nodes' : \A p \in deps'[x] : depth'[p] < depth'[x]
      BY <1>1, <2>1
    <2>. QED BY <1>1, <2>1, <2>2, <2>3 DEF DagShape
  <1>6. SeenShape'
    <2>1. Points' = Points
      BY <1>4 DEF Points
    <2>2. Seen' \subseteq Seen
      BY <1>1, <1>3, <2>1 DEF Seen
    <2>. QED BY <2>2 DEF RebuildInv, SeenShape
  <1>7. TiersLoose'
    <2>1. HotLoose'
      BY <1>1, <1>2, HotShrinks
    <2>2. tombstoned' \intersect Nodes' = {}
      BY <1>1 DEF RebuildInv, TiersLoose
    <2>3. ASSUME NEW x \in blue' \intersect Nodes'
          PROVE  InStore(x)'
      <3>1. x \in blue /\ x \in Nodes /\ store'[x] = store[x]
        BY <1>1, <1>2, <2>3
      <3>2. InStore(x)
        BY <3>1 DEF RebuildInv, TiersLoose
      <3>. QED BY <3>1, <3>2 DEF InStore
    <2>. QED BY <1>2, <2>1, <2>2, <2>3 DEF RebuildInv, TiersLoose
  <1>8. BranchShape'
    <2>1. /\ branching \in BOOLEAN /\ branches \in Seq(Info) /\ branchOf \in [Ids -> Nat]
          /\ \A x \in Ids : branchOf[x] # 0 => x \in Nodes /\ branchOf[x] \in DOMAIN branches
          /\ ~branching => \A x \in Ids : branchOf[x] = 0
          /\ branching => active \in DOMAIN branches
          /\ branching => \A x \in Held \intersect Nodes : branchOf[x] # 0
          /\ \A b \in DOMAIN branches : BranchHas(b)
          /\ Nodes \subseteq Ids
      BY Basics DEF RebuildInv, BranchShape
    <2>2. /\ branchOf' \in [Ids -> Nat]
          /\ \A x \in Ids : branchOf'[x] = IF x \in S THEN 0 ELSE branchOf[x]
      BY <1>4, <2>1
    <2>3. \A x \in Ids : branchOf'[x] # 0 => x \in Nodes' /\ branchOf'[x] \in DOMAIN branches'
      BY <1>1, <1>4, <2>1, <2>2
    <2>4. ~branching' => \A x \in Ids : branchOf'[x] = 0
      BY <1>4, <2>1, <2>2
    <2>5. branching' => \A x \in Held' \intersect Nodes' : branchOf'[x] # 0
      BY <1>1, <1>3, <1>4, <2>1, <2>2
    <2>6. ASSUME NEW b \in DOMAIN branches
          PROVE  BranchHas(b)'
      <3> DEFINE info == branches[b]
      <3>1. /\ info.parent < b /\ (info.parent = 0 <=> b = HEAD)
            /\ info.head \in Nodes =>
                 \A x \in Nodes : branchOf[x] = b => x = info.head \/ Precedes(order, x, info.head)
            /\ info.fork_point \in Nodes => branchOf[info.fork_point] \in {0, info.parent}
        BY <2>1 DEF BranchHas
      <3> HIDE DEF info
      <3>2. ASSUME info.head \in Nodes', NEW x \in Nodes', branchOf'[x] = b
            PROVE  x = info.head \/ Precedes(order', x, info.head)
        <4>1. info.head \in Nodes \ S /\ x \in Nodes \ S /\ x \in Ids /\ branchOf[x] = b
          BY <1>1, <2>1, <2>2, <3>2
        <4>. QED BY <1>1, <3>1, <4>1
      <3>3. info.fork_point \in Nodes' => branchOf'[info.fork_point] \in {0, info.parent}
        BY <1>1, <2>1, <2>2, <3>1
      <3>. QED BY <1>4, <3>1, <3>2, <3>3 DEF BranchHas, info
    <2>. QED BY <1>4, <2>1, <2>2, <2>3, <2>4, <2>5, <2>6 DEF BranchShape
  <1>. QED BY <1>5, <1>6, <1>7, <1>8 DEF RebuildInv

LEMMA RemoveKeeps ==
  ASSUME RebuildInv, NEW id \in Ids, RemoveTracked(id)
  PROVE  RebuildInv'
  <1>1. /\ Removes /\ id \in Held
        /\ LeaveTiers({id}) /\ LeaveDag({id}) /\ Untrack({id})
        /\ store' = store
        /\ tombstoned' \subseteq tombstoned \union {id}
        /\ UNCHANGED <<state, capacity, val, adds, failures, depth>>
    BY DEF RemoveTracked, Remove, Held, InMemory, counters
  <1>2. {id} \in SUBSET Ids /\ {id} \intersect Held = {id}
    BY <1>1
  <1>. QED BY <1>1, <1>2, LossKeeps

LEMMA CompactKeeps ==
  ASSUME RebuildInv, CompactTracked
  PROVE  RebuildInv'
  <1> DEFINE purged == tombstoned \union Orphans
  <1>1. /\ Removes
        /\ LeaveTiers(Orphans) /\ LeaveDag(Orphans) /\ Untrack(Orphans)
        /\ store' = [x \in Ids |-> IF x \in purged THEN Absent ELSE store[x]]
        /\ tombstoned' = {}
        /\ UNCHANGED <<state, capacity, val, adds, failures, depth>>
    BY DEF CompactTracked, Compact, counters
  <1>2. Orphans \in SUBSET Ids
    <2>1. Orphans \subseteq derived
      BY DEF Orphans, LeastClosed
    <2>. QED BY <2>1, Basics DEF RebuildInv, DagShape, OrderShape
  <1>3. \A x \in Nodes \ Orphans : store'[x] = store[x]
    BY <1>1, Basics DEF RebuildInv, TiersLoose
  <1>. QED BY <1>1, <1>2, <1>3, LossKeeps

-------------------------------------------------------------------------------
(* Branches *)

\* The manager itself as it was.
LEMMA ManagerStays ==
  ASSUME RebuildInv, UNCHANGED <<vars, depth>>
  PROVE  /\ DagShape' /\ TiersLoose' /\ Nodes' = Nodes /\ Held' = Held
         /\ tombstoned' = tombstoned /\ adds' = adds /\ val' = val /\ order' = order
  <1>1. /\ order' = order /\ deps' = deps /\ derived' = derived /\ val' = val /\ depth' = depth
        /\ state' = state /\ capacity' = capacity /\ failures' = failures
        /\ red' = red /\ warm' = warm /\ blue' = blue /\ tombstoned' = tombstoned
        /\ store' = store /\ adds' = adds
    BY DEF vars, dag, tiers, counters
  <1>2. Nodes' = Nodes /\ Held' = Held /\ \A x : InStore(x)' = InStore(x)
    BY <1>1 DEF Nodes, Held, InMemory, Elements, InStore
  <1>3. DagShape'
    BY <1>1, <1>2 DEF RebuildInv, DagShape, OrderShape
  <1>4. TiersLoose'
    BY <1>1, <1>2 DEF RebuildInv, TiersLoose, HotLoose, HotFits
  <1>. QED BY <1>1, <1>2, <1>3, <1>4

LEMMA SeenStays ==
  ASSUME RebuildInv, UNCHANGED <<vars, depth>>,
         Points' \subseteq ((Points \union {Nobody}) \union Held) \union Nodes
  PROVE  SeenShape'
  <1>1. Seen' \subseteq Seen
    BY ManagerStays DEF Seen
  <1>. QED BY <1>1, ManagerStays DEF RebuildInv, SeenShape

LEMMA EnableKeeps ==
  ASSUME RebuildInv, EnableBranching
  PROVE  RebuildInv'
  <1> DEFINE last == IF order = <<>> THEN Nobody ELSE order[Len(order)]
             info == [name |-> "head", parent |-> 0, fork_point |-> Nobody, head |-> last]
  <1>1. /\ branching' = TRUE /\ branches' = <<info>> /\ active' = HEAD
        /\ branchOf' = [id \in Ids |-> IF id \in Nodes THEN HEAD ELSE 0]
        /\ UNCHANGED <<vars, depth>>
    BY DEF EnableBranching
  <1>2. /\ DagShape' /\ TiersLoose' /\ Nodes' = Nodes /\ Held' = Held /\ order' = order
    BY <1>1, ManagerStays
  <1>3. /\ order \in Seq(Ids) /\ Nodes \subseteq Ids /\ Nobody \notin Ids /\ Held \subseteq Ids
        /\ Len(order) \in Nat /\ DOMAIN order = 1 .. Len(order)
    BY Basics DEF RebuildInv, DagShape, OrderShape
  <1>4. CASE order = <<>>
    <2>1. Nodes = {} /\ last = Nobody
      BY <1>4, NoneHas DEF Nodes
    <2>2. info \in Info
      BY <2>1 DEF Info
    <2> HIDE DEF last
    <2>3. branches' \in Seq(Info) /\ DOMAIN branches' = {1} /\ branches'[1] = info
      BY <1>1, <2>2
    <2>4. Points' = {Nobody}
      BY <2>1, <2>3 DEF Points
    <2>5. BranchHas(1)'
      BY <1>2, <2>1, <2>3 DEF BranchHas, HEAD
    <2>6. branchOf' \in [Ids -> Nat] /\ \A x \in Ids : branchOf'[x] = 0
      BY <1>1, <2>1
    <2>7. BranchShape'
      BY <1>1, <1>2, <2>1, <2>3, <2>5, <2>6 DEF BranchShape, HEAD
    <2>8. SeenShape'
      BY <1>1, <2>4, SeenStays
    <2>. QED BY <1>2, <2>7, <2>8 DEF RebuildInv
  <1>5. CASE order # <<>>
    <2>1. Len(order) \in DOMAIN order /\ last = order[Len(order)]
      BY <1>3, <1>5
    <2>2. last \in Nodes /\ last \in Ids
      BY <1>3, <2>1 DEF Nodes, Elements
    <2>3. ASSUME NEW x \in Nodes
          PROVE  x = last \/ Precedes(order, x, last)
      <3>1. PICK i \in DOMAIN order : order[i] = x
        BY DEF Nodes, Elements
      <3>2. i = Len(order) \/ i < Len(order)
        BY <1>3, <3>1
      <3>. QED BY <2>1, <3>1, <3>2 DEF Precedes
    <2> HIDE DEF last
    <2>4. info \in Info
      BY <2>2 DEF Info
    <2>5. branches' \in Seq(Info) /\ DOMAIN branches' = {1} /\ branches'[1] = info
      BY <1>1, <2>4
    <2>6. Points' = {Nobody, last}
      BY <2>5 DEF Points
    <2>7. BranchHas(1)'
      BY <1>2, <1>3, <2>2, <2>3, <2>5 DEF BranchHas, HEAD
    <2>8. branchOf' \in [Ids -> Nat] /\ \A x \in Ids : branchOf'[x] = IF x \in Nodes THEN 1 ELSE 0
      BY <1>1 DEF HEAD
    <2>9. BranchShape'
      BY <1>1, <1>2, <1>3, <2>5, <2>7, <2>8 DEF BranchShape, HEAD
    <2>10. SeenShape'
      BY <1>1, <2>2, <2>6, SeenStays
    <2>. QED BY <1>2, <2>9, <2>10 DEF RebuildInv
  <1>. QED BY <1>4, <1>5

LEMMA ForkKeeps ==
  ASSUME RebuildInv, NEW id \in Ids, NEW name \in Names, Fork(id, name)
  PROVE  RebuildInv'
  <1> DEFINE parent == IF branchOf[id] = 0 THEN HEAD ELSE branchOf[id]
             info   == [name |-> name, parent |-> parent, fork_point |-> id, head |-> Nobody]
             new    == Len(branches) + 1
  <1>1. /\ branching /\ id \in Held
        /\ branches' = Append(branches, info) /\ active' = new
        /\ branching' = branching /\ branchOf' = branchOf
        /\ UNCHANGED <<vars, depth>>
    BY DEF Fork
  <1>2. /\ DagShape' /\ TiersLoose' /\ Nodes' = Nodes /\ Held' = Held /\ order' = order
    BY <1>1, ManagerStays
  <1>3. /\ branches \in Seq(Info) /\ branchOf \in [Ids -> Nat]
        /\ \A x \in Ids : branchOf[x] # 0 => x \in Nodes /\ branchOf[x] \in DOMAIN branches
        /\ active \in DOMAIN branches
        /\ \A x \in Held \intersect Nodes : branchOf[x] # 0
        /\ \A b \in DOMAIN branches : BranchHas(b)
        /\ Nodes \subseteq Ids /\ Nobody \notin Ids
    BY <1>1, Basics DEF RebuildInv, BranchShape
  <1>4. Len(branches) \in Nat \ {0} /\ DOMAIN branches = 1 .. Len(branches)
    BY <1>3
  <1>5. parent \in Nat \ {0} /\ parent < new /\ new # HEAD
    BY <1>3, <1>4 DEF HEAD
  <1> HIDE DEF parent
  <1>6. info \in Info
    BY <1>5 DEF Info
  <1>7. /\ branches' \in Seq(Info) /\ DOMAIN branches' = 1 .. new
        /\ \A b \in DOMAIN branches : branches'[b] = branches[b]
        /\ branches'[new] = info
    BY <1>1, <1>3, <1>4, <1>6
  <1> HIDE DEF info
  <1>8. info.parent = parent /\ info.fork_point = id /\ info.head = Nobody
    BY DEF info
  <1>9. ASSUME NEW b \in DOMAIN branches
        PROVE  BranchHas(b)'
    BY <1>1, <1>2, <1>3, <1>7 DEF BranchHas
  <1>10. ASSUME NEW b, b = new
         PROVE  BranchHas(b)'
    <2>1. branchOf[id] \in {0, parent}
      BY DEF parent
    <2>2. branches'[b] = info
      BY <1>7, <1>10
    <2>. QED BY <1>1, <1>2, <1>3, <1>5, <1>8, <1>10, <2>1, <2>2 DEF BranchHas
  <1>11. \A b \in DOMAIN branches' : BranchHas(b)'
    <2>1. \A b \in DOMAIN branches' : b \in DOMAIN branches \/ b = new
      BY <1>4, <1>7
    <2>. QED BY <1>9, <1>10, <2>1
  <1>12. DOMAIN branches \subseteq DOMAIN branches' /\ new \in DOMAIN branches'
    BY <1>4, <1>7
  <1>13. BranchShape'
    BY <1>1, <1>2, <1>3, <1>7, <1>11, <1>12 DEF BranchShape
  <1>14. SeenShape'
    <2>1. ASSUME NEW b \in DOMAIN branches'
          PROVE  {branches'[b].head, branches'[b].fork_point} \subseteq (Points \union {Nobody}) \union Held
      <3>1. CASE b \in DOMAIN branches
        BY <1>7, <3>1 DEF Points
      <3>2. CASE b = new
        BY <1>1, <1>7, <1>8, <3>2
      <3>. QED BY <1>4, <1>7, <3>1, <3>2
    <2>2. Points' \subseteq (Points \union {Nobody}) \union Held
      BY <2>1 DEF Points
    <2>. QED BY <1>1, <2>2, SeenStays
  <1>. QED BY <1>2, <1>13, <1>14 DEF RebuildInv

LEMMA SwitchKeeps ==
  ASSUME RebuildInv, NEW b \in DOMAIN branches, SwitchBranch(b)
  PROVE  RebuildInv'
  <1>1. /\ active' = b /\ b \in DOMAIN branches /\ UNCHANGED <<vars, depth>>
        /\ branching' = branching /\ branches' = branches /\ branchOf' = branchOf
    BY DEF SwitchBranch
  <1>2. /\ DagShape' /\ TiersLoose' /\ Nodes' = Nodes /\ Held' = Held /\ order' = order
    BY <1>1, ManagerStays
  <1>3. SeenShape'
    <2>1. Points' = Points
      BY <1>1 DEF Points
    <2>. QED BY <1>1, <2>1, SeenStays
  <1>4. BranchShape'
    <2>1. \A c \in DOMAIN branches : BranchHas(c)'
      BY <1>1, <1>2 DEF RebuildInv, BranchShape, BranchHas
    <2>. QED BY <1>1, <1>2, <2>1 DEF RebuildInv, BranchShape
  <1>. QED BY <1>2, <1>3, <1>4 DEF RebuildInv

-------------------------------------------------------------------------------
(* The theorems *)

LEMMA RebuildInitially ==
  ASSUME RInit
  PROVE  RebuildInv
  <1>1. /\ state = "open" /\ capacity = HotCapacity
        /\ order = <<>> /\ deps = [id \in Ids |-> {}] /\ derived = {}
        /\ val = [id \in Ids |-> 0] /\ adds = [id \in Ids |-> 0]
        /\ red = {} /\ warm = <<>> /\ blue = {} /\ tombstoned = {} /\ failures = 0
        /\ depth = [id \in Ids |-> 0] /\ branching = FALSE /\ branches = <<>>
        /\ branchOf = [id \in Ids |-> 0]
    BY DEF RInit, Init
  <1>2. Nodes = {} /\ Held = {} /\ Points = {} /\ Seen = {}
    <2>1. Elements(<<>>) = {}
      BY DEF Elements
    <2>. QED BY <1>1, <2>1 DEF Nodes, Held, InMemory, Points, Seen
  <1>3. DagShape
    BY <1>1, <1>2 DEF DagShape, OrderShape, Distinct
  <1>4. SeenShape
    BY <1>1, <1>2 DEF SeenShape
  <1>5. TiersLoose
    BY <1>1, <1>2, ManagerAssumption DEF TiersLoose, HotLoose
  <1>6. BranchShape
    <2>1. branches \in Seq(Info) /\ DOMAIN branches = {}
      BY <1>1
    <2>2. branching \in BOOLEAN /\ ~branching
      BY <1>1
    <2>3. branchOf \in [Ids -> Nat] /\ \A id \in Ids : branchOf[id] = 0
      BY <1>1
    <2>. QED BY <2>1, <2>2, <2>3 DEF BranchShape
  <1>. QED BY <1>3, <1>4, <1>5, <1>6 DEF RebuildInv

LEMMA RebuildStutters ==
  ASSUME RebuildInv, UNCHANGED rvars
  PROVE  Settles
  <1>1. /\ order' = order /\ deps' = deps /\ derived' = derived /\ val' = val /\ depth' = depth
        /\ branching' = branching /\ branches' = branches /\ branchOf' = branchOf /\ active' = active
        /\ state' = state /\ capacity' = capacity /\ failures' = failures
        /\ red' = red /\ warm' = warm /\ blue' = blue /\ tombstoned' = tombstoned
        /\ store' = store /\ adds' = adds
    BY DEF rvars, lines, vars, dag, tiers, counters
  <1>2. /\ Held' = Held /\ HotLoose' /\ \A id \in Ids : InStore(id) => InStore(id)'
    BY <1>1 DEF RebuildInv, TiersLoose, HotLoose, HotFits, Nodes, Held, InMemory, Elements, InStore
  <1>. QED BY <1>1, <1>2 DEF RebuildInv, SeenShape, TiersLoose, Settles

LEMMA RebuildStep ==
  ASSUME RebuildInv, NoReuse, [RNext]_rvars
  PROVE  RebuildInv'
  <1>1. ASSUME NEW id \in Ids, NEW ds \in SUBSET Ids, AddOnBranch(id, ds)
        PROVE  RebuildInv'
    BY <1>1, AddKeeps
  <1>2. ASSUME NEW id \in Ids, RemoveTracked(id)
        PROVE  RebuildInv'
    BY <1>2, RemoveKeeps
  <1>3. CASE CompactTracked
    BY <1>3, CompactKeeps
  <1>4. CASE Move
    BY <1>4, MoveSettles, SettlesKeeps
  <1>5. ASSUME NEW id \in Ids, RebuildCold(id)
        PROVE  RebuildInv'
    BY <1>5, RebuildColdSettles, SettlesKeeps
  <1>6. ASSUME NEW id \in Ids, RebuildWarm(id)
        PROVE  RebuildInv'
    <2>1. UNCHANGED <<depth, lines>>
      BY <1>6 DEF RebuildWarm
    <2>. QED BY <1>6, <2>1, LoadWarmSettles, SettlesKeeps
  <1>7. CASE EnableBranching
    BY <1>7, EnableKeeps
  <1>8. ASSUME NEW id \in Ids, NEW name \in Names, Fork(id, name)
        PROVE  RebuildInv'
    BY <1>8, ForkKeeps
  <1>9. ASSUME NEW b \in DOMAIN branches, SwitchBranch(b)
        PROVE  RebuildInv'
    BY <1>9, SwitchKeeps
  <1>10. CASE UNCHANGED rvars
    BY <1>10, RebuildStutters, SettlesKeeps
  <1>. QED BY <1>1, <1>2, <1>3, <1>4, <1>5, <1>6, <1>7, <1>8, <1>9, <1>10 DEF RNext

\* What the properties rest on holds in every reachable state of Rebuild.
THEOREM RebuildInvHolds ==
  ASSUME NoReuse
  PROVE  RSpec => []RebuildInv
  <1>1. RInit => RebuildInv
    BY RebuildInitially
  <1>2. RebuildInv /\ [RNext]_rvars => RebuildInv'
    BY RebuildStep
  <1>. QED BY <1>1, <1>2, PTL DEF RSpec

LEMMA WorksNow ==
  ASSUME RebuildInv
  PROVE  RebuildWorks
  <1>1. ASSUME NEW id \in (blue \intersect Nodes) \ InMemory, Needed(id) \subseteq Held
        PROVE  Work(id).ok /\ Work(id).hot = red
    <2>1. id \in Ids /\ id \in Nodes
      BY Basics
    <2>2. IsPlan(Needed(id)) /\ Needed(id) \subseteq Nodes
      BY <2>1, NeededIs
    <2>3. ASSUME NEW n \in Needed(id)
          PROVE  HasBase(n)
      <3>1. n \in Held /\ n \notin red /\ n \in Nodes
        BY <1>1, <2>2 DEF IsPlan
      <3>. QED BY <3>1 DEF HasBase, Held, InMemory, RebuildInv, TiersLoose
    <2>4. Work(id) \in OnCourse(Needed(id))
      BY <2>1, WorkIs
    <2>. QED BY <2>3, <2>4 DEF OnCourse, Standing
  <1>. QED BY <1>1 DEF RebuildWorks, RebuildInv, TiersLoose, HotLoose

LEMMA AgeIs ==
  ASSUME RebuildInv, NEW x \in Nodes
  PROVE  /\ Age(x) \in Nat
         /\ \A i \in DOMAIN order : order[i] = x => i = Age(x)
  <1>1. order \in Seq(Ids) /\ Distinct(order)
    BY DEF RebuildInv, DagShape, OrderShape
  <1>2. \E i \in DOMAIN order : order[i] = x
    BY DEF Nodes, Elements
  <1>3. Age(x) \in DOMAIN order /\ order[Age(x)] = x
    BY <1>2 DEF Age
  <1>. QED BY <1>1, <1>3 DEF Distinct

LEMMA AgreeNow ==
  ASSUME RebuildInv
  PROVE  BranchesAgree
  <1>1. /\ \A id \in Ids : branchOf[id] # 0 => id \in Nodes /\ branchOf[id] \in DOMAIN branches
        /\ branching => active \in DOMAIN branches
        /\ branching => \A id \in Held \intersect Nodes : branchOf[id] # 0
        /\ \A b \in DOMAIN branches : BranchHas(b)
        /\ Nodes \subseteq Ids
    BY Basics DEF RebuildInv, BranchShape
  <1>2. ASSUME branching, NEW b \in DOMAIN branches
        PROVE  /\ branches[b].parent < b /\ (branches[b].parent = 0 <=> b = HEAD)
               /\ branches[b].head \in Nodes =>
                    \A id \in Held : Known(b, id) => Age(id) <= Age(branches[b].head)
               /\ branches[b].fork_point \in Nodes =>
                    \/ Known(branches[b].parent, branches[b].fork_point)
                    \/ branchOf[branches[b].fork_point] = 0
    <2> DEFINE info == branches[b]
    <2>1. /\ info.parent < b /\ (info.parent = 0 <=> b = HEAD)
          /\ info.head \in Nodes =>
               \A id \in Nodes : branchOf[id] = b => id = info.head \/ Precedes(order, id, info.head)
          /\ info.fork_point \in Nodes => branchOf[info.fork_point] \in {0, info.parent}
      BY <1>1 DEF BranchHas
    <2> HIDE DEF info
    <2>2. ASSUME info.head \in Nodes, NEW id \in Held, Known(b, id)
          PROVE  Age(id) <= Age(info.head)
      <3>1. id \in Nodes /\ branchOf[id] = b
        BY <2>2 DEF Known
      <3>2. Age(id) \in Nat /\ Age(info.head) \in Nat
        BY <2>2, <3>1, AgeIs
      <3>3. CASE id = info.head
        BY <3>2, <3>3
      <3>4. CASE Precedes(order, id, info.head)
        <4>1. PICK i \in DOMAIN order, j \in DOMAIN order :
                i < j /\ order[i] = id /\ order[j] = info.head
          BY <3>4 DEF Precedes
        <4>2. i = Age(id) /\ j = Age(info.head)
          BY <2>2, <3>1, <4>1, AgeIs
        <4>. QED BY <3>2, <4>1, <4>2
      <3>. QED BY <2>1, <2>2, <3>1, <3>3, <3>4
    <2>3. info.fork_point \in Nodes => Known(info.parent, info.fork_point) \/ branchOf[info.fork_point] = 0
      BY <2>1 DEF Known
    <2>. QED BY <2>1, <2>2, <2>3 DEF info
  <1>. QED BY <1>1, <1>2 DEF BranchesAgree

\* A rebuild of a cold checkpoint finds all it needs, as long as nothing of it has been
\* lost, and the hot tier stays within its capacity but for what nothing can evict,
\* where an id that is removed is not added again.
THEOREM RebuildHolds ==
  ASSUME NoReuse
  PROVE  RSpec => []RebuildWorks
  <1>1. RebuildInv => RebuildWorks
    BY WorksNow
  <1>. QED BY <1>1, RebuildInvHolds, PTL

\* Branches are true to the checkpoints, where an id that is removed is not added again.
THEOREM BranchesHold ==
  ASSUME NoReuse
  PROVE  RSpec => []BranchesAgree
  <1>1. RebuildInv => BranchesAgree
    BY AgreeNow
  <1>. QED BY <1>1, RebuildInvHolds, PTL
===============================================================================
