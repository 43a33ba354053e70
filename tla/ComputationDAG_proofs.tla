------------------------ MODULE ComputationDAG_proofs ------------------------
(***************************************************************************)
(* Proofs about ComputationDAG: its links, the order of a rebuild, and the *)
(* longest paths that its depths and critical paths stand for.             *)
(***************************************************************************)
EXTENDS ComputationDAG, DataFacts

-------------------------------------------------------------------------------
(* The largest of some numbers *)

\* m is the first number above all of those that f gives the members of A.
Exceeds(m, A, f) ==
  /\ m \in Nat /\ \A x \in A : f[x] < m
  /\ m # 0 => \E x \in A : m = f[x] + 1

\* MaxPlusOne is the first number above the others.
LEMMA MaxPlusOneIs ==
  ASSUME NEW A \in SUBSET Ids, NEW f, \A x \in A : f[x] \in Nat
  PROVE  Exceeds(MaxPlusOne({f[x] : x \in A}), A, f)
  <1> DEFINE S == {f[x] : x \in A}
             g == [x \in A |-> f[x]]
  <1>1. S \in SUBSET Nat /\ \A x \in A : f[x] \in S
    OBVIOUS
  <1>2. IsFiniteSet(S)
    <2>1. IsFiniteSet(A)
      BY DagAssumption, FS_Subset
    <2>2. g \in Surjection(A, S)
      BY DEF Surjection
    <2> HIDE DEF S, g
    <2>. QED BY <2>1, <2>2, FS_Surjection
  <1>3. CASE S = {}
    <2>1. A = {}
      BY <1>1, <1>3
    <2>2. MaxPlusOne(S) = 0
      BY <1>3 DEF MaxPlusOne
    <2> HIDE DEF S
    <2>3. Exceeds(MaxPlusOne(S), A, f)
      BY <2>1, <2>2 DEF Exceeds
    <2>. QED BY <2>3 DEF S
  <1>4. CASE S # {}
    <2> HIDE DEF S
    <2>1. \E m \in S : \A x \in S : m >= x
      BY <1>1, <1>2, <1>4, LargestExists
    <2>2. Max(S) \in S /\ \A x \in S : Max(S) >= x
      BY <2>1, Zenon DEF Max
    <2>3. MaxPlusOne(S) = Max(S) + 1
      BY <1>4 DEF MaxPlusOne
    <2> DEFINE m == Max(S)
    <2> HIDE DEF m
    <2>4. m \in Nat /\ \A x \in A : f[x] \in Nat /\ m >= f[x]
      BY <1>1, <2>2 DEF m
    <2>5. m + 1 \in Nat /\ \A x \in A : f[x] < m + 1
      BY <2>4
    <2>6. \E x \in A : m = f[x]
      BY <2>2 DEF m, S
    <2>7. \E x \in A : m + 1 = f[x] + 1
      BY <2>6
    <2>8. Exceeds(MaxPlusOne(S), A, f)
      BY <2>3, <2>5, <2>7 DEF Exceeds, m
    <2>. QED BY <2>8 DEF S
  <1>. QED BY <1>3, <1>4

\* The largest of some numbers is what MaxPlusOne gives one less than.
LEMMA MaxPlusOneAt ==
  ASSUME NEW S \in SUBSET Nat, NEW m \in S, \A x \in S : x <= m
  PROVE  MaxPlusOne(S) = m + 1
  <1>1. m \in S /\ \A x \in S : m >= x
    OBVIOUS
  <1>2. Max(S) \in S /\ \A x \in S : Max(S) >= x
    BY <1>1, Zenon DEF Max
  <1>3. Max(S) = m
    <2>1. \A x \in S : x \in Nat
      OBVIOUS
    <2> DEFINE x == Max(S)
    <2>2. x \in S /\ x >= m
      BY <1>1, <1>2
    <2> HIDE DEF x
    <2>3. x \in Nat /\ m \in Nat /\ x <= m /\ x >= m
      BY <1>1, <2>1, <2>2
    <2>4. x = m
      BY <2>3
    <2>. QED BY <2>4 DEF x
  <1>4. S # {}
    OBVIOUS
  <1>. QED BY <1>3, <1>4 DEF MaxPlusOne

\* The larger of two first numbers above is the first above both sets.
LEMMA ExceedsBoth ==
  ASSUME NEW A, NEW B, NEW f, NEW m, NEW n, \A x \in A \union B : f[x] \in Nat,
         Exceeds(m, A, f), Exceeds(n, B, f)
  PROVE  Exceeds(IF m > n THEN m ELSE n, A \union B, f)
  <1>1. /\ m \in Nat /\ (\A x \in A : f[x] < m) /\ (m # 0 => \E x \in A : m = f[x] + 1)
        /\ n \in Nat /\ (\A x \in B : f[x] < n) /\ (n # 0 => \E x \in B : n = f[x] + 1)
    BY DEF Exceeds
  <1>. QED BY <1>1 DEF Exceeds

-------------------------------------------------------------------------------
(* Lists of dependencies *)

\* The lists a caller can give are the short sequences without duplicates.
LEMMA ListsAre ==
  ASSUME NEW s
  PROVE  s \in Lists(Ids) <=> s \in Seq(Ids) /\ Len(s) <= MaxWidth /\ Distinct(s)
  <1>1. ASSUME s \in Lists(Ids)
        PROVE  s \in Seq(Ids) /\ Len(s) <= MaxWidth /\ Distinct(s)
    <2>1. PICK k \in 0 .. MaxWidth : s \in [1 .. k -> Ids] /\ IsInjective(s)
      BY <1>1 DEF Lists
    <2>2. k \in Nat /\ k <= MaxWidth
      BY DagAssumption
    <2>3. s \in Seq(Ids) /\ Len(s) = k
      BY <2>1, <2>2
    <2>. QED BY <2>1, <2>2, <2>3 DEF IsInjective, Distinct
  <1>2. ASSUME s \in Seq(Ids), Len(s) <= MaxWidth, Distinct(s)
        PROVE  s \in Lists(Ids)
    <2>1. Len(s) \in 0 .. MaxWidth /\ s \in [1 .. Len(s) -> Ids] /\ IsInjective(s)
      BY <1>2, DagAssumption DEF IsInjective, Distinct
    <2>. QED BY <2>1 DEF Lists
  <1>. QED BY <1>1, <1>2

\* Only the empty sequence has no items.
LEMMA NoItems ==
  ASSUME NEW T, NEW s \in Seq(T)
  PROVE  s = <<>> <=> ToSet(s) = {}
  <1>1. s = <<>> => ToSet(s) = {}
    BY DEF ToSet
  <1>2. s # <<>> => s[1] \in ToSet(s)
    BY DEF ToSet
  <1>. QED BY <1>1, <1>2

\* Dropping items from a list leaves a list of the others.
LEMMA WithoutIs ==
  ASSUME NEW s \in Lists(Ids), NEW P
  PROVE  /\ Without(s, P) \in Lists(Ids)
         /\ ToSet(Without(s, P)) = ToSet(s) \ P
         /\ Without(s, P) = <<>> <=> ToSet(s) \subseteq P
  <1> DEFINE t == Without(s, P)
  <1>1. s \in Seq(Ids) /\ Len(s) <= MaxWidth /\ Distinct(s)
    BY ListsAre
  <1>2. /\ t \in Seq(Ids) /\ Distinct(t)
        /\ Elements(t) = Elements(s) \ P
    BY <1>1, OnlyHas DEF Without
  <1> HIDE DEF t
  <1>3. ToSet(t) = ToSet(s) \ P
    BY <1>2 DEF ToSet, Elements
  <1>4. Len(t) <= Len(s)
    <2>1. Cardinality(Elements(t)) = Len(t) /\ Cardinality(Elements(s)) = Len(s) /\ IsFiniteSet(Elements(s))
      BY <1>1, <1>2, DistinctCount
    <2>2. Cardinality(Elements(t)) <= Cardinality(Elements(s))
      BY <1>2, <2>1, FS_Subset
    <2>. QED BY <2>1, <2>2
  <1>5. Len(t) <= MaxWidth
    BY <1>1, <1>2, <1>4, DagAssumption
  <1>6. t = <<>> <=> ToSet(t) = {}
    BY <1>2, NoItems
  <1>7. t \in Lists(Ids)
    BY <1>2, <1>5, ListsAre
  <1>. QED BY <1>3, <1>6, <1>7 DEF t

-------------------------------------------------------------------------------
(* What a node depends on, directly or not *)

\* The nodes that are known and have dependencies from the ids.
Graph == nodes \in SUBSET Ids /\ deps \in [Ids -> Lists(Ids)]

\* X has, with each node in it, the dependencies of the node that are not in V.
Closed(X, V) == \A n \in X \intersect nodes : Deps(n) \ V \subseteq X

\* X with the dependencies of its nodes that are not in V: one round of collecting.
Grown(X, V) == X \union ((UNION {Deps(n) : n \in X \intersect nodes}) \ V)
Upwards(V) == [X \in SUBSET Ids |-> Grown(X, V)]

\* r has what is in s, is closed, and is the smallest such set.
Closure(r, s, V) ==
  /\ r \in SUBSET Ids /\ s \subseteq r /\ Closed(r, V)
  /\ \A X \in SUBSET Ids : s \subseteq X /\ Closed(X, V) => r \subseteq X

\* The dependencies of an id are a list of ids.
LEMMA DepsType ==
  ASSUME Graph
  PROVE  \A n \in Ids : deps[n] \in Lists(Ids) /\ deps[n] \in Seq(Ids) /\ Deps(n) \in SUBSET Ids
  <1>1. ASSUME NEW n \in Ids
        PROVE  deps[n] \in Lists(Ids) /\ deps[n] \in Seq(Ids) /\ Deps(n) \in SUBSET Ids
    <2>1. deps[n] \in Lists(Ids)
      BY DEF Graph
    <2>2. deps[n] \in Seq(Ids)
      BY <2>1, ListsAre
    <2>. QED BY <2>1, <2>2 DEF Deps, ToSet
  <1>. QED BY <1>1

\* A round adds what a closed set has to have, and nothing to a closed set.
LEMMA RoundUp ==
  ASSUME Graph, NEW V, NEW X \in SUBSET Ids
  PROVE  /\ Grown(X, V) \in SUBSET Ids /\ X \subseteq Grown(X, V)
         /\ Grown(X, V) = X => Closed(X, V)
         /\ \A Y : X \subseteq Y /\ Closed(Y, V) => Grown(X, V) \subseteq Y
  <1>1. \A e : e \in Grown(X, V) <=> e \in X \/ \E n \in X \intersect nodes : e \in Deps(n) /\ e \notin V
    <2> DEFINE D == UNION {Deps(n) : n \in X \intersect nodes}
    <2>1. \A e : e \in D <=> \E n \in X \intersect nodes : e \in Deps(n)
      OBVIOUS
    <2>2. Grown(X, V) = X \union (D \ V)
      BY DEF Grown
    <2> HIDE DEF D
    <2>. QED BY <2>1, <2>2
  <1>2. X \subseteq Grown(X, V)
    BY <1>1
  <1>3. Grown(X, V) \in SUBSET Ids
    BY <1>1, DepsType
  <1>4. Grown(X, V) = X => Closed(X, V)
    BY <1>1 DEF Closed
  <1>5. ASSUME NEW Y, X \subseteq Y, Closed(Y, V)
        PROVE  Grown(X, V) \subseteq Y
    BY <1>1, <1>5 DEF Closed
  <1>. QED BY <1>2, <1>3, <1>4, <1>5

\* The rounds end in a set that is closed, and in the smallest one.
LEMMA Collects ==
  ASSUME Graph, NEW V, NEW s \in SUBSET Ids,
         NEW f, Runs(f, Upwards(V), s, Cardinality(Ids))
  PROVE  Closure(f[Cardinality(Ids)], s, V)
  <1> DEFINE N == Cardinality(Ids)
             G == Upwards(V)
  <1>1. N \in Nat /\ IsFiniteSet(Ids)
    BY DagAssumption, FS_CardinalityType
  <1>2. /\ G \in [SUBSET Ids -> SUBSET Ids]
        /\ \A X \in SUBSET Ids : X \subseteq G[X] /\ G[X] = Grown(X, V)
    BY RoundUp DEF Upwards
  <1>3. f[N] \in SUBSET Ids /\ G[f[N]] = f[N]
    <2>1. Runs(f, G, s, Cardinality(Ids))
      OBVIOUS
    <2> HIDE DEF G
    <2>2. Adds(G, Ids)
      BY <1>2 DEF Adds
    <2>3. Complete(f[Cardinality(Ids)], G, Ids)
      BY <1>1, <2>1, <2>2, ChainStops, Zenon
    <2>. QED BY <2>3 DEF Complete
  <1> HIDE DEF G
  <1>4. f[0] = s /\ \A k \in 1 .. N : f[k] = G[f[k - 1]]
    <2>1. \A k \in 0 .. N : f[k] = IF k = 0 THEN s ELSE G[f[k - 1]]
      BY Zenon DEF Runs, G
    <2> HIDE DEF N
    <2>. QED BY <1>1, <2>1
  <1> HIDE DEF N
  <1>5. s \subseteq f[N]
    <2> DEFINE T == {X \in SUBSET Ids : s \subseteq X}
    <2>1. \A k \in 1 .. N : f[k - 1] \in T => f[k] \in T
      BY <1>2, <1>4
    <2>2. \A k \in 0 .. N : f[k] \in T
      <3>1. f[0] \in T
        BY <1>4
      <3> HIDE DEF T
      <3>. QED BY <1>1, <2>1, <3>1, RoundsKeep
    <2>. QED BY <1>1, <2>2
  <1>6. Closed(f[N], V)
    BY <1>2, <1>3, RoundUp
  <1>7. ASSUME NEW X \in SUBSET Ids, s \subseteq X, Closed(X, V)
        PROVE  f[N] \subseteq X
    <2> DEFINE T == SUBSET X
    <2>1. \A k \in 1 .. N : f[k - 1] \in T => f[k] \in T
      <3>1. ASSUME NEW Y \in SUBSET X
            PROVE  G[Y] \in SUBSET X
        BY <1>2, <1>7, <3>1, RoundUp
      <3>. QED BY <1>4, <3>1
    <2>2. \A k \in 0 .. N : f[k] \in T
      <3>1. f[0] \in T
        BY <1>4, <1>7
      <3> HIDE DEF T
      <3>. QED BY <1>1, <2>1, <3>1, RoundsKeep
    <2>. QED BY <1>1, <2>2
  <1>. QED BY <1>3, <1>5, <1>6, <1>7 DEF N, Closure

\* f is the function that the recursion of Above and of Required defines.
Collected(f, s, V, m) == f = [k \in 0 .. m |-> IF k = 0 THEN s ELSE Grown(f[k - 1], V)]

\* What the recursion gives is closed, and it is the smallest such set.
LEMMA CollectedIs ==
  ASSUME Graph, NEW V, NEW s \in SUBSET Ids
  PROVE  Closure((CHOOSE f : Collected(f, s, V, Cardinality(Ids)))[Cardinality(Ids)], s, V)
  <1> DEFINE N == Cardinality(Ids)
             h == CHOOSE f : Collected(f, s, V, N)
  <1>1. N \in Nat
    BY DagAssumption, FS_CardinalityType
  <1>2. \E f : Collected(f, s, V, N)
    <2>1. PICK f \in [0 .. N -> SUBSET Ids] : Runs(f, Upwards(V), s, N)
      <3>1. Upwards(V) \in [SUBSET Ids -> SUBSET Ids]
        BY RoundUp DEF Upwards
      <3> HIDE DEF N
      <3>. QED BY <1>1, <3>1, LoopRuns
    <2> HIDE DEF N
    <2>2. \A k \in 0 .. N : f[k] = IF k = 0 THEN s ELSE Upwards(V)[f[k - 1]]
      BY <2>1, Zenon DEF Runs
    <2>3. \A k \in 0 .. N : k # 0 => f[k - 1] \in SUBSET Ids
      BY <1>1
    <2>4. \A k \in 0 .. N : f[k] = IF k = 0 THEN s ELSE Grown(f[k - 1], V)
      BY <2>2, <2>3 DEF Upwards
    <2>5. f = [k \in 0 .. N |-> f[k]]
      OBVIOUS
    <2>. QED BY <2>4, <2>5, Zenon DEF Collected
  <1>3. Collected(h, s, V, N)
    BY <1>2, Zenon
  <1> HIDE DEF h
  <1>4. N = Cardinality(Ids)
    OBVIOUS
  <1> HIDE DEF N
  <1>5. \A k \in 0 .. N : h[k] = IF k = 0 THEN s ELSE Grown(h[k - 1], V)
    BY <1>3, Zenon DEF Collected
  <1>6. \A k \in 0 .. N : h[k] \in SUBSET Ids
    <2>1. h[0] = s /\ \A k \in 1 .. N : h[k] = Grown(h[k - 1], V)
      BY ONLY <1>1, <1>5
    <2>2. \A k \in 1 .. N : h[k - 1] \in SUBSET Ids => h[k] \in SUBSET Ids
      <3>1. ASSUME NEW k \in 1 .. N, h[k - 1] \in SUBSET Ids
            PROVE  h[k] \in SUBSET Ids
        <4>1. Grown(h[k - 1], V) \in SUBSET Ids
          BY <3>1, RoundUp, Zenon
        <4>. QED BY <2>1, <4>1, Zenon
      <3>. QED BY <3>1, Zenon
    <2>. QED BY <1>1, <2>1, <2>2, RoundsKeep
  <1>7. Runs(h, Upwards(V), s, N)
    <2>1. \A k \in 0 .. N : h[k] = IF k = 0 THEN s ELSE Upwards(V)[h[k - 1]]
      <3>1. \A k \in 0 .. N : k # 0 => h[k - 1] \in SUBSET Ids
        BY <1>1, <1>6
      <3>. QED BY <1>5, <3>1 DEF Upwards
    <2>2. h = [k \in 0 .. N |-> h[k]]
      BY <1>3, Zenon DEF Collected
    <2>. QED BY <2>1, <2>2, Zenon DEF Runs
  <1>8. Closure(h[N], s, V)
    BY <1>4, <1>7, Collects, Zenon
  <1>. QED BY <1>8, Zenon DEF h, N

\* Required has the target and what it depends on, but for what is available.
LEMMA RequiredIs ==
  ASSUME Graph, NEW t \in Ids, NEW V
  PROVE  Closure(Required(t, V), {t} \ V, V)
  <1>1. Required(t, V) = (CHOOSE f : Collected(f, {t} \ V, V, Cardinality(Ids)))[Cardinality(Ids)]
    BY Zenon DEF Required, Collected, Grown
  <1>2. {t} \ V \in SUBSET Ids
    OBVIOUS
  <1>. QED BY <1>1, <1>2, CollectedIs, Zenon

\* Above has the dependencies of a node, theirs, and so on.
LEMMA AboveIs ==
  ASSUME Graph, NEW n \in Ids
  PROVE  Closure(Above(n), Deps(n), {})
  <1>1. \A X : Grown(X, {}) = X \union UNION {Deps(p) : p \in X \intersect nodes}
    <2>1. \A A : A \ {} = A
      OBVIOUS
    <2>. QED BY <2>1, Zenon DEF Grown
  <1>2. Above(n) = (CHOOSE f : Collected(f, Deps(n), {}, Cardinality(Ids)))[Cardinality(Ids)]
    <2> DEFINE up(f) == f = [k \in 0 .. Cardinality(Ids) |->
                 IF k = 0 THEN Deps(n)
                 ELSE f[k - 1] \union UNION {Deps(p) : p \in f[k - 1] \intersect nodes}]
    <2>1. Above(n) = (CHOOSE f : up(f))[Cardinality(Ids)]
      BY Zenon DEF Above
    <2>2. \A f : up(f) <=> Collected(f, Deps(n), {}, Cardinality(Ids))
      BY <1>1, Zenon DEF Collected
    <2> HIDE DEF up
    <2>3. (CHOOSE f : up(f)) = CHOOSE f : Collected(f, Deps(n), {}, Cardinality(Ids))
      BY <2>2
    <2>. QED BY <2>1, <2>3, Zenon
  <1>3. Deps(n) \in SUBSET Ids
    BY DepsType
  <1>. QED BY <1>2, <1>3, CollectedIs, Zenon

\* Without cycles, some of any nodes depend on none of the others.
LEMMA FirstExists ==
  ASSUME Graph, Acyclic, NEW X \in SUBSET nodes, X # {}
  PROVE  \E n \in X : Deps(n) \intersect X = {}
  <1> SUFFICES ASSUME \A n \in X : Deps(n) \intersect X # {}
               PROVE  FALSE
    OBVIOUS
  <1> DEFINE T == {k \in Nat : \A n \in X : k <= Cardinality(Above(n))}
  <1>1. ASSUME NEW n \in X
        PROVE  /\ n \in Ids /\ n \in nodes /\ Closure(Above(n), Deps(n), {})
               /\ IsFiniteSet(Above(n)) /\ Cardinality(Above(n)) \in Nat
               /\ Cardinality(Above(n)) <= Cardinality(Ids)
    <2>1. n \in Ids /\ n \in nodes
      BY DEF Graph
    <2>2. Closure(Above(n), Deps(n), {})
      BY <2>1, AboveIs, Zenon
    <2>3. Above(n) \in SUBSET Ids
      BY <2>2 DEF Closure
    <2>. QED BY <2>1, <2>2, <2>3, DagAssumption, FS_Subset, FS_CardinalityType
  <1>2. 0 \in T
    BY <1>1
  <1>3. ASSUME NEW k \in Nat, k \in T, NEW n \in X
        PROVE  k + 1 <= Cardinality(Above(n))
    <2>1. PICK p \in X : p \in Deps(n)
      OBVIOUS
    <2>2. p \in Above(n) /\ Above(p) \subseteq Above(n)
      <3>1. /\ Above(n) \in SUBSET Ids /\ p \in Above(n)
            /\ Deps(p) \subseteq Above(n) /\ Closed(Above(n), {})
        BY <1>1, <2>1 DEF Closure, Closed
      <3>2. Closure(Above(p), Deps(p), {})
        BY <1>1, <2>1
      <3>. QED BY <3>1, <3>2 DEF Closure
    <2>3. p \notin Above(p)
      BY <1>1, <2>1 DEF Acyclic
    <2>4. Above(p) \in SUBSET Above(n) /\ Above(p) # Above(n)
      BY <2>2, <2>3
    <2>5. Cardinality(Above(p)) <= Cardinality(Above(n)) /\ Cardinality(Above(p)) # Cardinality(Above(n))
      BY <1>1, <2>4, FS_Subset
    <2>6. k <= Cardinality(Above(p))
      BY <1>3, <2>1
    <2>. QED BY <1>1, <2>1, <2>5, <2>6
  <1>4. \A k \in Nat : k \in T => k + 1 \in T
    BY <1>3
  <1>5. Cardinality(Ids) + 1 \in Nat
    BY DagAssumption, FS_CardinalityType
  <1>6. Cardinality(Ids) + 1 \in T
    <2> HIDE DEF T
    <2>. QED BY <1>2, <1>4, <1>5, Induction, Zenon
  <1>7. PICK n \in X : TRUE
    OBVIOUS
  <1>8. Cardinality(Ids) + 1 <= Cardinality(Above(n))
    BY <1>6
  <1>9. Cardinality(Above(n)) <= Cardinality(Ids) /\ Cardinality(Above(n)) \in Nat
    BY <1>1
  <1>10. Cardinality(Ids) \in Nat
    BY DagAssumption, FS_CardinalityType
  <1>. QED BY <1>8, <1>9, <1>10

-------------------------------------------------------------------------------
(* Paths *)

\* A path goes from a node down to one that depends on it, step by step.
IsPath(s) ==
  /\ s \in Seq(nodes) /\ s # <<>>
  /\ \A i \in 1 .. Len(s) - 1 : s[i] \in Deps(s[i + 1])
PathsOf(k) == {s \in Seq(nodes) : IsPath(s) /\ Len(s) = k}

\* One node is a path.
LEMMA OnePath ==
  ASSUME NEW n \in nodes
  PROVE  IsPath(<<n>>)
  <1>1. <<n>> \in Seq(nodes) /\ Len(<<n>>) = 1
    OBVIOUS
  <1>. QED BY <1>1 DEF IsPath

\* A path is longer by a node before it that its first node depends on.
LEMMA PathBefore ==
  ASSUME NEW s, IsPath(s), NEW p \in nodes, p \in Deps(s[1])
  PROVE  LET t == <<p>> \o s
         IN  IsPath(t) /\ Len(t) = Len(s) + 1 /\ t[1] = p /\ t[Len(t)] = s[Len(s)]
  <1> DEFINE t == <<p>> \o s
  <1>1. s \in Seq(nodes) /\ Len(s) \in Nat /\ Len(s) >= 1
    BY DEF IsPath
  <1>2. /\ t \in Seq(nodes) /\ Len(t) = Len(s) + 1
        /\ t[1] = p /\ \A i \in 1 .. Len(s) : t[i + 1] = s[i]
    BY <1>1
  <1> HIDE DEF t
  <1>3. t # <<>> /\ t[Len(t)] = s[Len(s)]
    BY <1>1, <1>2
  <1>4. ASSUME NEW i \in 1 .. Len(t) - 1
        PROVE  t[i] \in Deps(t[i + 1])
    <2>1. i \in 1 .. Len(s) /\ t[i + 1] = s[i]
      BY <1>1, <1>2
    <2>2. CASE i = 1
      BY <1>2, <2>1, <2>2
    <2>3. CASE i # 1
      <3>1. i - 1 \in 1 .. Len(s) - 1 /\ (i - 1) + 1 = i /\ i - 1 \in 1 .. Len(s)
        BY <1>1, <2>1, <2>3
      <3>2. t[i] = s[i - 1] /\ s[i - 1] \in Deps(s[i])
        BY <1>2, <3>1, Zenon DEF IsPath
      <3>. QED BY <2>1, <3>2
    <2>. QED BY <2>2, <2>3
  <1>5. IsPath(t)
    BY <1>2, <1>3, <1>4 DEF IsPath
  <1>. QED BY <1>2, <1>3, <1>5 DEF t

\* A path is longer by a node after it that depends on its last node.
LEMMA PathAfter ==
  ASSUME NEW s, IsPath(s), NEW n \in nodes, s[Len(s)] \in Deps(n)
  PROVE  LET t == Append(s, n)
         IN  IsPath(t) /\ Len(t) = Len(s) + 1 /\ t[Len(t)] = n
  <1> DEFINE t == Append(s, n)
  <1>1. s \in Seq(nodes) /\ Len(s) \in Nat /\ Len(s) >= 1
    BY DEF IsPath
  <1>2. /\ t \in Seq(nodes) /\ Len(t) = Len(s) + 1
        /\ t[Len(s) + 1] = n /\ \A i \in 1 .. Len(s) : t[i] = s[i]
    BY <1>1
  <1> HIDE DEF t
  <1>3. ASSUME NEW i \in 1 .. Len(t) - 1
        PROVE  t[i] \in Deps(t[i + 1])
    <2>1. i \in 1 .. Len(s) /\ t[i] = s[i]
      BY <1>1, <1>2
    <2>2. CASE i = Len(s)
      BY <1>2, <2>1, <2>2
    <2>3. CASE i # Len(s)
      <3>1. i \in 1 .. Len(s) - 1 /\ i + 1 \in 1 .. Len(s)
        BY <1>1, <2>1, <2>3
      <3>2. t[i + 1] = s[i + 1] /\ s[i] \in Deps(s[i + 1])
        BY <1>2, <3>1, Zenon DEF IsPath
      <3>. QED BY <2>1, <3>2
    <2>. QED BY <2>2, <2>3
  <1>4. t # <<>>
    BY <1>1, <1>2
  <1>. QED BY <1>2, <1>3, <1>4 DEF t, IsPath

\* What is left of a path without its first node is a path.
LEMMA PathAfterFirst ==
  ASSUME NEW s, IsPath(s), Len(s) > 1
  PROVE  /\ IsPath(Tail(s)) /\ Len(Tail(s)) = Len(s) - 1 /\ s = <<s[1]>> \o Tail(s)
         /\ s[1] \in nodes /\ s[1] \in Deps(Tail(s)[1])
  <1> DEFINE t == Tail(s)
  <1>1. s \in Seq(nodes) /\ Len(s) \in Nat /\ s # <<>>
    BY DEF IsPath
  <1>2. /\ t \in Seq(nodes) /\ Len(t) = Len(s) - 1 /\ s[1] \in nodes
        /\ \A i \in 1 .. Len(s) - 1 : t[i] = s[i + 1]
    BY <1>1
  <1>3. s = <<s[1]>> \o t
    <2> DEFINE u == <<s[1]>> \o t
    <2>1. u \in Seq(nodes) /\ Len(u) = Len(s) /\ u[1] = s[1]
      BY <1>1, <1>2
    <2>2. \A i \in 1 .. Len(s) : i # 1 => u[i] = t[i - 1] /\ t[i - 1] = s[i]
      BY <1>1, <1>2
    <2>3. \A i \in 1 .. Len(s) : u[i] = s[i]
      BY <2>1, <2>2
    <2> HIDE DEF u
    <2>4. u = s
      BY <1>1, <2>1, <2>3
    <2>. QED BY <2>4 DEF u
  <1> HIDE DEF t
  <1>4. \A i \in 1 .. Len(s) - 1 : s[i] \in Deps(s[i + 1])
    BY DEF IsPath
  <1>5. ASSUME NEW i \in 1 .. Len(t) - 1
        PROVE  t[i] \in Deps(t[i + 1])
    <2>1. i + 1 \in 1 .. Len(s) - 1 /\ i \in 1 .. Len(s) - 1
      BY <1>1, <1>2
    <2>. QED BY <1>2, <1>4, <2>1
  <1>6. t # <<>> /\ t[1] = s[2] /\ s[1] \in Deps(s[2])
    <2>1. 1 \in 1 .. Len(s) - 1 /\ 1 + 1 = 2
      BY <1>1
    <2>. QED BY <1>2, <1>4, <2>1
  <1>. QED BY <1>2, <1>3, <1>5, <1>6 DEF t, IsPath

\* f gives the paths by length, as the recursion of Paths defines it.
Extends(f, n) ==
  f = [k \in 1 .. n |->
         IF k = 1 THEN {<<m>> : m \in nodes}
         ELSE UNION {{<<p>> \o s : p \in Deps(Head(s)) \intersect nodes} : s \in f[k - 1]}]

\* The paths of one node, and those of one node more.
LEMMA PathsGrow ==
  /\ PathsOf(1) = {<<m>> : m \in nodes}
  /\ \A k \in Nat \ {0} :
       PathsOf(k + 1) = UNION {{<<p>> \o s : p \in Deps(Head(s)) \intersect nodes} : s \in PathsOf(k)}
  <1>1. PathsOf(1) = {<<m>> : m \in nodes}
    <2>1. ASSUME NEW s \in PathsOf(1)
          PROVE  s \in {<<m>> : m \in nodes}
      <3>1. s \in Seq(nodes) /\ Len(s) = 1
        BY <2>1 DEF PathsOf
      <3>2. s[1] \in nodes /\ s = <<s[1]>>
        BY <3>1
      <3>. QED BY <3>2
    <2>2. ASSUME NEW m \in nodes
          PROVE  <<m>> \in PathsOf(1)
      BY OnePath DEF PathsOf
    <2>. QED BY <2>1, <2>2
  <1>2. ASSUME NEW k \in Nat \ {0}
        PROVE  PathsOf(k + 1) = UNION {{<<p>> \o s : p \in Deps(Head(s)) \intersect nodes} : s \in PathsOf(k)}
    <2>1. ASSUME NEW t \in PathsOf(k + 1)
          PROVE  \E s \in PathsOf(k) : \E p \in Deps(Head(s)) \intersect nodes : t = <<p>> \o s
      <3>1. IsPath(t) /\ Len(t) = k + 1
        BY <2>1 DEF PathsOf
      <3>2. /\ IsPath(Tail(t)) /\ Len(Tail(t)) = k /\ t = <<t[1]>> \o Tail(t)
            /\ t[1] \in nodes /\ t[1] \in Deps(Tail(t)[1])
        BY <3>1, PathAfterFirst
      <3> DEFINE s == Tail(t)
      <3> HIDE DEF s
      <3>3. s \in PathsOf(k) /\ Head(s) = s[1]
        <4>1. s \in Seq(nodes) /\ s # <<>>
          BY <3>2 DEF IsPath, s
        <4>. QED BY <3>2, <4>1 DEF PathsOf, s
      <3>. QED BY <3>2, <3>3 DEF s
    <2>2. ASSUME NEW s \in PathsOf(k), NEW p \in Deps(Head(s)) \intersect nodes
          PROVE  <<p>> \o s \in PathsOf(k + 1)
      <3>1. IsPath(s) /\ Len(s) = k /\ s \in Seq(nodes) /\ s # <<>>
        BY <2>2 DEF PathsOf, IsPath
      <3>2. Head(s) = s[1]
        BY <3>1
      <3> DEFINE t == <<p>> \o s
      <3>3. IsPath(t) /\ Len(t) = k + 1
        BY <3>1, <3>2, PathBefore
      <3> HIDE DEF t
      <3>4. t \in PathsOf(k + 1)
        BY <3>3 DEF PathsOf, IsPath
      <3>. QED BY <3>4 DEF t
    <2> DEFINE D(s) == Deps(Head(s)) \intersect nodes
               U == UNION {{<<p>> \o s : p \in D(s)} : s \in PathsOf(k)}
    <2>3. ASSUME NEW t \in U
          PROVE  t \in PathsOf(k + 1)
      <3>1. PICK s \in PathsOf(k) : t \in {<<p>> \o s : p \in D(s)}
        BY <2>3, Zenon
      <3>2. PICK p \in D(s) : t = <<p>> \o s
        BY <3>1, Zenon
      <3>. QED BY <2>2, <3>2, Zenon
    <2>4. ASSUME NEW t \in PathsOf(k + 1)
          PROVE  t \in U
      <3>1. PICK s \in PathsOf(k) : \E p \in D(s) : t = <<p>> \o s
        BY <2>1, <2>4, Zenon
      <3>2. t \in {<<p>> \o s : p \in D(s)}
        BY <3>1, Zenon
      <3>. QED BY <3>2, Zenon
    <2> HIDE DEF U
    <2>5. U = PathsOf(k + 1)
      BY <2>3, <2>4
    <2>. QED BY <2>5 DEF U
  <1>. QED BY <1>1, <1>2

\* Paths has the paths of up to as many nodes as there are ids.
LEMMA PathsAre ==
  \A s : s \in Paths <=> IsPath(s) /\ Len(s) <= Cardinality(Ids)
  <1> DEFINE N == Cardinality(Ids)
             h == CHOOSE f : Extends(f, N)
             g == [k \in 1 .. N |-> PathsOf(k)]
  <1>1. N \in Nat
    BY DagAssumption, FS_CardinalityType
  <1>2. Paths = UNION {h[k] : k \in 1 .. N}
    BY Zenon DEF Paths, Extends
  <1> HIDE DEF N
  <1>3. Extends(g, N)
    <2>1. ASSUME NEW k \in 1 .. N
          PROVE  g[k] = IF k = 1 THEN {<<m>> : m \in nodes}
                        ELSE UNION {{<<p>> \o s : p \in Deps(Head(s)) \intersect nodes} : s \in g[k - 1]}
      <3>1. CASE k = 1
        <4>1. g[k] = PathsOf(1)
          BY <2>1, <3>1
        <4>. QED BY <3>1, <4>1, PathsGrow, Zenon
      <3>2. CASE k # 1
        <4>1. k - 1 \in Nat \ {0} /\ (k - 1) + 1 = k /\ k - 1 \in 1 .. N
          BY <1>1, <3>2
        <4>2. g[k] = PathsOf((k - 1) + 1) /\ g[k - 1] = PathsOf(k - 1)
          BY <2>1, <4>1
        <4>. QED BY <3>2, <4>1, <4>2, PathsGrow, Zenon
      <3>. QED BY <3>1, <3>2
    <2>2. g = [k \in 1 .. N |-> g[k]]
      OBVIOUS
    <2> HIDE DEF g
    <2>. QED BY <2>1, <2>2, Zenon DEF Extends
  <1>4. Extends(h, N)
    BY <1>3, Zenon
  <1> HIDE DEF h
  <1>5. \A k \in 1 .. N : h[k] = PathsOf(k)
    <2> DEFINE T == {k \in Nat : k + 1 <= N => h[k + 1] = PathsOf(k + 1)}
    <2>0. \A k \in 1 .. N : h[k] = IF k = 1 THEN {<<m>> : m \in nodes}
                        ELSE UNION {{<<p>> \o s : p \in Deps(Head(s)) \intersect nodes} : s \in h[k - 1]}
      BY <1>4, Zenon DEF Extends
    <2>1. 0 \in T
      <3>1. ASSUME 1 <= N
            PROVE  h[1] = PathsOf(1)
        <4>1. 1 \in 1 .. N
          BY <1>1, <3>1
        <4>. QED BY <2>0, <4>1, PathsGrow, Zenon
      <3>. QED BY <3>1
    <2>2. ASSUME NEW k \in Nat, k \in T
          PROVE  k + 1 \in T
      <3>1. ASSUME (k + 1) + 1 <= N
            PROVE  h[(k + 1) + 1] = PathsOf((k + 1) + 1)
        <4>1. /\ (k + 1) + 1 \in 1 .. N /\ (k + 1) + 1 # 1 /\ ((k + 1) + 1) - 1 = k + 1
              /\ k + 1 <= N /\ k + 1 \in Nat \ {0}
          BY <1>1, <3>1
        <4>2. h[k + 1] = PathsOf(k + 1)
          BY <2>2, <4>1
        <4>3. h[(k + 1) + 1] = UNION {{<<p>> \o s : p \in Deps(Head(s)) \intersect nodes} : s \in h[k + 1]}
          BY <2>0, <4>1, Zenon
        <4>4. PathsOf((k + 1) + 1) = UNION {{<<p>> \o s : p \in Deps(Head(s)) \intersect nodes} : s \in PathsOf(k + 1)}
          BY <4>1, PathsGrow, Zenon
        <4>. QED BY <4>2, <4>3, <4>4, Zenon
      <3>. QED BY <3>1
    <2> HIDE DEF T
    <2>3. \A k \in Nat : k \in T
      BY <2>1, <2>2, Induction, Zenon
    <2>4. ASSUME NEW k \in 1 .. N
          PROVE  h[k] = PathsOf(k)
      <3>1. k - 1 \in Nat /\ (k - 1) + 1 = k /\ k <= N
        BY <1>1
      <3>. QED BY <2>3, <3>1 DEF T
    <2>. QED BY <2>4
  <1>6. \A s : s \in Paths <=> \E k \in 1 .. N : s \in PathsOf(k)
    BY <1>2, <1>5
  <1>7. ASSUME NEW s
        PROVE  (\E k \in 1 .. N : s \in PathsOf(k)) <=> IsPath(s) /\ Len(s) <= N
    <2>1. ASSUME IsPath(s)
          PROVE  s \in Seq(nodes) /\ Len(s) \in Nat /\ Len(s) >= 1
      BY <2>1 DEF IsPath
    <2>2. ASSUME IsPath(s), Len(s) <= N
          PROVE  Len(s) \in 1 .. N /\ s \in PathsOf(Len(s))
      BY <1>1, <2>1, <2>2 DEF PathsOf
    <2>3. \A k \in 1 .. N : s \in PathsOf(k) => IsPath(s) /\ Len(s) <= N
      BY <1>1 DEF PathsOf
    <2>. QED BY <2>2, <2>3
  <1>. QED BY <1>6, <1>7 DEF N

-------------------------------------------------------------------------------
(* Longest paths *)

\* d gives every node the first number above those of its dependencies, which are all known.
Levels(d) == \A n \in nodes : Deps(n) \subseteq nodes /\ d[n] \in Nat /\ Exceeds(d[n], Deps(n), d)
\* c gives every node the first number above those of its dependents.
Heights(c) == \A n \in nodes : c[n] \in Nat /\ Exceeds(c[n], {x \in nodes : n \in Deps(x)}, c)

\* Along a path the levels rise, by one at least from node to node.
LEMMA PathRises ==
  ASSUME NEW d, Levels(d), NEW s, IsPath(s)
  PROVE  \A j \in 1 .. Len(s) : /\ s[j] \in nodes /\ d[s[j]] \in Nat /\ d[s[j]] >= j - 1
                                /\ \A i \in 1 .. j - 1 : d[s[i]] < d[s[j]]
  <1> DEFINE R(j) == d[s[j]] >= j - 1 /\ \A i \in 1 .. j - 1 : d[s[i]] < d[s[j]]
             T == {k \in Nat : k + 1 <= Len(s) => R(k + 1)}
  <1>1. s \in Seq(nodes) /\ Len(s) \in Nat /\ Len(s) >= 1
    BY DEF IsPath
  <1>2. \A j \in 1 .. Len(s) : s[j] \in nodes /\ d[s[j]] \in Nat
    BY <1>1 DEF Levels
  <1>3. 0 \in T
    <2>1. 1 \in 1 .. Len(s) /\ 0 + 1 = 1
      BY <1>1
    <2>. QED BY <1>2, <2>1
  <1>4. ASSUME NEW k \in Nat, k \in T
        PROVE  k + 1 \in T
    <2> SUFFICES ASSUME (k + 1) + 1 <= Len(s)
                 PROVE  R((k + 1) + 1)
      OBVIOUS
    <2> DEFINE j == k + 1
    <2>1. j \in 1 .. Len(s) - 1 /\ j \in 1 .. Len(s) /\ j + 1 \in 1 .. Len(s) /\ j \in Nat /\ (j + 1) - 1 = j
      BY <1>1
    <2>2. d[s[j]] >= j - 1 /\ \A i \in 1 .. j - 1 : d[s[i]] < d[s[j]]
      BY <1>4, <2>1
    <2> HIDE DEF j
    <2>3. s[j] \in Deps(s[j + 1])
      BY <2>1 DEF IsPath
    <2>4. d[s[j]] < d[s[j + 1]] /\ d[s[j]] \in Nat /\ d[s[j + 1]] \in Nat
      BY <1>2, <2>1, <2>3 DEF Levels, Exceeds
    <2>5. ASSUME NEW i \in 1 .. (j + 1) - 1
          PROVE  d[s[i]] < d[s[j + 1]]
      <3>1. i \in 1 .. Len(s) /\ (i = j \/ i \in 1 .. j - 1)
        BY <1>1, <2>1
      <3>2. d[s[i]] \in Nat
        BY <1>2, <3>1
      <3>. QED BY <2>2, <2>4, <3>1, <3>2
    <2>6. d[s[j + 1]] >= (j + 1) - 1
      BY <2>1, <2>2, <2>4
    <2>7. R(j + 1)
      BY <2>5, <2>6
    <2>. QED BY <2>7 DEF j
  <1> HIDE DEF T
  <1>5. \A k \in Nat : k \in T
    BY <1>3, <1>4, Induction, Zenon
  <1>6. ASSUME NEW j \in 1 .. Len(s)
        PROVE  R(j)
    <2>1. j - 1 \in Nat /\ (j - 1) + 1 = j /\ j <= Len(s)
      BY <1>1
    <2>2. R((j - 1) + 1)
      BY <1>5, <2>1 DEF T
    <2>. QED BY <2>1, <2>2
  <1>. QED BY <1>2, <1>6

\* Hence a path meets no node twice, and is one of Paths.
LEMMA PathShort ==
  ASSUME Graph, NEW d, Levels(d), NEW s, IsPath(s)
  PROVE  s \in Paths
  <1>1. s \in Seq(nodes) /\ Len(s) \in Nat /\ nodes \in SUBSET Ids
    BY DEF IsPath, Graph
  <1>2. Distinct(s)
    <2>1. ASSUME NEW i \in DOMAIN s, NEW j \in DOMAIN s, i < j
          PROVE  s[i] # s[j]
      <3>1. i \in 1 .. j - 1 /\ j \in 1 .. Len(s) /\ i \in 1 .. Len(s)
        BY <1>1, <2>1
      <3>2. d[s[i]] < d[s[j]] /\ d[s[j]] \in Nat
        BY <3>1, PathRises
      <3>. QED BY <3>2
    <2>2. \A i, j \in DOMAIN s : i # j => i < j \/ j < i
      BY <1>1
    <2>. QED BY <2>1, <2>2 DEF Distinct
  <1>3. Cardinality(Elements(s)) = Len(s)
    BY <1>1, <1>2, DistinctCount
  <1>4. Elements(s) \subseteq Ids
    BY <1>1 DEF Elements
  <1>5. Len(s) <= Cardinality(Ids)
    BY <1>3, <1>4, DagAssumption, FS_Subset
  <1>. QED BY <1>5, PathsAre

\* If the lengths of some paths end at k + 1, k is what the longest one gives.
LEMMA LongestIs ==
  ASSUME Graph, NEW d, Levels(d), NEW P, P \subseteq Paths, NEW k \in Nat,
         \E s \in P : Len(s) = k + 1, \A s \in P : Len(s) <= k + 1
  PROVE  MaxPlusOne({Len(s) : s \in P}) - 2 = k
  <1> DEFINE S == {Len(s) : s \in P}
  <1>1. \A s \in P : Len(s) \in Nat
    BY PathsAre DEF IsPath
  <1>2. S \in SUBSET Nat /\ k + 1 \in S /\ \A x \in S : x <= k + 1
    BY <1>1
  <1> HIDE DEF S
  <1>3. MaxPlusOne(S) = (k + 1) + 1
    BY <1>2, MaxPlusOneAt
  <1>. QED BY <1>3 DEF S

\* A level is the length of the longest path to the node.
LEMMA LongestToIs ==
  ASSUME Graph, NEW d, Levels(d), NEW n \in nodes
  PROVE  LongestTo(n) = d[n]
  <1> DEFINE P == {s \in Paths : s[Len(s)] = n}
             T == {k \in Nat : \A m \in nodes : d[m] = k =>
                     \E s : IsPath(s) /\ s[Len(s)] = m /\ Len(s) = k + 1}
  <1>1. d[n] \in Nat
    BY DEF Levels
  <1>2. 0 \in T
    <2>1. ASSUME NEW m \in nodes
          PROVE  IsPath(<<m>>) /\ <<m>>[Len(<<m>>)] = m /\ Len(<<m>>) = 0 + 1
      BY OnePath
    <2>. QED BY <2>1
  <1>3. ASSUME NEW k \in Nat, k \in T
        PROVE  k + 1 \in T
    <2> SUFFICES ASSUME NEW m \in nodes, d[m] = k + 1
                 PROVE  \E s : IsPath(s) /\ s[Len(s)] = m /\ Len(s) = (k + 1) + 1
      OBVIOUS
    <2>1. PICK p \in Deps(m) : d[m] = d[p] + 1
      <3>1. d[m] # 0 /\ Exceeds(d[m], Deps(m), d)
        BY DEF Levels
      <3>. QED BY <3>1, Zenon DEF Exceeds
    <2>2. p \in nodes /\ d[p] \in Nat
      BY <2>1 DEF Levels
    <2>3. d[p] = k
      BY <2>1, <2>2
    <2>4. PICK s : IsPath(s) /\ s[Len(s)] = p /\ Len(s) = k + 1
      BY <1>3, <2>2, <2>3
    <2>5. LET t == Append(s, m)
          IN  IsPath(t) /\ Len(t) = Len(s) + 1 /\ t[Len(t)] = m
      BY <2>1, <2>4, PathAfter, Zenon
    <2>. QED BY <2>4, <2>5
  <1> HIDE DEF T
  <1>4. d[n] \in T
    BY <1>1, <1>2, <1>3, Induction, Zenon
  <1>5. PICK s : IsPath(s) /\ s[Len(s)] = n /\ Len(s) = d[n] + 1
    BY <1>4 DEF T
  <1>6. \E u \in P : Len(u) = d[n] + 1
    BY <1>5, PathShort
  <1>7. ASSUME NEW u \in P
        PROVE  Len(u) <= d[n] + 1
    <2>1. IsPath(u) /\ Len(u) \in Nat /\ Len(u) >= 1
      BY PathsAre DEF IsPath
    <2>2. d[u[Len(u)]] >= Len(u) - 1
      BY <2>1, PathRises
    <2>. QED BY <1>1, <2>1, <2>2
  <1>8. P \subseteq Paths
    OBVIOUS
  <1> HIDE DEF P
  <1>9. MaxPlusOne({Len(u) : u \in P}) - 2 = d[n]
    BY <1>1, <1>6, <1>7, <1>8, LongestIs
  <1>. QED BY <1>9, Zenon DEF LongestTo, P

\* There is a path of k + 1 nodes from n.
Reaches(n, k) == \E s : IsPath(s) /\ s[1] = n /\ Len(s) = k + 1

\* What a node reaches, one that it depends on reaches with one node more.
LEMMA ReachesFurther ==
  ASSUME NEW n, NEW k \in Nat, Reaches(n, k), NEW p \in nodes, p \in Deps(n)
  PROVE  Reaches(p, k + 1)
  <1>1. PICK s : IsPath(s) /\ s[1] = n /\ Len(s) = k + 1
    BY DEF Reaches
  <1>2. LET t == <<p>> \o s
        IN  IsPath(t) /\ Len(t) = Len(s) + 1 /\ t[1] = p
    BY <1>1, PathBefore
  <1>. QED BY <1>1, <1>2 DEF Reaches

\* From a node there is a path as long as its height.
LEMMA HeightReached ==
  ASSUME NEW c, Heights(c), NEW n \in nodes
  PROVE  Reaches(n, c[n])
  <1> DEFINE T == {k \in Nat : \A m \in nodes : c[m] = k => Reaches(m, k)}
  <1>1. c[n] \in Nat
    BY DEF Heights
  <1>2. 0 \in T
    <2>1. ASSUME NEW m \in nodes
          PROVE  IsPath(<<m>>) /\ <<m>>[1] = m /\ Len(<<m>>) = 0 + 1
      BY OnePath
    <2>2. \A m \in nodes : Reaches(m, 0)
      BY <2>1 DEF Reaches
    <2>. QED BY <2>2
  <1>3. ASSUME NEW k \in Nat, k \in T
        PROVE  k + 1 \in T
    <2> SUFFICES ASSUME NEW m \in nodes, c[m] = k + 1
                 PROVE  Reaches(m, k + 1)
      OBVIOUS
    <2>1. PICK x \in {y \in nodes : m \in Deps(y)} : c[m] = c[x] + 1
      <3>1. c[m] # 0 /\ Exceeds(c[m], {y \in nodes : m \in Deps(y)}, c)
        BY DEF Heights
      <3>. QED BY <3>1, Zenon DEF Exceeds
    <2>2. x \in nodes /\ m \in Deps(x) /\ c[x] \in Nat
      BY <2>1 DEF Heights
    <2>3. Reaches(x, k)
      BY <1>3, <2>1, <2>2
    <2>. QED BY <2>2, <2>3, ReachesFurther
  <1> HIDE DEF T
  <1>4. c[n] \in T
    BY <1>1, <1>2, <1>3, Induction, Zenon
  <1>. QED BY <1>4 DEF T

\* A height is the length of the longest path from the node.
LEMMA LongestFromIs ==
  ASSUME Graph, NEW d, Levels(d), NEW c, Heights(c), NEW n \in nodes
  PROVE  LongestFrom(n) = c[n]
  <1> DEFINE P == {s \in Paths : Head(s) = n}
             U == {k \in Nat : \A s : IsPath(s) /\ Len(s) = k + 1 => c[s[1]] >= k}
  <1>1. c[n] \in Nat
    BY DEF Heights
  <1>5. PICK s : IsPath(s) /\ s[1] = n /\ Len(s) = c[n] + 1
    BY HeightReached DEF Reaches
  <1>6. \A u : IsPath(u) => u \in Seq(nodes) /\ Head(u) = u[1] /\ Len(u) \in Nat /\ Len(u) >= 1 /\ u[1] \in nodes
    BY DEF IsPath
  <1>7. \E u \in P : Len(u) = c[n] + 1
    BY <1>5, <1>6, PathShort
  <1>8. 0 \in U
    <2>1. \A u : IsPath(u) => c[u[1]] \in Nat
      BY <1>6 DEF Heights
    <2>2. \A u : IsPath(u) => c[u[1]] >= 0
      BY <2>1
    <2>. QED BY <2>2
  <1>9. ASSUME NEW k \in Nat, k \in U
        PROVE  k + 1 \in U
    <2>0. k + 1 \in Nat /\ \A u : IsPath(u) /\ Len(u) = k + 1 => c[u[1]] >= k
      BY <1>9
    <2> HIDE DEF U
    <2>1. ASSUME NEW u, IsPath(u), Len(u) = (k + 1) + 1
          PROVE  c[u[1]] >= k + 1
      <3>1. Len(u) > 1
        BY <2>0, <2>1
      <3>2. /\ IsPath(Tail(u)) /\ Len(Tail(u)) = Len(u) - 1
            /\ u[1] \in nodes /\ u[1] \in Deps(Tail(u)[1])
        BY <2>1, <3>1, PathAfterFirst
      <3> DEFINE y == Tail(u)[1]
      <3>3. c[y] >= k /\ y \in nodes
        <4>1. Len(Tail(u)) = k + 1
          BY <2>1, <3>2
        <4>. QED BY <1>6, <2>0, <3>2, <4>1
      <3>4. u[1] \in Deps(y)
        BY <3>2
      <3> HIDE DEF y
      <3>5. c[y] \in Nat /\ c[u[1]] \in Nat /\ c[y] < c[u[1]]
        BY <3>2, <3>3, <3>4 DEF Heights, Exceeds
      <3>. QED BY <3>3, <3>5
    <2>. QED
      <3>1. \A u : IsPath(u) /\ Len(u) = (k + 1) + 1 => c[u[1]] >= k + 1
        BY <2>1, Zenon
      <3>. QED BY <2>0, <3>1 DEF U
  <1> HIDE DEF U
  <1>10. \A k \in Nat : k \in U
    BY <1>8, <1>9, Induction, Zenon
  <1>11. ASSUME NEW u \in P
         PROVE  Len(u) <= c[n] + 1
    <2>1. IsPath(u)
      BY PathsAre
    <2>2. Len(u) \in Nat /\ Len(u) >= 1 /\ u[1] = n
      BY <1>6, <2>1
    <2>3. Len(u) - 1 \in Nat /\ (Len(u) - 1) + 1 = Len(u)
      BY <2>2
    <2>4. c[u[1]] >= Len(u) - 1
      BY <1>10, <2>1, <2>3 DEF U
    <2>. QED BY <1>1, <2>2, <2>4
  <1>12. P \subseteq Paths
    OBVIOUS
  <1> HIDE DEF P
  <1>13. MaxPlusOne({Len(u) : u \in P}) - 2 = c[n]
    BY <1>1, <1>7, <1>11, <1>12, LongestIs
  <1>. QED BY <1>13, Zenon DEF LongestFrom, P

\* A path from a node is no longer than the longest one.
LEMMA LongestFromBounds ==
  ASSUME Graph, NEW d, Levels(d), NEW n, NEW k \in Nat, Reaches(n, k)
  PROVE  k <= LongestFrom(n)
  <1> DEFINE P == {s \in Paths : Head(s) = n}
             S == {Len(s) : s \in P}
  <1>1. \A s \in Paths : IsPath(s) /\ Len(s) \in Nat /\ Len(s) <= Cardinality(Ids)
    BY PathsAre DEF IsPath
  <1>2. k + 1 \in S
    <2>1. PICK s : IsPath(s) /\ s[1] = n /\ Len(s) = k + 1
      BY DEF Reaches
    <2>2. s \in Paths /\ Head(s) = s[1]
      BY <2>1, PathShort DEF IsPath
    <2>. QED BY <2>1, <2>2
  <1>3. Cardinality(Ids) \in Nat
    BY DagAssumption, FS_CardinalityType
  <1>4. S \in SUBSET Nat /\ \A x \in S : x <= Cardinality(Ids)
    BY <1>1
  <1> HIDE DEF S
  <1>5. IsFiniteSet(S)
    BY <1>3, <1>4, FS_BoundedSetOfNaturals
  <1>6. PICK m \in S : \A x \in S : m >= x
    BY <1>2, <1>4, <1>5, LargestExists
  <1>7. m \in Nat /\ k + 1 <= m /\ \A x \in S : x <= m
    BY <1>2, <1>4, <1>6
  <1>8. MaxPlusOne(S) = m + 1
    BY <1>4, <1>7, MaxPlusOneAt
  <1>9. LongestFrom(n) = MaxPlusOne(S) - 2
    BY Zenon DEF LongestFrom, S, P
  <1>. QED BY <1>7, <1>8, <1>9

-------------------------------------------------------------------------------
(* Waves *)

\* The nodes a wave reaches after those in X, if F gives what has to be reached before a node.
Wave(F, X) == {n \in nodes \ X : F[n] \subseteq X}

\* Waves reach all nodes unless some of them wait for each other.
LEMMA WavesReach ==
  ASSUME Graph, NEW F, \A n \in nodes : F[n] \subseteq nodes,
         \A X \in SUBSET nodes : X # {} => \E n \in X : F[n] \intersect X = {},
         NEW h, h[0] = {},
         \A k \in 1 .. Cardinality(Ids) : h[k] = h[k - 1] \union Wave(F, h[k - 1])
  PROVE  h[Cardinality(Ids)] = nodes
  <1> DEFINE N == Cardinality(Ids)
             W == [X \in SUBSET Ids |-> X \union Wave(F, X)]
             g == [k \in 0 .. N |-> h[k]]
  <1>1. N \in Nat /\ IsFiniteSet(Ids) /\ N = Cardinality(Ids) /\ nodes \in SUBSET Ids
    BY DagAssumption, FS_CardinalityType DEF Graph
  <1>2. /\ W \in [SUBSET Ids -> SUBSET Ids]
        /\ \A X \in SUBSET Ids : X \subseteq W[X] /\ W[X] = X \union Wave(F, X)
    BY <1>1 DEF Wave
  <1> HIDE DEF W, N
  <1>3. h[0] = {} /\ \A k \in 1 .. N : h[k] = h[k - 1] \union Wave(F, h[k - 1])
    BY DEF N
  <1>4. \A k \in 0 .. N : h[k] \in SUBSET nodes
    <2>1. \A k \in 1 .. N : h[k - 1] \in SUBSET nodes => h[k] \in SUBSET nodes
      BY <1>3 DEF Wave
    <2>. QED BY <1>1, <1>3, <2>1, RoundsKeep
  <1>5. \A k \in 0 .. N : g[k] = IF k = 0 THEN {} ELSE W[g[k - 1]]
    <2>1. \A k \in 0 .. N : g[k] = h[k] /\ (k # 0 => k \in 1 .. N /\ k - 1 \in 0 .. N)
      BY <1>1
    <2>2. \A k \in 0 .. N : h[k] \in SUBSET Ids
      BY <1>1, <1>4
    <2> HIDE DEF g
    <2>3. ASSUME NEW k \in 0 .. N, k # 0
          PROVE  g[k] = W[g[k - 1]]
      <3>1. k \in 1 .. N /\ k - 1 \in 0 .. N
        BY <2>1, <2>3
      <3>2. g[k] = h[k - 1] \union Wave(F, h[k - 1]) /\ g[k - 1] = h[k - 1] /\ h[k - 1] \in SUBSET Ids
        BY <1>3, <2>1, <2>2, <3>1
      <3>3. W[h[k - 1]] = h[k - 1] \union Wave(F, h[k - 1])
        BY <1>2, <3>2
      <3>. QED BY <3>2, <3>3
    <2>. QED BY <1>3, <2>1, <2>3
  <1>6. g = [k \in 0 .. N |-> g[k]] /\ g[N] = h[N]
    BY <1>1
  <1> HIDE DEF g
  <1>7. Runs(g, W, {}, N)
    BY <1>5, <1>6, Zenon DEF Runs
  <1>8. W[h[N]] = h[N]
    <2>1. Adds(W, Ids) /\ {} \in SUBSET Ids
      BY <1>2 DEF Adds
    <2>2. Complete(g[N], W, Ids)
      BY <1>1, <1>7, <2>1, ChainStops DEF N
    <2>. QED BY <1>6, <2>2 DEF Complete
  <1>9. h[N] \in SUBSET nodes /\ Wave(F, h[N]) \subseteq h[N]
    BY <1>1, <1>2, <1>4, <1>8
  <1>10. ASSUME nodes \ h[N] # {}
         PROVE  FALSE
    <2>1. PICK n \in nodes \ h[N] : F[n] \intersect (nodes \ h[N]) = {}
      BY <1>10
    <2>2. n \in Wave(F, h[N])
      BY <2>1 DEF Wave
    <2>. QED BY <1>9, <2>2
  <1>. QED BY <1>1, <1>9, <1>10

-------------------------------------------------------------------------------
(* Settling the depths *)

\* What a node has to wait for: its dependencies that are known.
Known == [n \in nodes |-> Deps(n) \intersect nodes]

\* The states of the loop: what is done has the first depth below its dependencies.
SettleState(s) ==
  /\ s \in [done : SUBSET nodes, depth : [Ids -> Nat]]
  /\ \A n \in s.done : Known[n] \subseteq s.done /\ Exceeds(s.depth[n], Known[n], s.depth)

\* Depths that agree on some nodes are exceeded alike there.
LEMMA ExceedsAlike ==
  ASSUME NEW A, NEW f, NEW g, \A x \in A : f[x] = g[x], NEW m, Exceeds(m, A, f)
  PROVE  Exceeds(m, A, g)
  BY DEF Exceeds

\* A wave leads from one such state to the next.
LEMMA SettleKeeps ==
  ASSUME Graph, NEW s, SettleState(s)
  PROVE  SettleState(Settle(s)) /\ Settle(s).done = s.done \union Wave(Known, s.done)
  <1> DEFINE r == Settle(s)
             ready == Wave(Known, s.done)
             new(n) == MaxPlusOne({s.depth[p] : p \in Deps(n) \intersect nodes})
  <1>1. /\ s.done \in SUBSET nodes /\ s.depth \in [Ids -> Nat] /\ nodes \in SUBSET Ids
        /\ \A n \in s.done : Known[n] \subseteq s.done /\ Exceeds(s.depth[n], Known[n], s.depth)
    BY DEF SettleState, Graph
  <1>2. r = [done |-> s.done \union ready,
             depth |-> [n \in Ids |-> IF n \in ready THEN new(n) ELSE s.depth[n]]]
    <2>1. ready = {n \in nodes \ s.done : Deps(n) \intersect nodes \subseteq s.done}
      BY DEF Wave, Known
    <2>. QED BY <2>1, Zenon DEF Settle
  <1>3. ASSUME NEW n \in Ids
        PROVE  new(n) \in Nat /\ (n \in nodes => Exceeds(new(n), Known[n], s.depth))
    <2> DEFINE A == Deps(n) \intersect nodes
    <2>1. A \in SUBSET Ids /\ (\A x \in A : s.depth[x] \in Nat) /\ (n \in nodes => Known[n] = A)
      BY <1>1 DEF Known
    <2> DEFINE m == MaxPlusOne({s.depth[x] : x \in A})
    <2>2. Exceeds(m, A, s.depth)
      <3> HIDE DEF A
      <3>. QED BY <2>1, MaxPlusOneIs
    <2> HIDE DEF m
    <2>3. m \in Nat /\ (n \in nodes => Exceeds(m, Known[n], s.depth))
      BY <2>1, <2>2 DEF Exceeds
    <2>. QED BY <2>3 DEF m
  <1> HIDE DEF new
  <1>4. /\ ready \in SUBSET nodes
        /\ \A n \in ready : n \notin s.done /\ Known[n] \subseteq s.done
    BY DEF Wave
  <1> HIDE DEF r, ready
  <1>5. /\ r.done = s.done \union ready
        /\ \A n \in Ids : r.depth[n] = IF n \in ready THEN new(n) ELSE s.depth[n]
    BY <1>2
  <1>6. r \in [done : SUBSET nodes, depth : [Ids -> Nat]]
    BY <1>1, <1>2, <1>3, <1>4
  <1>7. \A p \in s.done : r.depth[p] = s.depth[p]
    BY <1>1, <1>4, <1>5
  <1>8. ASSUME NEW n \in r.done
        PROVE  Known[n] \subseteq r.done /\ Exceeds(r.depth[n], Known[n], r.depth)
    <2>1. n \in Ids /\ n \in nodes /\ Known[n] \subseteq s.done
      BY <1>1, <1>4, <1>5
    <2>2. Exceeds(r.depth[n], Known[n], s.depth)
      <3>1. CASE n \in ready
        BY <1>3, <1>5, <2>1, <3>1
      <3>2. CASE n \notin ready
        BY <1>1, <1>5, <2>1, <3>2
      <3>. QED BY <3>1, <3>2
    <2>3. \A x \in Known[n] : s.depth[x] = r.depth[x]
      BY <1>7, <2>1
    <2>. QED BY <1>5, <2>1, <2>2, <2>3, ExceedsAlike
  <1>9. SettleState(r)
    BY <1>6, <1>8 DEF SettleState
  <1>. QED BY <1>5, <1>9 DEF r, ready

\* f counts the states that the loop goes through.
Settles(f, n) ==
  f = [k \in 0 .. n |-> IF k = 0 THEN [done |-> {}, depth |-> [i \in Ids |-> 0]] ELSE Settle(f[k - 1])]

\* Repaired depths of a graph without cycles: each is the first below the dependencies.
LEMMA RebuildDepthsIs ==
  ASSUME Graph
  PROVE  /\ RebuildDepths \in [Ids -> Nat]
         /\ Acyclic => \A n \in nodes : Exceeds(RebuildDepths[n], Known[n], RebuildDepths)
  <1> DEFINE N == Cardinality(Ids)
             a == [done |-> {}, depth |-> [i \in Ids |-> 0]]
             S == {s \in [done : SUBSET nodes, depth : [Ids -> Nat]] : SettleState(s)}
             G == [s \in S |-> Settle(s)]
             h == CHOOSE f : Settles(f, N)
  <1>1. N \in Nat /\ IsFiniteSet(Ids) /\ N = Cardinality(Ids)
    BY DagAssumption, FS_CardinalityType
  <1>2. a \in S
    BY DEF SettleState
  <1>3. \A s \in S : Settle(s) \in S /\ Settle(s).done = s.done \union Wave(Known, s.done)
    BY SettleKeeps DEF SettleState
  <1>4. G \in [S -> S] /\ \A s \in S : G[s] = Settle(s)
    BY <1>3
  <1>5. \A s \in S : /\ s.done \in SUBSET nodes /\ s.depth \in [Ids -> Nat]
                     /\ \A n \in s.done : Exceeds(s.depth[n], Known[n], s.depth)
    BY DEF SettleState
  <1>6. RebuildDepths = h[N].depth
    BY Zenon DEF RebuildDepths, Settles, Loop
  <1>7. \A f : Settles(f, N) <=> f = [k \in 0 .. N |-> IF k = 0 THEN a ELSE Settle(f[k - 1])]
    BY Zenon DEF Settles
  <1> HIDE DEF S, G, N, a
  <1>8. \E f : Settles(f, N)
    <2>1. PICK f \in [0 .. N -> S] : Runs(f, G, a, N)
      BY <1>1, <1>2, <1>4, LoopRuns
    <2>2. \A k \in 0 .. N : f[k] = IF k = 0 THEN a ELSE G[f[k - 1]]
      BY <2>1, Zenon DEF Runs
    <2>3. \A k \in 0 .. N : k # 0 => f[k - 1] \in S
      BY <1>1
    <2>4. \A k \in 0 .. N : f[k] = IF k = 0 THEN a ELSE Settle(f[k - 1])
      BY <1>4, <2>2, <2>3
    <2>5. f = [k \in 0 .. N |-> f[k]]
      OBVIOUS
    <2>. QED BY <1>7, <2>4, <2>5, Zenon
  <1>9. Settles(h, N)
    BY <1>8, Zenon
  <1> HIDE DEF h
  <1>10. \A k \in 0 .. N : h[k] = IF k = 0 THEN a ELSE Settle(h[k - 1])
    BY <1>7, <1>9, Zenon
  <1>11. h[0] = a /\ \A k \in 1 .. N : h[k] = Settle(h[k - 1])
    BY ONLY <1>1, <1>10
  <1>12. \A k \in 0 .. N : h[k] \in S
    <2>1. h[0] \in S
      BY <1>2, <1>11
    <2>2. \A k \in 1 .. N : h[k - 1] \in S => h[k] \in S
      BY <1>3, <1>11
    <2>. QED BY <1>1, <2>1, <2>2, RoundsKeep
  <1>13. h[N] \in S
    BY <1>1, <1>12
  <1>14. ASSUME Acyclic
         PROVE  h[N].done = nodes
    <2> DEFINE g == [k \in 0 .. N |-> h[k].done]
    <2>1. \A k \in 0 .. N : g[k] = h[k].done
      OBVIOUS
    <2> HIDE DEF g
    <2>2. g[0] = {}
      BY <1>1, <1>11, <2>1 DEF a
    <2>3. ASSUME NEW k \in 1 .. Cardinality(Ids)
          PROVE  g[k] = g[k - 1] \union Wave(Known, g[k - 1])
      <3>1. k - 1 \in 0 .. N /\ k \in 0 .. N /\ k \in 1 .. N
        BY <1>1
      <3>2. h[k - 1] \in S /\ h[k] = Settle(h[k - 1])
        BY <1>11, <1>12, <3>1
      <3>. QED BY <1>3, <2>1, <3>1, <3>2
    <2>4. \A n \in nodes : Known[n] \subseteq nodes
      BY DEF Known
    <2>5. ASSUME NEW X \in SUBSET nodes, X # {}
          PROVE  \E n \in X : Known[n] \intersect X = {}
      <3>1. PICK n \in X : Deps(n) \intersect X = {}
        BY <1>14, <2>5, FirstExists
      <3>2. Known[n] \intersect X = {}
        BY <3>1 DEF Known
      <3>. QED BY <3>2
    <2>6. g[Cardinality(Ids)] = nodes
      BY <2>2, <2>3, <2>4, <2>5, WavesReach
    <2>. QED BY <1>1, <2>1, <2>6
  <1>. QED BY <1>5, <1>6, <1>13, <1>14

-------------------------------------------------------------------------------
(* Raising the critical paths *)

\* Lengths of paths, and none.
Lengths == Nat \union {Absent}

\* d lists the dependents of each node.
Links(d) ==
  /\ d \in [Ids -> SUBSET nodes]
  /\ \A p \in nodes : d[p] = {c \in nodes : p \in Deps(c)}

\* The states of the loop: a node has the first number above those of its dependents that
\* are done; if it has dependents and none of them is done, it has none.
LiftState(s, d) ==
  /\ s \in [done : SUBSET nodes, crit : [Ids -> Lengths]]
  /\ \A n \in s.done : d[n] \subseteq s.done
  /\ \A p \in nodes :
       IF d[p] = {} \/ d[p] \intersect s.done # {}
         THEN Exceeds(s.crit[p], d[p] \intersect s.done, s.crit)
         ELSE s.crit[p] = Absent

\* A wave upwards leads from one such state to the next.
LEMMA LiftKeeps ==
  ASSUME Graph, NEW d, Links(d), NEW s, LiftState(s, d)
  PROVE  LiftState(Lift(s, d), d) /\ Lift(s, d).done = s.done \union Wave(d, s.done)
  <1> DEFINE r == Lift(s, d)
             ready == Wave(d, s.done)
             at(p) == {x \in ready : p \in Deps(x)}
             from(p) == {s.crit[n] : n \in at(p)}
             new(p) == MaxPlusOne(from(p))
             grown(p) == IF s.crit[p] # Absent /\ s.crit[p] > new(p) THEN s.crit[p] ELSE new(p)
  <1>1. /\ s.done \in SUBSET nodes /\ s.crit \in [Ids -> Lengths] /\ nodes \in SUBSET Ids
        /\ \A n \in s.done : d[n] \subseteq s.done
        /\ \A p \in nodes : d[p] = {c \in nodes : p \in Deps(c)}
    BY DEF LiftState, Graph, Links
  <1>2. r = [done |-> s.done \union ready,
             crit |-> [p \in Ids |-> IF from(p) = {} THEN s.crit[p] ELSE grown(p)]]
    BY Zenon DEF Lift, Wave
  <1>3. /\ ready \in SUBSET nodes
        /\ \A n \in ready : n \in Ids /\ n \notin s.done /\ d[n] \subseteq s.done
    BY <1>1 DEF Wave
  <1>4. ASSUME NEW n \in s.done \union ready
        PROVE  n \in nodes /\ n \in Ids /\ d[n] \subseteq s.done /\ s.crit[n] \in Nat
    <2>1. n \in nodes /\ n \in Ids /\ d[n] \subseteq s.done
      BY <1>1, <1>3
    <2>2. Exceeds(s.crit[n], d[n] \intersect s.done, s.crit)
      BY <2>1 DEF LiftState
    <2>. QED BY <2>1, <2>2 DEF Exceeds
  <1>5. ASSUME NEW p \in Ids
        PROVE  /\ Exceeds(new(p), at(p), s.crit) /\ new(p) \in Nat
               /\ grown(p) \in Nat
    <2>1. at(p) \in SUBSET Ids /\ \A x \in at(p) : s.crit[x] \in Nat
      BY <1>4
    <2>2. Exceeds(new(p), at(p), s.crit)
      <3> HIDE DEF at
      <3>. QED BY <2>1, MaxPlusOneIs
    <2> HIDE DEF new
    <2>3. new(p) \in Nat /\ s.crit[p] \in Lengths
      BY <1>1, <2>2 DEF Exceeds
    <2>. QED BY <2>2, <2>3, DagAssumption DEF Lengths
  <1> HIDE DEF new
  <1>6. \A p \in Ids : from(p) = {} <=> at(p) = {}
    OBVIOUS
  <1>7. \A p \in nodes : at(p) = d[p] \intersect ready
    BY <1>1, <1>3
  <1> HIDE DEF from, at, ready, r
  <1>8. /\ r.done = s.done \union ready
        /\ \A p \in Ids : r.crit[p] = IF at(p) = {} THEN s.crit[p] ELSE grown(p)
    BY <1>2, <1>6
  <1>9. r \in [done : SUBSET nodes, crit : [Ids -> Lengths]]
    <2>1. \A p \in Ids : (IF from(p) = {} THEN s.crit[p] ELSE grown(p)) \in Lengths
      BY <1>1, <1>5 DEF Lengths
    <2>. QED BY <1>1, <1>2, <1>3, <2>1
  <1>10. \A x \in r.done : d[x] \subseteq s.done /\ s.crit[x] \in Nat /\ r.crit[x] = s.crit[x]
    <2>1. ASSUME NEW x \in r.done
          PROVE  d[x] \subseteq s.done /\ s.crit[x] \in Nat /\ at(x) = {} /\ x \in Ids
      BY <1>3, <1>4, <1>7, <1>8
    <2>. QED BY <1>8, <2>1
  <1>11. ASSUME NEW p \in nodes
         PROVE  IF d[p] = {} \/ d[p] \intersect r.done # {}
                  THEN Exceeds(r.crit[p], d[p] \intersect r.done, r.crit)
                  ELSE r.crit[p] = Absent
    <2> DEFINE A == d[p] \intersect s.done
               B == d[p] \intersect r.done
    <2>1. p \in Ids /\ B = A \union at(p) /\ \A x \in B : s.crit[x] = r.crit[x] /\ s.crit[x] \in Nat
      BY <1>1, <1>7, <1>8, <1>10
    <2>2. IF d[p] = {} \/ A # {} THEN Exceeds(s.crit[p], A, s.crit) ELSE s.crit[p] = Absent
      BY DEF LiftState
    <2>3. (d[p] = {} => A = {} /\ B = {}) /\ (at(p) # {} => d[p] # {})
      BY <1>7
    <2> HIDE DEF A, B
    <2>4. IF d[p] = {} \/ B # {} THEN Exceeds(r.crit[p], B, s.crit) ELSE r.crit[p] = Absent
      <3>1. CASE at(p) = {}
        <4>1. r.crit[p] = s.crit[p] /\ B = A
          BY <1>8, <2>1, <3>1
        <4>. QED BY <2>2, <4>1
      <3>2. CASE at(p) # {} /\ A = {}
        <4>1. s.crit[p] = Absent
          BY <2>2, <2>3, <3>2
        <4>2. r.crit[p] = new(p) /\ B = at(p)
          BY <1>8, <2>1, <3>2, <4>1
        <4>. QED BY <1>5, <2>1, <3>2, <4>2
      <3>3. CASE at(p) # {} /\ A # {}
        <4> DEFINE m == s.crit[p]
                   n == new(p)
        <4>1. Exceeds(m, A, s.crit) /\ Exceeds(n, at(p), s.crit)
          BY <1>5, <2>1, <2>2, <3>3
        <4>2. m \in Nat /\ n \in Nat
          BY <4>1 DEF Exceeds
        <4>3. r.crit[p] = IF m > n THEN m ELSE n
          BY <1>8, <2>1, <3>3, <4>2, DagAssumption
        <4> HIDE DEF m, n
        <4>4. \A x \in A \union at(p) : s.crit[x] \in Nat
          BY <2>1
        <4>5. Exceeds(IF m > n THEN m ELSE n, A \union at(p), s.crit)
          BY <4>1, <4>4, ExceedsBoth
        <4>. QED BY <2>1, <3>3, <4>3, <4>5
      <3>. QED BY <3>1, <3>2, <3>3
    <2>5. Exceeds(r.crit[p], B, s.crit) => Exceeds(r.crit[p], B, r.crit)
      BY <2>1, ExceedsAlike
    <2>. QED BY <2>4, <2>5 DEF B
  <1>12. \A n \in r.done : d[n] \subseteq r.done
    BY <1>8, <1>10
  <1>13. LiftState(r, d)
    BY <1>9, <1>11, <1>12 DEF LiftState
  <1>. QED BY <1>8, <1>13 DEF r, ready

\* Without cycles, some of any nodes have none of the others as a dependent.
LEMMA LastExists ==
  ASSUME Graph, Acyclic, NEW d, Links(d), NEW X \in SUBSET nodes, X # {}
  PROVE  \E n \in X : d[n] \intersect X = {}
  <1> DEFINE f == RebuildDepths
             m == MaxPlusOne({f[x] : x \in X})
  <1>1. X \in SUBSET Ids /\ \A n \in nodes : f[n] \in Nat /\ \A p \in Deps(n) \intersect nodes : f[p] < f[n]
    BY RebuildDepthsIs DEF Graph, Exceeds, Known
  <1> HIDE DEF f
  <1>2. Exceeds(m, X, f)
    BY <1>1, MaxPlusOneIs
  <1> HIDE DEF m
  <1>3. m \in Nat /\ (\A x \in X : f[x] < m /\ f[x] \in Nat) /\ (m # 0 => \E x \in X : m = f[x] + 1)
    BY <1>1, <1>2 DEF Exceeds
  <1>4. m # 0
    BY <1>3
  <1>5. PICK n \in X : m = f[n] + 1
    BY <1>3, <1>4
  <1>6. ASSUME NEW c \in X, c \in d[n]
        PROVE  FALSE
    <2>1. c \in nodes /\ n \in Deps(c)
      BY <1>6 DEF Links
    <2>2. f[n] < f[c] /\ f[c] < m /\ f[c] \in Nat /\ f[n] \in Nat
      BY <1>1, <1>3, <2>1
    <2>. QED BY <1>5, <2>2
  <1>. QED BY <1>6

\* f counts the states that the loop goes through.
Lifts(f, d, n) ==
  f = [k \in 0 .. n |->
         IF k = 0 THEN [done |-> {},
                        crit |-> [i \in Ids |-> IF i \in nodes /\ d[i] = {} THEN 0 ELSE Absent]]
         ELSE Lift(f[k - 1], d)]

\* Repaired critical paths are lengths; without cycles each is the first above the dependents.
LEMMA CriticalPathsIs ==
  ASSUME Graph, NEW d, Links(d)
  PROVE  CriticalPaths(d) \in [Ids -> Lengths] /\ (Acyclic => Heights(CriticalPaths(d)))
  <1> DEFINE N == Cardinality(Ids)
             a == [done |-> {}, crit |-> [i \in Ids |-> IF i \in nodes /\ d[i] = {} THEN 0 ELSE Absent]]
             S == {s \in [done : SUBSET nodes, crit : [Ids -> Lengths]] : LiftState(s, d)}
             G == [s \in S |-> Lift(s, d)]
             h == CHOOSE f : Lifts(f, d, N)
  <1>1. N \in Nat
    BY DagAssumption, FS_CardinalityType
  <1>2. a \in S
    <2>1. a \in [done : SUBSET nodes, crit : [Ids -> Lengths]]
      BY DEF Lengths
    <2>2. \A p \in nodes : p \in Ids /\ a.crit[p] = (IF d[p] = {} THEN 0 ELSE Absent)
      BY DEF Graph
    <2>3. a.done = {}
      OBVIOUS
    <2> HIDE DEF a
    <2>4. \A p \in nodes : d[p] = {} => Exceeds(a.crit[p], d[p] \intersect a.done, a.crit)
      BY <2>2, <2>3 DEF Exceeds
    <2>. QED BY <2>1, <2>2, <2>3, <2>4 DEF LiftState
  <1>3. \A s \in S : Lift(s, d) \in S /\ Lift(s, d).done = s.done \union Wave(d, s.done)
    BY LiftKeeps DEF LiftState
  <1>4. G \in [S -> S] /\ \A s \in S : G[s] = Lift(s, d)
    BY <1>3
  <1>5. \A s \in S : s.crit \in [Ids -> Lengths] /\ LiftState(s, d)
    OBVIOUS
  <1>6. CriticalPaths(d) = h[N].crit
    BY Zenon DEF CriticalPaths, Lifts, Loop
  <1>7. \A f : Lifts(f, d, N) <=> f = [k \in 0 .. N |-> IF k = 0 THEN a ELSE Lift(f[k - 1], d)]
    BY Zenon DEF Lifts
  <1> HIDE DEF S, G, N, a
  <1>8. \E f : Lifts(f, d, N)
    <2>1. PICK f \in [0 .. N -> S] : Runs(f, G, a, N)
      BY <1>1, <1>2, <1>4, LoopRuns
    <2>2. \A k \in 0 .. N : f[k] = IF k = 0 THEN a ELSE G[f[k - 1]]
      BY <2>1, Zenon DEF Runs
    <2>3. \A k \in 0 .. N : k # 0 => f[k - 1] \in S
      BY <1>1
    <2>4. \A k \in 0 .. N : f[k] = IF k = 0 THEN a ELSE Lift(f[k - 1], d)
      BY <1>4, <2>2, <2>3
    <2>5. f = [k \in 0 .. N |-> f[k]]
      OBVIOUS
    <2>. QED BY <1>7, <2>4, <2>5, Zenon
  <1>9. Lifts(h, d, N)
    BY <1>8, Zenon
  <1> HIDE DEF h
  <1>10. \A k \in 0 .. N : h[k] = IF k = 0 THEN a ELSE Lift(h[k - 1], d)
    BY <1>7, <1>9, Zenon
  <1>11. h[0] = a /\ \A k \in 1 .. N : h[k] = Lift(h[k - 1], d)
    BY ONLY <1>1, <1>10
  <1>12. \A k \in 0 .. N : h[k] \in S
    <2>1. h[0] \in S
      BY <1>2, <1>11
    <2>2. \A k \in 1 .. N : h[k - 1] \in S => h[k] \in S
      BY <1>3, <1>11
    <2>. QED BY <1>1, <2>1, <2>2, RoundsKeep
  <1>13. h[N] \in S
    BY <1>1, <1>12
  <1>14. ASSUME Acyclic
         PROVE  h[N].done = nodes
    <2> DEFINE g == [k \in 0 .. N |-> h[k].done]
    <2>1. \A k \in 0 .. N : g[k] = h[k].done
      OBVIOUS
    <2> HIDE DEF g
    <2>2. g[0] = {}
      BY <1>1, <1>11, <2>1 DEF a
    <2>3. ASSUME NEW k \in 1 .. Cardinality(Ids)
          PROVE  g[k] = g[k - 1] \union Wave(d, g[k - 1])
      <3>1. k - 1 \in 0 .. N /\ k \in 0 .. N /\ k \in 1 .. N
        BY <1>1 DEF N
      <3>2. h[k - 1] \in S /\ h[k] = Lift(h[k - 1], d)
        BY <1>11, <1>12, <3>1
      <3>. QED BY <1>3, <2>1, <3>1, <3>2
    <2>4. \A n \in nodes : d[n] \subseteq nodes
      BY DEF Links
    <2>5. \A X \in SUBSET nodes : X # {} => \E n \in X : d[n] \intersect X = {}
      BY <1>14, LastExists
    <2>6. g[Cardinality(Ids)] = nodes
      BY <2>2, <2>3, <2>4, <2>5, WavesReach
    <2>. QED BY <1>1, <2>1, <2>6 DEF N
  <1>15. ASSUME Acyclic
         PROVE  Heights(h[N].crit)
    <2>1. LiftState(h[N], d) /\ h[N].done = nodes
      BY <1>5, <1>13, <1>14, <1>15
    <2>2. ASSUME NEW n \in nodes
          PROVE  Exceeds(h[N].crit[n], {x \in nodes : n \in Deps(x)}, h[N].crit)
      <3>1. d[n] = {x \in nodes : n \in Deps(x)}
        BY DEF Links
      <3>2. d[n] \intersect nodes = d[n]
        BY <3>1
      <3>3. Exceeds(h[N].crit[n], d[n], h[N].crit)
        BY <2>1, <3>2 DEF LiftState
      <3>. QED BY <3>1, <3>3
    <2>. QED BY <2>2 DEF Heights, Exceeds
  <1>. QED BY <1>5, <1>6, <1>13, <1>15

\* The states of the breadth-first update.
RaiseStates == [queue : Seq(Ids), visited : SUBSET Ids, crit : [Ids -> Lengths]]

\* R has the length 0 for each node, and one more than a dependent's for what it depends on.
Feeds(R, d, present) ==
  \A n \in present : <<n, 0>> \in R /\ \A c \in d[n], k \in Nat : <<c, k>> \in R => <<n, k + 1>> \in R

\* The lengths that crit has are in R, and the ids in K have one.
LengthsIn(crit, R, K) ==
  /\ \A n \in Ids : crit[n] \in Nat => <<n, crit[n]>> \in R
  /\ \A n \in K : crit[n] \in Nat

\* Whatever a round finds at the head of the queue, its state is of the kind, and its lengths are
\* in any set that has those of the state before and what follows from them.
LEMMA RaiseKeeps ==
  ASSUME Graph, NEW d \in [Ids -> SUBSET Ids], NEW present, NEW s \in RaiseStates,
         NEW R, NEW K \in SUBSET Ids, Feeds(R, d, present), LengthsIn(s.crit, R, K)
  PROVE  Raise(s, d, present) \in RaiseStates /\ LengthsIn(Raise(s, d, present).crit, R, K)
  <1>1. CASE s.queue = <<>>
    BY <1>1, Zenon DEF Raise
  <1>2. CASE s.queue # <<>>
    <2> DEFINE n == Head(s.queue)
               rest == [s EXCEPT !.queue = Tail(@)]
               seen == [rest EXCEPT !.visited = @ \union {n}]
               A == {x \in d[n] : s.crit[x] # Absent}
               new == MaxPlusOne({s.crit[c] : c \in A})
               old == IF s.crit[n] = Absent THEN 0 ELSE s.crit[n]
               more == Without(deps[n], seen.visited)
               up == [seen EXCEPT !.crit[n] = new, !.queue = @ \o more]
               kept == [seen EXCEPT !.crit[n] = old]
    <2>1. /\ s.queue \in Seq(Ids) /\ s.visited \in SUBSET Ids /\ s.crit \in [Ids -> Lengths]
          /\ n \in Ids
      BY <1>2 DEF RaiseStates
    <2>2. rest \in RaiseStates
      <3>1. Tail(s.queue) \in Seq(Ids)
        BY <1>2, <2>1
      <3> DEFINE q == Tail(s.queue)
      <3> HIDE DEF q, n
      <3>2. q \in Seq(Ids)
        BY <3>1 DEF q
      <3>3. [s EXCEPT !.queue = q] \in RaiseStates
        BY <3>2 DEF RaiseStates
      <3>. QED BY <3>3 DEF q
    <2>3. seen \in RaiseStates
      <3> HIDE DEF n
      <3>. QED BY <2>1, <2>2 DEF RaiseStates
    <2>4. new \in Nat /\ Exceeds(new, A, s.crit)
      <3>1. A \in SUBSET Ids /\ \A x \in A : s.crit[x] \in Nat
        BY <2>1 DEF Lengths
      <3> HIDE DEF A
      <3>2. Exceeds(new, A, s.crit)
        BY <3>1, MaxPlusOneIs
      <3>. QED BY <3>2 DEF Exceeds
    <2>5. old \in Nat
      BY <2>1 DEF Lengths
    <2>6. more \in Seq(Ids)
      <3>1. deps[n] \in Lists(Ids)
        BY <2>1 DEF Graph
      <3> HIDE DEF seen
      <3>2. more \in Lists(Ids)
        BY <3>1, WithoutIs
      <3>. QED BY <3>2, ListsAre
    <2>7. \/ Raise(s, d, present) = rest
          \/ Raise(s, d, present) = seen
          \/ Raise(s, d, present) = up /\ n \in present /\ new > old
          \/ Raise(s, d, present) = kept /\ n \in present
      BY <1>2 DEF Raise
    <2>10. n \in present => <<n, 0>> \in R
      BY DEF Feeds
    <2>11. n \in present /\ new > old => <<n, new>> \in R
      <3>1. ASSUME n \in present, new > old
            PROVE  <<n, new>> \in R
        <4>1. new # 0
          BY <2>4, <2>5, <3>1
        <4>2. PICK c \in A : new = s.crit[c] + 1
          BY <2>4, <4>1 DEF Exceeds
        <4>3. c \in d[n] /\ c \in Ids /\ s.crit[c] \in Nat
          BY <2>1 DEF Lengths
        <4>4. <<c, s.crit[c]>> \in R
          BY <4>3 DEF LengthsIn
        <4>. QED BY <3>1, <4>2, <4>3, <4>4 DEF Feeds
      <3>. QED BY <3>1
    <2>12. n \in present => <<n, old>> \in R
      BY <2>1, <2>10 DEF LengthsIn, Lengths
    <2> HIDE DEF n, seen, new, old, more
    <2>8. up \in RaiseStates
      <3> DEFINE q == seen.queue \o more
                 c == [seen.crit EXCEPT ![n] = new]
                 u == [seen EXCEPT !.crit = c]
      <3>1. seen.queue \in Seq(Ids) /\ seen.crit \in [Ids -> Lengths]
        BY <2>3 DEF RaiseStates
      <3>2. q \in Seq(Ids)
        BY <2>6, <3>1
      <3>3. c \in [Ids -> Lengths]
        BY <2>4, <3>1 DEF Lengths
      <3>4. up = [u EXCEPT !.queue = q]
        BY <2>3 DEF RaiseStates
      <3> HIDE DEF q, c
      <3>5. u \in RaiseStates
        BY <2>3, <3>3 DEF RaiseStates
      <3> HIDE DEF u
      <3>6. [u EXCEPT !.queue = q] \in RaiseStates
        BY <3>2, <3>5 DEF RaiseStates
      <3>. QED BY <3>4, <3>6
    <2>9. kept \in RaiseStates
      BY <2>1, <2>3, <2>5 DEF RaiseStates, Lengths
    <2>13. /\ rest.crit = s.crit /\ seen.crit = s.crit
           /\ up.crit = [s.crit EXCEPT ![n] = new] /\ kept.crit = [s.crit EXCEPT ![n] = old]
      <3>1. DOMAIN s = {"queue", "visited", "crit"} /\ DOMAIN rest = {"queue", "visited", "crit"}
        BY DEF RaiseStates
      <3>2. rest.crit = s.crit
        BY <3>1
      <3>3. seen.crit = s.crit /\ DOMAIN seen = {"queue", "visited", "crit"}
        BY <3>1, <3>2 DEF seen
      <3>. QED BY <3>2, <3>3
    <2>14. ASSUME NEW v \in Nat, <<n, v>> \in R
           PROVE  LengthsIn([s.crit EXCEPT ![n] = v], R, K)
      <3>1. /\ \A m \in Ids : s.crit[m] \in Nat => <<m, s.crit[m]>> \in R
            /\ \A m \in K : s.crit[m] \in Nat
        BY DEF LengthsIn
      <3>2. \A m \in Ids : [s.crit EXCEPT ![n] = v][m] = IF m = n THEN v ELSE s.crit[m]
        BY <2>1
      <3> DEFINE c == [s.crit EXCEPT ![n] = v]
      <3> HIDE DEF c
      <3>3. \A m \in Ids : c[m] = IF m = n THEN v ELSE s.crit[m]
        BY <3>2 DEF c
      <3>4. LengthsIn(c, R, K)
        BY <2>14, <3>1, <3>3 DEF LengthsIn
      <3>. QED BY <3>4 DEF c
    <2>15. (n \in present /\ new > old => LengthsIn(up.crit, R, K)) /\ (n \in present => LengthsIn(kept.crit, R, K))
      BY <2>4, <2>5, <2>11, <2>12, <2>13, <2>14
    <2>16. LengthsIn(rest.crit, R, K) /\ LengthsIn(seen.crit, R, K)
      BY <2>13
    <2> HIDE DEF rest, up, kept
    <2>. QED BY <2>2, <2>3, <2>7, <2>8, <2>9, <2>15, <2>16, Zenon
  <1>. QED BY <1>1, <1>2

\* f counts the states that the update goes through.
Raises(f, ds, d, crit, n) ==
  f = [k \in 0 .. n |-> IF k = 0 THEN [queue |-> ds, visited |-> {}, crit |-> crit]
                        ELSE Raise(f[k - 1], d, nodes')]

\* The breadth-first update leaves lengths, and none that does not follow from those it starts with.
LEMMA PropagatedIs ==
  ASSUME Graph, NEW d \in [Ids -> SUBSET Ids], NEW ds \in Seq(Ids), NEW crit \in [Ids -> Lengths],
         NEW R, NEW K \in SUBSET Ids, Feeds(R, d, nodes'), LengthsIn(crit, R, K)
  PROVE  Propagated(ds, d, crit) \in [Ids -> Lengths] /\ LengthsIn(Propagated(ds, d, crit), R, K)
  <1> DEFINE a == [queue |-> ds, visited |-> {}, crit |-> crit]
             S == {s \in RaiseStates : LengthsIn(s.crit, R, K)}
             G == [s \in S |-> Raise(s, d, nodes')]
             N == Steps
             h == CHOOSE f : Raises(f, ds, d, crit, N)
  <1>1. N \in Nat
    <2>1. Cardinality(Ids) \in Nat
      BY DagAssumption, FS_CardinalityType
    <2> DEFINE m == Cardinality(Ids)
    <2> HIDE DEF m
    <2>2. m \in Nat => m * (m + 1) \in Nat
      OBVIOUS
    <2>. QED BY <2>1, <2>2 DEF Steps, m
  <1>2. a \in S
    BY DEF RaiseStates
  <1>3. \A s \in S : Raise(s, d, nodes') \in S
    BY RaiseKeeps
  <1>4. G \in [S -> S] /\ \A s \in S : G[s] = Raise(s, d, nodes')
    BY <1>3
  <1>5. \A s \in S : s.crit \in [Ids -> Lengths] /\ LengthsIn(s.crit, R, K)
    BY DEF RaiseStates
  <1>6. Propagated(ds, d, crit) = h[N].crit
    BY Zenon DEF Propagated, Raises, Loop
  <1>7. \A f : Raises(f, ds, d, crit, N) <=> f = [k \in 0 .. N |-> IF k = 0 THEN a ELSE Raise(f[k - 1], d, nodes')]
    BY Zenon DEF Raises
  <1> HIDE DEF S, G, N, a
  <1>8. \E f : Raises(f, ds, d, crit, N)
    <2>1. PICK f \in [0 .. N -> S] : Runs(f, G, a, N)
      BY <1>1, <1>2, <1>4, LoopRuns
    <2>2. \A k \in 0 .. N : f[k] = IF k = 0 THEN a ELSE G[f[k - 1]]
      BY <2>1, Zenon DEF Runs
    <2>3. \A k \in 0 .. N : k # 0 => f[k - 1] \in S
      BY <1>1
    <2>4. \A k \in 0 .. N : f[k] = IF k = 0 THEN a ELSE Raise(f[k - 1], d, nodes')
      BY <1>4, <2>2, <2>3
    <2>5. f = [k \in 0 .. N |-> f[k]]
      OBVIOUS
    <2>. QED BY <1>7, <2>4, <2>5, Zenon
  <1>9. Raises(h, ds, d, crit, N)
    BY <1>8, Zenon
  <1> HIDE DEF h
  <1>10. \A k \in 0 .. N : h[k] = IF k = 0 THEN a ELSE Raise(h[k - 1], d, nodes')
    BY <1>7, <1>9, Zenon
  <1>11. h[0] = a /\ \A k \in 1 .. N : h[k] = Raise(h[k - 1], d, nodes')
    BY ONLY <1>1, <1>10
  <1>12. \A k \in 0 .. N : h[k] \in S
    <2>1. h[0] \in S
      BY <1>2, <1>11
    <2>2. \A k \in 1 .. N : h[k - 1] \in S => h[k] \in S
      BY <1>3, <1>11
    <2>. QED BY <1>1, <2>1, <2>2, RoundsKeep
  <1>. QED BY <1>1, <1>5, <1>6, <1>12

-------------------------------------------------------------------------------
(* The invariant *)

\* The variables have their types; links and roots are nodes.
Types ==
  /\ Graph
  /\ dependents \in [Ids -> SUBSET nodes]
  /\ roots \in SUBSET nodes /\ leaves \in SUBSET nodes
  /\ depth \in [Ids -> Nat] /\ critical \in [Ids -> Lengths]
  /\ added \in 0 .. MaxAdds /\ repaired \in BOOLEAN /\ pruned \in BOOLEAN

\* Every dependent that is listed depends on the node, which is known.
BackLinks == \A n \in Ids : \A c \in dependents[n] : n \in nodes /\ n \in Deps(c)

\* In a repaired graph nothing is missing, and depths rise along dependencies.
Layered == repaired => \A n \in nodes : \A p \in Deps(n) : p \in nodes /\ depth[p] < depth[n]

DagInv == Types /\ BackLinks /\ LinksAgree /\ Layered

\* The empty graph of new() has the invariant.
LEMMA InitInv == Init => DagInv
  <1> SUFFICES ASSUME Init PROVE DagInv
    OBVIOUS
  <1>1. <<>> \in Lists(Ids)
    <2>1. <<>> \in Seq(Ids) /\ Len(<<>>) = 0 /\ Distinct(<<>>)
      BY DEF Distinct
    <2>2. 0 <= MaxWidth
      BY DagAssumption
    <2>. QED BY <2>1, <2>2, ListsAre
  <1>2. Graph
    BY <1>1, Zenon DEF Init, Graph
  <1>3. /\ dependents \in [Ids -> SUBSET nodes] /\ roots \in SUBSET nodes /\ leaves \in SUBSET nodes
        /\ depth \in [Ids -> Nat] /\ critical \in [Ids -> Lengths]
        /\ repaired \in BOOLEAN /\ pruned \in BOOLEAN
    BY DEF Init, Lengths
  <1>4. added \in 0 .. MaxAdds
    BY DagAssumption DEF Init
  <1>5. Types
    BY <1>2, <1>3, <1>4 DEF Types
  <1>. QED BY <1>5 DEF Init, DagInv, BackLinks, LinksAgree, Layered

-------------------------------------------------------------------------------
(* Adding *)

\* What can be said of a graph that links both ends of every edge.
Exact ==
  /\ \A n \in nodes : dependents[n] = {c \in nodes : n \in Deps(c)}
  /\ roots = {n \in nodes : deps[n] = <<>>}
  /\ leaves = {n \in nodes : \A c \in nodes : n \notin Deps(c)}
Rising == \A n \in nodes : \A p \in Deps(n) : p \in nodes /\ depth[p] < depth[n]

\* Inserting keeps types and back links, and exact links when nothing is missing.
LEMMA InsertKeeps ==
  ASSUME DagInv, NEW id \in Ids, NEW ds \in Lists(Ids), id \notin nodes, id \notin ToSet(ds),
         added < MaxAdds, Insert(id, ds), repaired' \in BOOLEAN, pruned' \in BOOLEAN
  PROVE  /\ Types' /\ BackLinks'
         /\ ToSet(ds) \subseteq nodes /\ repaired => Exact' /\ Rising'
  <1>1. /\ nodes' = nodes \union {id}
        /\ deps' = [deps EXCEPT ![id] = ds]
        /\ dependents' = [n \in Ids |-> IF n \in ToSet(ds) \intersect nodes
                                  THEN dependents[n] \union {id} ELSE dependents[n]]
        /\ roots' = IF ds = <<>> THEN roots \union {id} ELSE roots
        /\ leaves' = (leaves \ ToSet(ds)) \union {id}
        /\ depth' = [depth EXCEPT ![id] = DepthBelow(ds)]
        /\ critical' = Propagated(ds, dependents', [critical EXCEPT ![id] = 0])
        /\ added' = added + 1
    BY DEF Insert, LeavesWith
  <1>2. /\ Graph /\ nodes \in SUBSET Ids /\ deps \in [Ids -> Lists(Ids)]
        /\ dependents \in [Ids -> SUBSET nodes]
        /\ roots \in SUBSET nodes /\ leaves \in SUBSET nodes
        /\ depth \in [Ids -> Nat] /\ critical \in [Ids -> Lengths]
        /\ added \in 0 .. MaxAdds
    BY DEF DagInv, Types, Graph
  <1>3. /\ \A n \in Ids : n # id => Deps(n)' = Deps(n) /\ deps'[n] = deps[n]
        /\ Deps(id)' = ToSet(ds) /\ deps'[id] = ds
    BY <1>1, <1>2 DEF Deps
  <1>4. ds \in Seq(Ids) /\ ToSet(ds) \in SUBSET Ids
    BY ListsAre DEF ToSet
  <1>5. Exceeds(DepthBelow(ds), ToSet(ds) \intersect nodes, depth)
    <2>1. \A x \in ToSet(ds) \intersect nodes : depth[x] \in Nat
      BY <1>2
    <2> DEFINE A == ToSet(ds) \intersect nodes
    <2>2. A \in SUBSET Ids
      BY <1>4
    <2> HIDE DEF A
    <2>3. Exceeds(MaxPlusOne({depth[x] : x \in A}), A, depth)
      BY <2>1, <2>2, MaxPlusOneIs DEF A
    <2>. QED BY <2>3, Zenon DEF DepthBelow, A
  <1>6. Types'
    <2>1. Graph'
      BY <1>1, <1>2 DEF Graph
    <2>2. dependents' \in [Ids -> SUBSET nodes']
      BY <1>1, <1>2
    <2>3. depth' \in [Ids -> Nat]
      BY <1>1, <1>2, <1>5 DEF Exceeds
    <2>4. critical' \in [Ids -> Lengths]
      <3> DEFINE c == [critical EXCEPT ![id] = 0]
                 d == dependents'
      <3>1. c \in [Ids -> Lengths] /\ d \in [Ids -> SUBSET Ids]
        BY <1>1, <1>2 DEF Lengths
      <3> HIDE DEF c, d
      <3> DEFINE R == Ids \X Nat
                 present == nodes'
      <3>2. LengthsIn(c, R, {})
        BY DEF LengthsIn
      <3>3. present \subseteq Ids
        BY <1>1, <1>2
      <3> HIDE DEF present
      <3>4. Feeds(R, d, present)
        BY <3>3 DEF Feeds
      <3> HIDE DEF R
      <3>5. Propagated(ds, d, c) \in [Ids -> Lengths]
        BY <1>2, <1>4, <3>1, <3>2, <3>4, PropagatedIs DEF present
      <3>. QED BY <1>1, <3>5 DEF c, d
    <2>5. roots' \in SUBSET nodes' /\ leaves' \in SUBSET nodes'
      BY <1>1, <1>2
    <2>6. added' \in 0 .. MaxAdds
      BY <1>1, <1>2, DagAssumption
    <2>. QED BY <2>1, <2>2, <2>3, <2>4, <2>5, <2>6 DEF Types
  <1>7. BackLinks'
    <2>1. ASSUME NEW n \in Ids, NEW c \in dependents'[n]
          PROVE  n \in nodes' /\ n \in Deps(c)'
      <3>1. CASE c \in dependents[n]
        <4>1. n \in nodes /\ n \in Deps(c) /\ c \in nodes
          BY <1>2, <3>1 DEF DagInv, BackLinks
        <4>. QED BY <1>1, <1>2, <1>3, <4>1
      <3>2. CASE c \notin dependents[n]
        <4>1. c = id /\ n \in ToSet(ds) /\ n \in nodes
          BY <1>1, <2>1, <3>2
        <4>. QED BY <1>1, <1>3, <4>1
      <3>. QED BY <3>1, <3>2
    <2>. QED BY <2>1 DEF BackLinks
  <1>8. ASSUME ToSet(ds) \subseteq nodes, repaired
        PROVE  Exact' /\ Rising'
    <2>1. /\ \A n \in nodes : dependents[n] = {c \in nodes : n \in Deps(c)}
          /\ roots = {n \in nodes : deps[n] = <<>>}
          /\ leaves = {n \in nodes : \A c \in nodes : n \notin Deps(c)}
          /\ \A n \in nodes : \A p \in Deps(n) : p \in nodes /\ depth[p] < depth[n]
      BY <1>8 DEF DagInv, LinksAgree, Layered
    <2>2. dependents[id] = {}
      BY <1>2 DEF DagInv, BackLinks
    <2>3. ASSUME NEW n \in nodes'
          PROVE  dependents'[n] = {c \in nodes' : n \in Deps(c)'}
      <3>1. CASE n = id
        <4>1. dependents'[id] = {}
          BY <1>1, <2>2
        <4>2. \A c \in nodes' : id \notin Deps(c)'
          BY <1>1, <1>2, <1>3, <2>1
        <4>. QED BY <3>1, <4>1, <4>2
      <3>2. CASE n # id
        <4>1. n \in nodes /\ n \in Ids
          BY <1>1, <1>2, <3>2
        <4>2. \A c \in nodes : Deps(c)' = Deps(c)
          BY <1>2, <1>3
        <4>3. dependents'[n] = IF n \in ToSet(ds) THEN dependents[n] \union {id} ELSE dependents[n]
          BY <1>1, <4>1
        <4>4. dependents[n] = {c \in nodes : n \in Deps(c)}
          BY <2>1, <4>1
        <4>5. n \in Deps(id)' <=> n \in ToSet(ds)
          BY <1>3
        <4>. QED BY <1>1, <4>2, <4>3, <4>4, <4>5
      <3>. QED BY <3>1, <3>2
    <2>4. roots' = {n \in nodes' : deps'[n] = <<>>}
      <3>1. \A n \in nodes : n # id /\ deps'[n] = deps[n]
        BY <1>2, <1>3
      <3>. QED BY <1>1, <1>3, <2>1, <3>1
    <2>5. leaves' = {n \in nodes' : \A c \in nodes' : n \notin Deps(c)'}
      <3>1. \A c \in nodes : Deps(c)' = Deps(c) /\ c # id
        BY <1>2, <1>3
      <3>2. \A c \in nodes : id \notin Deps(c)
        BY <2>1
      <3>3. \A n \in nodes' : (\A c \in nodes' : n \notin Deps(c)')
              <=> n \notin ToSet(ds) /\ \A c \in nodes : n \notin Deps(c)
        BY <1>1, <1>3, <3>1
      <3>4. \A n : n \in leaves' <=> n \in nodes' /\ n \notin ToSet(ds) /\ \A c \in nodes : n \notin Deps(c)
        BY <1>1, <2>1, <3>1, <3>2
      <3>. QED BY <3>3, <3>4
    <2>6. Rising'
      <3>1. ASSUME NEW n \in nodes', NEW p \in Deps(n)'
            PROVE  p \in nodes' /\ depth'[p] < depth'[n]
        <4>1. CASE n = id
          <5>1. p \in ToSet(ds) /\ p \in nodes /\ p \in Ids /\ p # id
            BY <1>2, <1>3, <1>8, <3>1, <4>1
          <5>2. depth'[p] = depth[p] /\ depth'[id] = DepthBelow(ds)
            BY <1>1, <1>2, <5>1
          <5>. QED BY <1>1, <1>5, <4>1, <5>1, <5>2 DEF Exceeds
        <4>2. CASE n # id
          <5>1. n \in nodes /\ n \in Ids /\ p \in Deps(n)
            BY <1>1, <1>2, <1>3, <3>1, <4>2
          <5>2. p \in nodes /\ p # id /\ p \in Ids /\ depth[p] < depth[n]
            BY <1>2, <2>1, <5>1
          <5>3. depth'[p] = depth[p] /\ depth'[n] = depth[n]
            BY <1>1, <1>2, <4>2, <5>1, <5>2
          <5>. QED BY <1>1, <5>2, <5>3
        <4>. QED BY <4>1, <4>2
      <3>. QED BY <3>1 DEF Rising
    <2>. QED BY <2>3, <2>4, <2>5, <2>6 DEF Exact
  <1>. QED BY <1>6, <1>7, <1>8

\* add_node, which refuses a node whose dependencies are not there.
LEMMA AddNodeKeeps ==
  ASSUME DagInv, NEW id \in Ids, NEW ds \in Lists(Ids), AddNode(id, ds)
  PROVE  DagInv'
  <1>1. /\ added < MaxAdds /\ id \notin nodes /\ ToSet(ds) \subseteq nodes /\ Insert(id, ds)
        /\ repaired' = repaired /\ pruned' = pruned
    BY DEF AddNode
  <1>2. id \notin ToSet(ds) /\ repaired' \in BOOLEAN /\ pruned' \in BOOLEAN
    BY <1>1 DEF DagInv, Types
  <1>3. Types' /\ BackLinks' /\ (repaired => Exact' /\ Rising')
    BY <1>1, <1>2, InsertKeeps
  <1>. QED BY <1>1, <1>3 DEF DagInv, LinksAgree, Layered, Exact, Rising

\* add_node_unchecked, after which the graph is not repaired.
LEMMA AddNodeUncheckedKeeps ==
  ASSUME DagInv, NEW id \in Ids, NEW ds \in Lists(Ids), AddNodeUnchecked(id, ds)
  PROVE  DagInv'
  <1>1. /\ added < MaxAdds /\ id \notin nodes /\ id \notin ToSet(ds) /\ Insert(id, ds)
        /\ repaired' = FALSE /\ pruned' = pruned
    BY DEF AddNodeUnchecked
  <1>2. repaired' \in BOOLEAN /\ pruned' \in BOOLEAN
    BY <1>1 DEF DagInv, Types
  <1>3. Types' /\ BackLinks'
    BY <1>1, <1>2, InsertKeeps
  <1>. QED BY <1>1, <1>3 DEF DagInv, LinksAgree, Layered

-------------------------------------------------------------------------------
(* Removing *)

\* remove_node, whose depths stay: they are too high, but rise along every edge.
LEMMA RemoveNodeKeeps ==
  ASSUME DagInv, NEW id \in Ids, RemoveNode(id)
  PROVE  DagInv'
  <1>1. /\ id \in nodes /\ nodes' = nodes \ {id}
        /\ deps' = [n \in Ids |-> IF n = id THEN <<>>
                            ELSE IF n \in dependents[id] THEN Without(deps[n], {id})
                            ELSE deps[n]]
        /\ dependents' = [n \in Ids |-> IF n = id THEN {}
                                  ELSE IF n \in Deps(id) THEN dependents[n] \ {id}
                                  ELSE dependents[n]]
        /\ roots' = (roots \union {c \in dependents[id] : Deps(c) \subseteq {id}}) \ {id}
        /\ leaves' = (leaves \union {p \in Deps(id) \intersect nodes : dependents[p] \subseteq {id}}) \ {id}
        /\ depth' = [depth EXCEPT ![id] = 0]
        /\ critical' = [critical EXCEPT ![id] = Absent]
        /\ pruned' = TRUE /\ added' = added /\ repaired' = repaired
    BY DEF RemoveNode, LeavesWithout
  <1>2. /\ Graph /\ nodes \in SUBSET Ids /\ deps \in [Ids -> Lists(Ids)]
        /\ dependents \in [Ids -> SUBSET nodes]
        /\ roots \in SUBSET nodes /\ leaves \in SUBSET nodes
        /\ depth \in [Ids -> Nat] /\ critical \in [Ids -> Lengths]
        /\ added \in 0 .. MaxAdds /\ repaired \in BOOLEAN
        /\ \A n \in Ids : \A c \in dependents[n] : n \in nodes /\ n \in Deps(c)
    BY DEF DagInv, Types, Graph, BackLinks
  <1>3. /\ <<>> \in Lists(Ids) /\ ToSet(<<>>) = {}
    <2>1. <<>> \in Seq(Ids) /\ Len(<<>>) = 0 /\ Distinct(<<>>) /\ ToSet(<<>>) = {}
      BY DEF Distinct, ToSet
    <2>2. 0 <= MaxWidth
      BY DagAssumption
    <2>. QED BY <2>1, <2>2, ListsAre
  <1>4. ASSUME NEW n \in Ids, n # id
        PROVE  /\ deps'[n] \in Lists(Ids)
               /\ Deps(n)' = IF n \in dependents[id] THEN Deps(n) \ {id} ELSE Deps(n)
               /\ n \in dependents[id] => (deps'[n] = <<>> <=> Deps(n) \subseteq {id})
               /\ n \notin dependents[id] => deps'[n] = deps[n]
    <2>1. CASE n \in dependents[id]
      <3>1. deps'[n] = Without(deps[n], {id})
        BY <1>1, <1>4, <2>1
      <3>2. deps[n] \in Lists(Ids)
        BY <1>2
      <3>3. /\ Without(deps[n], {id}) \in Lists(Ids)
            /\ ToSet(Without(deps[n], {id})) = ToSet(deps[n]) \ {id}
            /\ Without(deps[n], {id}) = <<>> <=> ToSet(deps[n]) \subseteq {id}
        BY <3>2, WithoutIs, Zenon
      <3>. QED BY <2>1, <3>1, <3>3 DEF Deps
    <2>2. CASE n \notin dependents[id]
      BY <1>1, <1>2, <1>4, <2>2 DEF Deps
    <2>. QED BY <2>1, <2>2
  <1>5. deps'[id] = <<>> /\ Deps(id)' = {}
    BY <1>1, <1>3 DEF Deps
  <1>6. Types'
    <2>1. deps' \in [Ids -> Lists(Ids)]
      <3>1. deps' = [n \in Ids |-> deps'[n]]
        BY <1>1, Zenon
      <3>. QED BY <1>3, <1>4, <1>5, <3>1
    <2>2. Graph'
      BY <1>1, <1>2, <2>1 DEF Graph
    <2>3. dependents' \in [Ids -> SUBSET nodes']
      <3>1. ASSUME NEW n \in Ids, n # id, n \notin Deps(id)
            PROVE  id \notin dependents[n]
        BY <1>2, <3>1
      <3>. QED BY <1>1, <1>2, <3>1
    <2>4. roots' \in SUBSET nodes' /\ leaves' \in SUBSET nodes'
      BY <1>1, <1>2
    <2>5. depth' \in [Ids -> Nat] /\ critical' \in [Ids -> Lengths]
      BY <1>1, <1>2 DEF Lengths
    <2>. QED BY <1>1, <1>2, <2>2, <2>3, <2>4, <2>5 DEF Types
  <1>7. BackLinks'
    <2>1. ASSUME NEW n \in Ids, NEW c \in dependents'[n]
          PROVE  n \in nodes' /\ n \in Deps(c)'
      <3>1. n # id /\ c \in dependents[n] /\ c # id
        <4>1. n # id
          BY <1>1, <2>1
        <4>2. c \in dependents[n]
          BY <1>1, <2>1, <4>1
        <4>3. n \in Deps(id) => c # id
          BY <1>1, <2>1, <4>1
        <4>4. n \notin Deps(id) => id \notin dependents[n]
          BY <1>2
        <4>. QED BY <4>1, <4>2, <4>3, <4>4
      <3>2. n \in nodes /\ n \in Deps(c) /\ c \in Ids
        BY <1>2, <3>1
      <3>3. n \in Deps(c)'
        BY <1>4, <3>1, <3>2
      <3>. QED BY <1>1, <3>1, <3>2, <3>3
    <2>. QED BY <2>1 DEF BackLinks
  <1>8. ASSUME repaired
        PROVE  Exact' /\ Rising'
    <2>1. /\ \A n \in nodes : dependents[n] = {c \in nodes : n \in Deps(c)}
          /\ roots = {n \in nodes : deps[n] = <<>>}
          /\ leaves = {n \in nodes : \A c \in nodes : n \notin Deps(c)}
          /\ \A n \in nodes : \A p \in Deps(n) : p \in nodes /\ depth[p] < depth[n]
      BY <1>8 DEF DagInv, LinksAgree, Layered
    <2>2. ASSUME NEW c \in nodes, c # id
          PROVE  c \in Ids /\ c \in nodes' /\ Deps(c)' = Deps(c) \ {id}
                 /\ (c \in dependents[id] <=> id \in Deps(c))
      <3>1. c \in Ids /\ c \in nodes' /\ (c \in dependents[id] <=> id \in Deps(c))
        BY <1>1, <1>2, <2>1, <2>2
      <3>2. Deps(c)' = IF c \in dependents[id] THEN Deps(c) \ {id} ELSE Deps(c)
        BY <1>4, <2>2, <3>1
      <3>. QED BY <3>1, <3>2
    <2>3. ASSUME NEW n \in nodes'
          PROVE  dependents'[n] = {c \in nodes' : n \in Deps(c)'}
      <3>1. n \in nodes /\ n # id /\ n \in Ids
        BY <1>1, <1>2
      <3>2. dependents[n] = {c \in nodes : n \in Deps(c)}
        BY <2>1, <3>1
      <3>3. dependents'[n] = dependents[n] \ {id}
        <4>1. n \notin Deps(id) => id \notin dependents[n]
          BY <3>2
        <4>. QED BY <1>1, <3>1, <4>1
      <3>4. \A c \in nodes' : n \in Deps(c)' <=> n \in Deps(c)
        BY <1>1, <2>2, <3>1
      <3>. QED BY <1>1, <3>2, <3>3, <3>4
    <2>4. roots' = {n \in nodes' : deps'[n] = <<>>}
      <3>1. ASSUME NEW n \in nodes, n # id
            PROVE  n \in roots' <=> deps'[n] = <<>>
        <4>1. CASE n \in dependents[id]
          <5>1. deps[n] = <<>> => FALSE
            <6>1. id \in Deps(n)
              BY <1>2, <4>1
            <6>. QED BY <1>3, <6>1 DEF Deps
          <5>2. n \notin roots
            BY <2>1, <5>1
          <5>3. deps'[n] = <<>> <=> Deps(n) \subseteq {id}
            BY <1>4, <2>2, <3>1, <4>1
          <5>. QED BY <1>1, <3>1, <4>1, <5>2, <5>3
        <4>2. CASE n \notin dependents[id]
          <5>1. deps'[n] = deps[n]
            BY <1>4, <2>2, <3>1, <4>2
          <5>. QED BY <1>1, <2>1, <3>1, <4>2, <5>1
        <4>. QED BY <4>1, <4>2
      <3>2. roots' \in SUBSET nodes'
        BY <1>1, <1>2
      <3>3. nodes' = nodes \ {id}
        BY <1>1
      <3>. QED BY <3>1, <3>2, <3>3
    <2>5. leaves' = {n \in nodes' : \A c \in nodes' : n \notin Deps(c)'}
      <3>1. ASSUME NEW n \in nodes, n # id
            PROVE  n \in leaves' <=> \A c \in nodes' : n \notin Deps(c)'
        <4>1. \A c \in nodes' : c \in nodes /\ c # id /\ (n \in Deps(c)' <=> n \in Deps(c))
          BY <1>1, <2>2, <3>1
        <4>2. dependents[n] = {c \in nodes : n \in Deps(c)}
          BY <2>1
        <4>3. (\A c \in nodes' : n \notin Deps(c)') <=> dependents[n] \subseteq {id}
          BY <1>1, <4>1, <4>2
        <4>4. CASE n \in Deps(id)
          <5>1. n \notin leaves
            BY <1>1, <2>1, <4>4
          <5>. QED BY <1>1, <3>1, <4>3, <4>4, <5>1
        <4>5. CASE n \notin Deps(id)
          <5>1. n \in leaves <=> dependents[n] = {}
            BY <2>1, <4>2
          <5>2. id \notin dependents[n]
            BY <4>2, <4>5
          <5>. QED BY <1>1, <3>1, <4>3, <4>5, <5>1, <5>2
        <4>. QED BY <4>4, <4>5
      <3>2. leaves' \in SUBSET nodes'
        BY <1>1, <1>2
      <3>3. nodes' = nodes \ {id}
        BY <1>1
      <3>. QED BY <3>1, <3>2, <3>3
    <2>6. Rising'
      <3>1. ASSUME NEW n \in nodes', NEW p \in Deps(n)'
            PROVE  p \in nodes' /\ depth'[p] < depth'[n]
        <4>1. n \in nodes /\ n # id /\ n \in Ids
          BY <1>1, <1>2
        <4>2. p \in Deps(n) /\ p # id
          BY <2>2, <3>1, <4>1
        <4>3. p \in nodes /\ p \in Ids /\ depth[p] < depth[n]
          BY <1>2, <2>1, <4>1, <4>2
        <4>4. depth'[p] = depth[p] /\ depth'[n] = depth[n]
          BY <1>1, <1>2, <4>1, <4>2, <4>3
        <4>. QED BY <1>1, <4>2, <4>3, <4>4
      <3>. QED BY <3>1 DEF Rising
    <2>. QED BY <2>3, <2>4, <2>5, <2>6 DEF Exact
  <1>. QED BY <1>1, <1>6, <1>7, <1>8 DEF DagInv, LinksAgree, Layered, Exact, Rising

-------------------------------------------------------------------------------
(* Repairing *)

\* repair, whether or not it finds a cycle.
LEMMA RepairKeeps ==
  ASSUME DagInv, Repair
  PROVE  DagInv'
  <1>1. /\ dependents' = [p \in Ids |-> IF p \in nodes THEN {c \in nodes : p \in Deps(c)} ELSE {}]
        /\ roots' = {n \in nodes : deps[n] = <<>>}
        /\ leaves' = {n \in nodes : dependents'[n] = {}}
        /\ nodes' = nodes /\ deps' = deps /\ added' = added
        /\ IF Acyclic
             THEN /\ depth' = RebuildDepths
                  /\ critical' = CriticalPaths(dependents')
                  /\ repaired' = \A n \in nodes : Deps(n) \subseteq nodes
                  /\ pruned' = FALSE
             ELSE depth' = depth /\ critical' = critical /\ repaired' = repaired /\ pruned' = pruned
    BY DEF Repair, derived
  <1>2. /\ Graph /\ nodes \in SUBSET Ids
        /\ depth \in [Ids -> Nat] /\ critical \in [Ids -> Lengths]
        /\ added \in 0 .. MaxAdds /\ repaired \in BOOLEAN /\ pruned \in BOOLEAN
    BY DEF DagInv, Types, Graph
  <1>3. \A n \in Ids : Deps(n)' = Deps(n)
    BY <1>1 DEF Deps
  <1>4. Exact'
    <2>1. \A n \in nodes : n \in Ids /\ dependents'[n] = {c \in nodes : n \in Deps(c)}
      BY <1>1, <1>2
    <2>2. \A n \in nodes : dependents'[n] = {} <=> \A c \in nodes : n \notin Deps(c)
      BY <2>1
    <2>3. leaves' = {n \in nodes : \A c \in nodes : n \notin Deps(c)}
      BY <1>1, <2>2
    <2>4. \A n \in nodes' : dependents'[n] = {c \in nodes' : n \in Deps(c)'}
      BY <1>1, <1>2, <1>3, <2>1
    <2>5. leaves' = {n \in nodes' : \A c \in nodes' : n \notin Deps(c)'}
      <3>1. nodes' = nodes /\ \A c \in nodes : Deps(c)' = Deps(c)
        BY <1>1, <1>2, <1>3
      <3>2. \A n \in nodes : (\A c \in nodes' : n \notin Deps(c)') <=> \A c \in nodes : n \notin Deps(c)
        BY <3>1
      <3>. QED BY <2>3, <3>1, <3>2
    <2>6. roots' = {n \in nodes' : deps'[n] = <<>>}
      BY <1>1
    <2>. QED BY <2>4, <2>5, <2>6 DEF Exact
  <1>5. dependents' \in [Ids -> SUBSET nodes'] /\ roots' \in SUBSET nodes' /\ leaves' \in SUBSET nodes'
    BY <1>1
  <1>6. BackLinks'
    <2>1. ASSUME NEW n \in Ids, NEW c \in dependents'[n]
          PROVE  n \in nodes' /\ n \in Deps(c)'
      <3>1. n \in nodes /\ c \in nodes /\ n \in Deps(c)
        BY <1>1, <2>1
      <3>. QED BY <1>1, <1>2, <1>3, <3>1
    <2>. QED BY <2>1 DEF BackLinks
  <1>7. CASE Acyclic
    <2>1. /\ RebuildDepths \in [Ids -> Nat]
          /\ \A n \in nodes : \A p \in Deps(n) \intersect nodes : RebuildDepths[p] < RebuildDepths[n]
      BY <1>2, <1>7, RebuildDepthsIs DEF Exceeds, Known
    <2> DEFINE d == dependents'
    <2>2. Links(d)
      BY <1>1, <1>2 DEF Links
    <2> HIDE DEF d
    <2>3. CriticalPaths(d) \in [Ids -> Lengths]
      BY <1>2, <2>2, CriticalPathsIs
    <2>4. /\ depth' = RebuildDepths /\ critical' = CriticalPaths(d) /\ pruned' = FALSE
          /\ repaired' = \A n \in nodes : Deps(n) \subseteq nodes
      BY <1>1, <1>7 DEF d
    <2>5. Types'
      BY <1>1, <1>2, <1>5, <2>1, <2>3, <2>4 DEF Types, Graph
    <2>6. repaired' => Rising'
      <3>1. ASSUME repaired', NEW n \in nodes', NEW p \in Deps(n)'
            PROVE  p \in nodes' /\ depth'[p] < depth'[n]
        <4>1. n \in nodes /\ p \in Deps(n) /\ p \in nodes
          BY <1>1, <1>2, <1>3, <2>4, <3>1
        <4>. QED BY <1>1, <2>1, <2>4, <4>1
      <3>. QED BY <3>1 DEF Rising
    <2>. QED BY <1>4, <1>6, <2>5, <2>6 DEF DagInv, LinksAgree, Layered, Exact, Rising
  <1>8. CASE ~Acyclic
    <2>1. depth' = depth /\ critical' = critical /\ repaired' = repaired /\ pruned' = pruned
      BY <1>1, <1>8
    <2>2. Types'
      BY <1>1, <1>2, <1>5, <2>1 DEF Types, Graph
    <2>3. Layered'
      BY <1>1, <1>2, <1>3, <2>1 DEF DagInv, Layered
    <2>. QED BY <1>4, <1>6, <2>2, <2>3 DEF DagInv, LinksAgree, Exact
  <1>. QED BY <1>7, <1>8

-------------------------------------------------------------------------------
(* The theorems *)

\* Every step keeps the invariant.
LEMMA StepInv == DagInv /\ [Next]_vars => DagInv'
  <1> SUFFICES ASSUME DagInv, [Next]_vars PROVE DagInv'
    OBVIOUS
  <1>1. ASSUME NEW id \in Ids, NEW ds \in Lists(Ids), AddNode(id, ds) PROVE DagInv'
    BY <1>1, AddNodeKeeps
  <1>2. ASSUME NEW id \in Ids, NEW ds \in Lists(Ids), AddNodeUnchecked(id, ds) PROVE DagInv'
    BY <1>2, AddNodeUncheckedKeeps
  <1>3. ASSUME NEW id \in Ids, RemoveNode(id) PROVE DagInv'
    BY <1>3, RemoveNodeKeeps
  <1>4. CASE Repair
    BY <1>4, RepairKeeps
  <1>5. CASE UNCHANGED vars
    BY <1>5 DEF vars, edges, derived, DagInv, Types, Graph, BackLinks, LinksAgree, Layered, Deps
  <1>. QED BY <1>1, <1>2, <1>3, <1>4, <1>5 DEF Next

\* The invariant holds throughout.
LEMMA Invariance == Spec => []DagInv
  BY InitInv, StepInv, PTL DEF Spec

\* Whatever is added, removed and repaired, the dependents, roots and leaves kept
\* step by step are those that the dependencies define (add_node, remove_node, repair).
THEOREM GraphHolds == Spec => []GraphAgrees
  <1>1. DagInv => GraphAgrees
    BY DEF DagInv, Types, Graph, Lengths, GraphAgrees, TypeOK
  <1>. QED BY <1>1, Invariance, PTL

\* Whatever is available, rebuild_order lists each dependency that is needed, and
\* strictly before what needs it, though it sorts by depths that removals have left.
THEOREM RebuildOrderHolds == Spec => []RebuildOrderIsComplete
  <1>1. DagInv => RebuildOrderIsComplete
    <2> SUFFICES ASSUME DagInv, repaired, NEW V \in SUBSET nodes, NEW t \in nodes,
                        NEW n \in Required(t, V), NEW p \in Deps(n) \ V
                 PROVE  p \in Required(t, V) /\ depth[p] < depth[n]
      BY DEF RebuildOrderIsComplete
    <2>1. Graph /\ nodes \in SUBSET Ids /\ \A m \in nodes : Deps(m) \subseteq nodes
      BY DEF DagInv, Types, Graph, Layered
    <2>2. Closure(Required(t, V), {t} \ V, V)
      BY <2>1, RequiredIs
    <2>3. n \in nodes
      <3>1. {t} \ V \subseteq nodes /\ Closed(nodes, V)
        BY <2>1 DEF Closed
      <3>. QED BY <2>1, <2>2, <3>1 DEF Closure
    <2>4. p \in Required(t, V)
      BY <2>2, <2>3 DEF Closure, Closed
    <2>5. depth[p] < depth[n]
      BY <2>3 DEF DagInv, Layered
    <2>. QED BY <2>4, <2>5
  <1>. QED BY <1>1, Invariance, PTL

-------------------------------------------------------------------------------
(* The measures *)

\* A depth is the first below the dependencies.
DepthsExact == repaired /\ ~pruned => \A n \in nodes : Exceeds(depth[n], Deps(n), depth)
\* There is a path as long as the critical path says.
CriticalReached == repaired /\ ~pruned => \A n \in nodes : \E k \in Nat : critical[n] = k /\ Reaches(n, k)

MeasuresInv == DepthsExact /\ CriticalReached

\* A repaired graph has no cycles.
LEMMA RepairedIsAcyclic ==
  ASSUME DagInv, repaired
  PROVE  Acyclic
  <1>1. Graph /\ nodes \in SUBSET Ids /\ depth \in [Ids -> Nat]
    BY DEF DagInv, Types, Graph
  <1>2. \A n \in nodes : \A p \in Deps(n) : p \in nodes /\ depth[p] < depth[n]
    BY DEF DagInv, Layered
  <1>3. ASSUME NEW n \in nodes
        PROVE  n \notin Above(n)
    <2> DEFINE X == {m \in nodes : depth[m] < depth[n]}
    <2>1. Closed(X, {})
      <3>1. ASSUME NEW m \in X \intersect nodes, NEW p \in Deps(m)
            PROVE  p \in X
        <4>1. p \in nodes /\ depth[p] < depth[m] /\ depth[m] < depth[n]
          BY <1>2
        <4>2. depth[p] \in Nat /\ depth[m] \in Nat /\ depth[n] \in Nat
          BY <1>1, <4>1
        <4>. QED BY <4>1, <4>2
      <3> HIDE DEF X
      <3>. QED BY <3>1 DEF Closed
    <2>2. Deps(n) \subseteq X /\ X \in SUBSET Ids
      BY <1>1, <1>2
    <2>3. n \notin X
      BY <1>1
    <2>4. Closure(Above(n), Deps(n), {})
      BY <1>1, AboveIs
    <2> HIDE DEF X
    <2>. QED BY <2>1, <2>2, <2>3, <2>4 DEF Closure
  <1>. QED BY <1>3 DEF Acyclic

\* After a repair that leaves the graph repaired, depths are levels and critical paths heights.
LEMMA RepairMeasures ==
  ASSUME DagInv, Repair, repaired'
  PROVE  Graph /\ Levels(depth') /\ Heights(critical') /\ pruned' = FALSE
  <1>1. /\ dependents' = [p \in Ids |-> IF p \in nodes THEN {c \in nodes : p \in Deps(c)} ELSE {}]
        /\ IF Acyclic
             THEN /\ depth' = RebuildDepths
                  /\ critical' = CriticalPaths(dependents')
                  /\ repaired' = \A n \in nodes : Deps(n) \subseteq nodes
                  /\ pruned' = FALSE
             ELSE repaired' = repaired
    BY DEF Repair
  <1>2. Graph /\ nodes \in SUBSET Ids
    BY DEF DagInv, Types, Graph
  <1>3. Acyclic
    BY <1>1, RepairedIsAcyclic
  <1>4. /\ depth' = RebuildDepths /\ critical' = CriticalPaths(dependents') /\ pruned' = FALSE
        /\ \A n \in nodes : Deps(n) \subseteq nodes
    BY <1>1, <1>3
  <1>5. Levels(RebuildDepths)
    <2>1. \A n \in nodes : Exceeds(RebuildDepths[n], Known[n], RebuildDepths)
      BY <1>2, <1>3, RebuildDepthsIs
    <2>2. \A n \in nodes : Known[n] = Deps(n)
      BY <1>4 DEF Known
    <2>. QED BY <1>4, <2>1, <2>2 DEF Levels, Exceeds
  <1> DEFINE d == dependents'
  <1>6. Links(d)
    BY <1>1, <1>2 DEF Links
  <1> HIDE DEF d
  <1>7. Heights(CriticalPaths(d))
    BY <1>2, <1>3, <1>6, CriticalPathsIs
  <1>. QED BY <1>2, <1>4, <1>5, <1>7 DEF d

\* What one node reaches, a node before it reaches with one more.
Leading == /\ \A n \in nodes : Reaches(n, 0)
           /\ \A n, p \in nodes : \A k \in Nat : Reaches(n, k) /\ p \in Deps(n) => Reaches(p, k + 1)

\* Every graph leads on.
LEMMA LeadsOn == Leading
  <1>1. ASSUME NEW n \in nodes
        PROVE  IsPath(<<n>>) /\ <<n>>[1] = n /\ Len(<<n>>) = 0 + 1
    BY OnePath
  <1>2. \A n \in nodes : Reaches(n, 0)
    BY <1>1 DEF Reaches
  <1>. QED BY <1>2, ReachesFurther DEF Leading

\* Adding a node keeps the measures.
LEMMA AddNodeMeasures ==
  ASSUME DagInv, DagInv', MeasuresInv, NEW id \in Ids, NEW ds \in Lists(Ids), AddNode(id, ds)
  PROVE  MeasuresInv'
  <1> SUFFICES ASSUME repaired', ~pruned'
               PROVE  /\ \A n \in nodes' : Exceeds(depth'[n], Deps(n)', depth')
                      /\ \A n \in nodes' : \E k \in Nat : critical'[n] = k /\ Reaches(n, k)'
    BY Zenon DEF MeasuresInv, DepthsExact, CriticalReached
  <1>1. /\ nodes' = nodes \union {id} /\ id \notin nodes /\ ToSet(ds) \subseteq nodes
        /\ deps' = [deps EXCEPT ![id] = ds]
        /\ depth' = [depth EXCEPT ![id] = DepthBelow(ds)]
        /\ critical' = Propagated(ds, dependents', [critical EXCEPT ![id] = 0])
        /\ repaired /\ ~pruned
    BY DEF AddNode, Insert
  <1>2. /\ Graph /\ nodes \in SUBSET Ids /\ deps \in [Ids -> Lists(Ids)]
        /\ depth \in [Ids -> Nat] /\ critical \in [Ids -> Lengths]
        /\ \A n \in nodes : Deps(n) \subseteq nodes
    BY <1>1 DEF DagInv, Types, Graph, Layered
  <1>3. /\ dependents' \in [Ids -> SUBSET nodes']
        /\ \A n \in nodes' : \A c \in dependents'[n] : n \in Deps(c)'
    <2>1. Types' /\ BackLinks'
      BY DEF DagInv
    <2>2. nodes' \subseteq Ids
      BY <1>1, <1>2
    <2>. QED BY <2>1, <2>2 DEF Types, BackLinks
  <1>4. /\ \A n \in nodes : Exceeds(depth[n], Deps(n), depth)
        /\ \A n \in nodes : \E k \in Nat : critical[n] = k /\ Reaches(n, k)
    BY <1>1, Zenon DEF MeasuresInv, DepthsExact, CriticalReached
  <1>5. Deps(id)' = ToSet(ds) /\ \A n \in nodes : n \in Ids /\ n # id /\ Deps(n)' = Deps(n)
    BY <1>1, <1>2 DEF Deps
  <1>6. ASSUME NEW n \in nodes'
        PROVE  Exceeds(depth'[n], Deps(n)', depth')
    <2>1. \A p \in nodes : depth'[p] = depth[p] /\ depth[p] \in Nat
      BY <1>1, <1>2
    <2>2. CASE n = id
      <3> DEFINE A == ToSet(ds)
      <3>1. A \in SUBSET Ids /\ (\A x \in A : depth[x] \in Nat) /\ A \intersect nodes = A
        BY <1>1, <1>2, <2>1
      <3>2. depth'[id] = MaxPlusOne({depth[x] : x \in A})
        <4>1. depth'[id] = DepthBelow(ds)
          BY <1>1, <1>2
        <4>. QED BY <3>1, <4>1, Zenon DEF DepthBelow
      <3>3. \A x \in A : depth[x] = depth'[x]
        BY <1>1, <2>1
      <3> HIDE DEF A
      <3>4. Exceeds(depth'[id], A, depth)
        BY <3>1, <3>2, MaxPlusOneIs
      <3>5. Exceeds(depth'[id], A, depth')
        BY <3>3, <3>4, ExceedsAlike
      <3>. QED BY <1>5, <2>2, <3>5 DEF A
    <2>3. CASE n # id
      <3>1. n \in nodes /\ \A x \in Deps(n) : depth[x] = depth'[x]
        BY <1>1, <1>2, <2>1, <2>3
      <3>2. Exceeds(depth'[n], Deps(n), depth)
        BY <1>4, <2>1, <3>1
      <3>3. Exceeds(depth'[n], Deps(n), depth')
        BY <3>1, <3>2, ExceedsAlike
      <3>. QED BY <1>5, <3>1, <3>3
    <2>. QED BY <2>2, <2>3
  <1>7. ASSUME NEW n \in nodes, NEW k, Reaches(n, k)
        PROVE  Reaches(n, k)'
    <2>1. PICK s : IsPath(s) /\ s[1] = n /\ Len(s) = k + 1
      BY <1>7 DEF Reaches
    <2>2. s \in Seq(nodes) /\ s # <<>> /\ \A i \in 1 .. Len(s) - 1 : s[i] \in Deps(s[i + 1])
      BY <2>1 DEF IsPath
    <2>3. s \in Seq(nodes')
      BY <1>1, <2>2
    <2>4. ASSUME NEW i \in 1 .. Len(s) - 1
          PROVE  s[i] \in Deps(s[i + 1])'
      <3>1. i + 1 \in 1 .. Len(s)
        BY <2>2
      <3>2. s[i + 1] \in nodes
        BY <2>2, <3>1
      <3>. QED BY <1>5, <2>2, <3>2
    <2>5. IsPath(s)'
      BY <2>2, <2>3, <2>4 DEF IsPath
    <2>. QED BY <2>1, <2>5 DEF Reaches
  <1>8. Leading'
    BY LeadsOn, PTL
  <1> DEFINE R == {x \in Ids \X Nat : x[1] \in nodes' => Reaches(x[1], x[2])'}
             K == nodes'
             c == [critical EXCEPT ![id] = 0]
             d == dependents'
  <1>9. \A n \in Ids, k \in Nat : <<n, k>> \in R <=> (n \in nodes' => Reaches(n, k)')
    OBVIOUS
  <1>10. \A n \in nodes' : n \in Ids
    BY <1>1, <1>2
  <1>11. Feeds(R, d, nodes')
    <2>1. \A n \in nodes' : Reaches(n, 0)'
      BY <1>8 DEF Leading
    <2>2. ASSUME NEW n \in nodes', NEW x \in d[n], NEW k \in Nat, <<x, k>> \in R
          PROVE  <<n, k + 1>> \in R
      <3>1. x \in nodes' /\ n \in Deps(x)'
        BY <1>3, <1>10, <2>2
      <3>2. Reaches(x, k)'
        BY <1>9, <1>10, <2>2, <3>1
      <3>3. Reaches(n, k + 1)'
        BY <1>8, <3>1, <3>2 DEF Leading
      <3>. QED BY <1>9, <1>10, <3>3
    <2> HIDE DEF R, d
    <2>. QED BY <1>9, <1>10, <2>1, <2>2 DEF Feeds
  <1>12. LengthsIn(c, R, K)
    <2>1. \A n \in nodes' : c[n] = IF n = id THEN 0 ELSE critical[n]
      BY <1>2, <1>10
    <2>2. Reaches(id, 0)' /\ id \in nodes'
      BY <1>1, <1>8 DEF Leading
    <2>3. ASSUME NEW n \in nodes'
          PROVE  \E k \in Nat : c[n] = k /\ Reaches(n, k)'
      <3>1. CASE n = id
        BY <2>1, <2>2, <3>1
      <3>2. CASE n # id
        <4>1. n \in nodes /\ c[n] = critical[n]
          BY <1>1, <2>1, <3>2
        <4>. QED BY <1>4, <1>7, <4>1
      <3>. QED BY <3>1, <3>2
    <2> HIDE DEF R, c
    <2>. QED BY <1>9, <2>3 DEF LengthsIn
  <1>13. LengthsIn(critical', R, K)
    <2>1. c \in [Ids -> Lengths] /\ d \in [Ids -> SUBSET Ids] /\ K \in SUBSET Ids /\ ds \in Seq(Ids)
      BY <1>2, <1>3, <1>10, ListsAre DEF Lengths
    <2>2. critical' = Propagated(ds, d, c)
      BY <1>1
    <2> HIDE DEF R, c, d, K
    <2>3. LengthsIn(Propagated(ds, d, c), R, K)
      BY <1>2, <1>11, <1>12, <2>1, PropagatedIs
    <2>. QED BY <2>2, <2>3
  <1>14. ASSUME NEW n \in nodes'
         PROVE  \E k \in Nat : critical'[n] = k /\ Reaches(n, k)'
    <2>1. critical'[n] \in Nat /\ <<n, critical'[n]>> \in R
      BY <1>10, <1>13 DEF LengthsIn
    <2> HIDE DEF R
    <2>. QED BY <1>9, <1>10, <2>1
  <1>. QED BY <1>6, <1>14

\* So does repairing, which brings them.
LEMMA RepairKeepsMeasures ==
  ASSUME DagInv, Repair
  PROVE  MeasuresInv'
  <1> SUFFICES ASSUME repaired', ~pruned'
               PROVE  /\ \A n \in nodes' : Exceeds(depth'[n], Deps(n)', depth')
                      /\ \A n \in nodes' : \E k \in Nat : critical'[n] = k /\ Reaches(n, k)'
    BY Zenon DEF MeasuresInv, DepthsExact, CriticalReached
  <1>1. Graph /\ Levels(depth') /\ Heights(critical') /\ nodes' = nodes /\ deps' = deps
    BY RepairMeasures DEF Repair
  <1>2. \A n : Deps(n)' = Deps(n)
    BY <1>1 DEF Deps
  <1>3. \A n \in nodes : \E k \in Nat : critical'[n] = k /\ Reaches(n, k)
    BY <1>1, HeightReached DEF Heights
  <1>4. \A n, k : Reaches(n, k) => Reaches(n, k)'
    <2>1. \A s : IsPath(s) => IsPath(s)'
      BY <1>1, <1>2 DEF IsPath
    <2>. QED BY <2>1 DEF Reaches
  <1>. QED BY <1>1, <1>2, <1>3, <1>4 DEF Levels

\* Every step keeps the measures.
LEMMA MeasuresStep == DagInv /\ DagInv' /\ MeasuresInv /\ [Next]_vars => MeasuresInv'
  <1> SUFFICES ASSUME DagInv, DagInv', MeasuresInv, [Next]_vars
               PROVE  MeasuresInv'
    OBVIOUS
  <1>1. ASSUME NEW id \in Ids, NEW ds \in Lists(Ids), AddNode(id, ds)
        PROVE  MeasuresInv'
    BY <1>1, AddNodeMeasures
  <1>2. ASSUME NEW id \in Ids, NEW ds \in Lists(Ids), AddNodeUnchecked(id, ds)
        PROVE  MeasuresInv'
    BY <1>2 DEF AddNodeUnchecked, MeasuresInv, DepthsExact, CriticalReached
  <1>3. ASSUME NEW id \in Ids, RemoveNode(id)
        PROVE  MeasuresInv'
    BY <1>3 DEF RemoveNode, MeasuresInv, DepthsExact, CriticalReached
  <1>4. CASE Repair
    BY <1>4, RepairKeepsMeasures
  <1>5. CASE UNCHANGED vars
    <2>1. UNCHANGED <<nodes, deps, depth, critical, repaired, pruned>>
      BY <1>5 DEF vars, edges, derived
    <2>2. \A n : Deps(n)' = Deps(n)
      BY <2>1 DEF Deps
    <2>3. \A s : IsPath(s)' <=> IsPath(s)
      BY <2>1, <2>2 DEF IsPath
    <2>4. \A n, k : Reaches(n, k)' <=> Reaches(n, k)
      BY <2>3 DEF Reaches
    <2>5. DepthsExact'
      BY <2>1, <2>2 DEF MeasuresInv, DepthsExact
    <2>6. CriticalReached'
      BY <2>1, <2>4 DEF MeasuresInv, CriticalReached
    <2>. QED BY <2>5, <2>6 DEF MeasuresInv
  <1>. QED BY <1>1, <1>2, <1>3, <1>4, <1>5 DEF Next

\* The measures hold throughout.
LEMMA MeasuresHold == Spec => [](DagInv /\ MeasuresInv)
  <1>1. Init => DagInv /\ MeasuresInv
    <2>1. Init => MeasuresInv
      BY DEF Init, MeasuresInv, DepthsExact, CriticalReached
    <2>. QED BY <2>1, InitInv
  <1>2. DagInv /\ MeasuresInv /\ [Next]_vars => (DagInv /\ MeasuresInv)'
    BY StepInv, MeasuresStep
  <1>. QED BY <1>1, <1>2, PTL DEF Spec

\* Until a removal, every depth is the longest path to the node and no critical path is longer than
\* the longest path from it, however nodes were added and repaired.
THEOREM PathsHold == Spec => []PathsAgree
  <1>1. DagInv /\ MeasuresInv => PathsAgree
    <2> SUFFICES ASSUME DagInv, MeasuresInv, repaired, ~pruned, NEW n \in nodes
                 PROVE  /\ depth[n] = LongestTo(n)
                        /\ critical[n] # Absent /\ critical[n] <= LongestFrom(n)
      BY DEF PathsAgree, DepthIsLongest, CriticalIsBounded
    <2>1. Graph /\ Levels(depth)
      BY DEF DagInv, Types, Graph, Layered, MeasuresInv, DepthsExact, Levels
    <2>2. critical[n] \in Nat /\ Reaches(n, critical[n])
      BY DEF MeasuresInv, CriticalReached
    <2>3. depth[n] = LongestTo(n)
      BY <2>1, LongestToIs
    <2>4. critical[n] <= LongestFrom(n)
      BY <2>1, <2>2, LongestFromBounds
    <2>. QED BY <2>2, <2>3, <2>4, DagAssumption
  <1>. QED BY <1>1, MeasuresHold, PTL

\* A repair makes all depths and all critical paths exact, whatever order the nodes came in and
\* whatever has been removed.
THEOREM RepairHolds == Spec => RepairIsExact
  <1>1. DagInv /\ [Next]_vars =>
          [Repair /\ repaired' =>
             \A n \in nodes : depth'[n] = LongestTo(n) /\ critical'[n] = LongestFrom(n)]_vars
    <2> SUFFICES ASSUME DagInv, Repair, repaired', NEW n \in nodes
                 PROVE  depth'[n] = LongestTo(n) /\ critical'[n] = LongestFrom(n)
      OBVIOUS
    <2>1. Graph /\ Levels(depth') /\ Heights(critical')
      BY RepairMeasures
    <2>2. LongestTo(n) = depth'[n]
      BY <2>1, LongestToIs
    <2>3. LongestFrom(n) = critical'[n]
      BY <2>1, LongestFromIs
    <2>. QED BY <2>2, <2>3
  <1>. QED BY <1>1, Invariance, PTL DEF Spec, RepairIsExact
===============================================================================
