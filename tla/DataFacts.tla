------------------------------ MODULE DataFacts ------------------------------
(***************************************************************************)
(* Facts about numbers, positions, sequences, remainders and loops that the *)
(* proofs of several components cite.                                       *)
(***************************************************************************)
EXTENDS Selection, SequenceTheorems, FiniteSetTheorems, WellFoundedInduction, TLAPS

\* Induction over the natural numbers, the property being given as a set.
THEOREM Induction ==
  ASSUME NEW S, 0 \in S, \A n \in Nat : n \in S => n + 1 \in S
  PROVE  \A n \in Nat : n \in S
  <1> DEFINE T == {n \in Nat : n \notin S}
  <1>1. ASSUME T # {}
        PROVE  FALSE
    <2>1. PICK x \in T : \A y \in T : ~ (<<y, x>> \in OpToRel(<, Nat))
      <3>1. T \subseteq Nat /\ T # {}
        BY <1>1
      <3> HIDE DEF T
      <3>. QED BY <3>1, NatLessThanWellFounded, WFMin, Zenon
    <2>2. x \in Nat /\ x # 0 /\ x \notin S
      OBVIOUS
    <2>3. x - 1 \in Nat /\ x - 1 + 1 = x
      BY <2>2
    <2>4. x - 1 \notin S
      BY <2>2, <2>3
    <2>5. x - 1 \in T
      BY <2>3, <2>4
    <2>6. <<x - 1, x>> \in OpToRel(<, Nat)
      BY <2>2, <2>3 DEF OpToRel
    <2>. QED BY <2>1, <2>5, <2>6
  <1>. QED BY <1>1

\* A finite set of numbers that is not empty has a largest one.
LEMMA LargestExists ==
  ASSUME NEW S \in SUBSET Nat, IsFiniteSet(S), S # {}
  PROVE  \E m \in S : \A x \in S : m >= x
  <1> DEFINE T == {n \in Nat : \A R \in SUBSET Nat :
                     IsFiniteSet(R) /\ R # {} /\ Cardinality(R) <= n => \E m \in R : \A x \in R : m >= x}
  <1>1. 0 \in T
    <2>1. ASSUME NEW R \in SUBSET Nat, IsFiniteSet(R), Cardinality(R) <= 0
          PROVE  R = {}
      <3>1. Cardinality(R) \in Nat
        BY <2>1, FS_CardinalityType
      <3>2. Cardinality(R) = 0
        BY <2>1, <3>1
      <3>. QED BY <2>1, <3>2, FS_EmptySet
    <2>. QED BY <2>1
  <1>2. ASSUME NEW n \in Nat, n \in T
        PROVE  n + 1 \in T
    <2>1. ASSUME NEW R \in SUBSET Nat, IsFiniteSet(R), R # {}, Cardinality(R) <= n + 1
          PROVE  \E m \in R : \A x \in R : m >= x
      <3>1. PICK e \in R : TRUE
        BY <2>1
      <3> DEFINE Q == R \ {e}
      <3>2. Q \in SUBSET Nat /\ IsFiniteSet(Q) /\ Cardinality(Q) = Cardinality(R) - 1
        BY <2>1, FS_RemoveElement
      <3>3. Cardinality(R) \in Nat
        BY <2>1, FS_CardinalityType
      <3>4. Cardinality(Q) <= n
        BY <2>1, <3>2, <3>3
      <3>5. CASE Q = {}
        <4>1. \A x \in R : x = e /\ e >= x
          BY <3>5
        <4>. QED BY <4>1
      <3>6. CASE Q # {}
        <4>1. PICK m \in Q : \A x \in Q : m >= x
          BY <1>2, <3>2, <3>4, <3>6
        <4>2. \A x \in R : x = e \/ x \in Q
          OBVIOUS
        <4>3. m \in Nat /\ e \in Nat /\ m \in R /\ \A x \in R : x \in Nat
          BY <3>2
        <4>4. CASE m >= e
          BY <4>1, <4>2, <4>3, <4>4
        <4>5. CASE ~ (m >= e)
          <5>1. \A x \in R : e >= x
            BY <4>1, <4>2, <4>3, <4>5
          <5>. QED BY <5>1
        <4>. QED BY <4>4, <4>5
      <3>. QED BY <3>5, <3>6
    <2>. QED BY <2>1
  <1> HIDE DEF T
  <1>3. Cardinality(S) \in Nat
    BY FS_CardinalityType
  <1>4. Cardinality(S) \in T
    BY <1>1, <1>2, <1>3, Induction, Zenon
  <1>. QED BY <1>3, <1>4 DEF T

\* A set of positions that is not empty has a last one.
LEMMA LastPosition ==
  ASSUME NEW n \in Nat, NEW A \in SUBSET (1 .. n), A # {}
  PROVE  \E i \in A : \A j \in A : j <= i
  <1> DEFINE S == {k \in Nat : \A B \in SUBSET (1 .. k) :
                     B # {} => \E i \in B : \A j \in B : j <= i}
  <1>1. 0 \in S
    <2>1. \A B \in SUBSET (1 .. 0) : B = {}
      OBVIOUS
    <2>. QED BY <2>1
  <1>2. ASSUME NEW k \in Nat, k \in S
        PROVE  k + 1 \in S
    <2>1. ASSUME NEW B \in SUBSET (1 .. k + 1), B # {}
          PROVE  \E i \in B : \A j \in B : j <= i
      <3>1. CASE k + 1 \in B
        BY <3>1
      <3>2. CASE k + 1 \notin B
        <4>1. B \in SUBSET (1 .. k)
          BY <3>2
        <4>. QED BY <1>2, <2>1, <4>1
      <3>. QED BY <3>1, <3>2
    <2>. QED BY <2>1
  <1>3. n \in S
    <2> HIDE DEF S
    <2>. QED BY <1>1, <1>2, Induction, Zenon
  <1>. QED BY <1>3

\* The items of a concatenation.
LEMMA Concat ==
  ASSUME NEW T, NEW a \in Seq(T), NEW b \in Seq(T)
  PROVE  /\ a \o b \in Seq(T) /\ Len(a \o b) = Len(a) + Len(b)
         /\ Len(a) \in Nat /\ Len(b) \in Nat
         /\ DOMAIN (a \o b) = 1 .. Len(a) + Len(b)
         /\ \A i \in 1 .. Len(a) : (a \o b)[i] = a[i]
         /\ \A i \in 1 .. Len(b) : (a \o b)[Len(a) + i] = b[i]
         /\ \A i \in 1 .. Len(a) + Len(b) : i > Len(a) =>
              i - Len(a) \in 1 .. Len(b) /\ (a \o b)[i] = b[i - Len(a)]
  <1>1. /\ a \o b \in Seq(T) /\ Len(a \o b) = Len(a) + Len(b)
        /\ Len(a) \in Nat /\ Len(b) \in Nat
        /\ \A i \in 1 .. Len(a) : (a \o b)[i] = a[i]
        /\ \A i \in 1 .. Len(b) : (a \o b)[Len(a) + i] = b[i]
    OBVIOUS
  <1>2. DOMAIN (a \o b) = 1 .. Len(a) + Len(b)
    BY <1>1
  <1>3. ASSUME NEW i \in 1 .. Len(a) + Len(b), i > Len(a)
        PROVE  i - Len(a) \in 1 .. Len(b) /\ Len(a) + (i - Len(a)) = i
    BY <1>1, <1>3
  <1>. QED BY <1>1, <1>2, <1>3, Zenon

\* An item that comes behind two parts belongs to the second one.
Behind(a, b, e) == Append(a \o b, e) = a \o Append(b, e)

\* An item appended to the second of two parts.
LEMMA AppendConcat ==
  ASSUME NEW T, NEW a \in Seq(T), NEW b \in Seq(T), NEW e \in T
  PROVE  Behind(a, b, e)
  BY DEF Behind

\* a has the first n items of s and b the others.
CutInto(T, s, n, a, b) ==
  /\ a \in Seq(T) /\ Len(a) = n
  /\ b \in Seq(T) /\ Len(b) = Len(s) - n
  /\ s = a \o b

\* The two parts of a sequence that is cut after n items.
LEMMA CutAt ==
  ASSUME NEW T, NEW s \in Seq(T), NEW n \in 0 .. Len(s)
  PROVE  CutInto(T, s, n, SubSeq(s, 1, n), SubSeq(s, n + 1, Len(s)))
  <1>1. Len(s) \in Nat
    OBVIOUS
  <1>2. SubSeq(s, 1, n) \in Seq(T) /\ Len(SubSeq(s, 1, n)) = n
    BY <1>1
  <1>3. /\ SubSeq(s, n + 1, Len(s)) \in Seq(T)
        /\ Len(SubSeq(s, n + 1, Len(s))) = Len(s) - n
    BY <1>1
  <1>4. s = SubSeq(s, 1, n) \o SubSeq(s, n + 1, Len(s))
    <2>1. 1 \in 1 .. Len(s) + 1 /\ n \in 1 - 1 .. Len(s) /\ Len(s) \in n .. Len(s)
      BY <1>1
    <2>2. SubSeq(s, 1, n) \o SubSeq(s, n + 1, Len(s)) = SubSeq(s, 1, Len(s))
      BY <2>1, ConcatAdjacentSubSeq
    <2>3. SubSeq(s, 1, Len(s)) = s
      OBVIOUS
    <2>. QED BY <2>2, <2>3, Zenon
  <1>. QED BY <1>2, <1>3, <1>4 DEF CutInto

\* a and b are what s falls into when it is cut.
Halves(s, a, b) ==
  /\ Len(a) \in 0 .. Len(s)
  /\ SubSeq(s, 1, Len(a)) = a
  /\ SubSeq(s, Len(a) + 1, Len(s)) = b

\* A sequence in two parts is cut after the first one.
LEMMA CutIs ==
  ASSUME NEW T, NEW a \in Seq(T), NEW b \in Seq(T), NEW s, s = a \o b
  PROVE  s \in Seq(T) /\ Halves(s, a, b)
  <1>1. /\ s \in Seq(T) /\ Len(s) = Len(a) + Len(b) /\ Len(a) \in Nat /\ Len(b) \in Nat
        /\ \A i \in 1 .. Len(a) : s[i] = a[i]
        /\ \A i \in 1 .. Len(b) : s[Len(a) + i] = b[i]
    BY Concat
  <1>2. Len(a) \in 0 .. Len(s)
    BY <1>1
  <1>3. SubSeq(s, 1, Len(a)) = a
    <2> DEFINE p == SubSeq(s, 1, Len(a))
    <2>1. p \in Seq(T) /\ Len(p) = Len(a) /\ \A i \in 1 .. Len(p) : p[i] = s[i]
      BY ONLY <1>1, <1>2, s \in Seq(T)
    <2> HIDE DEF p
    <2>2. \A i \in 1 .. Len(p) : p[i] = a[i]
      BY ONLY <1>1, <2>1
    <2>3. p = a
      BY <2>1, <2>2, SeqEqual, Zenon
    <2>. QED BY <2>3 DEF p
  <1>4. SubSeq(s, Len(a) + 1, Len(s)) = b
    <2> DEFINE p == SubSeq(s, Len(a) + 1, Len(s))
    <2>1. p \in Seq(T) /\ Len(p) = Len(b) /\ \A i \in 1 .. Len(p) : p[i] = s[Len(a) + i]
      BY ONLY <1>1, <1>2
    <2> HIDE DEF p
    <2>2. \A i \in 1 .. Len(p) : p[i] = b[i]
      BY ONLY <1>1, <2>1
    <2>3. p = b
      BY <2>1, <2>2, SeqEqual, Zenon
    <2>. QED BY <2>3 DEF p
  <1>. QED BY <1>1, <1>2, <1>3, <1>4 DEF Halves

\* Three parts are grouped either way.
Regrouped(a, b, c) == a \o (b \o c) = (a \o b) \o c

LEMMA Regroup ==
  ASSUME NEW T, NEW a \in Seq(T), NEW b \in Seq(T), NEW c \in Seq(T)
  PROVE  Regrouped(a, b, c)
  BY DEF Regrouped

-------------------------------------------------------------------------------
(* Selecting items *)

\* The positions in A are counted up by their rank.
LEMMA Ranks ==
  ASSUME NEW n \in Nat, NEW A \in SUBSET (1 .. n)
  PROVE  /\ IsFiniteSet(A) /\ Cardinality(A) \in Nat
         /\ \A i \in A : Rank(A, i) \in 1 .. Cardinality(A)
         /\ \A i, j \in A : i < j => Rank(A, i) < Rank(A, j)
         /\ \A k \in 1 .. Cardinality(A) : \E i \in A : Rank(A, i) = k
  <1>1. IsFiniteSet(A) /\ Cardinality(A) \in Nat
    <2>1. IsFiniteSet(1 .. n)
      BY FS_Interval
    <2>. QED BY <2>1, FS_Subset, FS_CardinalityType
  <1> DEFINE upTo(i) == {j \in A : j <= i}
  <1>2. ASSUME NEW i \in A
        PROVE  /\ IsFiniteSet(upTo(i)) /\ Rank(A, i) = Cardinality(upTo(i))
               /\ Rank(A, i) \in 1 .. Cardinality(A)
    <2>1. upTo(i) \in SUBSET A /\ upTo(i) # {} /\ Rank(A, i) = Cardinality(upTo(i))
      BY DEF Rank
    <2> HIDE DEF upTo
    <2>2. IsFiniteSet(upTo(i)) /\ Cardinality(upTo(i)) <= Cardinality(A)
      BY <1>1, <2>1, FS_Subset
    <2>3. Cardinality(upTo(i)) \in Nat /\ Cardinality(upTo(i)) # 0
      BY <2>1, <2>2, FS_CardinalityType, FS_EmptySet
    <2>. QED BY <1>1, <2>1, <2>2, <2>3
  <1>3. ASSUME NEW i \in A, NEW j \in A, i < j
        PROVE  Rank(A, i) < Rank(A, j)
    <2>1. upTo(i) \in SUBSET upTo(j) /\ j \in upTo(j) /\ j \notin upTo(i)
      <3>1. i \in Int /\ j \in Int /\ \A l \in A : l \in Int
        OBVIOUS
      <3>2. \A l \in A : l <= i => l <= j
        BY <1>3, <3>1
      <3>3. j <= j /\ ~(j <= i)
        BY <1>3, <3>1
      <3>. QED BY <3>2, <3>3
    <2> HIDE DEF upTo
    <2>2. Cardinality(upTo(i)) <= Cardinality(upTo(j)) /\ Cardinality(upTo(i)) # Cardinality(upTo(j))
      BY <1>2, <2>1, FS_Subset
    <2>. QED BY <1>2, <2>2
  <1>4. \A k \in 1 .. Cardinality(A) : \E i \in A : Rank(A, i) = k
    <2> DEFINE f == [i \in A |-> Rank(A, i)]
    <2> HIDE DEF upTo
    <2>1. f \in [A -> 1 .. Cardinality(A)]
      BY <1>2
    <2>2. \A i, j \in A : f[i] = f[j] => i = j
      <3>1. ASSUME NEW i \in A, NEW j \in A, Rank(A, i) = Rank(A, j), i # j
            PROVE  FALSE
        <4>1. Rank(A, i) \in Int /\ Rank(A, j) \in Int /\ i \in Int /\ j \in Int
          BY <1>2
        <4>2. i < j \/ j < i
          BY <3>1, <4>1
        <4>. QED BY <1>3, <3>1, <4>1, <4>2
      <3>. QED BY <3>1
    <2>3. f \in Injection(A, 1 .. Cardinality(A))
      BY <2>1, <2>2 DEF Injection, IsInjective
    <2> HIDE DEF f
    <2>4. IsFiniteSet(1 .. Cardinality(A)) /\ Cardinality(1 .. Cardinality(A)) = Cardinality(A)
      BY <1>1, FS_Interval
    <2>5. f \in Surjection(A, 1 .. Cardinality(A))
      BY <2>3, <2>4, FS_Injection
    <2>6. \A k \in 1 .. Cardinality(A) : \E i \in A : f[i] = k
      BY <2>5 DEF Surjection
    <2>. QED BY <2>6 DEF f
  <1>. QED BY <1>1, <1>2, <1>3, <1>4

\* The positions at of s, one after the other, are those whose items t has.
PicksOut(t, s, at, f) ==
  /\ f \in [1 .. Len(t) -> at]
  /\ \A k \in 1 .. Len(t) : t[k] = s[f[k]]
  /\ \A k, l \in 1 .. Len(t) : k < l => f[k] < f[l]
  /\ \A i \in at : \E k \in 1 .. Len(t) : f[k] = i

\* What is selected has its items at increasing positions of the sequence.
LEMMA OnlyPicks ==
  ASSUME NEW T, NEW s \in Seq(T), NEW P
  PROVE  /\ Only(s, P) \in Seq(T)
         /\ \E f : PicksOut(Only(s, P), s, {i \in DOMAIN s : s[i] \in P}, f)
  <1> DEFINE at == {i \in DOMAIN s : s[i] \in P}
             t  == Only(s, P)
             f  == [k \in 1 .. Cardinality(at) |-> CHOOSE i \in at : Rank(at, i) = k]
  <1>1. Len(s) \in Nat /\ at \in SUBSET (1 .. Len(s)) /\ \A i \in at : s[i] \in T
    OBVIOUS
  <1>0. \A i \in at : i \in Int
    BY <1>1
  <1>2. t = [k \in 1 .. Cardinality(at) |-> s[CHOOSE i \in at : Rank(at, i) = k]]
    BY DEF Only
  <1> HIDE DEF at, t
  <1>3. /\ IsFiniteSet(at) /\ Cardinality(at) \in Nat
        /\ \A i \in at : Rank(at, i) \in 1 .. Cardinality(at)
        /\ \A i, j \in at : i < j => Rank(at, i) < Rank(at, j)
        /\ \A k \in 1 .. Cardinality(at) : \E i \in at : Rank(at, i) = k
    BY <1>1, Ranks
  <1>4. \A k \in 1 .. Cardinality(at) : f[k] \in at /\ Rank(at, f[k]) = k /\ t[k] = s[f[k]]
    BY <1>2, <1>3
  <1> HIDE DEF f
  <1>5. t \in Seq(T) /\ Len(t) = Cardinality(at)
    <2>1. t \in [1 .. Cardinality(at) -> T]
      BY <1>1, <1>2, <1>3, <1>4 DEF f
    <2>. QED BY <1>3, <2>1
  <1>6. ASSUME NEW k \in 1 .. Cardinality(at), NEW l \in 1 .. Cardinality(at), k < l
        PROVE  f[k] < f[l]
    <2>1. f[k] \in Int /\ f[l] \in Int /\ k \in Int /\ l \in Int
      BY <1>0, <1>4
    <2>2. f[l] < f[k] => l < k
      BY <1>3, <1>4
    <2>3. f[l] = f[k] => l = k
      BY <1>4
    <2>. QED BY <1>6, <2>1, <2>2, <2>3
  <1>7. ASSUME NEW i \in at
        PROVE  \E k \in 1 .. Cardinality(at) : f[k] = i
    <2> DEFINE k == Rank(at, i)
    <2>1. k \in 1 .. Cardinality(at)
      BY <1>3
    <2>2. f[k] \in at /\ Rank(at, f[k]) = k
      BY <1>4, <2>1
    <2>3. f[k] \in Int /\ i \in Int /\ k \in Int
      BY <1>0, <2>1, <2>2
    <2>4. f[k] < i => k < k
      BY <1>3, <2>2
    <2>5. i < f[k] => k < k
      BY <1>3, <2>2
    <2> HIDE DEF k
    <2>6. f[k] = i
      BY <2>3, <2>4, <2>5
    <2>. QED BY <2>1, <2>6
  <1>8. f \in [1 .. Cardinality(at) -> at]
    BY <1>3, <1>4 DEF f
  <1>9. PicksOut(t, s, at, f)
    BY <1>4, <1>5, <1>6, <1>7, <1>8 DEF PicksOut
  <1>. QED BY <1>5, <1>9 DEF t, at

\* No item comes twice.
Distinct(s) == \A i, j \in DOMAIN s : s[i] = s[j] => i = j

\* x comes before y.
Precedes(s, x, y) == \E i, j \in DOMAIN s : i < j /\ s[i] = x /\ s[j] = y

\* Selecting keeps the items that are in the set, once and in their order.
LEMMA OnlyHas ==
  ASSUME NEW T, NEW s \in Seq(T), NEW P
  PROVE  /\ Only(s, P) \in Seq(T)
         /\ Elements(Only(s, P)) = Elements(s) \intersect P
         /\ Distinct(s) => Distinct(Only(s, P))
         /\ \A x, y \in P : Precedes(s, x, y) => Precedes(Only(s, P), x, y)
         /\ Distinct(s) => \A x, y : Precedes(Only(s, P), x, y) => Precedes(s, x, y)
  <1> DEFINE at == {i \in DOMAIN s : s[i] \in P}
             t  == Only(s, P)
  <1>1. t \in Seq(T)
    BY OnlyPicks
  <1>2. PICK f : PicksOut(t, s, at, f)
    BY OnlyPicks, Zenon
  <1>3. /\ DOMAIN t = 1 .. Len(t) /\ Len(t) \in Nat
        /\ \A i \in at : i \in DOMAIN s /\ s[i] \in P /\ i \in Int
        /\ \A i \in DOMAIN s : s[i] \in P => i \in at
        /\ \A k \in DOMAIN t : k \in Int
    BY <1>1
  <1> HIDE DEF t, at
  <1>4. /\ \A k \in DOMAIN t : f[k] \in at /\ t[k] = s[f[k]]
        /\ \A k, l \in DOMAIN t : k < l => f[k] < f[l]
        /\ \A i \in at : \E k \in DOMAIN t : f[k] = i
    BY <1>2, <1>3 DEF PicksOut
  <1>5. Elements(t) = Elements(s) \intersect P
    <2>1. ASSUME NEW k \in DOMAIN t
          PROVE  t[k] \in Elements(s) \intersect P
      BY <1>3, <1>4 DEF Elements
    <2>2. ASSUME NEW i \in DOMAIN s, s[i] \in P
          PROVE  s[i] \in Elements(t)
      <3>1. PICK k \in DOMAIN t : f[k] = i
        BY <1>3, <1>4, <2>2
      <3>2. t[k] = s[i]
        BY <1>4, <3>1
      <3>. QED BY <3>2 DEF Elements
    <2>3. Elements(t) \subseteq Elements(s) \intersect P
      BY <2>1 DEF Elements
    <2>4. Elements(s) \intersect P \subseteq Elements(t)
      BY <2>2 DEF Elements
    <2>. QED BY <2>3, <2>4
  <1>6. ASSUME Distinct(s)
        PROVE  Distinct(t)
    <2>1. ASSUME NEW k \in DOMAIN t, NEW l \in DOMAIN t, t[k] = t[l], k # l
          PROVE  FALSE
      <3>1. f[k] = f[l]
        BY <1>3, <1>4, <1>6, <2>1 DEF Distinct
      <3>2. k < l \/ l < k
        BY <1>3, <2>1
      <3>3. f[k] < f[l] \/ f[l] < f[k]
        BY <1>4, <3>2
      <3>4. f[k] \in Int
        BY <1>3, <1>4
      <3>. QED BY <3>1, <3>3, <3>4
    <2>. QED BY <2>1 DEF Distinct
  <1>7. ASSUME NEW x \in P, NEW y \in P, Precedes(s, x, y)
        PROVE  Precedes(t, x, y)
    <2>1. PICK i \in DOMAIN s, j \in DOMAIN s : i < j /\ s[i] = x /\ s[j] = y
      BY <1>7 DEF Precedes
    <2>2. i \in at /\ j \in at
      BY <1>3, <1>7, <2>1
    <2>3. PICK k \in DOMAIN t : f[k] = i
      BY <1>4, <2>2
    <2>4. PICK l \in DOMAIN t : f[l] = j
      BY <1>4, <2>2
    <2>5. k < l
      <3>1. l < k => j < i
        BY <1>4, <2>3, <2>4
      <3>2. l = k => j = i
        BY <2>3, <2>4
      <3>. QED BY <1>3, <2>1, <2>2, <3>1, <3>2
    <2>6. t[k] = x /\ t[l] = y
      BY <1>4, <2>1, <2>3, <2>4
    <2>. QED BY <2>5, <2>6 DEF Precedes
  <1>8. ASSUME NEW x, NEW y, Precedes(t, x, y)
        PROVE  Precedes(s, x, y)
    <2>1. PICK k \in DOMAIN t, l \in DOMAIN t : k < l /\ t[k] = x /\ t[l] = y
      BY <1>8 DEF Precedes
    <2>2. f[k] \in DOMAIN s /\ f[l] \in DOMAIN s /\ f[k] < f[l] /\ s[f[k]] = x /\ s[f[l]] = y
      BY <1>3, <1>4, <2>1
    <2>. QED BY <2>2 DEF Precedes
  <1>. QED BY <1>1, <1>5, <1>6, <1>7, <1>8 DEF t

\* A sequence has as many items as positions if, and only if, none comes twice.
LEMMA DistinctCount ==
  ASSUME NEW T, NEW s \in Seq(T)
  PROVE  /\ IsFiniteSet(Elements(s)) /\ Cardinality(Elements(s)) \in Nat
         /\ Cardinality(Elements(s)) <= Len(s)
         /\ Cardinality(Elements(s)) = Len(s) <=> Distinct(s)
  <1>1. DOMAIN s = 1 .. Len(s) /\ Len(s) \in Nat /\ s \in [1 .. Len(s) -> Elements(s)]
    BY DEF Elements
  <1>2. s \in Surjection(1 .. Len(s), Elements(s))
    BY <1>1 DEF Surjection, Elements
  <1>3. IsFiniteSet(1 .. Len(s)) /\ Cardinality(1 .. Len(s)) = Len(s)
    BY <1>1, FS_Interval
  <1>4. /\ IsFiniteSet(Elements(s))
        /\ Cardinality(Elements(s)) <= Cardinality(1 .. Len(s))
        /\ Cardinality(Elements(s)) = Cardinality(1 .. Len(s)) <=> s \in Injection(1 .. Len(s), Elements(s))
    BY <1>2, <1>3, FS_Surjection, Zenon
  <1>5. s \in Injection(1 .. Len(s), Elements(s)) <=> Distinct(s)
    BY <1>1 DEF Injection, IsInjective, Distinct
  <1>6. Cardinality(Elements(s)) \in Nat
    BY <1>4, FS_CardinalityType
  <1>. QED BY <1>3, <1>4, <1>5, <1>6

\* c holds what a does and then what b does.
HoldsBoth(c, a, b) ==
  /\ Elements(c) = Elements(a) \union Elements(b)
  /\ Distinct(c) <=> Distinct(a) /\ Distinct(b) /\ Elements(a) \intersect Elements(b) = {}
  /\ \A x \in Elements(a), y \in Elements(b) : Precedes(c, x, y)
  /\ \A x, y : Precedes(a, x, y) \/ Precedes(b, x, y) => Precedes(c, x, y)

\* What two sequences hold one after the other.
LEMMA ConcatHas ==
  ASSUME NEW T, NEW a \in Seq(T), NEW b \in Seq(T)
  PROVE  a \o b \in Seq(T) /\ HoldsBoth(a \o b, a, b)
  <1> DEFINE c == a \o b
  <1>1. /\ c \in Seq(T)
        /\ DOMAIN c = 1 .. Len(a) + Len(b)
        /\ Len(a) \in Nat /\ Len(b) \in Nat
        /\ \A i \in 1 .. Len(a) : c[i] = a[i]
        /\ \A i \in 1 .. Len(b) : c[Len(a) + i] = b[i]
        /\ \A i \in 1 .. Len(a) + Len(b) : i > Len(a) =>
             i - Len(a) \in 1 .. Len(b) /\ c[i] = b[i - Len(a)]
    BY Concat
  <1>2. DOMAIN a = 1 .. Len(a) /\ DOMAIN b = 1 .. Len(b)
    OBVIOUS
  <1> HIDE DEF c
  <1>3. ASSUME NEW i \in DOMAIN a
        PROVE  i \in DOMAIN c /\ c[i] = a[i] /\ i \in Int /\ i <= Len(a)
    BY <1>1, <1>2
  <1>4. ASSUME NEW i \in DOMAIN b
        PROVE  Len(a) + i \in DOMAIN c /\ c[Len(a) + i] = b[i] /\ i \in Int /\ i > 0
    BY <1>1, <1>2
  <1>5. ASSUME NEW i \in DOMAIN c
        PROVE  \/ i \in DOMAIN a /\ c[i] = a[i]
               \/ i - Len(a) \in DOMAIN b /\ c[i] = b[i - Len(a)] /\ i = Len(a) + (i - Len(a))
    <2>1. i \in 1 .. Len(a) + Len(b)
      BY <1>1
    <2>2. CASE i <= Len(a)
      <3>1. i \in 1 .. Len(a)
        BY <1>1, <2>1, <2>2
      <3>. QED BY <1>1, <1>2, <3>1
    <2>3. CASE i > Len(a)
      <3>1. i = Len(a) + (i - Len(a))
        BY <1>1, <2>1
      <3>. QED BY <1>1, <1>2, <2>1, <2>3, <3>1
    <2>. QED BY <1>1, <2>1, <2>2, <2>3
  <1>6. Elements(c) = Elements(a) \union Elements(b)
    <2>1. Elements(c) \subseteq Elements(a) \union Elements(b)
      BY <1>5 DEF Elements
    <2>2. Elements(a) \subseteq Elements(c)
      BY <1>3 DEF Elements
    <2>3. Elements(b) \subseteq Elements(c)
      BY <1>4 DEF Elements
    <2>. QED BY <2>1, <2>2, <2>3
  <1>7. ASSUME Distinct(c)
        PROVE  Distinct(a) /\ Distinct(b) /\ Elements(a) \intersect Elements(b) = {}
    <2>1. Distinct(a)
      BY <1>3, <1>7 DEF Distinct
    <2>2. Distinct(b)
      <3>1. ASSUME NEW i \in DOMAIN b, NEW j \in DOMAIN b, b[i] = b[j]
            PROVE  i = j
        <4>1. Len(a) + i = Len(a) + j
          BY <1>4, <1>7, <3>1 DEF Distinct
        <4>. QED BY <1>1, <1>4, <4>1
      <3>. QED BY <3>1 DEF Distinct
    <2>3. ASSUME NEW i \in DOMAIN a, NEW j \in DOMAIN b, a[i] = b[j]
          PROVE  FALSE
      <3>1. i = Len(a) + j
        BY <1>3, <1>4, <1>7, <2>3 DEF Distinct
      <3>. QED BY <1>1, <1>3, <1>4, <3>1
    <2>. QED BY <2>1, <2>2, <2>3 DEF Elements
  <1>8. ASSUME Distinct(a), Distinct(b), Elements(a) \intersect Elements(b) = {}
        PROVE  Distinct(c)
    <2>1. ASSUME NEW i \in DOMAIN a, NEW j \in DOMAIN b
          PROVE  a[i] # b[j]
      BY <1>8 DEF Elements
    <2>2. ASSUME NEW i \in DOMAIN c, NEW j \in DOMAIN c, c[i] = c[j]
          PROVE  i = j
      <3>1. CASE i \in DOMAIN a /\ c[i] = a[i] /\ j \in DOMAIN a /\ c[j] = a[j]
        BY <1>8, <2>2, <3>1 DEF Distinct
      <3>2. CASE /\ i - Len(a) \in DOMAIN b /\ c[i] = b[i - Len(a)] /\ i = Len(a) + (i - Len(a))
                 /\ j - Len(a) \in DOMAIN b /\ c[j] = b[j - Len(a)] /\ j = Len(a) + (j - Len(a))
        <4>1. i - Len(a) = j - Len(a)
          BY <1>8, <2>2, <3>2 DEF Distinct
        <4>. QED BY <3>2, <4>1
      <3>. QED BY <1>5, <2>1, <2>2, <3>1, <3>2
    <2>. QED BY <2>2 DEF Distinct
  <1>9. ASSUME NEW x \in Elements(a), NEW y \in Elements(b)
        PROVE  Precedes(c, x, y)
    <2>1. PICK i \in DOMAIN a : a[i] = x
      BY DEF Elements
    <2>2. PICK j \in DOMAIN b : b[j] = y
      BY DEF Elements
    <2>3. i < Len(a) + j
      BY <1>1, <1>3, <1>4
    <2>. QED BY <1>3, <1>4, <2>1, <2>2, <2>3 DEF Precedes
  <1>10. ASSUME NEW x, NEW y, Precedes(a, x, y)
         PROVE  Precedes(c, x, y)
    BY <1>3, <1>10 DEF Precedes
  <1>11. ASSUME NEW x, NEW y, Precedes(b, x, y)
         PROVE  Precedes(c, x, y)
    <2>1. PICK i \in DOMAIN b, j \in DOMAIN b : i < j /\ b[i] = x /\ b[j] = y
      BY <1>11 DEF Precedes
    <2>2. Len(a) + i < Len(a) + j
      BY <1>1, <1>4, <2>1
    <2>. QED BY <1>4, <2>1, <2>2 DEF Precedes
  <1>. QED BY <1>1, <1>6, <1>7, <1>8, <1>9, <1>10, <1>11 DEF c, HoldsBoth

\* One item more.
LEMMA AppendHas ==
  ASSUME NEW T, NEW s \in Seq(T), NEW e \in T
  PROVE  /\ Append(s, e) \in Seq(T)
         /\ Elements(Append(s, e)) = Elements(s) \union {e}
         /\ Distinct(Append(s, e)) <=> Distinct(s) /\ e \notin Elements(s)
         /\ \A x \in Elements(s) : Precedes(Append(s, e), x, e)
         /\ \A x, y : Precedes(s, x, y) => Precedes(Append(s, e), x, y)
  <1>1. <<e>> \in Seq(T) /\ Append(s, e) = s \o <<e>>
    OBVIOUS
  <1>2. Elements(<<e>>) = {e} /\ Distinct(<<e>>)
    BY DEF Elements, Distinct
  <1> DEFINE c == s \o <<e>>
  <1>3. c \in Seq(T) /\ HoldsBoth(c, s, <<e>>)
    <2>1. s \in Seq(T) /\ <<e>> \in Seq(T)
      BY <1>1
    <2>. QED BY <2>1, ConcatHas, Zenon
  <1> HIDE DEF c
  <1>4. Append(s, e) = c
    BY <1>1 DEF c
  <1>. QED BY <1>2, <1>3, <1>4 DEF HoldsBoth

\* a and b, with n items in a, are two parts of s.
Parts(T, s, n, a, b) ==
  /\ a \in Seq(T) /\ Len(a) = n
  /\ b \in Seq(T) /\ Len(b) = Len(s) - n
  /\ HoldsBoth(s, a, b)

\* The two parts of a sequence share it out.
LEMMA HalvesHave ==
  ASSUME NEW T, NEW s \in Seq(T), NEW n \in 0 .. Len(s)
  PROVE  Parts(T, s, n, SubSeq(s, 1, n), SubSeq(s, n + 1, Len(s)))
  <1> DEFINE a == SubSeq(s, 1, n)
             b == SubSeq(s, n + 1, Len(s))
  <1>1. CutInto(T, s, n, a, b)
    BY CutAt, Zenon
  <1> HIDE DEF a, b
  <1>2. /\ a \in Seq(T) /\ Len(a) = n /\ b \in Seq(T) /\ Len(b) = Len(s) - n
        /\ s = a \o b
    BY <1>1, Zenon DEF CutInto
  <1>3. HoldsBoth(a \o b, a, b)
    BY <1>2, ConcatHas, Zenon
  <1>4. HoldsBoth(s, a, b)
    BY <1>2, <1>3, Zenon
  <1>. QED BY <1>2, <1>4, Zenon DEF a, b, Parts

\* The sequence without an item.
LEMMA NoneHas ==
  /\ Elements(<<>>) = {} /\ Distinct(<<>>)
  /\ \A T : <<>> \in Seq(T)
  /\ \A T : \A s \in Seq(T) : Elements(s) = {} => s = <<>>
  <1>1. ASSUME NEW T, NEW s \in Seq(T), Elements(s) = {}
        PROVE  s = <<>>
    <2>1. Len(s) \in Nat /\ \A i \in 1 .. Len(s) : s[i] \in Elements(s)
      BY DEF Elements
    <2>2. Len(s) = 0
      <3>1. ~(1 \in 1 .. Len(s))
        BY <1>1, <2>1
      <3>. QED BY <2>1, <3>1
    <2>. QED BY <2>2
  <1>. QED BY <1>1 DEF Elements, Distinct

\* What lists the selected items in their order is the selection.
LEMMA PicksAreOnly ==
  ASSUME NEW T, NEW s \in Seq(T), NEW P, NEW t \in Seq(T), NEW f,
         PicksOut(t, s, {i \in DOMAIN s : s[i] \in P}, f)
  PROVE  t = Only(s, P)
  <1> DEFINE at == {i \in DOMAIN s : s[i] \in P}
             pick(k) == CHOOSE i \in at : Rank(at, i) = k
  <1>1. Len(s) \in Nat /\ at \in SUBSET (1 .. Len(s)) /\ Len(t) \in Nat
    OBVIOUS
  <1>2. Only(s, P) = [k \in 1 .. Cardinality(at) |-> s[pick(k)]]
    BY DEF Only
  <1>3. PicksOut(t, s, at, f)
    OBVIOUS
  <1> HIDE DEF at
  <1>4. /\ \A i \in at : i \in Int
        /\ IsFiniteSet(at)
        /\ \A i, j \in at : i < j => Rank(at, i) < Rank(at, j)
        /\ \A i \in at : Rank(at, i) \in Int
    <2>1. \A i \in at : i \in Int
      BY <1>1
    <2>2. /\ IsFiniteSet(at) /\ Cardinality(at) \in Nat
          /\ \A i \in at : Rank(at, i) \in 1 .. Cardinality(at)
          /\ \A i, j \in at : i < j => Rank(at, i) < Rank(at, j)
      BY <1>1, Ranks
    <2>. QED BY <2>1, <2>2
  <1>5. /\ f \in [1 .. Len(t) -> at]
        /\ \A k \in 1 .. Len(t) : t[k] = s[f[k]]
        /\ \A k, l \in 1 .. Len(t) : k < l => f[k] < f[l]
        /\ \A i \in at : \E k \in 1 .. Len(t) : f[k] = i
    BY <1>3, Zenon DEF PicksOut
  <1>6. ASSUME NEW k \in 0 .. Len(t)
        PROVE  Cardinality({f[l] : l \in 1 .. k}) = k
    <2> DEFINE A == {f[l] : l \in 1 .. k}
               g == [l \in 1 .. k |-> f[l]]
    <2>1. \A l \in 1 .. k : l \in 1 .. Len(t) /\ f[l] \in Int
      BY <1>1, <1>4, <1>5
    <2>2. \A l, n \in 1 .. k : f[l] = f[n] => l = n
      <3>1. ASSUME NEW l \in 1 .. k, NEW n \in 1 .. k, f[l] = f[n], l # n
            PROVE  FALSE
        <4>1. l < n \/ n < l
          BY <3>1
        <4>2. f[l] < f[n] \/ f[n] < f[l]
          BY <1>5, <2>1, <4>1
        <4>. QED BY <2>1, <3>1, <4>2
      <3>. QED BY <3>1
    <2>3. g \in Injection(1 .. k, A) /\ g \in Surjection(1 .. k, A)
      <3>1. g \in [1 .. k -> A]
        OBVIOUS
      <3>2. \A x \in A : \E l \in 1 .. k : g[l] = x
        OBVIOUS
      <3>3. \A l, n \in 1 .. k : g[l] = g[n] => l = n
        BY <2>2
      <3>. QED BY <3>1, <3>2, <3>3, Zenon DEF Injection, IsInjective, Surjection
    <2>4. IsFiniteSet(1 .. k) /\ Cardinality(1 .. k) = k
      BY <1>1, FS_Interval
    <2> HIDE DEF A, g
    <2>5. Cardinality(A) = Cardinality(1 .. k)
      BY <2>3, <2>4, FS_Surjection, Zenon
    <2>6. Cardinality(A) = k
      BY <2>4, <2>5
    <2>. QED BY <2>6 DEF A
  <1>7. Cardinality(at) = Len(t)
    <2>1. at = {f[l] : l \in 1 .. Len(t)}
      BY <1>5
    <2>. QED BY <1>1, <1>6, <2>1
  <1>8. ASSUME NEW k \in 1 .. Len(t)
        PROVE  f[k] \in at /\ Rank(at, f[k]) = k
    <2>1. \A l \in 1 .. Len(t) : f[l] \in at /\ f[l] \in Int /\ l \in Int
      BY <1>4, <1>5
    <2>2. \A l \in 1 .. Len(t) : f[l] <= f[k] <=> l \in 1 .. k
      <3>1. ASSUME NEW l \in 1 .. Len(t)
            PROVE  f[l] <= f[k] <=> l <= k
        <4>1. l < k => f[l] < f[k]
          BY <1>5
        <4>2. k < l => f[k] < f[l]
          BY <1>5
        <4>. QED BY <2>1, <4>1, <4>2
      <3>. QED BY <3>1
    <2>3. {j \in at : j <= f[k]} = {f[l] : l \in 1 .. k}
      <3>1. \A l \in 1 .. k : l \in 1 .. Len(t)
        BY <1>1
      <3>. QED BY <1>5, <2>1, <2>2, <3>1, Zenon
    <2>4. k \in 0 .. Len(t)
      BY <1>1
    <2>. QED BY <1>6, <2>1, <2>3, <2>4 DEF Rank
  <1>9. ASSUME NEW k \in 1 .. Len(t)
        PROVE  pick(k) = f[k]
    <2>1. \A i \in at : Rank(at, i) = k => i = f[k]
      <3>1. ASSUME NEW i \in at, Rank(at, i) = k
            PROVE  i = f[k]
        <4>1. ~(i < f[k]) /\ ~(f[k] < i)
          BY <1>4, <1>8, <3>1
        <4>. QED BY <1>4, <1>8, <4>1
      <3>. QED BY <3>1
    <2>2. pick(k) \in at /\ Rank(at, pick(k)) = k
      BY <1>8
    <2>. QED BY <2>1, <2>2, Zenon
  <1>10. Only(s, P) = [k \in 1 .. Len(t) |-> t[k]]
    <2> HIDE DEF pick
    <2>1. \A k \in 1 .. Len(t) : s[pick(k)] = t[k]
      BY <1>5, <1>9
    <2>. QED BY <1>2, <1>7, <2>1
  <1>. QED BY <1>10

\* Selecting from a sequence is selecting from its parts.
OnlyOfParts(a, b, P) == Only(a \o b, P) = Only(a, P) \o Only(b, P)

LEMMA OnlyConcat ==
  ASSUME NEW T, NEW a \in Seq(T), NEW b \in Seq(T), NEW P
  PROVE  OnlyOfParts(a, b, P)
  <1> DEFINE c == a \o b
             t == Only(a, P)
             u == Only(b, P)
             ata == {i \in DOMAIN a : a[i] \in P}
             atb == {i \in DOMAIN b : b[i] \in P}
             at  == {i \in DOMAIN c : c[i] \in P}
  <1>1. t \in Seq(T) /\ u \in Seq(T)
    BY OnlyPicks
  <1>2. PICK f : PicksOut(t, a, ata, f)
    BY OnlyPicks, Zenon
  <1>3. PICK g : PicksOut(u, b, atb, g)
    BY OnlyPicks, Zenon
  <1>4. /\ c \in Seq(T) /\ Len(a) \in Nat /\ Len(b) \in Nat
        /\ DOMAIN c = 1 .. Len(a) + Len(b)
        /\ \A i \in 1 .. Len(a) : c[i] = a[i]
        /\ \A i \in 1 .. Len(b) : c[Len(a) + i] = b[i]
        /\ \A i \in 1 .. Len(a) + Len(b) : i > Len(a) =>
              i - Len(a) \in 1 .. Len(b) /\ c[i] = b[i - Len(a)]
    BY Concat
  <1> DEFINE v == t \o u
  <1>5. /\ v \in Seq(T) /\ Len(t) \in Nat /\ Len(u) \in Nat /\ Len(v) = Len(t) + Len(u)
        /\ \A i \in 1 .. Len(t) : v[i] = t[i]
        /\ \A i \in 1 .. Len(u) : v[Len(t) + i] = u[i]
        /\ \A i \in 1 .. Len(t) + Len(u) : i > Len(t) =>
              i - Len(t) \in 1 .. Len(u) /\ v[i] = u[i - Len(t)]
    BY <1>1, Concat
  <1>6. /\ \A i \in ata : i \in 1 .. Len(a) /\ a[i] \in P
        /\ \A i \in 1 .. Len(a) : a[i] \in P => i \in ata
        /\ \A i \in atb : i \in 1 .. Len(b) /\ b[i] \in P
        /\ \A i \in 1 .. Len(b) : b[i] \in P => i \in atb
    OBVIOUS
  <1>7. /\ \A i \in at : i \in 1 .. Len(a) + Len(b) /\ c[i] \in P
        /\ \A i \in 1 .. Len(a) + Len(b) : c[i] \in P => i \in at
    BY <1>4
  <1> HIDE DEF c, t, u, v, ata, atb, at
  <1>8. /\ \A k \in 1 .. Len(t) : f[k] \in ata /\ t[k] = a[f[k]]
        /\ \A k, l \in 1 .. Len(t) : k < l => f[k] < f[l]
        /\ \A i \in ata : \E k \in 1 .. Len(t) : f[k] = i
    BY <1>2 DEF PicksOut
  <1>9. /\ \A k \in 1 .. Len(u) : g[k] \in atb /\ u[k] = b[g[k]]
        /\ \A k, l \in 1 .. Len(u) : k < l => g[k] < g[l]
        /\ \A i \in atb : \E k \in 1 .. Len(u) : g[k] = i
    BY <1>3 DEF PicksOut
  <1> DEFINE h == [k \in 1 .. Len(v) |-> IF k <= Len(t) THEN f[k] ELSE Len(a) + g[k - Len(t)]]
  <1>10. ASSUME NEW k \in 1 .. Len(v)
         PROVE  \/ /\ k \in 1 .. Len(t) /\ h[k] = f[k] /\ f[k] \in 1 .. Len(a)
                   /\ h[k] \in at /\ v[k] = c[h[k]]
                \/ /\ k > Len(t) /\ k - Len(t) \in 1 .. Len(u) /\ h[k] = Len(a) + g[k - Len(t)]
                   /\ g[k - Len(t)] \in 1 .. Len(b)
                   /\ h[k] \in at /\ v[k] = c[h[k]]
    <2>1. CASE k <= Len(t)
      <3>1. k \in 1 .. Len(t) /\ h[k] = f[k]
        BY <1>5, <2>1
      <3>2. f[k] \in 1 .. Len(a) /\ a[f[k]] \in P /\ c[f[k]] = a[f[k]]
        BY <1>4, <1>6, <1>8, <3>1
      <3>3. f[k] \in at
        BY <1>4, <1>7, <3>2
      <3>4. v[k] = c[f[k]]
        BY <1>5, <1>8, <3>1, <3>2
      <3>. QED BY <3>1, <3>2, <3>3, <3>4
    <2>2. CASE k > Len(t)
      <3> DEFINE n == k - Len(t)
      <3>1. n \in 1 .. Len(u) /\ h[k] = Len(a) + g[n] /\ v[k] = u[n]
        BY <1>5, <2>2
      <3> HIDE DEF n
      <3>2. g[n] \in 1 .. Len(b) /\ b[g[n]] \in P /\ c[Len(a) + g[n]] = b[g[n]]
        BY <1>4, <1>6, <1>9, <3>1
      <3>3. Len(a) + g[n] \in at
        BY <1>4, <1>7, <3>2
      <3>4. v[k] = c[Len(a) + g[n]]
        BY <1>9, <3>1, <3>2
      <3>5. k > Len(t) /\ n \in 1 .. Len(u) /\ h[k] = Len(a) + g[n]
              /\ g[n] \in 1 .. Len(b) /\ h[k] \in at /\ v[k] = c[h[k]]
        BY <2>2, <3>1, <3>2, <3>3, <3>4
      <3>. QED BY <3>5 DEF n
    <2>. QED BY <1>5, <2>1, <2>2
  <1>11. h \in [1 .. Len(v) -> at]
    BY <1>10
  <1>12. ASSUME NEW k \in 1 .. Len(v), NEW l \in 1 .. Len(v), k < l
         PROVE  h[k] < h[l]
    <2>0. k \in Int /\ l \in Int /\ Len(t) \in Int /\ Len(a) \in Int
      BY <1>4, <1>5
    <2>1. CASE l \in 1 .. Len(t) /\ h[l] = f[l]
      <3>1. k \in 1 .. Len(t) /\ h[k] = f[k]
        BY <1>10, <1>12, <2>0, <2>1
      <3>. QED BY <1>8, <1>12, <2>1, <3>1
    <2>2. CASE /\ l > Len(t) /\ l - Len(t) \in 1 .. Len(u) /\ h[l] = Len(a) + g[l - Len(t)]
               /\ g[l - Len(t)] \in 1 .. Len(b)
      <3>1. CASE h[k] = f[k] /\ f[k] \in 1 .. Len(a)
        BY <2>0, <2>2, <3>1
      <3>2. CASE /\ k - Len(t) \in 1 .. Len(u) /\ h[k] = Len(a) + g[k - Len(t)]
                 /\ g[k - Len(t)] \in 1 .. Len(b)
        <4> DEFINE n == k - Len(t)
                   o == l - Len(t)
        <4>1. n < o
          BY <1>12, <2>0
        <4> HIDE DEF n, o
        <4>2. n \in 1 .. Len(u) /\ o \in 1 .. Len(u)
          BY <2>2, <3>2 DEF n, o
        <4>3. g[n] < g[o]
          BY <1>9, <4>1, <4>2
        <4>4. g[n] \in Int /\ g[o] \in Int /\ h[k] = Len(a) + g[n] /\ h[l] = Len(a) + g[o]
          BY <2>2, <3>2 DEF n, o
        <4>. QED BY <2>0, <4>3, <4>4
      <3>. QED BY <1>10, <3>1, <3>2
    <2>. QED BY <1>10, <2>1, <2>2
  <1>13. ASSUME NEW i \in at
         PROVE  \E k \in 1 .. Len(v) : h[k] = i
    <2>1. i \in 1 .. Len(a) + Len(b) /\ c[i] \in P
      BY <1>7
    <2>2. CASE i <= Len(a)
      <3>0. i \in 1 .. Len(a)
        BY <1>4, <2>1, <2>2
      <3>1. i \in ata
        BY <1>4, <1>6, <2>1, <3>0
      <3>2. PICK k \in 1 .. Len(t) : f[k] = i
        BY <1>8, <3>1
      <3>3. k \in 1 .. Len(v) /\ h[k] = i
        BY <1>5, <3>2
      <3>. QED BY <3>3
    <2>3. CASE i > Len(a)
      <3> DEFINE j == i - Len(a)
      <3>1. j \in 1 .. Len(b) /\ c[i] = b[j] /\ i = Len(a) + j
        BY <1>4, <2>1, <2>3
      <3> HIDE DEF j
      <3>2. j \in atb
        BY <1>6, <2>1, <3>1
      <3>3. PICK n \in 1 .. Len(u) : g[n] = j
        BY <1>9, <3>2
      <3> DEFINE k == Len(t) + n
      <3>4. k \in 1 .. Len(v) /\ ~(k <= Len(t)) /\ k - Len(t) = n
        BY <1>5
      <3> HIDE DEF k
      <3>5. h[k] = Len(a) + g[n]
        BY <3>4
      <3>. QED BY <3>1, <3>3, <3>4, <3>5
    <2>. QED BY <1>4, <2>1, <2>2, <2>3
  <1> HIDE DEF h
  <1>14. PicksOut(v, c, at, h)
    <2>1. \A k \in 1 .. Len(v) : v[k] = c[h[k]]
      BY <1>10
    <2>2. \A k, l \in 1 .. Len(v) : k < l => h[k] < h[l]
      BY <1>12
    <2>3. \A i \in at : \E k \in 1 .. Len(v) : h[k] = i
      BY <1>13
    <2>. QED BY <1>11, <2>1, <2>2, <2>3, Zenon DEF PicksOut
  <1>15. v = Only(c, P)
    BY <1>4, <1>5, <1>14, PicksAreOnly DEF at
  <1>. QED BY <1>15 DEF v, c, t, u, OnlyOfParts

\* A selection that takes everything, and one that takes nothing.
LEMMA OnlyExtremes ==
  ASSUME NEW T, NEW s \in Seq(T), NEW P
  PROVE  /\ Elements(s) \subseteq P => Only(s, P) = s
         /\ Elements(s) \intersect P = {} => Only(s, P) = <<>>
  <1>1. ASSUME Elements(s) \subseteq P
        PROVE  Only(s, P) = s
    <2> DEFINE f == [k \in 1 .. Len(s) |-> k]
               at == {i \in DOMAIN s : s[i] \in P}
    <2>1. at = 1 .. Len(s)
      BY <1>1 DEF Elements
    <2>2. PicksOut(s, s, at, f)
      <3>1. f \in [1 .. Len(s) -> at]
        BY <2>1
      <3>2. \A i \in at : \E k \in 1 .. Len(s) : f[k] = i
        BY <2>1
      <3>. QED BY <3>1, <3>2 DEF PicksOut
    <2> HIDE DEF f
    <2>. QED BY <2>2, PicksAreOnly
  <1>2. ASSUME Elements(s) \intersect P = {}
        PROVE  Only(s, P) = <<>>
    <2>1. Only(s, P) \in Seq(T) /\ Elements(Only(s, P)) = {}
      BY <1>2, OnlyHas
    <2>. QED BY <2>1, NoneHas, Zenon
  <1>. QED BY <1>1, <1>2

-------------------------------------------------------------------------------
(* Remainders *)

\* A remainder is a number below the divisor.
LEMMA ModRange ==
  ASSUME NEW m \in Nat \ {0}, NEW x \in Int
  PROVE  x % m \in 0 .. m - 1
  OBVIOUS

\* Division with remainder.
LEMMA DivMod ==
  ASSUME NEW m \in Nat \ {0}, NEW x \in Int
  PROVE  x \div m \in Int /\ x = m * (x \div m) + (x % m)
  OBVIOUS

\* There is one quotient and one remainder.
LEMMA DivModUnique ==
  ASSUME NEW m \in Nat \ {0}, NEW p \in Int, NEW q \in Int,
         NEW r \in 0 .. m - 1, NEW s \in 0 .. m - 1, m * p + r = m * q + s
  PROVE  r = s
  <1>1. m * (q - p) = r - s
    OBVIOUS
  <1>2. CASE p < q
    <2>1. m * (q - p) >= m
      BY <1>2
    <2>. QED BY <1>1, <2>1
  <1>3. CASE q < p
    <2>1. m * (p - q) >= m
      BY <1>3
    <2>2. m * (p - q) = s - r
      OBVIOUS
    <2>. QED BY <2>1, <2>2
  <1>4. CASE p = q
    BY <1>4
  <1>. QED BY <1>2, <1>3, <1>4

\* x % m is the r in the range of remainders that differs from x by a multiple.
LEMMA ModIs ==
  ASSUME NEW m \in Nat \ {0}, NEW x \in Int, NEW q \in Int,
         NEW r \in 0 .. m - 1, x = m * q + r
  PROVE  x % m = r
  <1>1. x = m * (x \div m) + (x % m) /\ x \div m \in Int
    BY DivMod
  <1>2. x % m \in 0 .. m - 1
    BY ModRange
  <1>. QED BY <1>1, <1>2, DivModUnique

\* A remainder may be taken before an addition.
LEMMA ModAdd ==
  ASSUME NEW m \in Nat \ {0}, NEW x \in Int, NEW y \in Int
  PROVE  ((x % m) + y) % m = (x + y) % m
  <1> DEFINE p == x \div m
             z == x + y
             q == z \div m
  <1>1. p \in Int /\ x = m * p + (x % m) /\ x % m \in Int
    BY DivMod, ModRange
  <1>2. q \in Int /\ z = m * q + (z % m) /\ z % m \in 0 .. m - 1
    <2>1. z \in Int
      OBVIOUS
    <2>. HIDE DEF z
    <2>. QED BY <2>1, DivMod, ModRange
  <1>3. (x % m) + y = m * (q - p) + (z % m)
    <2>1. m * (q - p) = m * q - m * p
      BY <1>1, <1>2
    <2>. QED BY <1>1, <1>2, <2>1
  <1>4. (x % m) + y \in Int /\ q - p \in Int
    BY <1>1, <1>2
  <1>. HIDE DEF p, q
  <1>5. ((x % m) + y) % m = z % m
    BY <1>2, <1>3, <1>4, ModIs
  <1>. QED BY <1>5

\* And before a subtraction.
LEMMA ModSub ==
  ASSUME NEW m \in Nat \ {0}, NEW x \in Int, NEW y \in Int
  PROVE  (y - (x % m)) % m = (y - x) % m
  <1> DEFINE p == x \div m
             z == y - x
             q == z \div m
  <1>1. p \in Int /\ x = m * p + (x % m) /\ x % m \in Int
    BY DivMod, ModRange
  <1>2. q \in Int /\ z = m * q + (z % m) /\ z % m \in 0 .. m - 1
    <2>1. z \in Int
      OBVIOUS
    <2>. HIDE DEF z
    <2>. QED BY <2>1, DivMod, ModRange
  <1>3. y - (x % m) = m * (q + p) + (z % m)
    <2>1. m * (q + p) = m * q + m * p
      BY <1>1, <1>2
    <2>. QED BY <1>1, <1>2, <2>1
  <1>4. y - (x % m) \in Int /\ q + p \in Int
    BY <1>1, <1>2
  <1>. HIDE DEF p, q
  <1>5. (y - (x % m)) % m = z % m
    BY <1>2, <1>3, <1>4, ModIs
  <1>. QED BY <1>5

\* A number in the range is its own remainder.
LEMMA ModSmall ==
  ASSUME NEW m \in Nat \ {0}, NEW x \in 0 .. m - 1
  PROVE  x % m = x
  <1>1. x = m * 0 + x
    OBVIOUS
  <1>. QED BY <1>1, ModIs

\* Multiplication distributes and associates: with the factors as constants the
\* solver sees it.
LEMMA Distribute ==
  ASSUME NEW n \in Int, NEW k \in Int, NEW p \in Int, NEW q \in Int
  PROVE  n * (q - k * p) = n * q - (n * k) * p
  OBVIOUS

\* Reducing modulo a multiple of n first does not change the remainder by n: the
\* reason why masking a wrapped index still finds the slot.
LEMMA ModOfMod ==
  ASSUME NEW n \in Nat \ {0}, NEW m \in Nat \ {0}, m % n = 0, NEW x \in Int
  PROVE  (x % m) % n = x % n
  <1>0. m \div n \in Int /\ m = n * (m \div n) + (m % n)
    BY DivMod
  <1>1. PICK k \in Int : m = n * k
    BY <1>0
  <1>2. PICK p \in Int : x = m * p + (x % m)
    BY DivMod
  <1>3. PICK q \in Int : x = n * q + (x % n)
    BY DivMod
  <1>4. x % m \in Int /\ x % n \in 0 .. n - 1
    BY ModRange
  <1>5. m * p = (n * k) * p
    BY <1>1
  <1>6. n * (q - k * p) = n * q - (n * k) * p
    BY Distribute
  <1>7. m * p \in Int /\ n * q \in Int /\ n * (q - k * p) = n * q - m * p
    BY <1>5, <1>6
  <1>8. x % m = n * (q - k * p) + (x % n)
    BY <1>2, <1>3, <1>4, <1>7
  <1>9. q - k * p \in Int
    OBVIOUS
  <1>. QED BY <1>4, <1>8, <1>9, ModIs

-------------------------------------------------------------------------------
(* Loops *)

\* f counts the states that a loop goes through, G[k] being the body in round k.
RunsThrough(f, G, s, n) == f = [k \in 0 .. n |-> IF k = 0 THEN s ELSE G[k][f[k - 1]]]

\* A loop whose bodies stay in a set of states goes through n rounds.
LEMMA RoundsRun ==
  ASSUME NEW S, NEW n \in Nat, NEW G \in [1 .. n -> [S -> S]], NEW s \in S
  PROVE  \E f \in [0 .. n -> S] : RunsThrough(f, G, s, n)
  <1> DEFINE T == {m \in Nat : m <= n => \E f \in [0 .. m -> S] : RunsThrough(f, G, s, m)}
  <1>1. 0 \in T
    <2> DEFINE f == [k \in 0 .. 0 |-> s]
    <2>1. f \in [0 .. 0 -> S]
      OBVIOUS
    <2>2. RunsThrough(f, G, s, 0)
      BY DEF RunsThrough
    <2>. QED BY <2>1, <2>2
  <1>2. ASSUME NEW m \in Nat, m \in T, m + 1 <= n
        PROVE  m + 1 \in T
    <2>0. m <= n /\ m + 1 \in 1 .. n
      BY <1>2
    <2>1. PICK f \in [0 .. m -> S] : RunsThrough(f, G, s, m)
      BY <1>2, <2>0
    <2> DEFINE h == [k \in 0 .. m + 1 |-> IF k = m + 1 THEN G[m + 1][f[m]] ELSE f[k]]
    <2>2. h \in [0 .. m + 1 -> S]
      <3>1. G[m + 1] \in [S -> S] /\ f[m] \in S
        BY <2>0
      <3>. QED BY <3>1
    <2>3. \A k \in 0 .. m : f[k] = IF k = 0 THEN s ELSE G[k][f[k - 1]]
      BY <2>1, Zenon DEF RunsThrough
    <2>4. ASSUME NEW k \in 0 .. m + 1
          PROVE  h[k] = IF k = 0 THEN s ELSE G[k][h[k - 1]]
      <3>1. CASE k = m + 1
        <4>1. k # 0 /\ k - 1 = m /\ h[m] = f[m] /\ h[k] = G[m + 1][f[m]]
          BY <3>1
        <4> HIDE DEF h
        <4>. QED BY <3>1, <4>1
      <3>2. CASE k \in 0 .. m
        <4>1. h[k] = f[k] /\ (k # 0 => h[k - 1] = f[k - 1])
          BY <3>2
        <4> HIDE DEF h
        <4>. QED BY <2>3, <3>2, <4>1
      <3>. QED BY <3>1, <3>2
    <2>5. RunsThrough(h, G, s, m + 1)
      <3>1. h = [k \in 0 .. m + 1 |-> h[k]]
        OBVIOUS
      <3> HIDE DEF h
      <3>. QED BY <2>4, <3>1, Zenon DEF RunsThrough
    <2> HIDE DEF h
    <2>. QED BY <2>2, <2>5
  <1>3. \A m \in Nat : m \in T => m + 1 \in T
    BY <1>2
  <1> HIDE DEF T
  <1>4. n \in T
    BY <1>1, <1>3, Induction, Zenon
  <1>. QED BY <1>4 DEF T

\* The same with one body for all rounds.
Runs(f, G, s, n) == f = [k \in 0 .. n |-> IF k = 0 THEN s ELSE G[f[k - 1]]]

LEMMA LoopRuns ==
  ASSUME NEW S, NEW G \in [S -> S], NEW s \in S, NEW n \in Nat
  PROVE  \E f \in [0 .. n -> S] : Runs(f, G, s, n)
  <1> DEFINE H == [k \in 1 .. n |-> G]
  <1>1. PICK f \in [0 .. n -> S] : RunsThrough(f, H, s, n)
    <2>1. H \in [1 .. n -> [S -> S]]
      OBVIOUS
    <2> HIDE DEF H
    <2>. QED BY <2>1, RoundsRun
  <1>2. \A k \in 0 .. n : f[k] = IF k = 0 THEN s ELSE H[k][f[k - 1]]
    BY <1>1, Zenon DEF RunsThrough
  <1>3. \A k \in 0 .. n : f[k] = IF k = 0 THEN s ELSE G[f[k - 1]]
    BY <1>2
  <1>4. f = [k \in 0 .. n |-> f[k]]
    OBVIOUS
  <1>5. Runs(f, G, s, n)
    BY <1>3, <1>4, Zenon DEF Runs
  <1>. QED BY <1>5

\* What holds at the start and is kept by every round holds after each of them.
LEMMA RoundsKeep ==
  ASSUME NEW S, NEW n \in Nat, NEW f, f[0] \in S,
         \A k \in 1 .. n : f[k - 1] \in S => f[k] \in S
  PROVE  \A k \in 0 .. n : f[k] \in S
  <1> DEFINE T == {m \in Nat : m <= n => f[m] \in S}
  <1>1. 0 \in T
    OBVIOUS
  <1>2. ASSUME NEW m \in Nat, m \in T
        PROVE  m + 1 \in T
    <2>1. m + 1 <= n => m + 1 \in 1 .. n /\ m + 1 - 1 = m /\ m <= n
      OBVIOUS
    <2>. QED BY <1>2, <2>1
  <1> HIDE DEF T
  <1>3. \A m \in Nat : m \in T
    BY <1>1, <1>2, Induction, Zenon
  <1>. QED BY <1>3 DEF T

\* The body G only adds to a subset of U; it adds nothing to X.
Adds(G, U) == G \in [SUBSET U -> SUBSET U] /\ \A X \in SUBSET U : X \subseteq G[X]
Complete(X, G, U) == X \in SUBSET U /\ G[X] = X

\* A body that only adds adds nothing more after as many rounds as U has members.
LEMMA ChainStops ==
  ASSUME NEW U, IsFiniteSet(U), NEW G, Adds(G, U),
         NEW s \in SUBSET U, NEW f, Runs(f, G, s, Cardinality(U))
  PROVE  Complete(f[Cardinality(U)], G, U)
  <1>0. G \in [SUBSET U -> SUBSET U] /\ \A X \in SUBSET U : X \subseteq G[X]
    BY DEF Adds
  <1> DEFINE N == Cardinality(U)
  <1>1. N \in Nat
    BY FS_CardinalityType
  <1>2. f[0] = s /\ \A k \in 1 .. N : f[k] = G[f[k - 1]]
    <2>1. \A k \in 0 .. N : f[k] = IF k = 0 THEN s ELSE G[f[k - 1]]
      BY Zenon DEF Runs
    <2> HIDE DEF N
    <2>. QED BY <1>1, <2>1
  <1> HIDE DEF N
  <1>3. \A k \in 0 .. N : f[k] \in SUBSET U
    <2>1. \A k \in 1 .. N : f[k - 1] \in SUBSET U => f[k] \in SUBSET U
      BY <1>0, <1>2
    <2>. QED BY <1>1, <1>2, <2>1, RoundsKeep
  <1> DEFINE T == {k \in Nat : k <= N => k <= Cardinality(f[k]) \/ G[f[k]] = f[k]}
  <1>4. 0 \in T
    <2>1. f[0] \in SUBSET U
      BY <1>2
    <2>2. Cardinality(f[0]) \in Nat
      BY <2>1, FS_Subset, FS_CardinalityType
    <2>. QED BY <2>2
  <1>5. ASSUME NEW k \in Nat, k \in T, k + 1 <= N
        PROVE  k + 1 \in T
    <2>1. /\ k \in 0 .. N /\ k + 1 \in 0 .. N /\ k + 1 \in 1 .. N /\ k + 1 - 1 = k
          /\ k <= N
      BY <1>1, <1>5
    <2>2. f[k + 1] = G[f[k]] /\ f[k] \in SUBSET U /\ f[k + 1] \in SUBSET U
      BY <1>2, <1>3, <2>1
    <2>3. f[k] \subseteq f[k + 1]
      BY <1>0, <2>2
    <2>4. CASE G[f[k]] = f[k]
      BY <2>2, <2>4
    <2>5. CASE G[f[k]] # f[k]
      <3>1. k <= Cardinality(f[k])
        BY <1>5, <2>1, <2>5
      <3>2. IsFiniteSet(f[k]) /\ IsFiniteSet(f[k + 1])
        BY <2>2, FS_Subset
      <3>3. Cardinality(f[k]) \in Nat /\ Cardinality(f[k + 1]) \in Nat
        BY <3>2, FS_CardinalityType
      <3>4. Cardinality(f[k]) <= Cardinality(f[k + 1]) /\ Cardinality(f[k]) # Cardinality(f[k + 1])
        BY <2>2, <2>3, <2>5, <3>2, FS_Subset
      <3>. QED BY <3>1, <3>3, <3>4
    <2>. QED BY <2>4, <2>5
  <1>6. \A k \in Nat : k \in T => k + 1 \in T
    BY <1>5
  <1> HIDE DEF T
  <1>7. N \in T
    BY <1>1, <1>4, <1>6, Induction, Zenon
  <1>8. f[N] \in SUBSET U
    BY <1>1, <1>3
  <1>9. CASE N <= Cardinality(f[N])
    <2>1. IsFiniteSet(f[N]) /\ Cardinality(f[N]) <= N /\ (N = Cardinality(f[N]) => U = f[N])
      BY <1>8, FS_Subset DEF N
    <2>2. Cardinality(f[N]) \in Nat
      BY <2>1, FS_CardinalityType
    <2>3. U = f[N]
      BY <1>1, <1>9, <2>1, <2>2
    <2>4. G[U] = U
      BY <1>0
    <2>. QED BY <2>3, <2>4 DEF N, Complete
  <1>10. CASE G[f[N]] = f[N]
    BY <1>8, <1>10 DEF N, Complete
  <1>11. N <= Cardinality(f[N]) \/ G[f[N]] = f[N]
    BY <1>1, <1>7 DEF T
  <1>. QED BY <1>9, <1>10, <1>11
===============================================================================
