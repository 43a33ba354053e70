----------------------------- MODULE FanIn_proofs -----------------------------
(***************************************************************************)
(* Proofs about FanIn: for any number of workers and mergers, sequenced or    *)
(* not, every item goes one way, once and in order (Delivery); what is        *)
(* buffered is early (BufferIsAhead); and in the loop dispatch, join, flush    *)
(* the rounds come out in order and nothing stays behind (LoopEmitsByRound,    *)
(* LoopDelivers).                                                             *)
(*                                                                         *)
(* A worker's way is cut in two: what its merger carries, put out or          *)
(* buffered, and what the worker has in its slot and ring.  Every action      *)
(* then takes a sequence from one part to the other, or drops one from the    *)
(* middle; the lemmas on joined batches say what a buffer is for that.        *)
(***************************************************************************)
EXTENDS FanIn, DataFacts

-------------------------------------------------------------------------------
(* Joining batches *)

\* f joins the batches of a buffer from the number lo on, one by one.
Joins(f, buffer, lo, n) ==
  f = [k \in 0 .. n |-> IF k = 0 THEN <<>> ELSE f[k - 1] \o buffer[lo + k - 1]]

\* The batches of a buffer can be joined one by one.
LEMMA JoinsExist ==
  ASSUME NEW T, NEW buffer, NEW lo \in Int, NEW n \in Nat,
         \A k \in 1 .. n : buffer[lo + k - 1] \in Seq(T)
  PROVE  \E f \in [0 .. n -> Seq(T)] : Joins(f, buffer, lo, n)
  <1> DEFINE A == {m \in Nat : m <= n => \E f \in [0 .. m -> Seq(T)] : Joins(f, buffer, lo, m)}
  <1>1. 0 \in A
    <2> DEFINE f == [k \in 0 .. 0 |-> <<>>]
    <2>1. f \in [0 .. 0 -> Seq(T)]
      OBVIOUS
    <2>2. f = [k \in 0 .. 0 |-> IF k = 0 THEN <<>> ELSE f[k - 1] \o buffer[lo + k - 1]]
      OBVIOUS
    <2> HIDE DEF f
    <2>. QED BY <2>1, <2>2 DEF Joins
  <1>2. ASSUME NEW m \in Nat, m \in A
        PROVE  m + 1 \in A
    <2>1. ASSUME m + 1 <= n
          PROVE  \E f \in [0 .. m + 1 -> Seq(T)] : Joins(f, buffer, lo, m + 1)
      <3>1. PICK f \in [0 .. m -> Seq(T)] : Joins(f, buffer, lo, m)
        BY <1>2, <2>1
      <3> DEFINE b == buffer[lo + (m + 1) - 1]
                 h == [k \in 0 .. m + 1 |-> IF k = m + 1 THEN f[m] \o b ELSE f[k]]
      <3>2. b \in Seq(T) /\ f[m] \in Seq(T)
        <4>1. m + 1 \in 1 .. n /\ m \in 0 .. m
          BY <2>1
        <4>. QED BY <4>1
      <3>3. f[m] \o b \in Seq(T)
        <4> HIDE DEF b
        <4>. QED BY <3>2
      <3>4. h \in [0 .. m + 1 -> Seq(T)]
        <4> HIDE DEF b
        <4>. QED BY <3>3
      <3>5. \A k \in 0 .. m : f[k] = IF k = 0 THEN <<>> ELSE f[k - 1] \o buffer[lo + k - 1]
        BY <3>1, Zenon DEF Joins
      <3>6. ASSUME NEW k \in 0 .. m + 1
            PROVE  h[k] = IF k = 0 THEN <<>> ELSE h[k - 1] \o buffer[lo + k - 1]
        <4>1. CASE k = m + 1
          <5>1. h[k] = f[m] \o b /\ k # 0 /\ k - 1 = m /\ h[m] = f[m]
            BY <4>1
          <5>. QED BY <4>1, <5>1
        <4>2. CASE k # m + 1
          <5>1. /\ k \in 0 .. m /\ h[k] = f[k]
                /\ k # 0 => k - 1 \in 0 .. m + 1 /\ k - 1 # m + 1
            BY <4>2
          <5>2. k # 0 => h[k - 1] = f[k - 1]
            BY <5>1
          <5> HIDE DEF h
          <5>. QED BY <3>5, <5>1, <5>2, Zenon
        <4>. QED BY <4>1, <4>2
      <3>7. h = [k \in 0 .. m + 1 |-> h[k]]
        OBVIOUS
      <3> HIDE DEF h
      <3>8. Joins(h, buffer, lo, m + 1)
        BY <3>6, <3>7, Zenon DEF Joins
      <3>. QED BY <3>4, <3>8
    <2>. QED BY <2>1
  <1> HIDE DEF A
  <1>3. n \in A
    BY <1>1, <1>2, Induction, Zenon
  <1>. QED BY <1>3 DEF A

\* Two ways of joining batches agree as far as both go.
LEMMA JoinsAgree ==
  ASSUME NEW buffer, NEW lo, NEW n \in Nat, NEW m \in 0 .. n, NEW f, NEW g,
         Joins(f, buffer, lo, n), Joins(g, buffer, lo, m)
  PROVE  g[m] = f[m]
  <1> DEFINE A == {k \in Nat : k <= m => g[k] = f[k]}
  <1>1. /\ \A k \in 0 .. n : f[k] = IF k = 0 THEN <<>> ELSE f[k - 1] \o buffer[lo + k - 1]
        /\ \A k \in 0 .. m : g[k] = IF k = 0 THEN <<>> ELSE g[k - 1] \o buffer[lo + k - 1]
    BY Zenon DEF Joins
  <1>2. 0 \in A
    BY <1>1
  <1>3. ASSUME NEW k \in Nat, k \in A
        PROVE  k + 1 \in A
    <2>1. ASSUME k + 1 <= m
          PROVE  g[k + 1] = f[k + 1]
      <3>1. k + 1 \in 0 .. n /\ k + 1 \in 0 .. m /\ k + 1 # 0 /\ (k + 1) - 1 = k /\ k <= m
        BY <2>1
      <3>2. g[k] = f[k]
        BY <1>3, <3>1
      <3>3. f[k + 1] = f[k] \o buffer[lo + (k + 1) - 1]
        BY <1>1, <3>1, Zenon
      <3>4. g[k + 1] = g[k] \o buffer[lo + (k + 1) - 1]
        BY <1>1, <3>1, Zenon
      <3>. QED BY <3>2, <3>3, <3>4, Zenon
    <2>. QED BY <2>1
  <1> HIDE DEF A
  <1>4. \A k \in Nat : k \in A
    BY <1>2, <1>3, Induction, Zenon
  <1>5. m \in Nat /\ m <= m
    OBVIOUS
  <1>. QED BY <1>4, <1>5 DEF A

\* One batch more.
LEMMA JoinedIs ==
  ASSUME NEW T, NEW buffer, NEW lo \in Int, NEW n \in Nat,
         \A k \in 1 .. n : buffer[lo + k - 1] \in Seq(T)
  PROVE  /\ Joined(buffer, lo, 0) = <<>>
         /\ \A k \in 0 .. n : Joined(buffer, lo, k) \in Seq(T)
         /\ \A k \in 1 .. n : Joined(buffer, lo, k) = Joined(buffer, lo, k - 1) \o buffer[lo + k - 1]
  <1>1. PICK f \in [0 .. n -> Seq(T)] : Joins(f, buffer, lo, n)
    BY JoinsExist, Zenon
  <1>2. \A k \in 0 .. n : f[k] = IF k = 0 THEN <<>> ELSE f[k - 1] \o buffer[lo + k - 1]
    BY <1>1, Zenon DEF Joins
  <1>3. ASSUME NEW m \in 0 .. n
        PROVE  Joined(buffer, lo, m) = f[m]
    <2> DEFINE g == CHOOSE g : Joins(g, buffer, lo, m)
    <2>0. m \in Nat /\ \A k \in 1 .. m : k \in 1 .. n
      OBVIOUS
    <2>1. \A k \in 1 .. m : buffer[lo + k - 1] \in Seq(T)
      BY <2>0, Zenon
    <2>2. \E h : Joins(h, buffer, lo, m)
      <3>1. \E h \in [0 .. m -> Seq(T)] : Joins(h, buffer, lo, m)
        BY <2>0, <2>1, JoinsExist, Zenon
      <3>. QED BY <3>1
    <2>3. Joins(g, buffer, lo, m)
      BY <2>2, Zenon
    <2>4. Joined(buffer, lo, m) = g[m]
      BY Zenon DEF Joined, Joins
    <2> HIDE DEF g
    <2>5. g[m] = f[m]
      BY <1>1, <2>3, JoinsAgree
    <2>. QED BY <2>4, <2>5
  <1>4. 0 \in 0 .. n /\ \A k \in 1 .. n : k \in 0 .. n /\ k - 1 \in 0 .. n /\ k # 0
    OBVIOUS
  <1>5. Joined(buffer, lo, 0) = <<>>
    BY <1>2, <1>3, <1>4, Zenon
  <1>6. \A k \in 0 .. n : Joined(buffer, lo, k) \in Seq(T)
    BY <1>1, <1>3
  <1>7. \A k \in 1 .. n : Joined(buffer, lo, k) = Joined(buffer, lo, k - 1) \o buffer[lo + k - 1]
    BY <1>2, <1>3, <1>4, Zenon
  <1>. QED BY <1>5, <1>6, <1>7

\* Joined batches are the first k and then the others.
JoinedParts(buffer, lo, k, l) ==
  Joined(buffer, lo, k + l) = Joined(buffer, lo, k) \o Joined(buffer, lo + k, l)

\* Batches that are joined may be joined in two parts.
LEMMA JoinedSplit ==
  ASSUME NEW T, NEW buffer, NEW lo \in Int, NEW k \in Nat, NEW l \in Nat,
         \A i \in 1 .. k + l : buffer[lo + i - 1] \in Seq(T)
  PROVE  JoinedParts(buffer, lo, k, l)
  <1> DEFINE A == {i \in Nat : i <= l => JoinedParts(buffer, lo, k, i)}
             J(x, i) == Joined(buffer, x, i)
  <1>0. lo + k \in Int /\ k + l \in Nat
    OBVIOUS
  <1>1. /\ J(lo, 0) = <<>>
        /\ \A i \in 0 .. k + l : J(lo, i) \in Seq(T)
        /\ \A i \in 1 .. k + l : J(lo, i) = J(lo, i - 1) \o buffer[lo + i - 1]
    BY <1>0, JoinedIs, ZenonT(60)
  <1>2. \A i \in 1 .. l : buffer[(lo + k) + i - 1] \in Seq(T)
    <2>1. ASSUME NEW i \in 1 .. l
          PROVE  buffer[(lo + k) + i - 1] \in Seq(T)
      <3>1. k + i \in 1 .. k + l /\ lo + (k + i) - 1 = (lo + k) + i - 1
        OBVIOUS
      <3>. QED BY <3>1
    <2>. QED BY <2>1
  <1>3. /\ J(lo + k, 0) = <<>>
        /\ \A i \in 0 .. l : J(lo + k, i) \in Seq(T)
        /\ \A i \in 1 .. l : J(lo + k, i) = J(lo + k, i - 1) \o buffer[(lo + k) + i - 1]
    BY <1>0, <1>2, JoinedIs, ZenonT(60)
  <1> HIDE DEF J
  <1>4. 0 \in A
    <2>1. k + 0 = k /\ J(lo, k) \in Seq(T) /\ J(lo + k, 0) = <<>>
      BY <1>1, <1>3
    <2>2. J(lo, k) = J(lo, k) \o <<>>
      BY <2>1
    <2>3. J(lo, k + 0) = J(lo, k) \o J(lo + k, 0)
      BY <2>1, <2>2
    <2>. QED BY <2>3 DEF JoinedParts, J
  <1>5. ASSUME NEW i \in Nat, i \in A
        PROVE  i + 1 \in A
    <2>1. ASSUME i + 1 <= l
          PROVE  JoinedParts(buffer, lo, k, i + 1)
      <3> DEFINE b == buffer[(lo + k) + (i + 1) - 1]
      <3>1. /\ k + (i + 1) \in 1 .. k + l /\ k + (i + 1) - 1 = k + i /\ i <= l
            /\ lo + (k + (i + 1)) - 1 = (lo + k) + (i + 1) - 1
            /\ i + 1 \in 1 .. l /\ (i + 1) - 1 = i /\ i \in 0 .. l /\ k \in 0 .. k + l
        BY <2>1
      <3>2. J(lo, k + (i + 1)) = J(lo, k + i) \o b
        <4> DEFINE j == k + (i + 1)
        <4>1. j \in 1 .. k + l /\ j - 1 = k + i /\ buffer[lo + j - 1] = b
          BY <3>1
        <4> HIDE DEF j, b
        <4>2. J(lo, j) = J(lo, j - 1) \o buffer[lo + j - 1]
          BY <1>1, <4>1, Zenon
        <4>3. J(lo, j) = J(lo, k + i) \o b
          BY <4>1, <4>2
        <4>. QED BY <4>3 DEF j
      <3>3. J(lo + k, i + 1) = J(lo + k, i) \o b
        <4>1. J(lo + k, i + 1) = J(lo + k, (i + 1) - 1) \o b
          BY <1>3, <3>1, Zenon
        <4>. QED BY <3>1, <4>1
      <3>4. J(lo, k + i) = J(lo, k) \o J(lo + k, i)
        BY <1>5, <3>1 DEF JoinedParts, J
      <3>5. b \in Seq(T) /\ J(lo, k) \in Seq(T) /\ J(lo + k, i) \in Seq(T)
        BY <1>1, <1>2, <1>3, <3>1
      <3> HIDE DEF b
      <3>6. J(lo, k) \o (J(lo + k, i) \o b) = (J(lo, k) \o J(lo + k, i)) \o b
        <4>1. Regrouped(J(lo, k), J(lo + k, i), b)
          BY <3>5, Regroup, Zenon
        <4>. QED BY <4>1 DEF Regrouped
      <3>7. J(lo, k + (i + 1)) = J(lo, k) \o J(lo + k, i + 1)
        BY <3>2, <3>3, <3>4, <3>6, Zenon
      <3>. QED BY <3>7 DEF J, JoinedParts
    <2>. QED BY <2>1
  <1> HIDE DEF A
  <1>6. l \in A
    BY <1>4, <1>5, Induction, Zenon
  <1>. QED BY <1>6 DEF A

\* Buffers that have the same batches are joined to the same sequence.
JoinedAlike(p, q, lo, n) == Joined(q, lo, n) = Joined(p, lo, n)

\* Joining looks at the batches only.
LEMMA JoinedSame ==
  ASSUME NEW T, NEW p, NEW q, NEW lo \in Int, NEW n \in Nat,
         \A k \in 1 .. n : p[lo + k - 1] \in Seq(T) /\ q[lo + k - 1] = p[lo + k - 1]
  PROVE  JoinedAlike(p, q, lo, n)
  <1> DEFINE A == {k \in Nat : k <= n => Joined(q, lo, k) = Joined(p, lo, k)}
  <1>1. /\ Joined(p, lo, 0) = <<>>
        /\ \A k \in 1 .. n : Joined(p, lo, k) = Joined(p, lo, k - 1) \o p[lo + k - 1]
    BY JoinedIs
  <1>2. /\ Joined(q, lo, 0) = <<>>
        /\ \A k \in 1 .. n : Joined(q, lo, k) = Joined(q, lo, k - 1) \o q[lo + k - 1]
    BY JoinedIs
  <1>3. 0 \in A
    BY <1>1, <1>2
  <1>4. ASSUME NEW k \in Nat, k \in A
        PROVE  k + 1 \in A
    <2>1. ASSUME k + 1 <= n
          PROVE  Joined(q, lo, k + 1) = Joined(p, lo, k + 1)
      <3>1. k + 1 \in 1 .. n /\ (k + 1) - 1 = k /\ k <= n
        BY <2>1
      <3>2. Joined(q, lo, k) = Joined(p, lo, k) /\ q[lo + (k + 1) - 1] = p[lo + (k + 1) - 1]
        BY <1>4, <3>1
      <3>3. Joined(q, lo, k + 1) = Joined(q, lo, (k + 1) - 1) \o q[lo + (k + 1) - 1]
        BY <1>2, <3>1, Zenon
      <3>4. Joined(p, lo, k + 1) = Joined(p, lo, (k + 1) - 1) \o p[lo + (k + 1) - 1]
        BY <1>1, <3>1, Zenon
      <3>. QED BY <3>1, <3>2, <3>3, <3>4
    <2>. QED BY <2>1
  <1> HIDE DEF A
  <1>5. n \in A
    BY <1>3, <1>4, Induction, Zenon
  <1>. QED BY <1>5 DEF A, JoinedAlike

\* What joined batches have is what the batches have.
LEMMA JoinedHas ==
  ASSUME NEW T, NEW buffer, NEW lo \in Int, NEW n \in Nat,
         \A k \in 1 .. n : buffer[lo + k - 1] \in Seq(T), NEW x
  PROVE  x \in Elements(Joined(buffer, lo, n)) <=>
           \E k \in 1 .. n : x \in Elements(buffer[lo + k - 1])
  <1> DEFINE In(k) == x \in Elements(buffer[lo + k - 1])
             A == {m \in Nat : m <= n => (x \in Elements(Joined(buffer, lo, m)) <=>
                                            \E k \in 1 .. m : In(k))}
  <1>1. /\ Joined(buffer, lo, 0) = <<>>
        /\ \A k \in 0 .. n : Joined(buffer, lo, k) \in Seq(T)
        /\ \A k \in 1 .. n : Joined(buffer, lo, k) = Joined(buffer, lo, k - 1) \o buffer[lo + k - 1]
    BY JoinedIs
  <1>2. 0 \in A
    <2>1. Elements(<<>>) = {}
      BY DEF Elements
    <2>. QED BY <1>1, <2>1
  <1>3. ASSUME NEW m \in Nat, m \in A
        PROVE  m + 1 \in A
    <2>1. ASSUME m + 1 <= n
          PROVE  x \in Elements(Joined(buffer, lo, m + 1)) <=> \E k \in 1 .. m + 1 : In(k)
      <3> DEFINE b == buffer[lo + (m + 1) - 1]
                 j == Joined(buffer, lo, m)
      <3>1. m + 1 \in 1 .. n /\ (m + 1) - 1 = m /\ m <= n /\ m \in 0 .. n
        BY <2>1
      <3>2. Joined(buffer, lo, m + 1) = j \o b /\ b \in Seq(T) /\ j \in Seq(T)
        BY <1>1, <3>1
      <3>3. x \in Elements(j) <=> \E k \in 1 .. m : In(k)
        BY <1>3, <3>1
      <3>4. x \in Elements(b) <=> In(m + 1)
        OBVIOUS
      <3> HIDE DEF j, b, In
      <3>5. Elements(j \o b) = Elements(j) \union Elements(b)
        BY <3>2, ConcatHas DEF HoldsBoth
      <3>6. 1 .. m + 1 = (1 .. m) \union {m + 1}
        OBVIOUS
      <3>. QED BY <3>2, <3>3, <3>4, <3>5, <3>6, Zenon
    <2>. QED BY <2>1
  <1> HIDE DEF A
  <1>4. n \in A
    BY <1>2, <1>3, Induction, Zenon
  <1>. QED BY <1>4 DEF A

\* Nothing is joined to nothing.
LEMMA JoinedNone ==
  ASSUME NEW T, NEW buffer, NEW lo \in Int, NEW n \in Nat,
         \A k \in 1 .. n : buffer[lo + k - 1] = <<>>
  PROVE  Joined(buffer, lo, n) = <<>>
  <1>1. \A k \in 1 .. n : buffer[lo + k - 1] \in Seq(T)
    <2>1. <<>> \in Seq(T)
      OBVIOUS
    <2>. QED BY <2>1, Zenon
  <1>2. Joined(buffer, lo, n) \in Seq(T)
    <2>1. n \in 0 .. n
      OBVIOUS
    <2>. QED BY <1>1, <2>1, JoinedIs
  <1>3. Elements(Joined(buffer, lo, n)) = {}
    <2>1. Elements(<<>>) = {}
      BY DEF Elements
    <2>2. ASSUME NEW x
          PROVE  x \notin Elements(Joined(buffer, lo, n))
      BY <1>1, <2>1, JoinedHas, ZenonT(60)
    <2>. QED BY <2>2, Zenon
  <1>. QED BY <1>2, <1>3, NoneHas, Zenon

-------------------------------------------------------------------------------
(* Accounts of the items of one worker *)

\* The items of worker w.
Mine(w) == {w} \X Nat

\* A worker's items come in the order it pushed them.
Ordered(p) == \A i, j \in DOMAIN p : i < j => p[i][2] < p[j][2]

\* Of the n items worker w has pushed, each is on its way, in order, or gone.
Accounts(p, gone, w, n) ==
  /\ p \in Seq(Mine(w))
  /\ Ordered(p)
  /\ Elements(p) \union (gone \intersect Mine(w)) = {<<w, k>> : k \in 1 .. n}
  /\ Elements(p) \intersect gone = {}

\* The items of a sequence are of its type.
LEMMA ItemsType ==
  ASSUME NEW T, NEW s
  PROVE  s \in Seq(T) <=> s \in Seq(Elements(s)) /\ Elements(s) \subseteq T
  <1>1. ASSUME s \in Seq(T)
        PROVE  s \in Seq(Elements(s)) /\ Elements(s) \subseteq T
    <2>1. Len(s) \in Nat /\ s \in [1 .. Len(s) -> T] /\ DOMAIN s = 1 .. Len(s)
      BY <1>1
    <2>2. s \in [1 .. Len(s) -> Elements(s)]
      BY <2>1 DEF Elements
    <2>3. Elements(s) \subseteq T
      BY <2>1 DEF Elements
    <2>. QED BY <2>1, <2>2, <2>3
  <1>2. ASSUME s \in Seq(Elements(s)), Elements(s) \subseteq T
        PROVE  s \in Seq(T)
    BY <1>2
  <1>. QED BY <1>1, <1>2

\* Every item of A comes before every item of B.
Before(A, B) == \A x \in A, y \in B : x[2] < y[2]

\* A concatenation is in order if its parts are and the first part comes before.
OrderedParts(a, b) ==
  Ordered(a \o b) <=> Ordered(a) /\ Ordered(b) /\ Before(Elements(a), Elements(b))

\* And conversely.
LEMMA ConcatOrdered ==
  ASSUME NEW T, NEW a \in Seq(T), NEW b \in Seq(T)
  PROVE  OrderedParts(a, b)
  <1> DEFINE c == a \o b
  <1>1. /\ DOMAIN c = 1 .. Len(a) + Len(b) /\ Len(a) \in Nat /\ Len(b) \in Nat
        /\ DOMAIN a = 1 .. Len(a) /\ DOMAIN b = 1 .. Len(b)
        /\ \A i \in 1 .. Len(a) : c[i] = a[i]
        /\ \A i \in 1 .. Len(b) : c[Len(a) + i] = b[i]
        /\ \A i \in 1 .. Len(a) + Len(b) : i > Len(a) =>
             i - Len(a) \in 1 .. Len(b) /\ c[i] = b[i - Len(a)]
    BY Concat
  <1> HIDE DEF c
  <1>2. ASSUME Ordered(c)
        PROVE  Ordered(a) /\ Ordered(b) /\ Before(Elements(a), Elements(b))
    <2>1. ASSUME NEW i \in DOMAIN a, NEW j \in DOMAIN a, i < j
          PROVE  a[i][2] < a[j][2]
      <3>1. i \in DOMAIN c /\ j \in DOMAIN c /\ c[i] = a[i] /\ c[j] = a[j]
        BY <1>1
      <3>2. c[i][2] < c[j][2]
        BY <1>2, <2>1, <3>1, Zenon DEF Ordered
      <3>. QED BY <3>1, <3>2, Zenon
    <2>2. ASSUME NEW i \in DOMAIN b, NEW j \in DOMAIN b, i < j
          PROVE  b[i][2] < b[j][2]
      <3> DEFINE k == Len(a) + i
                 l == Len(a) + j
      <3>1. k \in DOMAIN c /\ l \in DOMAIN c /\ k < l /\ c[k] = b[i] /\ c[l] = b[j]
        BY <1>1, <2>2
      <3> HIDE DEF k, l
      <3>2. c[k][2] < c[l][2]
        BY <1>2, <3>1, Zenon DEF Ordered
      <3>. QED BY <3>1, <3>2, Zenon
    <2>3. ASSUME NEW i \in DOMAIN a, NEW j \in DOMAIN b
          PROVE  a[i][2] < b[j][2]
      <3> DEFINE l == Len(a) + j
      <3>1. i \in DOMAIN c /\ l \in DOMAIN c /\ i < l /\ c[i] = a[i] /\ c[l] = b[j]
        BY <1>1
      <3> HIDE DEF l
      <3>2. c[i][2] < c[l][2]
        BY <1>2, <3>1, Zenon DEF Ordered
      <3>. QED BY <3>1, <3>2, Zenon
    <2>4. Before(Elements(a), Elements(b))
      BY <2>3, Zenon DEF Before, Elements
    <2>. QED BY <2>1, <2>2, <2>4, Zenon DEF Ordered
  <1>3. ASSUME Ordered(a), Ordered(b), Before(Elements(a), Elements(b))
        PROVE  Ordered(c)
    <2> SUFFICES ASSUME NEW i \in DOMAIN c, NEW j \in DOMAIN c, i < j
                 PROVE  c[i][2] < c[j][2]
      BY Zenon DEF Ordered
    <2>0. i \in Int /\ j \in Int
      BY <1>1
    <2>1. CASE j <= Len(a)
      <3>1. i \in DOMAIN a /\ j \in DOMAIN a /\ c[i] = a[i] /\ c[j] = a[j]
        BY <1>1, <2>0, <2>1
      <3>. QED BY <1>3, <3>1, Zenon DEF Ordered
    <2>2. CASE i > Len(a)
      <3> DEFINE k == i - Len(a)
                 l == j - Len(a)
      <3>1. k \in DOMAIN b /\ l \in DOMAIN b /\ k < l /\ c[i] = b[k] /\ c[j] = b[l]
        BY <1>1, <2>0, <2>2
      <3> HIDE DEF k, l
      <3>. QED BY <1>3, <3>1, Zenon DEF Ordered
    <2>3. CASE i <= Len(a) /\ j > Len(a)
      <3> DEFINE l == j - Len(a)
      <3>1. i \in DOMAIN a /\ l \in DOMAIN b /\ c[i] = a[i] /\ c[j] = b[l]
        BY <1>1, <2>0, <2>3
      <3> HIDE DEF l
      <3>2. a[i] \in Elements(a) /\ b[l] \in Elements(b)
        BY <3>1, Zenon DEF Elements
      <3>. QED BY <1>3, <3>1, <3>2, Zenon DEF Before
    <2>4. Len(a) \in Int
      BY <1>1
    <2>. QED BY <2>0, <2>1, <2>2, <2>3, <2>4
  <1>. QED BY <1>2, <1>3 DEF c, OrderedParts

\* Items dropped from the middle of the way are gone.
LEMMA ItemsDropped ==
  ASSUME NEW w, NEW n, NEW gone, NEW more,
         NEW a \in Seq(Mine(w)), NEW b \in Seq(Mine(w)), NEW c \in Seq(Mine(w)),
         Accounts(a \o (b \o c), gone, w, n), more \intersect Mine(w) = Elements(b)
  PROVE  Accounts(a \o c, gone \union more, w, n)
  <1> DEFINE d == b \o c
             p == a \o d
             q == a \o c
  <1>1. d \in Seq(Mine(w)) /\ p \in Seq(Mine(w)) /\ q \in Seq(Mine(w))
    OBVIOUS
  <1>2. /\ Elements(d) = Elements(b) \union Elements(c)
        /\ Elements(p) = Elements(a) \union Elements(d)
        /\ Elements(q) = Elements(a) \union Elements(c)
    <2> HIDE DEF d
    <2>1. Elements(p) = Elements(a) \union Elements(d)
      BY <1>1, ConcatHas DEF HoldsBoth
    <2>2. Elements(q) = Elements(a) \union Elements(c)
      BY ConcatHas DEF HoldsBoth
    <2>3. Elements(d) = Elements(b) \union Elements(c)
      BY ConcatHas DEF HoldsBoth, d
    <2>. QED BY <2>1, <2>2, <2>3
  <1>3. OrderedParts(b, c) /\ OrderedParts(a, d) /\ OrderedParts(a, c)
    <2>1. OrderedParts(a, d)
      <3> HIDE DEF d
      <3>. QED BY <1>1, ConcatOrdered, Zenon
    <2>. QED BY <2>1, ConcatOrdered, Zenon
  <1>4. Accounts(p, gone, w, n)
    OBVIOUS
  <1>5. Ordered(q)
    <2>1. Ordered(a) /\ Ordered(d) /\ Before(Elements(a), Elements(d))
      BY <1>3, <1>4 DEF Accounts, OrderedParts
    <2>2. Ordered(c)
      BY <1>3, <2>1 DEF OrderedParts
    <2>3. Before(Elements(a), Elements(c))
      BY <1>2, <2>1, Zenon DEF Before
    <2>. QED BY <1>3, <2>1, <2>2, <2>3 DEF OrderedParts
  <1>6. Elements(a) \intersect Elements(b) = {} /\ Elements(c) \intersect Elements(b) = {}
    <2>1. Ordered(d) /\ Before(Elements(a), Elements(d)) /\ Before(Elements(b), Elements(c))
      BY <1>3, <1>4 DEF Accounts, OrderedParts
    <2>2. \A x \in Elements(b) : x[2] \in Nat
      BY ItemsType DEF Mine
    <2>3. \A x \in Elements(b) : ~(x[2] < x[2])
      BY <2>2
    <2>. QED BY <1>2, <2>1, <2>3, Zenon DEF Before
  <1>7. Elements(a) \subseteq Mine(w) /\ Elements(c) \subseteq Mine(w)
    BY ItemsType, Zenon
  <1>8. /\ Elements(p) \union (gone \intersect Mine(w)) = {<<w, k>> : k \in 1 .. n}
        /\ Elements(p) \intersect gone = {}
    BY <1>4, Zenon DEF Accounts
  <1> HIDE DEF p, q, d
  <1>9. Elements(q) \union ((gone \union more) \intersect Mine(w)) = {<<w, k>> : k \in 1 .. n}
    <2>1. (gone \union more) \intersect Mine(w) = (gone \intersect Mine(w)) \union Elements(b)
      OBVIOUS
    <2>2. Elements(q) \union ((gone \union more) \intersect Mine(w)) =
            Elements(p) \union (gone \intersect Mine(w))
      BY <1>2, <2>1
    <2>. QED BY <1>8, <2>2
  <1>10. Elements(q) \intersect (gone \union more) = {}
    BY <1>2, <1>6, <1>7, <1>8
  <1>11. Accounts(q, gone \union more, w, n)
    BY <1>1, <1>5, <1>9, <1>10, Zenon DEF Accounts
  <1>. QED BY <1>11 DEF q

\* What others lose leaves the accounts of a worker alone.
LEMMA OthersLose ==
  ASSUME NEW w, NEW n, NEW gone, NEW more, NEW p,
         Accounts(p, gone, w, n), more \intersect Mine(w) = {}
  PROVE  Accounts(p, gone \union more, w, n)
  <1>1. Elements(p) \subseteq Mine(w)
    BY ItemsType, Zenon DEF Accounts
  <1>2. (gone \union more) \intersect Mine(w) = gone \intersect Mine(w)
    OBVIOUS
  <1>3. Elements(p) \intersect (gone \union more) = {}
    BY <1>1 DEF Accounts
  <1>. QED BY <1>2, <1>3, Zenon DEF Accounts

\* A worker pushes one item more.
LEMMA ItemPushed ==
  ASSUME NEW w, NEW n \in Nat, NEW gone, NEW p, Accounts(p, gone, w, n)
  PROVE  Accounts(Append(p, <<w, n + 1>>), gone, w, n + 1)
  <1> DEFINE e == <<w, n + 1>>
             q == Append(p, e)
             s == <<e>>
  <1>1. p \in Seq(Mine(w)) /\ e \in Mine(w) /\ s \in Seq(Mine(w)) /\ q = p \o s
    BY DEF Accounts, Mine
  <1>2. Elements(s) = {e}
    BY DEF Elements
  <1>3. q \in Seq(Mine(w)) /\ Elements(q) = Elements(p) \union {e}
    <2> HIDE DEF e
    <2>1. q \in Seq(Mine(w))
      BY <1>1
    <2> HIDE DEF q, s
    <2>. QED BY <1>1, <1>2, <2>1, ConcatHas DEF HoldsBoth
  <1>4. {<<w, k>> : k \in 1 .. n + 1} = {<<w, k>> : k \in 1 .. n} \union {e}
    <2>1. 1 .. n + 1 = (1 .. n) \union {n + 1}
      OBVIOUS
    <2>. QED BY <2>1
  <1>5. \A x \in Elements(p) \union (gone \intersect Mine(w)) : x[2] \in 1 .. n
    BY DEF Accounts
  <1>6. e[2] = n + 1 /\ \A i \in 1 .. n : i < n + 1
    OBVIOUS
  <1>7. e \notin gone
    BY <1>1, <1>5, <1>6
  <1> HIDE DEF e
  <1>8. Ordered(q)
    <2>1. Before(Elements(p), Elements(s))
      BY <1>2, <1>5, <1>6 DEF Before
    <2>2. Ordered(s)
      BY DEF Ordered
    <2>3. OrderedParts(p, s)
      <3> HIDE DEF s
      <3>. QED BY <1>1, ConcatOrdered, Zenon
    <2> HIDE DEF q, s
    <2>. QED BY <1>1, <2>1, <2>2, <2>3 DEF OrderedParts, Accounts
  <1> HIDE DEF q, s
  <1>9. Elements(q) \union (gone \intersect Mine(w)) = {<<w, k>> : k \in 1 .. n + 1}
    BY <1>3, <1>4 DEF Accounts
  <1>10. Elements(q) \intersect gone = {}
    BY <1>3, <1>7 DEF Accounts
  <1>11. Accounts(q, gone, w, n + 1)
    BY <1>3, <1>8, <1>9, <1>10, Zenon DEF Accounts
  <1>. QED BY <1>11 DEF q, e

-------------------------------------------------------------------------------
(* The way of a worker's items *)

Item == Workers \X Nat

\* A published ring, as a sequence.
InSlot(b) == IF b = None THEN <<>> ELSE b

\* The way through a merger that has put out o and has a buffer, from the batch
\* b in the slot and the ring a of the worker.
Way(w, o, buffer, b, a) ==
  Of(w, o) \o Of(w, Joined(buffer, 0, MaxRounds + 1)) \o InSlot(b) \o a

\* What a merger carries: what it has put out, and its buffer.
Load(o, buffer) == o \o Joined(buffer, 0, MaxRounds + 1)

Buffers(T) == [0 .. MaxRounds -> Seq(T)]

\* A worker's items in a sequence.
LEMMA OfIs ==
  ASSUME NEW w \in Workers, NEW s \in Seq(Item)
  PROVE  /\ Of(w, s) \in Seq(Mine(w))
         /\ Elements(Of(w, s)) = Elements(s) \intersect Mine(w)
         /\ Elements(s) \subseteq Mine(w) => Of(w, s) = s
         /\ Elements(s) \intersect Mine(w) = {} => Of(w, s) = <<>>
  <1>1. Of(w, s) \in Seq(Item) /\ Elements(Of(w, s)) = Elements(s) \intersect Mine(w)
    BY OnlyHas DEF Of, Mine
  <1>2. Of(w, s) \in Seq(Mine(w))
    <2>1. Elements(Of(w, s)) \subseteq Mine(w)
      BY <1>1
    <2>. QED BY <1>1, <2>1, ItemsType, Zenon
  <1>3. /\ Elements(s) \subseteq Mine(w) => Of(w, s) = s
        /\ Elements(s) \intersect Mine(w) = {} => Of(w, s) = <<>>
    BY OnlyExtremes, Zenon DEF Of, Mine
  <1>. QED BY <1>1, <1>2, <1>3

\* A worker's items in a concatenation.
OfParts(w, a, b) == Of(w, a \o b) = Of(w, a) \o Of(w, b)

\* Selecting goes through a concatenation.
LEMMA OfConcat ==
  ASSUME NEW w, NEW a \in Seq(Item), NEW b \in Seq(Item)
  PROVE  OfParts(w, a, b)
  <1>1. OnlyOfParts(a, b, {w} \X Nat)
    BY OnlyConcat
  <1>. QED BY <1>1 DEF OnlyOfParts, Of, OfParts

\* One worker's items are items; no other worker's.
LEMMA MineType ==
  ASSUME NEW w \in Workers
  PROVE  /\ Mine(w) \subseteq Item
         /\ \A s \in Seq(Mine(w)) : s \in Seq(Item) /\ Elements(s) \subseteq Mine(w)
         /\ \A v : v # w => Mine(v) \intersect Mine(w) = {}
  <1>1. Mine(w) \subseteq Item
    BY DEF Mine, Item
  <1>2. ASSUME NEW s \in Seq(Mine(w))
        PROVE  s \in Seq(Item) /\ Elements(s) \subseteq Mine(w)
    BY <1>1, ItemsType
  <1>. QED BY <1>1, <1>2 DEF Mine

\* All batches of a buffer, joined.
LEMMA BufferJoined ==
  ASSUME NEW T, NEW buffer \in Buffers(T)
  PROVE  /\ Joined(buffer, 0, MaxRounds + 1) \in Seq(T)
         /\ \A x : x \in Elements(Joined(buffer, 0, MaxRounds + 1)) <=>
              \E s \in 0 .. MaxRounds : x \in Elements(buffer[s])
         /\ (\A s \in 0 .. MaxRounds : buffer[s] = <<>>) =>
              Joined(buffer, 0, MaxRounds + 1) = <<>>
  <1> DEFINE n == MaxRounds + 1
  <1>0. MaxRounds \in Nat
    BY FanInAssumption
  <1>1. /\ n \in Nat /\ n \in 0 .. n /\ 0 \in Int
        /\ \A k \in 1 .. n : 0 + k - 1 \in 0 .. MaxRounds
        /\ \A s \in 0 .. MaxRounds : \E k \in 1 .. n : 0 + k - 1 = s
    <2>1. ASSUME NEW s \in 0 .. MaxRounds
          PROVE  s + 1 \in 1 .. n /\ 0 + (s + 1) - 1 = s
      BY <1>0
    <2>2. \A s \in 0 .. MaxRounds : \E k \in 1 .. n : 0 + k - 1 = s
      BY <2>1
    <2>. QED BY <1>0, <2>2
  <1> HIDE DEF n
  <1>2. \A k \in 1 .. n : buffer[0 + k - 1] \in Seq(T)
    BY <1>1 DEF Buffers
  <1>3. Joined(buffer, 0, n) \in Seq(T)
    BY <1>1, <1>2, JoinedIs, Zenon
  <1>4. ASSUME NEW x
        PROVE  x \in Elements(Joined(buffer, 0, n)) <=>
                 \E s \in 0 .. MaxRounds : x \in Elements(buffer[s])
    <2>1. x \in Elements(Joined(buffer, 0, n)) <=>
            \E k \in 1 .. n : x \in Elements(buffer[0 + k - 1])
      BY <1>1, <1>2, JoinedHas, Zenon
    <2>. QED BY <1>1, <2>1, Zenon
  <1>5. (\A s \in 0 .. MaxRounds : buffer[s] = <<>>) => Joined(buffer, 0, n) = <<>>
    <2>1. Elements(<<>>) = {}
      BY NoneHas
    <2>2. (\A s \in 0 .. MaxRounds : buffer[s] = <<>>) => Elements(Joined(buffer, 0, n)) = {}
      BY <1>4, <2>1, Zenon
    <2>. QED BY <1>3, <2>2, NoneHas, Zenon
  <1>. QED BY <1>3, <1>4, <1>5 DEF n

\* A worker's way in two parts: through its merger, and what it has itself.
LEMMA WayIs ==
  ASSUME NEW w \in Workers, NEW o \in Seq(Item), NEW buffer \in Buffers(Item),
         NEW b \in Seq(Mine(w)) \union {None}, NEW a \in Seq(Mine(w))
  PROVE  /\ Load(o, buffer) \in Seq(Item) /\ InSlot(b) \o a \in Seq(Mine(w))
         /\ Of(w, Load(o, buffer)) \in Seq(Mine(w))
         /\ Way(w, o, buffer, b, a) = Of(w, Load(o, buffer)) \o (InSlot(b) \o a)
  <1> DEFINE j == Joined(buffer, 0, MaxRounds + 1)
             s == InSlot(b)
  <1>1. j \in Seq(Item)
    BY BufferJoined
  <1>2. s \in Seq(Mine(w))
    BY DEF InSlot
  <1>3. Load(o, buffer) = o \o j
    BY DEF Load
  <1> HIDE DEF j, s
  <1>4. o \o j \in Seq(Item) /\ s \o a \in Seq(Mine(w))
    BY <1>1, <1>2
  <1>5. Of(w, o \o j) = Of(w, o) \o Of(w, j)
    BY <1>1, OfConcat DEF OfParts
  <1>6. Of(w, o) \in Seq(Mine(w)) /\ Of(w, j) \in Seq(Mine(w)) /\ Of(w, o \o j) \in Seq(Mine(w))
    BY <1>1, <1>4, OfIs
  <1>7. Regrouped(Of(w, o) \o Of(w, j), s, a)
    <2>1. Of(w, o) \o Of(w, j) \in Seq(Mine(w))
      BY <1>5, <1>6
    <2>. QED BY <1>2, <2>1, Regroup, Zenon
  <1>8. Way(w, o, buffer, b, a) = ((Of(w, o) \o Of(w, j)) \o s) \o a
    BY DEF Way, j, s
  <1>9. Way(w, o, buffer, b, a) = Of(w, o \o j) \o (s \o a)
    BY <1>5, <1>7, <1>8, Zenon DEF Regrouped
  <1>. QED BY <1>3, <1>4, <1>6, <1>9 DEF s

\* A merger drops d from what it carries.
LEMMA DroppedOnWay ==
  ASSUME NEW w \in Workers, NEW n, NEW gone, NEW more,
         NEW x \in Seq(Item), NEW d \in Seq(Item), NEW y \in Seq(Item), NEW rest \in Seq(Mine(w)),
         Accounts(Of(w, x \o (d \o y)) \o rest, gone, w, n),
         more \intersect Mine(w) = Elements(d) \intersect Mine(w)
  PROVE  Accounts(Of(w, x \o y) \o rest, gone \union more, w, n)
  <1> DEFINE a == Of(w, x)
             b == Of(w, d)
             c == Of(w, y)
  <1>1. /\ a \in Seq(Mine(w)) /\ b \in Seq(Mine(w)) /\ c \in Seq(Mine(w))
        /\ Elements(b) = Elements(d) \intersect Mine(w)
    BY OfIs
  <1>2. /\ Of(w, x \o (d \o y)) = a \o (b \o c)
        /\ Of(w, x \o y) = a \o c
    <2>1. d \o y \in Seq(Item)
      OBVIOUS
    <2>2. OfParts(w, d, y) /\ OfParts(w, x, y) /\ OfParts(w, x, d \o y)
      <3>1. OfParts(w, x, d \o y)
        BY <2>1, OfConcat, Zenon
      <3>. QED BY <3>1, OfConcat
    <2>. QED BY <2>2 DEF OfParts
  <1> HIDE DEF a, b, c
  <1>3. (a \o (b \o c)) \o rest = a \o (b \o (c \o rest)) /\ (a \o c) \o rest = a \o (c \o rest)
    <2>1. b \o c \in Seq(Mine(w))
      BY <1>1
    <2>2. Regrouped(a, b \o c, rest) /\ Regrouped(b, c, rest) /\ Regrouped(a, c, rest)
      BY <1>1, <2>1, Regroup, Zenon
    <2>. QED BY <2>2 DEF Regrouped
  <1>4. c \o rest \in Seq(Mine(w))
    BY <1>1
  <1>5. Accounts(a \o (b \o (c \o rest)), gone, w, n)
    BY <1>2, <1>3
  <1>6. more \intersect Mine(w) = Elements(b)
    BY <1>1
  <1>7. Accounts(a \o (c \o rest), gone \union more, w, n)
    BY <1>1, <1>4, <1>5, <1>6, ItemsDropped, Zenon
  <1>. QED BY <1>2, <1>3, <1>7

\* A batch goes from a slot to the merger.
TakenOver(w, x, b, a) == Of(w, x) \o (b \o a) = Of(w, x \o b) \o a

\* For its own worker that is the same way, to another it is nothing.
LEMMA CollectedOnWay ==
  ASSUME NEW w \in Workers, NEW v \in Workers, NEW x \in Seq(Item), NEW b \in Seq(Mine(v)),
         NEW a \in Seq(Mine(w))
  PROVE  /\ v = w => TakenOver(w, x, b, a)
         /\ v # w => Of(w, x \o b) = Of(w, x)
  <1>1. b \in Seq(Item) /\ Elements(b) \subseteq Mine(v)
    BY MineType
  <1>2. Of(w, x \o b) = Of(w, x) \o Of(w, b) /\ Of(w, x) \in Seq(Mine(w))
    BY <1>1, OfConcat, OfIs DEF OfParts
  <1>3. ASSUME v = w
        PROVE  TakenOver(w, x, b, a)
    <2>1. Of(w, b) = b
      BY <1>1, <1>3, OfIs
    <2>2. Regrouped(Of(w, x), b, a)
      BY <1>2, <1>3, Regroup, Zenon
    <2>. QED BY <1>2, <2>1, <2>2 DEF TakenOver, Regrouped
  <1>4. ASSUME v # w
        PROVE  Of(w, x \o b) = Of(w, x)
    <2>1. Elements(b) \intersect Mine(w) = {}
      BY <1>1, <1>4, MineType
    <2>2. Of(w, b) = <<>>
      BY <1>1, <2>1, OfIs
    <2>3. Of(w, x) \o <<>> = Of(w, x)
      BY <1>2
    <2>. QED BY <1>2, <2>2, <2>3
  <1>. QED BY <1>3, <1>4

-------------------------------------------------------------------------------
(* Buffers *)

\* The n batches from the number lo on are in the buffer.
LEMMA Batches ==
  ASSUME NEW T, NEW buffer \in Buffers(T), NEW lo \in Nat, NEW n \in Nat, lo + n <= MaxRounds + 1
  PROVE  \A k \in 1 .. n : lo + k - 1 \in 0 .. MaxRounds /\ buffer[lo + k - 1] \in Seq(T)
  <1>0. MaxRounds \in Nat
    BY FanInAssumption
  <1>1. ASSUME NEW k \in 1 .. n
        PROVE  lo + k - 1 \in 0 .. MaxRounds
    BY <1>0
  <1>. QED BY <1>1 DEF Buffers

\* A buffer in three parts: before lo, the n batches from lo on, and behind them.
Cut(buffer, lo, n) ==
  Joined(buffer, 0, MaxRounds + 1) =
    Joined(buffer, 0, lo) \o
      (Joined(buffer, lo, n) \o Joined(buffer, lo + n, MaxRounds + 1 - (lo + n)))

\* A buffer may be cut at any two numbers.
LEMMA BufferCut ==
  ASSUME NEW T, NEW buffer \in Buffers(T), NEW lo \in Nat, NEW n \in Nat, lo + n <= MaxRounds + 1
  PROVE  /\ Cut(buffer, lo, n)
         /\ Joined(buffer, 0, lo) \in Seq(T) /\ Joined(buffer, lo, n) \in Seq(T)
         /\ Joined(buffer, lo + n, MaxRounds + 1 - (lo + n)) \in Seq(T)
  <1> DEFINE m == MaxRounds + 1 - (lo + n)
  <1>0. MaxRounds \in Nat
    BY FanInAssumption
  <1>1. /\ m \in Nat /\ lo + n \in Nat /\ lo + (n + m) = MaxRounds + 1 /\ n + m \in Nat /\ 0 \in Int
        /\ 0 + lo = lo /\ 0 \in Nat /\ 0 + lo <= MaxRounds + 1 /\ lo \in Int /\ lo + n \in Int
        /\ lo + (n + m) <= MaxRounds + 1 /\ 0 + (lo + (n + m)) <= MaxRounds + 1
        /\ (lo + n) + m <= MaxRounds + 1 /\ lo + (n + m) \in Nat
    BY <1>0
  <1> HIDE DEF m
  <1>2. \A k \in 1 .. lo + (n + m) : buffer[0 + k - 1] \in Seq(T)
    BY <1>1, Batches, Zenon
  <1>3. \A k \in 1 .. n + m : buffer[lo + k - 1] \in Seq(T)
    BY <1>1, Batches, Zenon
  <1>4. JoinedParts(buffer, 0, lo, n + m)
    BY <1>1, <1>2, JoinedSplit, Zenon
  <1>5. JoinedParts(buffer, lo, n, m)
    BY <1>1, <1>3, JoinedSplit, Zenon
  <1>6. Joined(buffer, 0, MaxRounds + 1) = Joined(buffer, 0, lo) \o
          (Joined(buffer, lo, n) \o Joined(buffer, lo + n, m))
    BY <1>1, <1>4, <1>5 DEF JoinedParts
  <1>7. ASSUME NEW x \in Nat, NEW k \in Nat, x + k <= MaxRounds + 1
        PROVE  Joined(buffer, x, k) \in Seq(T)
    <2>1. \A i \in 1 .. k : buffer[x + i - 1] \in Seq(T)
      BY <1>7, Batches, Zenon
    <2>2. k \in 0 .. k /\ x \in Int
      OBVIOUS
    <2>. QED BY <2>1, <2>2, JoinedIs, Zenon
  <1>8. /\ Joined(buffer, 0, lo) \in Seq(T) /\ Joined(buffer, lo, n) \in Seq(T)
        /\ Joined(buffer, lo + n, m) \in Seq(T)
    BY <1>1, <1>7, Zenon
  <1>9. m = MaxRounds + 1 - (lo + n)
    BY DEF m
  <1> HIDE DEF Joined
  <1>. QED BY <1>6, <1>8, <1>9 DEF Cut

\* A single batch, joined.
LEMMA OneBatch ==
  ASSUME NEW T, NEW buffer \in Buffers(T), NEW s \in 0 .. MaxRounds
  PROVE  Joined(buffer, s, 1) = buffer[s]
  <1>0. MaxRounds \in Nat
    BY FanInAssumption
  <1>1. /\ s \in Int /\ 1 \in Nat /\ 1 \in 1 .. 1 /\ s + 1 - 1 = s /\ 1 - 1 = 0 /\ s \in Nat
        /\ s + 1 <= MaxRounds + 1
    BY <1>0
  <1>2. \A k \in 1 .. 1 : buffer[s + k - 1] \in Seq(T)
    BY <1>1, Batches, Zenon
  <1>3. /\ Joined(buffer, s, 0) = <<>>
        /\ Joined(buffer, s, 1) = Joined(buffer, s, 1 - 1) \o buffer[s + 1 - 1]
    BY <1>1, <1>2, JoinedIs, ZenonT(60)
  <1>4. buffer[s] \in Seq(T)
    BY DEF Buffers
  <1>5. Joined(buffer, s, 1) = <<>> \o buffer[s]
    BY <1>1, <1>3
  <1> HIDE DEF Joined
  <1>. QED BY <1>4, <1>5

\* Parts of two buffers that have the same batches.
LEMMA SameBatches ==
  ASSUME NEW T, NEW p \in Buffers(T), NEW q, NEW lo \in Nat, NEW n \in Nat, lo + n <= MaxRounds + 1,
         \A s \in 0 .. MaxRounds : lo <= s /\ s < lo + n => q[s] = p[s]
  PROVE  JoinedAlike(p, q, lo, n)
  <1>1. \A k \in 1 .. n : lo + k - 1 \in 0 .. MaxRounds /\ p[lo + k - 1] \in Seq(T)
    BY Batches, Zenon
  <1>2. ASSUME NEW k \in 1 .. n
        PROVE  p[lo + k - 1] \in Seq(T) /\ q[lo + k - 1] = p[lo + k - 1]
    <2> DEFINE s == lo + k - 1
    <2>1. lo <= s /\ s < lo + n
      OBVIOUS
    <2>2. s \in 0 .. MaxRounds /\ p[s] \in Seq(T)
      BY <1>1
    <2> HIDE DEF s
    <2>3. q[s] = p[s]
      BY <2>1, <2>2
    <2>. QED BY <2>2, <2>3 DEF s
  <1>3. lo \in Int
    OBVIOUS
  <1>4. \A k \in 1 .. n : p[lo + k - 1] \in Seq(T) /\ q[lo + k - 1] = p[lo + k - 1]
    BY <1>2, Zenon
  <1>. QED BY <1>3, <1>4, JoinedSame, Zenon

\* Parts of a buffer without batches.
LEMMA NoBatches ==
  ASSUME NEW T, NEW p \in Buffers(T), NEW lo \in Nat, NEW n \in Nat, lo + n <= MaxRounds + 1,
         \A s \in 0 .. MaxRounds : lo <= s /\ s < lo + n => p[s] = <<>>
  PROVE  Joined(p, lo, n) = <<>>
  <1>1. \A k \in 1 .. n : lo + k - 1 \in 0 .. MaxRounds /\ p[lo + k - 1] \in Seq(T)
    BY Batches, Zenon
  <1>2. ASSUME NEW k \in 1 .. n
        PROVE  p[lo + k - 1] = <<>>
    <2> DEFINE s == lo + k - 1
    <2>1. lo <= s /\ s < lo + n
      OBVIOUS
    <2>2. s \in 0 .. MaxRounds
      BY <1>1
    <2> HIDE DEF s
    <2>3. p[s] = <<>>
      BY <2>1, <2>2
    <2>. QED BY <2>3 DEF s
  <1>3. lo \in Int
    OBVIOUS
  <1>. QED BY <1>2, <1>3, JoinedNone, Zenon

\* A buffer with one batch more under the number s, and one without the batches D.
Grown(p, s, b) == [p EXCEPT ![s] = @ \o b]
Drawn(p, D) == [s \in DOMAIN p |-> IF s \in D THEN <<>> ELSE p[s]]

\* An early batch is the last one buffered.
LEMMA BufferGrows ==
  ASSUME NEW T, NEW p \in Buffers(T), NEW s \in 0 .. MaxRounds, NEW b \in Seq(T),
         \A t \in 0 .. MaxRounds : s < t => p[t] = <<>>
  PROVE  /\ Grown(p, s, b) \in Buffers(T)
         /\ Joined(Grown(p, s, b), 0, MaxRounds + 1) = Joined(p, 0, MaxRounds + 1) \o b
  <1> DEFINE q == Grown(p, s, b)
             m == MaxRounds + 1 - (s + 1)
  <1>0. MaxRounds \in Nat
    BY FanInAssumption
  <1>1. p[s] \in Seq(T) /\ p[s] \o b \in Seq(T)
    BY DEF Buffers
  <1>2. /\ q \in Buffers(T) /\ q[s] = p[s] \o b
        /\ \A t \in 0 .. MaxRounds : t # s => q[t] = p[t]
    BY <1>1 DEF Buffers, Grown
  <1> HIDE DEF q
  <1>3. /\ s \in Nat /\ 1 \in Nat /\ s + 1 <= MaxRounds + 1 /\ m \in Nat /\ s + 1 \in Nat /\ 0 \in Nat
        /\ (s + 1) + m <= MaxRounds + 1 /\ 0 + s <= MaxRounds + 1
        /\ \A t \in 0 .. MaxRounds : s + 1 <= t => s < t /\ t # s
        /\ \A t \in 0 .. MaxRounds : 0 <= t /\ t < 0 + s => t # s
    BY <1>0
  <1>4. /\ Joined(p, 0, MaxRounds + 1) = Joined(p, 0, s) \o (Joined(p, s, 1) \o Joined(p, s + 1, m))
        /\ Joined(q, 0, MaxRounds + 1) = Joined(q, 0, s) \o (Joined(q, s, 1) \o Joined(q, s + 1, m))
        /\ Joined(p, 0, s) \in Seq(T)
    <2>1. Cut(p, s, 1) /\ Joined(p, 0, s) \in Seq(T)
      BY <1>3, BufferCut, Zenon
    <2>2. Cut(q, s, 1)
      BY <1>2, <1>3, BufferCut, Zenon
    <2>. QED BY <2>1, <2>2, Zenon DEF Cut
  <1> HIDE DEF m
  <1>5. Joined(p, s, 1) = p[s] /\ Joined(q, s, 1) = p[s] \o b
    BY <1>2, OneBatch
  <1>6. Joined(p, s + 1, m) = <<>> /\ Joined(q, s + 1, m) = <<>>
    BY <1>2, <1>3, NoBatches, Zenon
  <1>7. Joined(q, 0, s) = Joined(p, 0, s)
    <2>1. \A t \in 0 .. MaxRounds : 0 <= t /\ t < 0 + s => q[t] = p[t]
      BY <1>2, <1>3, Zenon
    <2>2. JoinedAlike(p, q, 0, s)
      BY <1>3, <2>1, SameBatches, Zenon
    <2>. QED BY <2>2, Zenon DEF JoinedAlike
  <1> DEFINE x == Joined(p, 0, s)
             y == p[s]
  <1>8. x \in Seq(T) /\ y \in Seq(T)
    BY <1>1, <1>4
  <1>9. /\ Joined(p, 0, MaxRounds + 1) = x \o (y \o <<>>)
        /\ Joined(q, 0, MaxRounds + 1) = x \o ((y \o b) \o <<>>)
    BY <1>4, <1>5, <1>6, <1>7
  <1> HIDE DEF x, y
  <1>10. y \o <<>> = y /\ (y \o b) \o <<>> = y \o b
    BY <1>8
  <1>11. Regrouped(x, y, b)
    BY <1>8, Regroup, Zenon
  <1>12. Joined(q, 0, MaxRounds + 1) = Joined(p, 0, MaxRounds + 1) \o b
    BY <1>9, <1>10, <1>11 DEF Regrouped
  <1>. QED BY <1>2, <1>12 DEF q

\* The first n batches buffered, from the number lo on, leave the buffer.
LEMMA BufferDrained ==
  ASSUME NEW T, NEW p \in Buffers(T), NEW lo \in Nat, NEW n \in Nat, lo + n <= MaxRounds + 1,
         \A t \in 0 .. MaxRounds : t < lo => p[t] = <<>>
  PROVE  /\ Drawn(p, lo .. lo + n - 1) \in Buffers(T)
         /\ Joined(p, 0, MaxRounds + 1) =
              Joined(p, lo, n) \o Joined(Drawn(p, lo .. lo + n - 1), 0, MaxRounds + 1)
         /\ Joined(p, lo, n) \in Seq(T)
  <1> DEFINE D == lo .. lo + n - 1
             q == Drawn(p, D)
             m == MaxRounds + 1 - (lo + n)
  <1>0. MaxRounds \in Nat
    BY FanInAssumption
  <1>1. DOMAIN p = 0 .. MaxRounds /\ <<>> \in Seq(T) /\ \A s \in 0 .. MaxRounds : p[s] \in Seq(T)
    BY DEF Buffers
  <1>2. /\ q \in Buffers(T)
        /\ \A t \in 0 .. MaxRounds : t \in D => q[t] = <<>>
        /\ \A t \in 0 .. MaxRounds : t \notin D => q[t] = p[t]
    BY <1>1 DEF Buffers, Drawn
  <1> HIDE DEF q
  <1>3. /\ m \in Nat /\ lo + n \in Nat /\ 0 \in Nat
        /\ (lo + n) + m <= MaxRounds + 1 /\ 0 + lo <= MaxRounds + 1
        /\ \A t \in 0 .. MaxRounds : t < 0 + lo => t < lo /\ t \notin D
        /\ \A t \in 0 .. MaxRounds : lo <= t /\ t < lo + n => t \in D
        /\ \A t \in 0 .. MaxRounds : lo + n <= t => t \notin D
    BY <1>0
  <1>4. /\ Joined(p, 0, MaxRounds + 1) = Joined(p, 0, lo) \o (Joined(p, lo, n) \o Joined(p, lo + n, m))
        /\ Joined(q, 0, MaxRounds + 1) = Joined(q, 0, lo) \o (Joined(q, lo, n) \o Joined(q, lo + n, m))
        /\ Joined(p, lo, n) \in Seq(T) /\ Joined(p, lo + n, m) \in Seq(T)
    <2>1. /\ Cut(p, lo, n) /\ Joined(p, lo, n) \in Seq(T)
          /\ Joined(p, lo + n, MaxRounds + 1 - (lo + n)) \in Seq(T)
      BY BufferCut, Zenon
    <2>2. Cut(q, lo, n)
      BY <1>2, BufferCut, Zenon
    <2>. QED BY <2>1, <2>2, Zenon DEF Cut, m
  <1> HIDE DEF m
  <1>5. Joined(p, 0, lo) = <<>> /\ Joined(q, 0, lo) = <<>>
    BY <1>2, <1>3, NoBatches, Zenon
  <1>6. Joined(q, lo, n) = <<>>
    BY <1>2, <1>3, NoBatches, Zenon
  <1>7. Joined(q, lo + n, m) = Joined(p, lo + n, m)
    <2>1. \A t \in 0 .. MaxRounds : lo + n <= t /\ t < (lo + n) + m => q[t] = p[t]
      BY <1>2, <1>3, Zenon
    <2>2. JoinedAlike(p, q, lo + n, m)
      BY <1>3, <2>1, SameBatches, Zenon
    <2>. QED BY <2>2, Zenon DEF JoinedAlike
  <1> DEFINE x == Joined(p, lo, n)
             y == Joined(p, lo + n, m)
  <1>8. /\ Joined(p, 0, MaxRounds + 1) = <<>> \o (x \o y)
        /\ Joined(q, 0, MaxRounds + 1) = <<>> \o (<<>> \o y)
        /\ x \in Seq(T) /\ y \in Seq(T)
    BY <1>4, <1>5, <1>6, <1>7
  <1> HIDE DEF x, y
  <1>9. <<>> \o (x \o y) = x \o y /\ <<>> \o (<<>> \o y) = y
    BY <1>8
  <1>10. Joined(p, 0, MaxRounds + 1) = x \o Joined(q, 0, MaxRounds + 1)
    BY <1>8, <1>9
  <1>. QED BY <1>2, <1>8, <1>10 DEF q, x

\* What is buffered from the number n on without a gap is an interval.
LEMMA RunIs ==
  ASSUME NEW m, NEW n \in Nat \ {0}, n <= MaxRounds + 1
  PROVE  LET k == Cardinality(Run(m, n))
         IN  /\ k \in Nat /\ n + k <= MaxRounds + 1 /\ Run(m, n) = n .. n + k - 1
             /\ n + k \in 0 .. MaxRounds => pending[m][n + k] = <<>>
  <1> DEFINE R == Run(m, n)
             k == Cardinality(R)
  <1>0. MaxRounds \in Nat
    BY FanInAssumption
  <1>1. R \in SUBSET (n .. MaxRounds) /\ \A s \in R : \A t \in n .. s : t \in R
    BY <1>0 DEF Run
  <1>2. \A s \in n .. MaxRounds : (\A t \in n .. s : pending[m][t] # <<>>) => s \in R
    BY DEF Run
  <1>3. \A s \in R : pending[m][s] # <<>>
    BY <1>0 DEF Run
  <1> HIDE DEF R
  <1>4. k \in Nat /\ n + k <= MaxRounds + 1 /\ R = n .. n + k - 1
    <2>1. CASE R = {}
      <3>1. k = 0
        BY <2>1, FS_EmptySet
      <3>. QED BY <1>0, <2>1, <3>1
    <2>2. CASE R # {}
      <3>1. R \in SUBSET (1 .. MaxRounds)
        BY <1>0, <1>1
      <3>2. PICK s \in R : \A t \in R : t <= s
        BY <1>0, <2>2, <3>1, LastPosition
      <3>3. s \in n .. MaxRounds /\ n \in Int /\ s \in Int
        BY <1>0, <1>1
      <3>4. R = n .. s
        <4>1. n .. s \subseteq R
          BY <1>1, <3>2
        <4>2. ASSUME NEW t \in R
              PROVE  t \in n .. s
          <5>1. t \in n .. MaxRounds /\ t <= s
            BY <1>1, <3>2
          <5>. QED BY <1>0, <3>3, <5>1
        <4>. QED BY <4>1, <4>2
      <3>5. k = s - n + 1
        BY <3>3, <3>4, FS_Interval
      <3>. QED BY <1>0, <3>3, <3>4, <3>5
    <2>. QED BY <2>1, <2>2
  <1>5. ASSUME n + k \in 0 .. MaxRounds, pending[m][n + k] # <<>>
        PROVE  FALSE
    <2> DEFINE s == n + k
    <2>1. s \in n .. MaxRounds /\ s \notin R
      BY <1>0, <1>4, <1>5
    <2>2. \A t \in n .. s : t \in R \/ t = s
      BY <1>0, <1>4
    <2>3. pending[m][s] # <<>>
      BY <1>5
    <2> HIDE DEF s, k
    <2>. QED BY <1>2, <1>3, <2>1, <2>2, <2>3
  <1>. QED BY <1>4, <1>5 DEF R

-------------------------------------------------------------------------------
(* Who passes through a merger *)

\* The slots of merger m, and the items that pass through it.
Slots(m) == {w \in Workers : Merger(w) = m}
Passing(m) == Slots(m) \X Nat

\* Every worker has a merger; a merger's slots are mergers apart, from m on.
LEMMA SlotsAre ==
  ASSUME mergers \in 1 .. MaxMergers
  PROVE  /\ \A w \in Workers : Merger(w) \in Mergers /\ w \in Slots(Merger(w))
         /\ \A m \in Mergers : m \in Slots(m)
         /\ \A m \in Mergers : \A w \in Slots(m) :
              /\ w \in Workers /\ w \in Nat /\ Merger(w) = m /\ m <= w
              /\ w + mergers \in Workers => w + mergers \in Slots(m)
              /\ \A v \in Slots(m) : v < w + mergers => v <= w
  <1>0. /\ mergers \in Nat \ {0} /\ mergers <= NumWorkers /\ NumWorkers \in Nat
        /\ \A w \in Workers : w \in Nat /\ w \in Int
        /\ \A m \in Mergers : m \in 0 .. mergers - 1 /\ m \in Workers
    BY FanInAssumption DEF Workers, Mergers
  <1>1. ASSUME NEW w \in Workers
        PROVE  Merger(w) \in Mergers /\ w \in Slots(Merger(w))
    BY <1>0, ModRange DEF Merger, Mergers, Slots
  <1>2. ASSUME NEW m \in Mergers
        PROVE  m \in Slots(m)
    BY <1>0, ModSmall DEF Slots, Merger
  <1>3. ASSUME NEW m \in Mergers, NEW w \in Slots(m)
        PROVE  /\ w \in Workers /\ w \in Nat /\ Merger(w) = m /\ m <= w
               /\ w + mergers \in Workers => w + mergers \in Slots(m)
               /\ \A v \in Slots(m) : v < w + mergers => v <= w
    <2> DEFINE a == w \div mergers
    <2>1. w \in Workers /\ w \in Nat /\ Merger(w) = m /\ w % mergers = m
      BY <1>0 DEF Slots, Merger
    <2>2. a \in Int /\ w = mergers * a + m
      BY <1>0, <2>1, DivMod
    <2>3. w + mergers \in Workers => w + mergers \in Slots(m)
      <3>1. w + mergers \in Int /\ a + 1 \in Int /\ w + mergers = mergers * (a + 1) + m
        BY <1>0, <2>1, <2>2
      <3>2. (w + mergers) % mergers = m
        BY <1>0, <3>1, ModIs
      <3>. QED BY <3>2 DEF Slots, Merger
    <2>4. ASSUME NEW v \in Slots(m), v < w + mergers
          PROVE  v <= w
      <3> DEFINE b == v \div mergers
      <3>1. v \in Nat /\ v % mergers = m
        BY <1>0 DEF Slots, Merger
      <3>2. b \in Int /\ v = mergers * b + m
        BY <1>0, <3>1, DivMod
      <3> HIDE DEF a, b
      <3>3. CASE b <= a
        <4>1. mergers * b <= mergers * a
          BY <1>0, <2>2, <3>2, <3>3
        <4>. QED BY <1>0, <2>2, <3>2, <4>1
      <3>4. CASE b >= a + 1
        <4>1. mergers * b >= mergers * (a + 1) /\ mergers * (a + 1) = mergers * a + mergers
          BY <1>0, <2>2, <3>2, <3>4
        <4>. QED BY <1>0, <2>2, <2>4, <3>2, <4>1
      <3>. QED BY <2>2, <3>2, <3>3, <3>4
    <2>5. m <= w
      <3>1. CASE m <= w
        BY <3>1
      <3>2. CASE w < m
        <4>1. w \in 0 .. mergers - 1
          BY <1>0, <2>1, <3>2
        <4>. QED BY <1>0, <2>1, <4>1, ModSmall
      <3>. QED BY <1>0, <2>1, <3>1, <3>2
    <2>. QED BY <2>1, <2>3, <2>4, <2>5
  <1>. QED BY <1>1, <1>2, <1>3

-------------------------------------------------------------------------------
(* The invariant of the ways *)

\* What the variables are.
PoolSignals ==
  /\ round \in 0 .. MaxRounds
  /\ stamp = IF round = 0 THEN 0 ELSE round - 1
  /\ unjoined \in BOOLEAN
  /\ go \in [Workers -> BOOLEAN] /\ done \in [Workers -> BOOLEAN]
  /\ pc \in [Workers -> {"wait", "take", "publish"}]
  /\ recycle \in [Workers -> BOOLEAN]
  /\ flushes \in 0 .. MaxFlushes
  /\ steady \in BOOLEAN /\ fresh \in BOOLEAN
MergerSignals ==
  /\ mergers \in 1 .. MaxMergers /\ ordered \in BOOLEAN
  /\ mpc \in [Mergers -> {"idle", "take", "recycle", "finish"}]
  /\ at \in [Mergers -> Nat]
  /\ next \in [Mergers -> Nat]
Signals == PoolSignals /\ MergerSignals

\* A ring or a batch holds items of its own worker, a merger those that pass it.
Carriers ==
  /\ ran \in [Workers -> Seq(Int)]
  /\ active = [w \in Workers |-> active[w]]
  /\ \A w \in Workers : active[w] \in Seq(Mine(w))
  /\ batch = [w \in Workers |-> batch[w]]
  /\ \A w \in Workers : batch[w] \in Seq(Mine(w)) \union {None}
  /\ pending = [m \in Mergers |-> pending[m]]
  /\ \A m \in Mergers : pending[m] \in Buffers(Passing(m))
  /\ out = [m \in Mergers |-> out[m]]
  /\ \A m \in Mergers : out[m] \in Seq(Passing(m))
  /\ lost \subseteq Item

\* A worker has run at most as often as it was called, a merger flushed at most as
\* often as it was asked to; a merger at work is at one of its slots.
Bounds ==
  /\ \A w \in Workers : Len(ran[w]) <= round /\ (go[w] => Len(ran[w]) < round)
  /\ \A m \in Mergers :
       /\ next[m] <= MaxRounds + flushes
       /\ mpc[m] # "idle" => next[m] < MaxRounds + flushes /\ flushes > 0
       /\ mpc[m] \in {"take", "recycle"} => at[m] \in Slots(m)

\* A ring waits in the recycle slot, or is taken from there to be filled, only while
\* the slot of the batch is empty.
Rings ==
  /\ \A w \in Workers :
       /\ recycle[w] => batch[w] = None /\ pc[w] # "publish"
       /\ pc[w] = "publish" => batch[w] = None
  /\ \A m \in Mergers :
       mpc[m] = "recycle" => batch[at[m]] = None /\ ~recycle[at[m]] /\ pc[at[m]] # "publish"

\* Only what is early is buffered, and only where batches are put in order.
Ahead ==
  \A m \in Mergers : \A s \in 0 .. MaxRounds :
    pending[m][s] # <<>> => ordered /\ next[m] < s /\ s < round

Accounted == \A w \in Workers : Accounts(Path(w), lost, w, Len(ran[w]))

PathInv == Signals /\ Carriers /\ Bounds /\ Rings /\ Ahead /\ Accounted

\* The invariant holds at first: no item has been made.
LEMMA InitInv == Init => PathInv
  <1> SUFFICES ASSUME Init
               PROVE  PathInv
    OBVIOUS
  <1>0. /\ MaxRounds \in Nat /\ MaxFlushes \in Nat /\ NumWorkers \in Nat \ {0}
        /\ MaxMergers \in 1 .. NumWorkers /\ \A T : <<>> \in Seq(T)
    BY FanInAssumption, NoneHas
  <1>1. Signals
    <2>1. PoolSignals
      <3>1. /\ round = 0 /\ stamp = 0 /\ unjoined = FALSE /\ flushes = 0 /\ steady = TRUE /\ fresh = TRUE
            /\ go = [w \in Workers |-> FALSE] /\ done = [w \in Workers |-> FALSE]
            /\ pc = [w \in Workers |-> "wait"] /\ recycle = [w \in Workers |-> TRUE]
        BY DEF Init
      <3>2. /\ go \in [Workers -> BOOLEAN] /\ done \in [Workers -> BOOLEAN]
            /\ recycle \in [Workers -> BOOLEAN]
        BY <3>1
      <3>3. pc \in [Workers -> {"wait", "take", "publish"}]
        BY <3>1
      <3>4. /\ round \in 0 .. MaxRounds /\ stamp = IF round = 0 THEN 0 ELSE round - 1
            /\ flushes \in 0 .. MaxFlushes
        BY <1>0, <3>1
      <3>5. unjoined \in BOOLEAN /\ steady \in BOOLEAN /\ fresh \in BOOLEAN
        BY <3>1
      <3>. QED BY <3>2, <3>3, <3>4, <3>5 DEF PoolSignals
    <2>2. MergerSignals
      BY <1>0 DEF Init, MergerSignals
    <2>. QED BY <2>1, <2>2 DEF Signals
  <1>2. /\ \A w \in Workers : ran[w] = <<>> /\ active[w] = <<>> /\ batch[w] = None
        /\ \A m \in Mergers : out[m] = <<>>
        /\ \A m \in Mergers, s \in 0 .. MaxRounds : pending[m][s] = <<>>
    BY DEF Init
  <1>3. \A m \in Mergers : pending[m] \in Buffers(Passing(m)) /\ pending[m] \in Buffers(Item)
    BY <1>0 DEF Init, Buffers
  <1>4. Carriers
    <2>1. ran \in [Workers -> Seq(Int)]
      BY <1>0 DEF Init
    <2>2. active = [w \in Workers |-> active[w]]
      BY DEF Init
    <2>3. batch = [w \in Workers |-> batch[w]]
      BY DEF Init
    <2>4. pending = [m \in Mergers |-> pending[m]]
      BY DEF Init
    <2>5. out = [m \in Mergers |-> out[m]]
      BY DEF Init
    <2>6. lost \subseteq Item
      BY DEF Init
    <2>. QED BY <1>0, <1>2, <1>3, <2>1, <2>2, <2>3, <2>4, <2>5, <2>6 DEF Carriers
  <1>5. Bounds
    BY <1>0, <1>2 DEF Init, Bounds
  <1>6. Rings
    BY DEF Init, Rings
  <1>7. Ahead
    BY <1>2 DEF Ahead
  <1>8. ASSUME NEW w \in Workers
        PROVE  Accounts(Path(w), lost, w, Len(ran[w]))
    <2> DEFINE m == Merger(w)
    <2>1. m \in Mergers
      BY <1>1, SlotsAre DEF Signals, MergerSignals
    <2>2. Joined(pending[m], 0, MaxRounds + 1) = <<>>
      BY <1>2, <1>3, <2>1, BufferJoined, Zenon
    <2>3. Of(w, <<>>) = <<>>
      BY <1>0, NoneHas, OfIs
    <2>4. Path(w) = <<>> \o <<>> \o <<>> \o <<>>
      BY <1>2, <2>1, <2>2, <2>3, Zenon DEF Path
    <2>5. Path(w) = <<>>
      BY <2>4
    <2>6. lost = {} /\ Len(ran[w]) = 0 /\ 1 .. 0 = {}
      BY <1>2 DEF Init
    <2>. QED BY <1>0, <2>5, <2>6, NoneHas DEF Accounts, Ordered
  <1>9. Accounted
    BY <1>8 DEF Accounted
  <1>. QED BY <1>1, <1>4, <1>5, <1>6, <1>7, <1>9 DEF PathInv

-------------------------------------------------------------------------------
(* What the steps do *)

\* A run of numbers is finite.
LEMMA RunCount ==
  ASSUME NEW m, NEW n \in Nat
  PROVE  Cardinality(Run(m, n)) \in Nat
  <1>1. n .. MaxRounds \in SUBSET Int /\ IsFiniteSet(n .. MaxRounds)
    BY FanInAssumption, FS_Interval
  <1>2. Run(m, n) \subseteq n .. MaxRounds
    BY DEF Run
  <1>. QED BY <1>1, <1>2, FS_Subset, FS_CardinalityType

\* Every step keeps the signals of the pool what they are.
LEMMA PoolSignalsKept ==
  ASSUME PoolSignals, [Next]_vars
  PROVE  PoolSignals'
  <1> USE DEF PoolSignals
  <1>0. MaxRounds \in Nat /\ MaxFlushes \in Nat
    BY FanInAssumption
  <1>1. CASE Dispatch
    <2>1. round' \in 0 .. MaxRounds /\ stamp' = IF round' = 0 THEN 0 ELSE round' - 1
      BY <1>0, <1>1 DEF Dispatch
    <2>2. go' \in [Workers -> BOOLEAN]
      <3>1. go' = [w \in Workers |-> TRUE]
        BY <1>1 DEF Dispatch
      <3>. QED BY <3>1
    <2>3. unjoined' \in BOOLEAN /\ steady' \in BOOLEAN /\ fresh' \in BOOLEAN
      BY <1>1 DEF Dispatch
    <2>4. done' = done /\ pc' = pc /\ recycle' = recycle /\ flushes' = flushes
      BY <1>1 DEF Dispatch, workers
    <2>. QED BY <2>1, <2>2, <2>3, <2>4
  <1>2. CASE Join
    BY <1>2 DEF Join, workers, history
  <1>3. CASE NewCollectors
    BY <1>3 DEF NewCollectors, pool, workers
  <1>4. ASSUME NEW S, Flush(S)
        PROVE  PoolSignals'
    BY <1>0, <1>4 DEF Flush, pool, workers
  <1>5. ASSUME NEW w \in Workers, Work(w)
        PROVE  PoolSignals'
    BY <1>5 DEF Work, history
  <1>6. ASSUME NEW w \in Workers, TakeRecycle(w)
        PROVE  PoolSignals'
    BY <1>6 DEF TakeRecycle, history
  <1>7. ASSUME NEW w \in Workers, Publish(w)
        PROVE  PoolSignals'
    BY <1>7 DEF Publish, history
  <1>8. ASSUME NEW m \in Mergers, SkipSlot(m) \/ Finish(m)
        PROVE  PoolSignals'
    BY <1>8 DEF SkipSlot, Finish, pool, workers, history
  <1>9. ASSUME NEW m \in Mergers, Collect(m)
        PROVE  PoolSignals'
    BY <1>9 DEF Collect, pool, history
  <1>10. ASSUME NEW m \in Mergers, Recycle(m)
        PROVE  PoolSignals'
    BY <1>10 DEF Recycle, pool, history
  <1>11. ASSUME NEW m \in Mergers, NEW k, CollectFails(m, k)
        PROVE  PoolSignals'
    BY <1>11 DEF CollectFails, pool
  <1>12. ASSUME NEW m \in Mergers, NEW k, NEW s, FinishFails(m, s, k)
        PROVE  PoolSignals'
    BY <1>12 DEF FinishFails, pool, workers
  <1>13. CASE UNCHANGED vars
    BY <1>13 DEF vars, pool, workers, history
  <1>. QED
    BY <1>1, <1>2, <1>3, <1>4, <1>5, <1>6, <1>7, <1>8, <1>9, <1>10, <1>11, <1>12, <1>13,
       Zenon DEF Next

\* The mergers are chosen once.
LEMMA MergersStay ==
  ASSUME [Next]_vars
  PROVE  mergers' = mergers /\ ordered' = ordered /\ Mergers' = Mergers
  BY ZenonT(60) DEF Next, Dispatch, Join, NewCollectors, Flush, Work, TakeRecycle, Publish, SkipSlot, Collect,
         Recycle, Finish, CollectFails, FinishFails, vars, workers, chosen, Mergers

\* And those of the mergers.
LEMMA MergerSignalsKept ==
  ASSUME MergerSignals, [Next]_vars
  PROVE  MergerSignals'
  <1> USE DEF MergerSignals
  <1>0. mergers' = mergers /\ ordered' = ordered /\ Mergers' = Mergers
    BY MergersStay
  <1>1. mergers \in Nat /\ \A m \in Mergers : m \in Nat
    BY FanInAssumption DEF Mergers
  <1>2. CASE Dispatch \/ Join \/ UNCHANGED vars
    BY <1>0, <1>2 DEF Dispatch, Join, vars, merging
  <1>3. CASE NewCollectors
    BY <1>0, <1>3 DEF NewCollectors
  <1>4. ASSUME NEW S, Flush(S)
        PROVE  MergerSignals'
    BY <1>0, <1>1, <1>4 DEF Flush, FirstSlot
  <1>5. ASSUME NEW w, Work(w) \/ TakeRecycle(w) \/ Publish(w)
        PROVE  MergerSignals'
    BY <1>0, <1>5 DEF Work, TakeRecycle, Publish, merging
  <1>6. ASSUME NEW m \in Mergers, SkipSlot(m) \/ Recycle(m)
        PROVE  MergerSignals'
    <2>1. Onward(m) \in {"take", "finish"} /\ at[m] + mergers \in Nat
      BY <1>1 DEF Onward
    <2>2. /\ mpc' = [mpc EXCEPT ![m] = Onward(m)]
          /\ at' = [at EXCEPT ![m] = at[m] + mergers] /\ next' = next
      BY <1>6 DEF SkipSlot, Recycle
    <2>. QED BY <1>0, <2>1, <2>2
  <1>7. ASSUME NEW m \in Mergers, Collect(m)
        PROVE  MergerSignals'
    BY <1>0, <1>7 DEF Collect
  <1>8. ASSUME NEW m \in Mergers, Finish(m)
        PROVE  MergerSignals'
    <2>1. next[m] + 1 + Cardinality(Drained(m)) \in Nat
      BY RunCount DEF Drained
    <2>2. /\ mpc' = [mpc EXCEPT ![m] = "idle"] /\ at' = at
          /\ next' = next \/ next' = [next EXCEPT ![m] = next[m] + 1 + Cardinality(Drained(m))]
      BY <1>8 DEF Finish
    <2>. QED BY <1>0, <2>1, <2>2
  <1>9. ASSUME NEW m \in Mergers, NEW k, CollectFails(m, k)
        PROVE  MergerSignals'
    BY <1>0, <1>9 DEF CollectFails
  <1>10. ASSUME NEW m \in Mergers, NEW k, NEW s \in 0 .. MaxRounds, FinishFails(m, s, k)
        PROVE  MergerSignals'
    <2>1. /\ mpc' = [mpc EXCEPT ![m] = "idle"] /\ at' = at
          /\ next' = [next EXCEPT ![m] = s]
      BY <1>10 DEF FinishFails
    <2>. QED BY <1>0, <2>1
  <1>. QED
    BY <1>2, <1>3, <1>4, <1>5, <1>6, <1>7, <1>8, <1>9, <1>10, Zenon DEF Next

\* Every step keeps the signals what they are.
LEMMA SignalsKept == Signals /\ [Next]_vars => Signals'
  BY PoolSignalsKept, MergerSignalsKept DEF Signals

\* What rings, batches, mergers and buffers hold are items.
LEMMA AllAreItems ==
  ASSUME Signals, Carriers
  PROVE  /\ \A w \in Workers : Mine(w) \subseteq Item /\ None \notin Seq(Mine(w))
         /\ \A w \in Workers : Mine(w) \subseteq Passing(Merger(w))
         /\ \A m \in Mergers : /\ Passing(m) \subseteq Item
                               /\ out[m] \in Seq(Item) /\ pending[m] \in Buffers(Item)
  <1>1. \A w \in Workers : Mine(w) \subseteq Item
    BY MineType
  <1>2. \A w \in Workers : None \notin Seq(Mine(w))
    BY <1>1, FanInAssumption DEF Item, Workers
  <1>3. \A m \in Mergers : Passing(m) \subseteq Item
    BY DEF Passing, Slots, Item
  <1>4. \A m \in Mergers : out[m] \in Seq(Item)
    BY <1>3 DEF Carriers
  <1>5. ASSUME NEW m \in Mergers
        PROVE  pending[m] \in Buffers(Item)
    <2>1. pending[m] \in [0 .. MaxRounds -> Seq(Passing(m))]
      BY DEF Carriers, Buffers
    <2>2. \A s \in 0 .. MaxRounds : pending[m][s] \in Seq(Passing(m))
      BY <2>1
    <2>3. \A t \in Seq(Passing(m)) : t \in Seq(Item)
      BY <1>3
    <2>4. pending[m] = [s \in 0 .. MaxRounds |-> pending[m][s]]
      BY <2>1
    <2>. QED BY <2>2, <2>3, <2>4 DEF Buffers
  <1>6. \A w \in Workers : Mine(w) \subseteq Passing(Merger(w))
    BY SlotsAre DEF Mine, Passing, Signals, MergerSignals
  <1>. QED BY <1>1, <1>2, <1>3, <1>4, <1>5, <1>6

\* Some steps do not touch an item.
Untouched == UNCHANGED <<ran, active, batch, pending, out, lost>>

\* They are those of the owner that start or end something, and of a merger between two batches.
LEMMA UntouchedBy ==
  ASSUME \/ Dispatch \/ Join \/ UNCHANGED vars
         \/ \E S \in (SUBSET Mergers) \ {{}} : Flush(S)
         \/ \E w \in Workers : TakeRecycle(w)
         \/ \E m \in Mergers : SkipSlot(m) \/ Recycle(m)
  PROVE  Untouched
  BY DEF Dispatch, Join, vars, Flush, TakeRecycle, SkipSlot, Recycle, workers, merging, history,
         Untouched

\* What is drained from a buffer is of the type of the buffer.
LEMMA RunJoined ==
  ASSUME NEW T, NEW m, pending[m] \in Buffers(T), next[m] \in Nat
  PROVE  /\ Joined(pending[m], next[m] + 1, Cardinality(Run(m, next[m] + 1))) \in Seq(T)
         /\ \A s \in Run(m, next[m] + 1) :
              Joined(pending[m], next[m] + 1, s - (next[m] + 1)) \in Seq(T)
  <1> DEFINE lo == next[m] + 1
             n  == Cardinality(Run(m, lo))
  <1>0. MaxRounds \in Nat /\ lo \in Nat \ {0} /\ lo \in Int
    BY FanInAssumption
  <1>1. ASSUME NEW k \in Nat, lo + k <= MaxRounds + 1
        PROVE  Joined(pending[m], lo, k) \in Seq(T)
    <2>1. \A i \in 1 .. k : pending[m][lo + i - 1] \in Seq(T)
      BY <1>0, <1>1, Batches, Zenon
    <2>2. k \in 0 .. k
      OBVIOUS
    <2>. QED BY <1>0, <2>1, <2>2, JoinedIs, Zenon
  <1>2. ASSUME NEW s \in Run(m, lo)
        PROVE  Joined(pending[m], lo, s - lo) \in Seq(T)
    <2>1. s - lo \in Nat /\ lo + (s - lo) <= MaxRounds + 1
      BY <1>0 DEF Run
    <2>. QED BY <1>1, <2>1, Zenon
  <1>3. Joined(pending[m], lo, n) \in Seq(T)
    <2>1. CASE lo <= MaxRounds + 1
      <3>1. n \in Nat /\ lo + n <= MaxRounds + 1
        BY <1>0, <2>1, RunIs
      <3>. QED BY <1>1, <3>1, Zenon
    <2>2. CASE lo > MaxRounds + 1
      <3>1. Run(m, lo) = {}
        BY <1>0, <2>2 DEF Run
      <3>2. n = 0 /\ 0 \in Nat /\ \A i \in 1 .. 0 : pending[m][lo + i - 1] = <<>>
        BY <3>1, FS_EmptySet
      <3>3. Joined(pending[m], lo, 0) = <<>>
        BY <1>0, <3>2, JoinedNone, Zenon
      <3>. QED BY <3>2, <3>3, NoneHas, Zenon
    <2>. QED BY <1>0, <2>1, <2>2
  <1>. QED BY <1>2, <1>3

\* Every step keeps items on the way they belong to.
LEMMA CarriersKept ==
  ASSUME Signals, Carriers, Bounds, [Next]_vars
  PROVE  Carriers'
  <1>0. mergers' = mergers /\ Mergers' = Mergers
    BY MergersStay
  <1>1. \A m : Passing(m)' = Passing(m)
    BY <1>0 DEF Passing, Slots, Merger
  <1>2. \A w \in Workers : None \notin Seq(Mine(w)) /\ \A b \in Seq(Mine(w)) : b \in Seq(Passing(Merger(w)))
    BY AllAreItems
  <1>3. \A m \in Mergers : Passing(m) \subseteq Item
    BY AllAreItems
  <1>4. \A m \in Mergers : mpc[m] = "take" => at[m] \in Workers /\ Merger(at[m]) = m
    BY SlotsAre DEF Bounds, Signals, MergerSignals
  <1>5. CASE Untouched
    BY <1>0, <1>1, <1>5 DEF Carriers, Untouched
  <1>6. CASE NewCollectors
    <2>1. pending' = [m \in Mergers |-> [s \in 0 .. MaxRounds |-> <<>>]]
      BY <1>6 DEF NewCollectors
    <2>2. \A m \in Mergers : pending'[m] \in Buffers(Passing(m))
      BY <2>1, NoneHas DEF Buffers
    <2>3. lost' \subseteq Item
      <3>1. \A m \in Mergers : Buffered(m) \subseteq Item
        <4> SUFFICES ASSUME NEW m \in Mergers, NEW s \in DOMAIN pending[m]
                     PROVE  Elements(pending[m][s]) \subseteq Item
          BY DEF Buffered
        <4>1. pending[m][s] \in Seq(Passing(m))
          BY DEF Carriers, Buffers
        <4>. QED BY <1>3, <4>1, ItemsType
      <3>. QED BY <1>6, <3>1 DEF NewCollectors, Carriers
    <2>4. UNCHANGED <<ran, active, batch, out>>
      BY <1>6 DEF NewCollectors, workers
    <2>. QED BY <1>0, <1>1, <2>1, <2>2, <2>3, <2>4 DEF Carriers
  <1>7. ASSUME NEW w \in Workers, Work(w)
        PROVE  Carriers'
    <2>1. <<w, Len(ran[w]) + 1>> \in Mine(w) /\ round - 1 \in Int
      BY DEF Mine, Carriers, Signals, PoolSignals
    <2>2. /\ ran' = [ran EXCEPT ![w] = Append(ran[w], round - 1)]
          /\ active' = [active EXCEPT ![w] = Append(active[w], <<w, Len(ran[w]) + 1>>)]
          /\ UNCHANGED <<batch, pending, out, lost>>
      BY <1>7 DEF Work, merging, history
    <2>3. ran' \in [Workers -> Seq(Int)]
      BY <2>1, <2>2 DEF Carriers
    <2>4. active' = [v \in Workers |-> active'[v]] /\ \A v \in Workers : active'[v] \in Seq(Mine(v))
      <3> DEFINE a == Append(active[w], <<w, Len(ran[w]) + 1>>)
      <3>1. active[w] \in Seq(Mine(w)) /\ active = [v \in Workers |-> active[v]]
        BY DEF Carriers
      <3>2. a \in Seq(Mine(w))
        BY <2>1, <3>1
      <3>3. active' = [active EXCEPT ![w] = a]
        BY <2>2
      <3> HIDE DEF a
      <3>. QED BY <3>1, <3>2, <3>3 DEF Carriers
    <2>. QED BY <1>0, <1>1, <2>2, <2>3, <2>4 DEF Carriers
  <1>8. ASSUME NEW w \in Workers, Publish(w)
        PROVE  Carriers'
    <2>1. /\ batch' = [batch EXCEPT ![w] = active[w]]
          /\ active' = [active EXCEPT ![w] = IF batch[w] = None THEN <<>> ELSE batch[w]]
          /\ UNCHANGED <<ran, pending, out, lost>>
      BY <1>8 DEF Publish, merging, history
    <2>2. active' = [v \in Workers |-> active'[v]] /\ \A v \in Workers : active'[v] \in Seq(Mine(v))
      BY <2>1, NoneHas DEF Carriers
    <2>3. /\ batch' = [v \in Workers |-> batch'[v]]
          /\ \A v \in Workers : batch'[v] \in Seq(Mine(v)) \union {None}
      BY <2>1 DEF Carriers
    <2>. QED BY <1>0, <1>1, <2>1, <2>2, <2>3 DEF Carriers
  <1>9. ASSUME NEW m \in Mergers, Collect(m)
        PROVE  Carriers'
    <2> DEFINE w == at[m]
               b == batch[w]
    <2>1. w \in Workers /\ Merger(w) = m /\ b # None
      BY <1>4, <1>9 DEF Collect
    <2>2. b \in Seq(Mine(w)) /\ b \in Seq(Passing(m))
      BY <1>2, <2>1 DEF Carriers
    <2>3. /\ batch' = [batch EXCEPT ![w] = None]
          /\ UNCHANGED <<ran, active, lost>>
          /\ \/ out' = [out EXCEPT ![m] = out[m] \o b] /\ pending' = pending
             \/ pending' = [pending EXCEPT ![m] = [pending[m] EXCEPT ![stamp] = pending[m][stamp] \o b]]
                /\ out' = out
      BY <1>9 DEF Collect, history
    <2>4. stamp \in 0 .. MaxRounds
      BY FanInAssumption DEF Signals, PoolSignals
    <2> HIDE DEF w, b
    <2>5. /\ batch' = [v \in Workers |-> batch'[v]]
          /\ \A v \in Workers : batch'[v] \in Seq(Mine(v)) \union {None}
      BY <2>1, <2>3 DEF Carriers
    <2>6. out' = [v \in Mergers |-> out'[v]] /\ \A v \in Mergers : out'[v] \in Seq(Passing(v))
      <3>1. out[m] \in Seq(Passing(m)) /\ out = [v \in Mergers |-> out[v]]
        BY DEF Carriers
      <3>2. out[m] \o b \in Seq(Passing(m))
        BY <2>2, <3>1
      <3>. QED BY <2>3, <3>1, <3>2 DEF Carriers
    <2>7. /\ pending' = [v \in Mergers |-> pending'[v]]
          /\ \A v \in Mergers : pending'[v] \in Buffers(Passing(v))
      <3>1. CASE pending' = pending
        BY <3>1 DEF Carriers
      <3>2. CASE pending' = [pending EXCEPT ![m] = [pending[m] EXCEPT ![stamp] = pending[m][stamp] \o b]]
        <4>1. pending[m] \in Buffers(Passing(m)) /\ pending[m][stamp] \o b \in Seq(Passing(m))
          <5>1. pending[m] \in Buffers(Passing(m))
            BY DEF Carriers
          <5>2. pending[m][stamp] \in Seq(Passing(m))
            BY <2>4, <5>1 DEF Buffers
          <5>. QED BY <2>2, <5>1, <5>2
        <4>2. [pending[m] EXCEPT ![stamp] = pending[m][stamp] \o b] \in Buffers(Passing(m))
          BY <4>1 DEF Buffers
        <4>. QED BY <3>2, <4>2 DEF Carriers
      <3>. QED BY <2>3, <3>1, <3>2
    <2>. QED BY <1>0, <1>1, <2>3, <2>5, <2>6, <2>7 DEF Carriers
  <1>10. ASSUME NEW m \in Mergers, NEW k \in 0 .. MaxRounds, CollectFails(m, k)
        PROVE  Carriers'
    <2> DEFINE w == at[m]
               b == batch[w]
    <2>1. w \in Workers /\ Merger(w) = m /\ b # None /\ k < Len(b)
      BY <1>4, <1>10 DEF CollectFails
    <2>2. b \in Seq(Mine(w)) /\ b \in Seq(Passing(m))
      BY <1>2, <2>1 DEF Carriers
    <2>3. /\ batch' = [batch EXCEPT ![w] = None]
          /\ UNCHANGED <<ran, active, pending>>
          /\ out' = [out EXCEPT ![m] = out[m] \o SubSeq(b, 1, k)]
          /\ lost' = lost \union Elements(SubSeq(b, k + 1, Len(b)))
      BY <1>10 DEF CollectFails
    <2> HIDE DEF w, b
    <2>4. SubSeq(b, 1, k) \in Seq(Passing(m)) /\ SubSeq(b, k + 1, Len(b)) \in Seq(Passing(m))
      BY <2>1, <2>2
    <2>5. /\ batch' = [v \in Workers |-> batch'[v]]
          /\ \A v \in Workers : batch'[v] \in Seq(Mine(v)) \union {None}
      BY <2>1, <2>3 DEF Carriers
    <2>6. out' = [v \in Mergers |-> out'[v]] /\ \A v \in Mergers : out'[v] \in Seq(Passing(v))
      <3>1. out[m] \in Seq(Passing(m)) /\ out = [v \in Mergers |-> out[v]]
        BY DEF Carriers
      <3>2. out[m] \o SubSeq(b, 1, k) \in Seq(Passing(m))
        BY <2>4, <3>1
      <3>. QED BY <2>3, <3>1, <3>2 DEF Carriers
    <2>7. lost' \subseteq Item
      BY <1>3, <2>3, <2>4, ItemsType DEF Carriers
    <2>. QED BY <1>0, <1>1, <2>3, <2>5, <2>6, <2>7 DEF Carriers
  <1>11. ASSUME NEW m \in Mergers, Finish(m)
        PROVE  Carriers'
    <2> DEFINE lo == next[m] + 1
               D  == Drained(m)
               j  == Joined(pending[m], lo, Cardinality(D))
    <2>1. pending[m] \in Buffers(Passing(m)) /\ out[m] \in Seq(Passing(m))
      BY DEF Carriers
    <2>2. j \in Seq(Passing(m))
      BY <2>1, RunJoined, Zenon DEF Drained, Signals, MergerSignals
    <2>3. /\ UNCHANGED <<ran, active, batch, lost>>
          /\ \/ out' = out /\ pending' = pending
             \/ /\ out' = [out EXCEPT ![m] = out[m] \o j]
                /\ pending' = [pending EXCEPT ![m] = Emptied(m, D)]
      BY <1>11 DEF Finish, workers, history
    <2>4. out[m] \o j \in Seq(Passing(m))
      BY <2>1, <2>2
    <2>5. Emptied(m, D) \in Buffers(Passing(m))
      BY <2>1, NoneHas DEF Emptied, Buffers
    <2> HIDE DEF j, D
    <2>6. out' = [v \in Mergers |-> out'[v]] /\ \A v \in Mergers : out'[v] \in Seq(Passing(v))
      BY <2>3, <2>4 DEF Carriers
    <2>7. /\ pending' = [v \in Mergers |-> pending'[v]]
          /\ \A v \in Mergers : pending'[v] \in Buffers(Passing(v))
      BY <2>3, <2>5 DEF Carriers
    <2>. QED BY <1>0, <1>1, <2>3, <2>6, <2>7 DEF Carriers
  <1>12. ASSUME NEW m \in Mergers, NEW k \in 0 .. MaxRounds, NEW s \in 0 .. MaxRounds,
                FinishFails(m, s, k)
        PROVE  Carriers'
    <2> DEFINE lo == next[m] + 1
               b  == pending[m][s]
               j  == Joined(pending[m], lo, s - lo)
               c  == SubSeq(b, 1, k)
               d  == SubSeq(b, k + 1, Len(b))
    <2>1. pending[m] \in Buffers(Passing(m)) /\ out[m] \in Seq(Passing(m)) /\ b \in Seq(Passing(m))
      BY DEF Carriers, Buffers
    <2>2. k < Len(b) /\ s \in Run(m, lo)
      BY <1>12 DEF FinishFails, Drained
    <2>3. j \in Seq(Passing(m))
      BY <2>1, <2>2, RunJoined, Zenon DEF Signals, MergerSignals
    <2>4. /\ UNCHANGED <<ran, active, batch>>
          /\ out' = [out EXCEPT ![m] = out[m] \o j \o c]
          /\ pending' = [pending EXCEPT ![m] = Emptied(m, lo .. s)]
          /\ lost' = lost \union Elements(d)
      BY <1>12 DEF FinishFails, workers
    <2> HIDE DEF j, b
    <2>5. c \in Seq(Passing(m)) /\ d \in Seq(Passing(m))
      BY <2>1, <2>2
    <2> HIDE DEF c, d
    <2>6. out[m] \o j \o c \in Seq(Passing(m))
      BY <2>1, <2>3, <2>5
    <2>7. Emptied(m, lo .. s) \in Buffers(Passing(m))
      BY <2>1, NoneHas DEF Emptied, Buffers
    <2>8. out' = [v \in Mergers |-> out'[v]] /\ \A v \in Mergers : out'[v] \in Seq(Passing(v))
      BY <2>4, <2>6 DEF Carriers
    <2>9. /\ pending' = [v \in Mergers |-> pending'[v]]
          /\ \A v \in Mergers : pending'[v] \in Buffers(Passing(v))
      BY <2>4, <2>7 DEF Carriers
    <2>10. lost' \subseteq Item
      BY <1>3, <2>4, <2>5, ItemsType DEF Carriers
    <2>. QED BY <1>0, <1>1, <2>4, <2>8, <2>9, <2>10 DEF Carriers
  <1>. QED
    BY <1>5, <1>6, <1>7, <1>8, <1>9, <1>10, <1>11, <1>12, UntouchedBy, Zenon DEF Next

\* What finish() drains from a buffer: the numbers from the one that becomes due on,
\* as far as there is no gap.
LEMMA DrainedIs ==
  ASSUME NEW m, next[m] \in Nat
  PROVE  LET lo == next[m] + 1
             n  == Cardinality(Drained(m))
         IN  /\ n \in Nat /\ Drained(m) = lo .. lo + n - 1
             /\ n = 0 \/ lo + n <= MaxRounds + 1
             /\ lo <= MaxRounds + 1 => lo + n <= MaxRounds + 1
             /\ lo + n \in 0 .. MaxRounds => pending[m][lo + n] = <<>>
  <1> DEFINE lo == next[m] + 1
             n  == Cardinality(Drained(m))
  <1>0. MaxRounds \in Nat /\ lo \in Nat \ {0} /\ Drained(m) = Run(m, lo)
    BY FanInAssumption DEF Drained
  <1>1. ASSUME lo <= MaxRounds + 1
        PROVE  /\ n \in Nat /\ Drained(m) = lo .. lo + n - 1 /\ lo + n <= MaxRounds + 1
               /\ lo + n \in 0 .. MaxRounds => pending[m][lo + n] = <<>>
    BY <1>0, <1>1, RunIs
  <1>2. ASSUME lo > MaxRounds + 1
        PROVE  n = 0 /\ Drained(m) = lo .. lo + n - 1 /\ lo + n \notin 0 .. MaxRounds
    <2>1. Drained(m) = {}
      BY <1>0, <1>2 DEF Run
    <2>2. n = 0
      BY <2>1, FS_EmptySet
    <2> HIDE DEF n
    <2>3. ASSUME NEW l \in Nat
          PROVE  l .. l + 0 - 1 = {}
      OBVIOUS
    <2>4. lo .. lo + n - 1 = {}
      BY <1>0, <2>2, <2>3
    <2>5. lo + n \notin 0 .. MaxRounds
      BY <1>0, <1>2, <2>2
    <2>. QED BY <2>1, <2>2, <2>4, <2>5
  <1> HIDE DEF n
  <1>3. /\ n \in Nat /\ Drained(m) = lo .. lo + n - 1
        /\ n = 0 \/ lo + n <= MaxRounds + 1
        /\ lo <= MaxRounds + 1 => lo + n <= MaxRounds + 1
        /\ lo + n \in 0 .. MaxRounds => pending[m][lo + n] = <<>>
    <2>1. lo <= MaxRounds + 1 \/ lo > MaxRounds + 1
      BY <1>0
    <2>2. 0 \in Nat
      OBVIOUS
    <2> HIDE DEF lo
    <2>. QED BY <1>0, <1>1, <1>2, <2>1, <2>2
  <1>. QED BY <1>3 DEF n

\* Every step keeps to the bounds.
LEMMA BoundsKept ==
  ASSUME Signals, Carriers, Bounds, [Next]_vars
  PROVE  Bounds'
  <1>0. /\ MaxRounds \in Nat /\ flushes \in Nat /\ round \in Nat
        /\ mergers' = mergers /\ Mergers' = Mergers /\ \A m : Slots(m)' = Slots(m)
        /\ \A m \in Mergers : next[m] \in Nat /\ m \in Slots(m)
        /\ \A w \in Workers : Len(ran[w]) \in Nat
    BY MergersStay, FanInAssumption, SlotsAre
       DEF Signals, PoolSignals, MergerSignals, Carriers, Slots, Merger
  <1>1. CASE Dispatch
    BY <1>0, <1>1 DEF Dispatch, workers, merging, Bounds
  <1>2. CASE Join \/ UNCHANGED vars
    BY <1>0, <1>2 DEF Join, vars, pool, workers, merging, history, Bounds
  <1>3. CASE NewCollectors
    BY <1>0, <1>3 DEF NewCollectors, pool, workers, Flushing, Bounds
  <1>4. ASSUME NEW S, Flush(S)
        PROVE  Bounds'
    <2>1. \A m \in Mergers : next'[m] <= MaxRounds + flushes /\ next'[m] \in Nat /\ at'[m] \in Slots(m)
      BY <1>0, <1>4 DEF Flush, FirstSlot, Bounds
    <2>2. flushes' = flushes + 1 /\ UNCHANGED <<ran, round, go>>
      BY <1>4 DEF Flush, pool, workers
    <2>. QED BY <1>0, <2>1, <2>2 DEF Bounds
  <1>5. ASSUME NEW w \in Workers, Work(w)
        PROVE  Bounds'
    <2>1. \A v \in Workers : Len(ran'[v]) <= round /\ (go'[v] => Len(ran'[v]) < round)
      <3>1. /\ go[w] /\ go' = [go EXCEPT ![w] = FALSE]
            /\ ran' = [ran EXCEPT ![w] = Append(ran[w], round - 1)]
        BY <1>5 DEF Work
      <3>2. Len(Append(ran[w], round - 1)) = Len(ran[w]) + 1
        BY <1>0 DEF Carriers
      <3>3. \A v \in Workers : v # w => ran'[v] = ran[v] /\ go'[v] = go[v]
        BY <3>1 DEF Carriers, Signals, PoolSignals
      <3>4. ran'[w] = Append(ran[w], round - 1) /\ ~go'[w]
        BY <3>1 DEF Carriers, Signals, PoolSignals
      <3>. QED BY <1>0, <3>1, <3>2, <3>3, <3>4 DEF Bounds
    <2>. QED BY <1>0, <1>5, <2>1 DEF Work, merging, history, Bounds
  <1>6. ASSUME NEW w \in Workers, TakeRecycle(w) \/ Publish(w)
        PROVE  Bounds'
    BY <1>0, <1>6 DEF TakeRecycle, Publish, merging, history, Bounds
  <1>7. ASSUME NEW m \in Mergers, SkipSlot(m) \/ Recycle(m)
        PROVE  Bounds'
    <2>1. mpc[m] # "idle" /\ at[m] \in Slots(m) /\ at[m] + mergers \in Workers => at[m] + mergers \in Slots(m)
      BY <1>7, SlotsAre DEF SkipSlot, Recycle, Bounds, Signals, MergerSignals
    <2>2. /\ mpc' = [mpc EXCEPT ![m] = Onward(m)] /\ at' = [at EXCEPT ![m] = at[m] + mergers]
          /\ UNCHANGED <<ran, round, go, next, flushes>>
      BY <1>7 DEF SkipSlot, Recycle, pool, workers, history
    <2>3. mpc'[m] \in {"take", "recycle"} => at'[m] \in Slots(m)
      BY <1>7, <2>1, <2>2 DEF Onward, Signals, MergerSignals, SkipSlot, Recycle, Bounds
    <2>4. \A v \in Mergers : v # m => mpc'[v] = mpc[v] /\ at'[v] = at[v]
      BY <2>2 DEF Signals, MergerSignals
    <2>5. mpc[m] # "idle"
      BY <1>7 DEF SkipSlot, Recycle
    <2>. QED BY <1>0, <2>2, <2>3, <2>4, <2>5 DEF Bounds
  <1>8. ASSUME NEW m \in Mergers, Collect(m)
        PROVE  Bounds'
    <2>1. /\ mpc[m] = "take" /\ mpc' = [mpc EXCEPT ![m] = "recycle"]
          /\ UNCHANGED <<ran, round, go, next, flushes, at>>
      BY <1>8 DEF Collect, pool, history
    <2>. QED BY <1>0, <2>1 DEF Bounds, Signals, MergerSignals
  <1>9. ASSUME NEW m \in Mergers, Finish(m)
        PROVE  Bounds'
    <2> DEFINE n == Cardinality(Drained(m))
    <2>1. /\ mpc[m] = "finish" /\ mpc' = [mpc EXCEPT ![m] = "idle"]
          /\ next' = next \/ next' = [next EXCEPT ![m] = next[m] + 1 + n]
          /\ UNCHANGED <<ran, round, go, at, flushes>>
      BY <1>9 DEF Finish, pool, workers, history
    <2>2. next[m] < MaxRounds + flushes /\ flushes > 0
      BY <2>1 DEF Bounds
    <2>3. n \in Nat /\ (n = 0 \/ next[m] + 1 + n <= MaxRounds + 1)
      BY <1>0, DrainedIs
    <2> HIDE DEF n
    <2>4. next[m] + 1 + n <= MaxRounds + flushes
      BY <1>0, <2>2, <2>3
    <2>. QED BY <1>0, <2>1, <2>4 DEF Bounds, Signals, MergerSignals
  <1>10. ASSUME NEW m \in Mergers, NEW k, CollectFails(m, k)
        PROVE  Bounds'
    <2>1. /\ mpc' = [mpc EXCEPT ![m] = "idle"]
          /\ UNCHANGED <<ran, round, go, next, flushes, at>>
      BY <1>10 DEF CollectFails, pool
    <2>. QED BY <1>0, <2>1 DEF Bounds, Signals, MergerSignals
  <1>11. ASSUME NEW m \in Mergers, NEW k, NEW s \in 0 .. MaxRounds, FinishFails(m, s, k)
        PROVE  Bounds'
    <2>1. /\ mpc' = [mpc EXCEPT ![m] = "idle"] /\ next' = [next EXCEPT ![m] = s]
          /\ UNCHANGED <<ran, round, go, flushes, at>>
      BY <1>11 DEF FinishFails, pool, workers
    <2>. QED BY <1>0, <2>1 DEF Bounds, Signals, MergerSignals
  <1>. QED
    BY <1>1, <1>2, <1>3, <1>4, <1>5, <1>6, <1>7, <1>8, <1>9, <1>10, <1>11, Zenon DEF Next

\* Every step keeps the rings apart.
LEMMA RingsKept ==
  ASSUME Signals, Carriers, Bounds, Rings, [Next]_vars
  PROVE  Rings'
  <1>0. Mergers' = Mergers
    BY MergersStay
  <1>1. \A m \in Mergers : mpc[m] \in {"take", "recycle"} => at[m] \in Workers /\ Merger(at[m]) = m
    BY SlotsAre DEF Bounds, Signals, MergerSignals
  <1>2. CASE Dispatch \/ Join \/ NewCollectors \/ UNCHANGED vars
    BY <1>0, <1>2 DEF Dispatch, Join, NewCollectors, vars, workers, merging, Rings
  <1>3. ASSUME NEW S, Flush(S)
        PROVE  Rings'
    BY <1>0, <1>3 DEF Flush, workers, Rings
  <1>4. ASSUME NEW w \in Workers, Work(w)
        PROVE  Rings'
    BY <1>0, <1>4 DEF Work, merging, Rings, Signals, PoolSignals
  <1>5. ASSUME NEW w \in Workers, TakeRecycle(w)
        PROVE  Rings'
    BY <1>0, <1>5 DEF TakeRecycle, merging, Rings, Signals, PoolSignals
  <1>6. ASSUME NEW w \in Workers, Publish(w)
        PROVE  Rings'
    BY <1>0, <1>6 DEF Publish, merging, Rings, Signals, PoolSignals, Carriers
  <1>7. ASSUME NEW m \in Mergers, SkipSlot(m)
        PROVE  Rings'
    BY <1>0, <1>7 DEF SkipSlot, Onward, workers, Rings, Signals, MergerSignals
  <1>8. ASSUME NEW m \in Mergers, Collect(m)
        PROVE  Rings'
    <2>1. /\ batch[at[m]] # None /\ batch' = [batch EXCEPT ![at[m]] = None]
          /\ mpc[m] = "take" /\ mpc' = [mpc EXCEPT ![m] = "recycle"]
          /\ UNCHANGED <<recycle, pc, at>>
      BY <1>8 DEF Collect
    <2>. QED BY <1>0, <1>1, <2>1 DEF Rings, Signals, MergerSignals, Carriers
  <1>9. ASSUME NEW m \in Mergers, Recycle(m)
        PROVE  Rings'
    <2>1. /\ mpc[m] = "recycle" /\ mpc' = [mpc EXCEPT ![m] = Onward(m)]
          /\ recycle' = [recycle EXCEPT ![at[m]] = TRUE]
          /\ at' = [at EXCEPT ![m] = at[m] + mergers]
          /\ UNCHANGED <<batch, pc>> /\ Onward(m) # "recycle"
      BY <1>9 DEF Recycle, Onward
    <2>. QED BY <1>0, <1>1, <2>1 DEF Rings, Signals, MergerSignals, PoolSignals
  <1>10. ASSUME NEW m \in Mergers, Finish(m) \/ \E k, s : FinishFails(m, s, k)
        PROVE  Rings'
    BY <1>0, <1>10 DEF Finish, FinishFails, workers, Rings, Signals, MergerSignals
  <1>11. ASSUME NEW m \in Mergers, NEW k, CollectFails(m, k)
        PROVE  Rings'
    <2>1. /\ batch' = [batch EXCEPT ![at[m]] = None] /\ mpc' = [mpc EXCEPT ![m] = "idle"]
          /\ UNCHANGED <<recycle, pc, at>>
      BY <1>11 DEF CollectFails
    <2>. QED BY <1>0, <1>1, <2>1 DEF Rings, Signals, MergerSignals, Carriers
  <1>. QED
    BY <1>2, <1>3, <1>4, <1>5, <1>6, <1>7, <1>8, <1>9, <1>10, <1>11, Zenon DEF Next

\* Every step keeps what is buffered ahead of what is due.
LEMMA AheadKept ==
  ASSUME Signals, Carriers, Ahead, [Next]_vars
  PROVE  Ahead'
  <1>0. /\ Mergers' = Mergers /\ ordered' = ordered /\ MaxRounds \in Nat /\ round \in Nat
        /\ \A m \in Mergers : next[m] \in Nat /\ DOMAIN pending[m] = 0 .. MaxRounds
        /\ pending = [m \in Mergers |-> pending[m]] /\ next \in [Mergers -> Nat]
    BY MergersStay, FanInAssumption DEF Signals, PoolSignals, MergerSignals, Carriers, Buffers
  <1>1. CASE Dispatch
    BY <1>0, <1>1 DEF Dispatch, merging, Ahead
  <1>2. CASE Join \/ UNCHANGED vars
    BY <1>0, <1>2 DEF Join, vars, pool, merging, Ahead
  <1>3. CASE NewCollectors
    BY <1>0, <1>3 DEF NewCollectors, Ahead
  <1>4. ASSUME NEW S, Flush(S)
        PROVE  Ahead'
    BY <1>0, <1>4 DEF Flush, pool, Ahead
  <1>5. ASSUME NEW w, Work(w) \/ TakeRecycle(w) \/ Publish(w)
        PROVE  Ahead'
    BY <1>0, <1>5 DEF Work, TakeRecycle, Publish, merging, Ahead
  <1>6. ASSUME NEW m, SkipSlot(m) \/ Recycle(m) \/ \E k : CollectFails(m, k)
        PROVE  Ahead'
    BY <1>0, <1>6 DEF SkipSlot, Recycle, CollectFails, pool, Ahead
  <1>7. ASSUME NEW m \in Mergers, Collect(m)
        PROVE  Ahead'
    <2> DEFINE b == batch[at[m]]
    <2>1. next' = next /\ round' = round
      BY <1>7 DEF Collect, pool
    <2>2. CASE pending' = pending
      BY <1>0, <2>1, <2>2 DEF Ahead
    <2>3. CASE ~Due(m) /\ pending' =
                 [pending EXCEPT ![m] = [pending[m] EXCEPT ![stamp] = pending[m][stamp] \o b]]
      <3>1. ordered /\ next[m] < stamp /\ stamp < round
        BY <1>0, <2>3 DEF Due, Signals, PoolSignals, MergerSignals
      <3> HIDE DEF b
      <3>2. \A v \in Mergers, s \in 0 .. MaxRounds :
              pending'[v][s] = pending[v][s] \/ (v = m /\ s = stamp)
        BY <1>0, <2>3
      <3>. QED BY <1>0, <2>1, <3>1, <3>2 DEF Ahead
    <2>4. pending' = pending \/ (~Due(m) /\ pending' =
            [pending EXCEPT ![m] = [pending[m] EXCEPT ![stamp] = pending[m][stamp] \o b]])
      BY <1>7 DEF Collect
    <2>. QED BY <2>2, <2>3, <2>4
  <1>8. ASSUME NEW m \in Mergers, Finish(m)
        PROVE  Ahead'
    <2> DEFINE lo == next[m] + 1
               n  == Cardinality(Drained(m))
    <2>1. /\ round' = round
          /\ \/ next' = next /\ pending' = pending
             \/ /\ next' = [next EXCEPT ![m] = lo + n]
                /\ pending' = [pending EXCEPT ![m] = Emptied(m, Drained(m))]
      BY <1>8 DEF Finish, pool
    <2>2. /\ n \in Nat /\ Drained(m) = lo .. lo + n - 1
          /\ lo + n \in 0 .. MaxRounds => pending[m][lo + n] = <<>>
      BY <1>0, DrainedIs
    <2> HIDE DEF n
    <2>3. CASE next' = next /\ pending' = pending
      BY <1>0, <2>1, <2>3 DEF Ahead
    <2>4. CASE /\ next' = [next EXCEPT ![m] = lo + n]
               /\ pending' = [pending EXCEPT ![m] = Emptied(m, Drained(m))]
      <3>1. /\ next'[m] = lo + n /\ \A v \in Mergers : v # m => next'[v] = next[v] /\ pending'[v] = pending[v]
            /\ pending'[m] = Emptied(m, Drained(m))
        BY <1>0, <2>4
      <3>2. ASSUME NEW s \in 0 .. MaxRounds, pending'[m][s] # <<>>
            PROVE  ordered /\ next'[m] < s /\ s < round
        <4>1. s \notin Drained(m) /\ pending[m][s] # <<>>
          BY <1>0, <3>1, <3>2 DEF Emptied
        <4>2. ordered /\ next[m] < s /\ s < round
          BY <4>1 DEF Ahead
        <4>3. s # lo + n
          BY <2>2, <4>1
        <4>. QED BY <1>0, <2>2, <3>1, <4>1, <4>2, <4>3
      <3>. QED BY <1>0, <2>1, <3>1, <3>2 DEF Ahead
    <2>. QED BY <2>1, <2>3, <2>4
  <1>9. ASSUME NEW m \in Mergers, NEW k, NEW s \in 0 .. MaxRounds, FinishFails(m, s, k)
        PROVE  Ahead'
    <2>1. /\ round' = round /\ next' = [next EXCEPT ![m] = s]
          /\ pending' = [pending EXCEPT ![m] = Emptied(m, next[m] + 1 .. s)]
      BY <1>9 DEF FinishFails, pool
    <2>2. /\ next'[m] = s /\ \A v \in Mergers : v # m => next'[v] = next[v] /\ pending'[v] = pending[v]
          /\ pending'[m] = Emptied(m, next[m] + 1 .. s)
      BY <1>0, <2>1
    <2>3. ASSUME NEW t \in 0 .. MaxRounds, pending'[m][t] # <<>>
          PROVE  ordered /\ s < t /\ t < round
      <3>1. t \notin next[m] + 1 .. s /\ pending[m][t] # <<>>
        BY <1>0, <2>2, <2>3 DEF Emptied
      <3>. QED BY <1>0, <3>1 DEF Ahead
    <2>. QED BY <1>0, <2>1, <2>2, <2>3 DEF Ahead
  <1>. QED
    BY <1>1, <1>2, <1>3, <1>4, <1>5, <1>6, <1>7, <1>8, <1>9, Zenon DEF Next

\* What a merger carries, and what a worker has itself.
Carried(m) == Load(out[m], pending[m])
Held(w) == InSlot(batch[w]) \o active[w]

\* A way before and after a step.
LEMMA PathStep ==
  ASSUME Signals, Carriers, Carriers', mergers' = mergers, NEW w \in Workers
  PROVE  /\ Path(w) = Of(w, Carried(Merger(w))) \o Held(w)
         /\ Path(w)' = Of(w, Carried(Merger(w))') \o Held(w)'
         /\ Carried(Merger(w)) \in Seq(Item) /\ Held(w) \in Seq(Mine(w)) /\ Held(w)' \in Seq(Mine(w))
  <1> DEFINE m == Merger(w)
  <1>1. m \in Mergers /\ m \in Mergers' /\ Merger(w)' = m
    BY SlotsAre DEF Signals, MergerSignals, Merger, Mergers
  <1>2. /\ out[m] \in Seq(Item) /\ pending[m] \in Buffers(Item)
        /\ batch[w] \in Seq(Mine(w)) \union {None} /\ active[w] \in Seq(Mine(w))
    BY <1>1, AllAreItems DEF Carriers
  <1>3. /\ out'[m] \in Seq(Item) /\ pending'[m] \in Buffers(Item)
        /\ batch'[w] \in Seq(Mine(w)) \union {None} /\ active'[w] \in Seq(Mine(w))
    <2>1. Passing(m)' = Passing(m) /\ Passing(m) \subseteq Item
      BY <1>1, AllAreItems DEF Passing, Slots, Merger
    <2>2. out'[m] \in Seq(Passing(m)) /\ pending'[m] \in [0 .. MaxRounds -> Seq(Passing(m))]
      BY <1>1, <2>1 DEF Carriers, Buffers
    <2>3. Seq(Passing(m)) \subseteq Seq(Item)
      BY <2>1
    <2> HIDE DEF m
    <2>4. pending'[m] \in [0 .. MaxRounds -> Seq(Item)]
      BY <2>2, <2>3
    <2>. QED BY <2>2, <2>3, <2>4 DEF Carriers, Buffers
  <1>4. /\ Path(w) = Way(w, out[m], pending[m], batch[w], active[w])
        /\ Path(w)' = Way(w, out'[m], pending'[m], batch'[w], active'[w])
    BY <1>1 DEF Path, Way, InSlot
  <1>5. /\ Path(w) = Of(w, Load(out[m], pending[m])) \o (InSlot(batch[w]) \o active[w])
        /\ Load(out[m], pending[m]) \in Seq(Item) /\ InSlot(batch[w]) \o active[w] \in Seq(Mine(w))
    BY <1>2, <1>4, WayIs, Zenon
  <1>6. /\ Path(w)' = Of(w, Load(out'[m], pending'[m])) \o (InSlot(batch'[w]) \o active'[w])
        /\ InSlot(batch'[w]) \o active'[w] \in Seq(Mine(w))
    BY <1>3, <1>4, WayIs, Zenon
  <1>7. Carried(m)' = Load(out'[m], pending'[m]) /\ Held(w)' = InSlot(batch'[w]) \o active'[w]
    BY <1>1 DEF Carried, Held, InSlot, Load
  <1>. QED BY <1>1, <1>5, <1>6, <1>7 DEF Carried, Held

\* Taking a batch from a slot does not change a way: it is behind what the merger of
\* the worker carries.
LEMMA TakenOnWay ==
  ASSUME Signals, Carriers, Accounted, NEW m \in Mergers, mpc[m] = "take", at[m] \in Slots(m),
         batch[at[m]] # None, NEW w \in Workers,
         Path(w) = Of(w, Carried(Merger(w))) \o Held(w)
  PROVE  LET x == IF Merger(w) = m THEN Carried(m) \o batch[at[m]] ELSE Carried(Merger(w))
             y == IF w = at[m] THEN active[w] ELSE Held(w)
         IN  Accounts(Of(w, x) \o y, lost, w, Len(ran[w]))
  <1> DEFINE v == at[m]
             b == batch[v]
  <1>1. v \in Workers /\ Merger(v) = m /\ b \in Seq(Mine(v)) /\ b # None /\ active[v] \in Seq(Mine(v))
    BY SlotsAre DEF Signals, MergerSignals, Carriers
  <1>2. Accounts(Of(w, Carried(Merger(w))) \o Held(w), lost, w, Len(ran[w]))
    BY DEF Accounted
  <1>3. Carried(m) \in Seq(Item)
    BY <1>1, AllAreItems, WayIs, Zenon DEF Carried
  <1>4. CASE w = v
    <2>1. Held(w) = b \o active[w]
      BY <1>1, <1>4 DEF Held, InSlot
    <2>2. TakenOver(w, Carried(m), b, active[w])
      BY <1>1, <1>3, <1>4, CollectedOnWay
    <2>. QED BY <1>1, <1>2, <1>4, <2>1, <2>2 DEF TakenOver
  <1>5. CASE w # v /\ Merger(w) = m
    <2>1. active[w] \in Seq(Mine(w))
      BY DEF Carriers
    <2>2. Of(w, Carried(m) \o b) = Of(w, Carried(m))
      BY <1>1, <1>3, <1>5, <2>1, CollectedOnWay, Zenon
    <2>. QED BY <1>2, <1>5, <2>2
  <1>6. CASE w # v /\ Merger(w) # m
    BY <1>2, <1>6
  <1>. QED BY <1>4, <1>5, <1>6

\* When a batch is due, nothing is buffered.
LEMMA NoneBuffered ==
  ASSUME Signals, Carriers, Ahead, NEW m \in Mergers, Due(m)
  PROVE  /\ \A s \in 0 .. MaxRounds : pending[m][s] = <<>>
         /\ Joined(pending[m], 0, MaxRounds + 1) = <<>>
         /\ Carried(m) = out[m]
  <1>1. next[m] \in Nat /\ round \in Nat /\ MaxRounds \in Nat
    BY FanInAssumption DEF Signals, PoolSignals, MergerSignals
  <1>2. \A s \in 0 .. MaxRounds : pending[m][s] = <<>>
    BY <1>1 DEF Ahead, Due, Signals, PoolSignals
  <1>3. pending[m] \in Buffers(Item) /\ out[m] \in Seq(Item)
    BY AllAreItems
  <1>4. Joined(pending[m], 0, MaxRounds + 1) = <<>>
    BY <1>2, <1>3, BufferJoined, Zenon
  <1>5. out[m] \o <<>> = out[m]
    BY <1>3
  <1>. QED BY <1>2, <1>4, <1>5, Zenon DEF Carried, Load

\* Collecting puts the batch behind what the merger carries.
LEMMA CollectCarries ==
  ASSUME Signals, Carriers, Ahead, NEW m \in Mergers, at[m] \in Slots(m), Collect(m)
  PROVE  Carried(m)' = Carried(m) \o batch[at[m]]
  <1> DEFINE b == batch[at[m]]
             p == pending[m]
             q == Grown(p, stamp, b)
  <1>1. at[m] \in Workers /\ b \in Seq(Item)
    BY SlotsAre, MineType DEF Signals, MergerSignals, Carriers, Collect
  <1>2. p \in Buffers(Item) /\ out[m] \in Seq(Item)
    BY AllAreItems
  <1>3. CASE Due(m)
    <2>1. out' = [out EXCEPT ![m] = out[m] \o b] /\ pending' = pending
      BY <1>3 DEF Collect
    <2>2. out'[m] = out[m] \o b
      BY <2>1 DEF Carriers
    <2>3. Carried(m)' = (out[m] \o b) \o <<>> /\ Carried(m) = out[m]
      BY <1>3, <2>1, <2>2, NoneBuffered, Zenon DEF Carried, Load
    <2> HIDE DEF b, p
    <2>4. (out[m] \o b) \o <<>> = out[m] \o b
      BY <1>1, <1>2
    <2>. QED BY <2>3, <2>4 DEF b
  <1>4. CASE ~Due(m)
    <2>1. out' = out /\ pending' = [pending EXCEPT ![m] = q]
      BY <1>4 DEF Collect, Grown
    <2>2. pending'[m] = q
      BY <2>1 DEF Carriers
    <2>3. stamp \in 0 .. MaxRounds /\ \A t \in 0 .. MaxRounds : stamp < t => p[t] = <<>>
      BY FanInAssumption DEF Signals, PoolSignals, Ahead
    <2> HIDE DEF b, p
    <2>4. Joined(q, 0, MaxRounds + 1) = Joined(p, 0, MaxRounds + 1) \o b
      BY <1>1, <1>2, <2>3, BufferGrows, Zenon
    <2>5. Joined(p, 0, MaxRounds + 1) \in Seq(Item)
      BY <1>2, BufferJoined
    <2> HIDE DEF q
    <2>6. Carried(m)' = out[m] \o (Joined(p, 0, MaxRounds + 1) \o b)
      BY <2>1, <2>2, <2>4 DEF Carried, Load
    <2>7. Carried(m) = out[m] \o Joined(p, 0, MaxRounds + 1)
      BY DEF Carried, Load, p
    <2>8. Regrouped(out[m], Joined(p, 0, MaxRounds + 1), b)
      BY <1>1, <1>2, <2>5, Regroup, Zenon
    <2>. QED BY <2>6, <2>7, <2>8 DEF Regrouped, b
  <1>. QED BY <1>3, <1>4

\* The end of a flush leaves what the merger carries: what leaves the buffer is put out.
LEMMA FinishCarries ==
  ASSUME Signals, Carriers, Ahead, NEW m \in Mergers, Finish(m)
  PROVE  Carried(m)' = Carried(m)
  <1> DEFINE lo == next[m] + 1
             D  == Drained(m)
             n  == Cardinality(D)
             p  == pending[m]
             q  == Emptied(m, D)
             j  == Joined(p, lo, n)
  <1>1. p \in Buffers(Item) /\ out[m] \in Seq(Item) /\ MaxRounds \in Nat /\ lo \in Nat
    BY AllAreItems, FanInAssumption DEF Signals, MergerSignals
  <1>2. CASE ~ordered
    BY <1>2 DEF Finish, Carried, Load
  <1>3. CASE ordered
    <2>1. /\ out' = [out EXCEPT ![m] = out[m] \o j] /\ pending' = [pending EXCEPT ![m] = q]
      BY <1>3 DEF Finish
    <2>2. out'[m] = out[m] \o j /\ pending'[m] = q
      BY <2>1 DEF Carriers
    <2>3. j \in Seq(Item)
      BY <1>1, RunJoined, Zenon DEF Drained, Signals, MergerSignals
    <2>4. \A t \in 0 .. MaxRounds : t < lo => p[t] = <<>>
      BY <1>1 DEF Ahead, Signals, MergerSignals
    <2>5. /\ n \in Nat /\ D = lo .. lo + n - 1 /\ (n = 0 \/ lo + n <= MaxRounds + 1)
          /\ lo <= MaxRounds + 1 => lo + n <= MaxRounds + 1
      BY <1>1, DrainedIs DEF Signals, MergerSignals
    <2>6. q = Drawn(p, D)
      BY DEF Emptied, Drawn
    <2> HIDE DEF p, n, j
    <2>7. /\ Joined(p, 0, MaxRounds + 1) = j \o Joined(q, 0, MaxRounds + 1)
          /\ q \in Buffers(Item)
      <3>1. CASE lo + n <= MaxRounds + 1
        <4> HIDE DEF D, lo, q
        <4>0. /\ p \in Buffers(Item) /\ lo \in Nat /\ n \in Nat /\ lo + n <= MaxRounds + 1
              /\ \A t \in 0 .. MaxRounds : t < lo => p[t] = <<>>
              /\ D = lo .. lo + n - 1
          BY <1>1, <2>4, <2>5, <3>1
        <4>1. /\ Drawn(p, lo .. lo + n - 1) \in Buffers(Item)
              /\ Joined(p, 0, MaxRounds + 1) =
                   Joined(p, lo, n) \o Joined(Drawn(p, lo .. lo + n - 1), 0, MaxRounds + 1)
          BY <4>0, BufferDrained, ZenonT(60)
        <4>. QED BY <2>6, <4>0, <4>1 DEF j
      <3>2. CASE lo + n > MaxRounds + 1
        <4>1. n = 0 /\ lo > MaxRounds + 1
          BY <1>1, <2>5, <3>2
        <4>2. \A t \in 0 .. MaxRounds : p[t] = <<>>
          BY <1>1, <2>4, <4>1
        <4>3. \A t \in 0 .. MaxRounds : q[t] = <<>>
          BY <1>1, <2>6, <4>2 DEF Buffers, Drawn
        <4>4. q \in Buffers(Item)
          BY <1>1, <2>6, NoneHas DEF Buffers, Drawn
        <4>5. j = <<>>
          <5>1. \A k \in 1 .. 0 : p[lo + k - 1] = <<>>
            OBVIOUS
          <5>2. Joined(p, lo, 0) = <<>>
            BY <1>1, <5>1, JoinedNone
          <5>. QED BY <4>1, <5>2 DEF j
        <4> HIDE DEF q
        <4>6. Joined(p, 0, MaxRounds + 1) = <<>> /\ Joined(q, 0, MaxRounds + 1) = <<>>
          BY <1>1, <4>2, <4>3, <4>4, BufferJoined, Zenon
        <4>7. <<>> = <<>> \o <<>>
          OBVIOUS
        <4>. QED BY <4>4, <4>5, <4>6, <4>7
      <3>. QED BY <1>1, <2>5, <3>1, <3>2
    <2> HIDE DEF q
    <2>8. Joined(q, 0, MaxRounds + 1) \in Seq(Item)
      BY <2>7, BufferJoined
    <2>9. Regrouped(out[m], j, Joined(q, 0, MaxRounds + 1))
      BY <1>1, <2>3, <2>8, Regroup, Zenon
    <2>10. Carried(m)' = (out[m] \o j) \o Joined(q, 0, MaxRounds + 1)
      BY <2>2 DEF Carried, Load
    <2>11. Carried(m) = out[m] \o (j \o Joined(q, 0, MaxRounds + 1))
      BY <2>7 DEF Carried, Load, p
    <2>. QED BY <2>9, <2>10, <2>11 DEF Regrouped
  <1>. QED BY <1>2, <1>3

\* Nothing of a worker moves.
LEMMA WayKept ==
  ASSUME Signals, Carriers, Carriers', mergers' = mergers, NEW w \in Workers,
         Accounted, UNCHANGED <<ran, lost>>,
         Carried(Merger(w))' = Carried(Merger(w)), Held(w)' = Held(w)
  PROVE  Accounts(Path(w), lost, w, Len(ran[w]))'
  <1>1. Path(w)' = Path(w)
    BY PathStep, Zenon
  <1>2. Accounts(Path(w)', lost, w, Len(ran[w]))
    BY <1>1 DEF Accounted
  <1>. QED BY <1>2 DEF Accounts, Mine, Ordered, Elements

\* New collectors: what the old ones buffer is gone, from the end of what they carry.
LEMMA AccountedNew ==
  ASSUME Signals, Carriers, Carriers', Ahead, Accounted, mergers' = mergers, Mergers' = Mergers, NewCollectors
  PROVE  Accounted'
  <1> SUFFICES ASSUME NEW w \in Workers
               PROVE  Accounts(Path(w), lost, w, Len(ran[w]))'
    BY DEF Accounted
  <1> DEFINE m == Merger(w)
             j == Joined(pending[m], 0, MaxRounds + 1)
             more == UNION {Buffered(v) : v \in Mergers}
  <1>0. m \in Mergers /\ pending[m] \in Buffers(Item) /\ out[m] \in Seq(Item)
    BY AllAreItems, SlotsAre DEF Signals, MergerSignals
  <1>1. /\ Path(w) = Of(w, Carried(m)) \o Held(w) /\ Path(w)' = Of(w, Carried(m)') \o Held(w)'
        /\ Held(w) \in Seq(Mine(w))
    BY PathStep, Zenon
  <1>2. /\ UNCHANGED <<ran, active, batch, out>> /\ lost' = lost \union more
        /\ pending' = [v \in Mergers |-> [s \in 0 .. MaxRounds |-> <<>>]]
    BY DEF NewCollectors, workers
  <1>3. Held(w)' = Held(w)
    BY <1>2 DEF Held, InSlot
  <1>4. /\ Carried(m) = out[m] \o j /\ j \in Seq(Item)
        /\ \A x : x \in Elements(j) <=> x \in Buffered(m)
    <2>1. /\ j \in Seq(Item)
          /\ \A x : x \in Elements(j) <=> \E s \in 0 .. MaxRounds : x \in Elements(pending[m][s])
      BY <1>0, BufferJoined, Zenon
    <2>2. DOMAIN pending[m] = 0 .. MaxRounds
      BY <1>0 DEF Buffers
    <2>. QED BY <2>1, <2>2 DEF Carried, Load, Buffered
  <1>5. Carried(m)' = out[m] \o <<>>
    <2>1. pending'[m] \in Buffers(Item) /\ \A s \in 0 .. MaxRounds : pending'[m][s] = <<>>
      BY <1>0, <1>2, NoneHas DEF Buffers
    <2>2. Joined(pending'[m], 0, MaxRounds + 1) = <<>>
      BY <2>1, BufferJoined, Zenon
    <2>3. m' = m
      BY DEF Merger
    <2>. QED BY <1>2, <2>2, <2>3 DEF Carried, Load
  <1>6. more \intersect Mine(w) = Elements(j) \intersect Mine(w)
    <2>1. ASSUME NEW v \in Mergers, NEW x \in Buffered(v), x \in Mine(w)
          PROVE  v = m
      <3>1. PICK s \in DOMAIN pending[v] : x \in Elements(pending[v][s])
        BY DEF Buffered
      <3>2. pending[v][s] \in Seq(Passing(v))
        BY <3>1 DEF Carriers, Buffers
      <3>3. x \in Passing(v)
        BY <3>1, <3>2, ItemsType, Zenon
      <3>. QED BY <2>1, <3>3 DEF Passing, Slots, Mine
    <2>. QED BY <1>0, <1>4, <2>1
  <1> HIDE DEF j, more
  <1>7. Accounts(Of(w, out[m] \o (j \o <<>>)) \o Held(w), lost, w, Len(ran[w]))
    <2>1. j \o <<>> = j
      BY <1>4
    <2>. QED BY <1>1, <1>4, <2>1 DEF Accounted
  <1>8. Accounts(Of(w, out[m] \o <<>>) \o Held(w), lost \union more, w, Len(ran[w]))
    BY <1>0, <1>1, <1>4, <1>6, <1>7, NoneHas, DroppedOnWay, Zenon
  <1>9. Path(w)' = Of(w, out[m] \o <<>>) \o Held(w) /\ lost' = lost \union more /\ ran' = ran
    BY <1>1, <1>2, <1>3, <1>5
  <1>. QED BY <1>8, <1>9 DEF Accounts, Mine, Ordered, Elements

\* The work function: one item more at the end of the way of its worker.
LEMMA AccountedWork ==
  ASSUME Signals, Carriers, Carriers', Accounted, mergers' = mergers, NEW u \in Workers, Work(u)
  PROVE  Accounted'
  <1> SUFFICES ASSUME NEW w \in Workers
               PROVE  Accounts(Path(w), lost, w, Len(ran[w]))'
    BY DEF Accounted
  <1> DEFINE e == <<u, Len(ran[u]) + 1>>
             m == Merger(w)
  <1>1. /\ ran' = [ran EXCEPT ![u] = Append(ran[u], round - 1)]
        /\ active' = [active EXCEPT ![u] = Append(active[u], e)]
        /\ UNCHANGED <<batch, out, pending, lost>>
    BY DEF Work, merging, history
  <1>2. /\ Path(w) = Of(w, Carried(m)) \o Held(w) /\ Path(w)' = Of(w, Carried(m)') \o Held(w)'
        /\ Held(w) \in Seq(Mine(w)) /\ Carried(m) \in Seq(Item)
    BY PathStep, Zenon
  <1>3. Carried(m)' = Carried(m)
    BY <1>1 DEF Carried, Load, Merger
  <1>4. Accounts(Path(w), lost, w, Len(ran[w]))
    BY DEF Accounted
  <1>5. CASE w # u
    <2>1. ran'[w] = ran[w] /\ active'[w] = active[w]
      BY <1>1, <1>5 DEF Carriers
    <2>2. Held(w)' = Held(w)
      BY <1>1, <2>1 DEF Held, InSlot
    <2>3. Path(w)' = Path(w) /\ lost' = lost
      BY <1>1, <1>2, <1>3, <2>2
    <2>. QED BY <1>4, <2>1, <2>3, ZenonT(60) DEF Accounts, Mine, Ordered, Elements
  <1>6. CASE w = u
    <2>1. /\ Len(ran'[w]) = Len(ran[w]) + 1 /\ Len(ran[w]) \in Nat
          /\ active'[w] = Append(active[w], e) /\ active[w] \in Seq(Mine(w))
      <3>1. Append(ran[w], round - 1) = ran'[w] /\ ran[w] \in Seq(Int) /\ round - 1 \in Int
        BY <1>1, <1>6 DEF Carriers, Signals, PoolSignals
      <3>2. Len(Append(ran[w], round - 1)) = Len(ran[w]) + 1
        BY <3>1
      <3>. QED BY <1>1, <1>6, <3>1, <3>2 DEF Carriers
    <2>2. e \in Mine(w) /\ InSlot(batch[w]) \in Seq(Mine(w))
      BY <1>6, <2>1, NoneHas DEF Mine, InSlot, Carriers
    <2>3. Of(w, Carried(m)) \in Seq(Mine(w))
      BY <1>2, OfIs
    <2> HIDE DEF e
    <2>4. Behind(InSlot(batch[w]), active[w], e)
      BY <2>1, <2>2, AppendConcat
    <2>5. Held(w)' = Append(Held(w), e)
      BY <1>1, <2>1, <2>4 DEF Held, InSlot, Behind
    <2>6. Behind(Of(w, Carried(m)), Held(w), e)
      BY <1>2, <2>2, <2>3, AppendConcat
    <2>7. Path(w)' = Append(Path(w), e)
      BY <1>2, <1>3, <2>5, <2>6 DEF Behind
    <2>8. Accounts(Append(Path(w), e), lost, w, Len(ran[w]) + 1)
      BY <1>4, <1>6, <2>1, ItemPushed DEF e
    <2>. QED BY <1>1, <2>1, <2>7, <2>8 DEF Accounts, Mine, Ordered, Elements
  <1>. QED BY <1>5, <1>6

\* Publishing moves a ring into a slot that is empty.
LEMMA AccountedPublish ==
  ASSUME Signals, Carriers, Carriers', Accounted, Rings, mergers' = mergers, NEW u \in Workers, Publish(u)
  PROVE  Accounted'
  <1> SUFFICES ASSUME NEW w \in Workers
               PROVE  Accounts(Path(w), lost, w, Len(ran[w]))'
    BY DEF Accounted
  <1>1. /\ batch' = [batch EXCEPT ![u] = active[u]]
        /\ active' = [active EXCEPT ![u] = IF batch[u] = None THEN <<>> ELSE batch[u]]
        /\ UNCHANGED <<ran, out, pending, lost>>
    BY DEF Publish, merging, history
  <1>2. batch[u] = None
    BY DEF Rings, Publish
  <1>3. Carried(Merger(w))' = Carried(Merger(w))
    BY <1>1 DEF Carried, Load, Merger
  <1>4. Held(w)' = Held(w)
    <2>1. CASE w # u
      BY <1>1, <2>1 DEF Held, InSlot, Carriers
    <2>2. CASE w = u
      <3>1. batch'[w] = active[w] /\ active'[w] = <<>> /\ active[w] \in Seq(Mine(w))
        BY <1>1, <1>2, <2>2 DEF Carriers
      <3>2. active[w] # None
        BY <3>1, AllAreItems
      <3>3. active[w] \o <<>> = <<>> \o active[w]
        BY <3>1
      <3>. QED BY <1>2, <2>2, <3>1, <3>2, <3>3 DEF Held, InSlot
    <2>. QED BY <2>1, <2>2
  <1>. QED BY <1>1, <1>3, <1>4, WayKept

\* Collecting moves the batch from the slot to the end of what the merger carries.
LEMMA AccountedCollect ==
  ASSUME Signals, Carriers, Carriers', Bounds, Ahead, Accounted, mergers' = mergers,
         NEW m \in Mergers, Collect(m)
  PROVE  Accounted'
  <1> SUFFICES ASSUME NEW w \in Workers
               PROVE  Accounts(Path(w), lost, w, Len(ran[w]))'
    BY DEF Accounted
  <1> DEFINE v == at[m]
  <1>0. /\ mpc[m] = "take" /\ v \in Slots(m) /\ v \in Workers /\ Merger(v) = m /\ batch[v] # None
        /\ Merger(w) \in Mergers
    BY SlotsAre DEF Collect, Bounds, Signals, MergerSignals
  <1>1. /\ Path(w) = Of(w, Carried(Merger(w))) \o Held(w)
        /\ Path(w)' = Of(w, Carried(Merger(w))') \o Held(w)'
    BY PathStep, Zenon
  <1>2. Carried(m)' = Carried(m) \o batch[v]
    BY <1>0, CollectCarries
  <1>3. batch' = [batch EXCEPT ![v] = None] /\ UNCHANGED <<ran, active, lost>>
    BY DEF Collect, history
  <1>4. \A n \in Mergers : n # m => out'[n] = out[n] /\ pending'[n] = pending[n]
    BY DEF Collect, Carriers
  <1>5. Carried(Merger(w))' = IF Merger(w) = m THEN Carried(m) \o batch[v] ELSE Carried(Merger(w))
    <2>1. Merger(w)' = Merger(w)
      BY DEF Merger
    <2>. QED BY <1>0, <1>2, <1>4, <2>1 DEF Carried, Load
  <1>6. Held(w)' = IF w = v THEN active[w] ELSE Held(w)
    <2>1. CASE w = v
      <3>1. batch'[w] = None /\ <<>> \o active[w] = active[w]
        BY <1>3, <2>1 DEF Carriers
      <3>. QED BY <1>3, <2>1, <3>1 DEF Held, InSlot
    <2>2. CASE w # v
      BY <1>3, <2>2 DEF Held, InSlot, Carriers
    <2>. QED BY <2>1, <2>2
  <1>7. LET x == IF Merger(w) = m THEN Carried(m) \o batch[v] ELSE Carried(Merger(w))
            y == IF w = v THEN active[w] ELSE Held(w)
        IN  Accounts(Of(w, x) \o y, lost, w, Len(ran[w]))
    BY <1>0, <1>1, TakenOnWay
  <1>8. Accounts(Path(w)', lost, w, Len(ran[w]))
    BY <1>1, <1>5, <1>6, <1>7
  <1>. QED BY <1>3, <1>8 DEF Accounts, Mine, Ordered, Elements

\* A failed send: the rest of the batch is gone, and nothing was buffered behind it.
LEMMA AccountedFails ==
  ASSUME Signals, Carriers, Carriers', Bounds, Ahead, Accounted, mergers' = mergers,
         NEW m \in Mergers, NEW k \in 0 .. MaxRounds, CollectFails(m, k)
  PROVE  Accounted'
  <1> SUFFICES ASSUME NEW w \in Workers
               PROVE  Accounts(Path(w), lost, w, Len(ran[w]))'
    BY DEF Accounted
  <1> DEFINE v == at[m]
             b == batch[v]
             c == SubSeq(b, 1, k)
             d == SubSeq(b, k + 1, Len(b))
  <1>0. /\ mpc[m] = "take" /\ v \in Slots(m) /\ v \in Workers /\ Merger(v) = m /\ b # None
        /\ Merger(w) \in Mergers /\ Due(m) /\ k < Len(b) /\ k \in Nat
    BY SlotsAre, FanInAssumption DEF CollectFails, Bounds, Signals, MergerSignals
  <1>1. /\ Path(w) = Of(w, Carried(Merger(w))) \o Held(w)
        /\ Path(w)' = Of(w, Carried(Merger(w))') \o Held(w)'
        /\ Held(w) \in Seq(Mine(w))
    BY PathStep, Zenon
  <1>2. /\ batch' = [batch EXCEPT ![v] = None] /\ UNCHANGED <<ran, active, pending>>
        /\ out' = [out EXCEPT ![m] = out[m] \o c] /\ lost' = lost \union Elements(d)
    BY DEF CollectFails
  <1>3. b \in Seq(Mine(v)) /\ b \in Seq(Item) /\ out[m] \in Seq(Item) /\ active[w] \in Seq(Mine(w))
    BY <1>0, MineType, AllAreItems DEF Carriers
  <1>4. c \in Seq(Item) /\ d \in Seq(Item) /\ b = c \o d /\ d \in Seq(Mine(v))
    <2>1. k \in 0 .. Len(b)
      BY <1>0, <1>3
    <2>2. CutInto(Item, b, k, c, d) /\ CutInto(Mine(v), b, k, c, d)
      BY <1>3, <2>1, CutAt
    <2>. QED BY <2>2 DEF CutInto
  <1>5. /\ Carried(m) = out[m] /\ Joined(pending[m], 0, MaxRounds + 1) = <<>>
    BY <1>0, NoneBuffered, Zenon
  <1>6. out'[m] = out[m] \o c /\ \A n \in Mergers : n # m => out'[n] = out[n]
    BY <1>2 DEF Carriers
  <1>7. Merger(w)' = Merger(w)
    BY DEF Merger
  <1> HIDE DEF b, c, d
  <1>8. Held(w)' = IF w = v THEN active[w] ELSE Held(w)
    <2>1. CASE w = v
      <3>1. batch'[w] = None /\ <<>> \o active[w] = active[w]
        BY <1>2, <1>3, <2>1 DEF Carriers
      <3>. QED BY <1>2, <2>1, <3>1 DEF Held, InSlot
    <2>2. CASE w # v
      BY <1>2, <2>2 DEF Held, InSlot, Carriers
    <2>. QED BY <2>1, <2>2
  <1>9. LET x == IF Merger(w) = m THEN Carried(m) \o b ELSE Carried(Merger(w))
            y == IF w = v THEN active[w] ELSE Held(w)
        IN  Accounts(Of(w, x) \o y, lost, w, Len(ran[w]))
    BY <1>0, <1>1, TakenOnWay DEF b
  <1>10. CASE Merger(w) = m
    <2>1. out[m] \o b = (out[m] \o c) \o (d \o <<>>) /\ (out[m] \o c) \o <<>> = out[m] \o c
          /\ out[m] \o c \in Seq(Item)
      <3>1. Regrouped(out[m], c, d)
        BY <1>3, <1>4, Regroup, Zenon
      <3>2. d \o <<>> = d /\ (out[m] \o c) \o <<>> = out[m] \o c /\ out[m] \o c \in Seq(Item)
        BY <1>3, <1>4
      <3>. QED BY <1>4, <3>1, <3>2 DEF Regrouped
    <2>2. Held(w)' \in Seq(Mine(w)) /\ <<>> \in Seq(Item)
      BY <1>1, <1>3, <1>8, NoneHas
    <2>3. Accounts(Of(w, (out[m] \o c) \o (d \o <<>>)) \o Held(w)', lost, w, Len(ran[w]))
      BY <1>5, <1>8, <1>9, <1>10, <2>1
    <2>4. Accounts(Of(w, (out[m] \o c) \o <<>>) \o Held(w)', lost \union Elements(d), w, Len(ran[w]))
      BY <1>4, <2>1, <2>2, <2>3, DroppedOnWay, Zenon
    <2>5. Carried(m)' = (out[m] \o c) \o <<>>
      BY <1>2, <1>5, <1>6 DEF Carried, Load
    <2>6. Accounts(Path(w)', lost \union Elements(d), w, Len(ran[w]))
      BY <1>1, <1>10, <2>4, <2>5, <1>7
    <2>. QED BY <1>2, <2>6 DEF Accounts, Mine, Ordered, Elements
  <1>11. CASE Merger(w) # m
    <2>1. w # v
      BY <1>0, <1>11
    <2>2. Carried(Merger(w))' = Carried(Merger(w)) /\ Held(w)' = Held(w)
      BY <1>0, <1>2, <1>6, <1>7, <1>8, <1>11, <2>1 DEF Carried, Load
    <2>3. Accounts(Path(w)', lost, w, Len(ran[w]))
      BY <1>1, <1>9, <1>11, <2>1, <2>2
    <2>4. Elements(d) \intersect Mine(w) = {}
      BY <1>0, <1>4, <2>1, MineType
    <2>5. Accounts(Path(w)', lost \union Elements(d), w, Len(ran[w]))
      BY <2>3, <2>4, OthersLose
    <2>. QED BY <1>2, <2>5 DEF Accounts, Mine, Ordered, Elements
  <1>. QED BY <1>10, <1>11

\* The end of a flush moves what leaves the buffer to what is put out.
LEMMA AccountedFinish ==
  ASSUME Signals, Carriers, Carriers', Ahead, Accounted, mergers' = mergers,
         NEW m \in Mergers, Finish(m)
  PROVE  Accounted'
  <1> SUFFICES ASSUME NEW w \in Workers
               PROVE  Accounts(Path(w), lost, w, Len(ran[w]))'
    BY DEF Accounted
  <1>1. /\ \A n \in Mergers : n # m => out'[n] = out[n] /\ pending'[n] = pending[n]
        /\ UNCHANGED <<active, batch, ran, lost>> /\ Merger(w)' = Merger(w) /\ Merger(w) \in Mergers
    BY SlotsAre DEF Finish, Carriers, workers, history, Merger, Signals, MergerSignals
  <1>2. Carried(m)' = Carried(m)
    BY FinishCarries
  <1>3. Carried(Merger(w))' = Carried(Merger(w))
    BY <1>1, <1>2 DEF Carried, Load
  <1>4. Held(w)' = Held(w)
    BY <1>1 DEF Held, InSlot
  <1>. QED BY <1>1, <1>3, <1>4, WayKept

\* A failed send there: the rest of a batch is gone from the middle of the way, with the
\* batches still buffered behind it.
LEMMA AccountedFinishFails ==
  ASSUME Signals, Carriers, Carriers', Ahead, Accounted, mergers' = mergers,
         NEW m \in Mergers, NEW s \in 0 .. MaxRounds, NEW k \in 0 .. MaxRounds, FinishFails(m, s, k)
  PROVE  Accounted'
  <1> SUFFICES ASSUME NEW w \in Workers
               PROVE  Accounts(Path(w), lost, w, Len(ran[w]))'
    BY DEF Accounted
  <1> DEFINE lo == next[m] + 1
             p  == pending[m]
             b  == p[s]
             c  == SubSeq(b, 1, k)
             d  == SubSeq(b, k + 1, Len(b))
             j  == Joined(p, lo, s - lo)
             q  == Emptied(m, lo .. s)
             r  == Joined(q, 0, MaxRounds + 1)
             x  == (out[m] \o j) \o c
  <1>0. /\ Merger(w) \in Mergers /\ Merger(w)' = Merger(w) /\ k < Len(b) /\ k \in Nat
        /\ MaxRounds \in Nat /\ s \in Run(m, lo) /\ next[m] \in Nat
    BY SlotsAre, FanInAssumption DEF FinishFails, Drained, Signals, MergerSignals, Merger
  <1>1. /\ Path(w) = Of(w, Carried(Merger(w))) \o Held(w)
        /\ Path(w)' = Of(w, Carried(Merger(w))') \o Held(w)'
        /\ Held(w) \in Seq(Mine(w))
    BY PathStep, Zenon
  <1>2. /\ UNCHANGED <<ran, active, batch>>
        /\ out' = [out EXCEPT ![m] = x] /\ pending' = [pending EXCEPT ![m] = q]
        /\ lost' = lost \union Elements(d)
    BY DEF FinishFails, workers
  <1>3. /\ p \in Buffers(Item) /\ out[m] \in Seq(Item) /\ b \in Seq(Item) /\ b \in Seq(Passing(m))
    BY AllAreItems DEF Buffers, Carriers
  <1>4. /\ lo \in Nat /\ s - lo \in Nat /\ (s - lo) + 1 \in Nat /\ lo + ((s - lo) + 1) <= MaxRounds + 1
        /\ lo + ((s - lo) + 1) - 1 = s /\ ((s - lo) + 1) - 1 = s - lo
    <2>1. s \in lo .. MaxRounds /\ lo \in Int
      BY <1>0 DEF Run
    <2> HIDE DEF lo
    <2>2. lo \in Nat
      BY <1>0 DEF lo
    <2>. QED BY <1>0, <2>1, <2>2
  <1>5. c \in Seq(Item) /\ d \in Seq(Item) /\ b = c \o d /\ d \in Seq(Passing(m))
    <2> HIDE DEF b
    <2>1. k \in 0 .. Len(b)
      BY <1>0, <1>3
    <2>2. CutInto(Item, b, k, c, d) /\ CutInto(Passing(m), b, k, c, d)
      BY <1>3, <2>1, CutAt
    <2>. QED BY <2>2 DEF CutInto
  <1>6. q = Drawn(p, lo .. lo + ((s - lo) + 1) - 1)
    BY <1>4 DEF Emptied, Drawn
  <1>7. \A t \in 0 .. MaxRounds : t < lo => p[t] = <<>>
    BY <1>0 DEF Ahead
  <1> HIDE DEF p, q
  <1>8. /\ Joined(p, 0, MaxRounds + 1) = Joined(p, lo, (s - lo) + 1) \o r
        /\ q \in Buffers(Item)
    <2>1. /\ Drawn(p, lo .. lo + ((s - lo) + 1) - 1) \in Buffers(Item)
          /\ Joined(p, 0, MaxRounds + 1) = Joined(p, lo, (s - lo) + 1) \o
               Joined(Drawn(p, lo .. lo + ((s - lo) + 1) - 1), 0, MaxRounds + 1)
      <3> DEFINE n == (s - lo) + 1
      <3>1. /\ p \in Buffers(Item) /\ n \in Nat /\ lo \in Nat /\ lo + n <= MaxRounds + 1
            /\ \A t \in 0 .. MaxRounds : t < lo => p[t] = <<>>
        BY <1>3, <1>4, <1>7
      <3> HIDE DEF n, lo
      <3>2. /\ Drawn(p, lo .. lo + n - 1) \in Buffers(Item)
            /\ Joined(p, 0, MaxRounds + 1) = Joined(p, lo, n) \o
                 Joined(Drawn(p, lo .. lo + n - 1), 0, MaxRounds + 1)
        BY <3>1, BufferDrained, ZenonT(60)
      <3>. QED BY <3>2 DEF n
    <2>. QED BY <1>6, <2>1
  <1>9. r \in Seq(Item)
    BY <1>8, BufferJoined
  <1>10. /\ Joined(p, lo, (s - lo) + 1) = j \o b /\ j \in Seq(Item)
    <2> DEFINE n == (s - lo) + 1
    <2>1. \A i \in 1 .. n : p[lo + i - 1] \in Seq(Item)
      BY <1>3, <1>4, Batches, Zenon
    <2>2. n \in 1 .. n /\ n - 1 \in 0 .. n /\ n - 1 = s - lo /\ lo + n - 1 = s /\ n \in Nat /\ lo \in Int
      BY <1>4
    <2> HIDE DEF n
    <2>3. Joined(p, lo, n) = Joined(p, lo, n - 1) \o p[lo + n - 1] /\ Joined(p, lo, n - 1) \in Seq(Item)
      BY <2>1, <2>2, JoinedIs, Zenon
    <2>4. Joined(p, lo, n) = j \o b /\ j \in Seq(Item)
      BY <2>2, <2>3
    <2>. QED BY <2>4 DEF n
  <1> HIDE DEF j, b, c, d, r
  <1>11. x \in Seq(Item)
    BY <1>3, <1>5, <1>10
  <1>12. /\ Carried(m) = out[m] \o ((j \o (c \o d)) \o r)
    BY <1>5, <1>8, <1>10 DEF Carried, Load, p
  <1>13. out[m] \o ((j \o (c \o d)) \o r) = x \o (d \o r)
    <2>1. j \o (c \o d) = (j \o c) \o d /\ j \o c \in Seq(Item)
      <3>1. Regrouped(j, c, d)
        BY <1>5, <1>10, Regroup, Zenon
      <3>. QED BY <1>5, <1>10, <3>1 DEF Regrouped
    <2>2. ((j \o c) \o d) \o r = (j \o c) \o (d \o r)
      <3>1. Regrouped(j \o c, d, r)
        BY <1>5, <1>9, <2>1, Regroup, Zenon
      <3>. QED BY <3>1 DEF Regrouped
    <2>3. out[m] \o ((j \o c) \o (d \o r)) = (out[m] \o (j \o c)) \o (d \o r)
      <3>1. d \o r \in Seq(Item)
        BY <1>5, <1>9
      <3>2. Regrouped(out[m], j \o c, d \o r)
        BY <1>3, <2>1, <3>1, Regroup, Zenon
      <3>. QED BY <3>2 DEF Regrouped
    <2>4. out[m] \o (j \o c) = (out[m] \o j) \o c
      <3>1. Regrouped(out[m], j, c)
        BY <1>3, <1>5, <1>10, Regroup, Zenon
      <3>. QED BY <3>1 DEF Regrouped
    <2>. QED BY <2>1, <2>2, <2>3, <2>4, Zenon
  <1>14. /\ out'[m] = x /\ pending'[m] = q
         /\ \A n \in Mergers : n # m => out'[n] = out[n] /\ pending'[n] = pending[n]
    BY <1>2 DEF Carriers
  <1> HIDE DEF x
  <1>15. Carried(m)' = x \o r
    BY <1>14 DEF Carried, Load, r
  <1>16. Held(w)' = Held(w)
    BY <1>2 DEF Held, InSlot
  <1>17. CASE Merger(w) = m
    <2>1. Accounts(Of(w, x \o (d \o r)) \o Held(w), lost, w, Len(ran[w]))
      BY <1>1, <1>12, <1>13, <1>17 DEF Accounted
    <2>2. Accounts(Of(w, x \o r) \o Held(w), lost \union Elements(d), w, Len(ran[w]))
      BY <1>1, <1>5, <1>9, <1>11, <2>1, DroppedOnWay, Zenon
    <2>3. Accounts(Path(w)', lost \union Elements(d), w, Len(ran[w]))
      BY <1>0, <1>1, <1>15, <1>16, <1>17, <2>2
    <2>. QED BY <1>2, <2>3 DEF Accounts, Mine, Ordered, Elements
  <1>18. CASE Merger(w) # m
    <2>1. Carried(Merger(w))' = Carried(Merger(w))
      BY <1>0, <1>14, <1>18 DEF Carried, Load
    <2>2. Accounts(Path(w)', lost, w, Len(ran[w]))
      BY <1>1, <1>16, <2>1 DEF Accounted
    <2>3. Elements(d) \intersect Mine(w) = {}
      <3>1. Elements(d) \subseteq Passing(m)
        BY <1>5, ItemsType
      <3>. QED BY <1>18, <3>1 DEF Passing, Slots, Mine
    <2>4. Accounts(Path(w)', lost \union Elements(d), w, Len(ran[w]))
      BY <2>2, <2>3, OthersLose
    <2>. QED BY <1>2, <2>4 DEF Accounts, Mine, Ordered, Elements
  <1>. QED BY <1>17, <1>18

\* Every step keeps the accounts of every worker.
LEMMA AccountedKept ==
  ASSUME PathInv, [Next]_vars
  PROVE  Accounted'
  <1>0. /\ Signals /\ Carriers /\ Bounds /\ Rings /\ Ahead /\ Accounted /\ Carriers'
        /\ mergers' = mergers /\ Mergers' = Mergers
    BY CarriersKept, MergersStay DEF PathInv
  <1>1. CASE Untouched
    <2>1. \A w \in Workers : /\ Carried(Merger(w))' = Carried(Merger(w)) /\ Held(w)' = Held(w)
                             /\ UNCHANGED <<ran, lost>>
      BY <1>0, <1>1 DEF Untouched, Carried, Load, Held, InSlot, Merger
    <2>2. \A w \in Workers : Accounts(Path(w), lost, w, Len(ran[w]))'
      BY <1>0, <2>1, WayKept
    <2>. QED BY <2>2 DEF Accounted
  <1>2. ASSUME NEW w \in Workers, Work(w) \/ Publish(w)
        PROVE  Accounted'
    BY <1>0, <1>2, AccountedWork, AccountedPublish
  <1>3. ASSUME NEW m \in Mergers, Collect(m) \/ Finish(m)
        PROVE  Accounted'
    BY <1>0, <1>3, AccountedCollect, AccountedFinish
  <1>4. ASSUME NEW m \in Mergers, NEW k \in 0 .. MaxRounds,
               CollectFails(m, k) \/ \E s \in 0 .. MaxRounds : FinishFails(m, s, k)
        PROVE  Accounted'
    BY <1>0, <1>4, AccountedFails, AccountedFinishFails
  <1>5. CASE NewCollectors
    BY <1>0, <1>5, AccountedNew
  <1>. QED BY <1>1, <1>2, <1>3, <1>4, <1>5, UntouchedBy, Zenon DEF Next

\* The invariant of the ways is one.
LEMMA PathInvKept == PathInv /\ [Next]_vars => PathInv'
  BY SignalsKept, CarriersKept, BoundsKept, RingsKept, AheadKept, AccountedKept DEF PathInv

\* The invariant gives the types.
LEMMA TypesHold == PathInv => TypeOK
  <1> SUFFICES ASSUME PathInv
               PROVE  TypeOK
    OBVIOUS
  <1>0. /\ Signals /\ Carriers /\ Bounds /\ Accounted
        /\ MaxRounds \in Nat /\ MaxFlushes \in Nat
    BY FanInAssumption DEF PathInv
  <1>1. stamp \in 0 .. MaxRounds
    BY <1>0 DEF Signals, PoolSignals
  <1>2. \A m \in Mergers : mpc[m] \in {"take", "recycle"} => at[m] \in Workers /\ Merger(at[m]) = m
    BY <1>0, SlotsAre DEF Bounds, Signals, MergerSignals
  <1>3. next \in [Mergers -> 0 .. MaxRounds + MaxFlushes + 1]
    <2>1. flushes \in Nat /\ flushes <= MaxFlushes /\ next \in [Mergers -> Nat]
      BY <1>0 DEF Signals, PoolSignals, MergerSignals
    <2>2. \A m \in Mergers : next[m] \in 0 .. MaxRounds + MaxFlushes + 1
      BY <1>0, <2>1 DEF Bounds
    <2>. QED BY <2>1, <2>2
  <1>4. lost \subseteq AllItems
    <2> SUFFICES ASSUME NEW x \in lost
                 PROVE  x \in AllItems
      OBVIOUS
    <2>1. PICK w \in Workers : x \in Mine(w)
      BY <1>0 DEF Carriers, Item, Mine
    <2>2. x \in {<<w, k>> : k \in 1 .. Len(ran[w])}
      BY <1>0, <2>1 DEF Accounted, Accounts
    <2>3. PICK k \in 1 .. Len(ran[w]) : x = <<w, k>>
      BY <2>2
    <2>4. k \in 1 .. MaxRounds
      BY <1>0 DEF Bounds, Signals, PoolSignals, Carriers
    <2>. QED BY <2>3, <2>4 DEF AllItems
  <1>. QED BY <1>0, <1>1, <1>2, <1>3, <1>4 DEF TypeOK, Signals, PoolSignals, MergerSignals

\* The accounts say that items come in order, and that each is somewhere once.
LEMMA AccountsDeliver == PathInv => PerWorkerOrder /\ Conservation
  <1> SUFFICES ASSUME PathInv
               PROVE  PerWorkerOrder /\ Conservation
    OBVIOUS
  <1>0. Accounted /\ lost \subseteq AllItems
    BY TypesHold DEF PathInv, TypeOK
  <1>1. PerWorkerOrder
    BY <1>0 DEF Accounted, Accounts, Ordered, PerWorkerOrder
  <1>2. ASSUME NEW w \in Workers
        PROVE  lost \intersect {<<w, k>> : k \in 1 .. MaxRounds} = lost \intersect Mine(w)
    <2>1. \A x \in AllItems : x \in Mine(w) <=> x \in {<<w, k>> : k \in 1 .. MaxRounds}
      BY <1>2 DEF AllItems, Mine
    <2>. QED BY <1>0, <2>1
  <1>3. Conservation
    BY <1>0, <1>2 DEF Accounted, Accounts, Conservation
  <1>. QED BY <1>1, <1>3

\* From a worker's ring to the end every item goes one way, once and in order, whatever
\* the caller does and whatever fails.
THEOREM DeliveryHolds == Spec => []Delivery
  <1>1. PathInv => Delivery
    BY TypesHold, AccountsDeliver DEF Delivery
  <1>. QED BY <1>1, InitInv, PathInvKept, PTL DEF Spec

\* Nothing is buffered under a number that is due, past or not reached.
LEMMA AheadIs == PathInv => BufferIsAhead
  BY DEF PathInv, Ahead, BufferIsAhead, Carriers, Buffers

-------------------------------------------------------------------------------
(* The loop: dispatch, join, flush *)

\* Where a ring is: back in its recycle slot, or published with the item of the round.
Returned(w) == batch[w] = None /\ recycle[w]
Filled(w) == batch[w] = <<<<w, round>>>> /\ ~recycle[w]

\* A worker has run every round and waits, or is in the middle of the last one.
Parked(w) == pc[w] = "wait" /\ ~go[w] /\ Len(ran[w]) = round /\ active[w] = <<>>
Called(w) == pc[w] = "wait" /\ go[w] /\ Len(ran[w]) = round - 1 /\ active[w] = <<>> /\ Returned(w)
Ran(w) == pc[w] = "take" /\ ~go[w] /\ Len(ran[w]) = round /\ active[w] = <<<<w, round>>>> /\ Returned(w)
Taken(w) == pc[w] = "publish" /\ ~go[w] /\ Len(ran[w]) = round /\ active[w] = <<<<w, round>>>>
              /\ batch[w] = None /\ ~recycle[w]

\* Where a worker is: it waits, its round has been flushed or not, or it runs.
WorkerPlace(w) ==
  \/ fresh /\ Parked(w) /\ ~done[w]
  \/ ~fresh /\ Parked(w) /\ (done[w] <=> unjoined) /\ Filled(w)
  \/ unjoined /\ ~done[w] /\ (Called(w) \/ Ran(w) \/ Taken(w))

\* A flushing merger has given back the rings of the slots behind it, and those ahead
\* are filled.
Passed(m) ==
  \/ mpc[m] = "take" /\ \A w \in Slots(m) : IF w < at[m] THEN Returned(w) ELSE Filled(w)
  \/ mpc[m] = "recycle" /\ \A w \in Slots(m) \ {at[m]} : IF w < at[m] THEN Returned(w) ELSE Filled(w)
  \/ mpc[m] = "finish" /\ \A w \in Slots(m) : Returned(w)

\* Where a merger is: it has flushed the round, it has not yet, or it does.
MergerPlace(m) ==
  \/ fresh /\ mpc[m] = "idle" /\ (ordered => next[m] = round) /\ \A w \in Slots(m) : Returned(w)
  \/ ~fresh /\ mpc[m] = "idle" /\ (ordered => next[m] + 1 = round)
  \/ fresh /\ (ordered => next[m] + 1 = round) /\ Passed(m)

\* Nothing is lost or buffered, and every item is that of its round.
Calm ==
  /\ lost = {}
  /\ round = 0 => fresh
  /\ unjoined => ~fresh
  /\ \A m \in Mergers, s \in 0 .. MaxRounds : pending[m][s] = <<>>
  /\ \A w \in Workers : \A k \in DOMAIN ran[w] : ran[w][k] = k - 1

\* Rounds do not go back.
InOrder(s) == \A i, j \in DOMAIN s : i < j => s[i][2] <= s[j][2]

InStep ==
  /\ Calm
  /\ \A m \in Mergers : InOrder(out[m])
  /\ \A w \in Workers : WorkerPlace(w)
  /\ \A m \in Mergers : MergerPlace(m)
LoopInv == steady => InStep

\* What a merger has put out is of its own workers, and of rounds they have run.
LEMMA OutBounds ==
  ASSUME PathInv, NEW m \in Mergers, NEW i \in DOMAIN out[m]
  PROVE  LET x == out[m][i]
         IN  x[1] \in Slots(m) /\ x[2] \in 1 .. Len(ran[x[1]]) /\ x[2] <= round
  <1> DEFINE x == out[m][i]
             w == x[1]
             j == Joined(pending[m], 0, MaxRounds + 1)
  <1>0. Signals /\ Carriers /\ Bounds /\ Accounted /\ mergers \in 1 .. MaxMergers
    BY DEF PathInv, Signals, MergerSignals
  <1>1. x \in Elements(out[m]) /\ x \in Passing(m) /\ out[m] \in Seq(Item) /\ pending[m] \in Buffers(Item)
    BY <1>0, AllAreItems, ItemsType DEF Carriers, Elements
  <1>2. w \in Slots(m) /\ x \in Mine(w) /\ w \in Workers /\ Merger(w) = m
    <2>1. x[1] \in Slots(m) /\ x = <<x[1], x[2]>> /\ x[2] \in Nat
      BY <1>1 DEF Passing
    <2>. QED BY <1>0, <2>1, SlotsAre DEF Mine
  <1> HIDE DEF x, w
  <1>3. x \in Elements(Of(w, Carried(m)))
    <2>1. Carried(m) = out[m] \o j /\ j \in Seq(Item)
      BY <1>1, BufferJoined DEF Carried, Load
    <2> HIDE DEF j
    <2>2. Carried(m) \in Seq(Item) /\ x \in Elements(Carried(m))
      BY <1>1, <2>1, ConcatHas DEF HoldsBoth
    <2>. QED BY <1>2, <2>2, OfIs
  <1>4. x \in Elements(Path(w))
    <2>1. /\ Carried(m) \in Seq(Item) /\ InSlot(batch[w]) \o active[w] \in Seq(Mine(w))
          /\ Of(w, Carried(m)) \in Seq(Mine(w))
          /\ Way(w, out[m], pending[m], batch[w], active[w]) =
               Of(w, Carried(m)) \o (InSlot(batch[w]) \o active[w])
      <3>1. batch[w] \in Seq(Mine(w)) \union {None} /\ active[w] \in Seq(Mine(w))
        BY <1>0, <1>2 DEF Carriers
      <3>. QED BY <1>1, <1>2, <3>1, WayIs, ZenonT(60) DEF Carried
    <2>2. Path(w) = Of(w, Carried(m)) \o (InSlot(batch[w]) \o active[w])
      BY <1>2, <2>1 DEF Path, Way, InSlot
    <2>3. Elements(Path(w)) = Elements(Of(w, Carried(m))) \union Elements(InSlot(batch[w]) \o active[w])
      <3> DEFINE h == InSlot(batch[w]) \o active[w]
      <3> HIDE DEF h
      <3>1. Path(w) = Of(w, Carried(m)) \o h /\ h \in Seq(Mine(w)) /\ Of(w, Carried(m)) \in Seq(Mine(w))
        BY <2>1, <2>2 DEF h
      <3>2. Elements(Path(w)) = Elements(Of(w, Carried(m))) \union Elements(h)
        BY <3>1, ConcatHas DEF HoldsBoth
      <3>. QED BY <3>2 DEF h
    <2>. QED BY <1>3, <2>3
  <1>5. x \in {<<w, k>> : k \in 1 .. Len(ran[w])}
    BY <1>0, <1>2, <1>4 DEF Accounted, Accounts
  <1>6. x[2] \in 1 .. Len(ran[w]) /\ Len(ran[w]) <= round
    BY <1>0, <1>2, <1>5 DEF Bounds
  <1>7. x[2] <= round
    <2>1. Len(ran[w]) \in Int /\ round \in Int /\ x[2] \in Int
      BY <1>0, <1>2, <1>6 DEF Signals, PoolSignals, Carriers
    <2>. QED BY <1>6, <2>1
  <1>. QED BY <1>2, <1>6, <1>7 DEF w, x

\* The loop starts in step.
LEMMA InStepAtFirst == Init => LoopInv
  <1> SUFFICES ASSUME Init
               PROVE  InStep
    BY DEF LoopInv
  <1>1. Calm
    BY DEF Init, Calm
  <1>2. \A m \in Mergers : InOrder(out[m])
    BY DEF Init, InOrder
  <1>3. \A w \in Workers : WorkerPlace(w)
    BY DEF Init, WorkerPlace, Parked
  <1>4. \A m \in Mergers : MergerPlace(m)
    <2>1. \A m \in Mergers : Slots(m) \subseteq Workers
      BY DEF Slots
    <2>2. \A w \in Workers : Returned(w)
      BY DEF Init, Returned
    <2>. QED BY <2>1, <2>2 DEF Init, MergerPlace
  <1>. QED BY <1>1, <1>2, <1>3, <1>4 DEF InStep

\* A round is dispatched when every worker is parked and every ring is back.
LEMMA LoopDispatch ==
  ASSUME PathInv, InStep, Dispatch, steady', Mergers' = Mergers, mergers' = mergers
  PROVE  InStep'
  <1>0. /\ Signals /\ Carriers /\ fresh /\ ~unjoined /\ round \in Nat /\ \A m \in Mergers : mpc[m] = "idle"
        /\ \A w \in Workers : Merger(w) \in Mergers /\ w \in Slots(Merger(w))
    <2>1. fresh /\ ~unjoined
      BY DEF Dispatch
    <2>2. \A m \in Mergers : mpc[m] = "idle"
      BY DEF Dispatch, Flushing
    <2>3. Signals /\ Carriers /\ round \in Nat
      BY DEF PathInv, Signals, PoolSignals
    <2>. QED BY <2>1, <2>2, <2>3, SlotsAre DEF Signals, MergerSignals
  <1>1. /\ round' = round + 1 /\ unjoined' = TRUE /\ fresh' = FALSE /\ go' = [w \in Workers |-> TRUE]
        /\ UNCHANGED <<done, pc, ran, active, batch, recycle, mergers, ordered, mpc, at, next, pending,
                       out, flushes, lost>>
    BY DEF Dispatch, workers, chosen, merging
  <1>2. \A m \in Mergers : (ordered => next[m] = round) /\ \A w \in Slots(m) : Returned(w)
    BY <1>0 DEF InStep, MergerPlace, Passed
  <1>3. \A w \in Workers : Parked(w) /\ ~done[w] /\ Returned(w)
    BY <1>0, <1>2 DEF InStep, WorkerPlace
  <1>4. Calm'
    BY <1>0, <1>1 DEF InStep, Calm
  <1>5. \A m \in Mergers : InOrder(out[m])'
    BY <1>1 DEF InStep, InOrder
  <1>6. ASSUME NEW w \in Workers
        PROVE  WorkerPlace(w)'
    <2>1. go'[w] /\ Len(ran[w]) = round' - 1
      BY <1>0, <1>1, <1>3 DEF Parked
    <2>2. Called(w)'
      BY <1>1, <1>3, <2>1 DEF Parked, Called, Returned
    <2>. QED BY <1>1, <1>3, <2>2 DEF WorkerPlace
  <1>7. \A m \in Mergers : MergerPlace(m)'
    BY <1>0, <1>1, <1>2 DEF MergerPlace
  <1>. QED BY <1>4, <1>5, <1>6, <1>7 DEF InStep

\* It is joined when every worker has published its ring.
LEMMA LoopJoin ==
  ASSUME PathInv, InStep, Join, Mergers' = Mergers, mergers' = mergers
  PROVE  InStep'
  <1>0. NumWorkers \in Nat \ {0} /\ 0 \in Workers
    BY FanInAssumption DEF Workers
  <1>1. /\ unjoined' = FALSE /\ done' = [w \in Workers |-> FALSE] /\ \A w \in Workers : done[w]
        /\ UNCHANGED <<round, stamp, go, pc, ran, active, batch, recycle, mergers, ordered, mpc, at, next,
                       pending, out, flushes, lost, fresh>>
    BY DEF Join, RoundDone, workers, chosen, merging, history
  <1>2. \A w \in Workers : ~fresh /\ Parked(w) /\ Filled(w)
    BY <1>1 DEF InStep, WorkerPlace
  <1>3. Calm'
    BY <1>0, <1>1, <1>2 DEF InStep, Calm
  <1>4. \A m \in Mergers : InOrder(out[m])'
    BY <1>1 DEF InStep, InOrder
  <1>5. \A w \in Workers : WorkerPlace(w)'
    BY <1>1, <1>2 DEF WorkerPlace, Parked, Filled
  <1>6. \A m \in Mergers : MergerPlace(m)'
    BY <1>0, <1>1, <1>2 DEF InStep, MergerPlace
  <1>. QED BY <1>3, <1>4, <1>5, <1>6 DEF InStep

\* Every merger is to flush what every worker has published.
LEMMA LoopFlush ==
  ASSUME PathInv, InStep, NEW S, Flush(S), steady', Mergers' = Mergers, mergers' = mergers
  PROVE  InStep'
  <1>0. /\ ~fresh /\ ~unjoined /\ S = Mergers
        /\ mpc' = [m \in Mergers |-> "take"] /\ at' = [m \in Mergers |-> m]
        /\ fresh' = TRUE
        /\ UNCHANGED <<round, stamp, unjoined, go, done, pc, ran, active, batch, recycle, mergers, ordered,
                       next, pending, out, lost>>
    BY DEF Flush, pool, workers, chosen, FirstSlot
  <1>1. \A w \in Workers : Parked(w) /\ ~done[w] /\ Filled(w)
    BY <1>0 DEF InStep, WorkerPlace
  <1>2. \A m \in Mergers : ordered => next[m] + 1 = round
    BY <1>0 DEF InStep, MergerPlace
  <1>3. Calm'
    BY <1>0 DEF InStep, Calm
  <1>4. \A m \in Mergers : InOrder(out[m])'
    BY <1>0 DEF InStep, InOrder
  <1>5. \A w \in Workers : WorkerPlace(w)'
    BY <1>0, <1>1 DEF WorkerPlace, Parked
  <1>6. ASSUME NEW m \in Mergers
        PROVE  MergerPlace(m)'
    <2>1. \A w \in Slots(m) : w \in Workers /\ ~(w < m)
      <3>1. \A w \in Slots(m) : w \in Workers /\ w \in Nat /\ m <= w
        BY SlotsAre DEF PathInv, Signals, MergerSignals
      <3>2. m \in Int
        BY FanInAssumption DEF Mergers, PathInv, Signals, MergerSignals
      <3>. QED BY <3>1, <3>2
    <2>2. Passed(m)'
      <3>1. mpc'[m] = "take" /\ at'[m] = m /\ Slots(m)' = Slots(m)
        BY <1>0 DEF Slots, Merger
      <3>2. \A w \in Slots(m) : Filled(w)'
        BY <1>0, <1>1, <2>1 DEF Filled
      <3>. QED BY <2>1, <3>1, <3>2 DEF Passed
    <2>. QED BY <1>0, <1>2, <2>2 DEF MergerPlace
  <1>. QED BY <1>3, <1>4, <1>5, <1>6 DEF InStep

\* The places of the mergers while no flush goes on.
LEMMA MergersRest ==
  ASSUME InStep, NEW u \in Workers, ~(fresh /\ Parked(u)),
         UNCHANGED <<round, unjoined, fresh, mergers, ordered, mpc, next>>, Mergers' = Mergers
  PROVE  \A m \in Mergers : MergerPlace(m)'
  <1>1. ~fresh
    BY DEF InStep, WorkerPlace, Calm
  <1>. QED BY <1>1 DEF InStep, MergerPlace

\* A worker runs the round, a step at a time, until its ring is published.
LEMMA LoopWork ==
  ASSUME PathInv, InStep, NEW u \in Workers, Work(u), Mergers' = Mergers, mergers' = mergers
  PROVE  InStep'
  <1>0. /\ pc[u] = "wait" /\ go[u] /\ go' = [go EXCEPT ![u] = FALSE]
        /\ ran' = [ran EXCEPT ![u] = Append(ran[u], round - 1)]
        /\ active' = [active EXCEPT ![u] = Append(active[u], <<u, Len(ran[u]) + 1>>)]
        /\ pc' = [pc EXCEPT ![u] = "take"]
        /\ UNCHANGED <<round, unjoined, done, batch, recycle, mergers, ordered, mpc, at, next, pending,
                       out, flushes, lost, fresh>>
    BY DEF Work, chosen, merging, history
  <1>1. /\ Carriers /\ Signals /\ round \in Nat
        /\ ran[u] \in Seq(Int) /\ round - 1 \in Int /\ DOMAIN ran[u] = 1 .. Len(ran[u])
    BY DEF PathInv, Carriers, Signals, PoolSignals
  <1>2. unjoined /\ ~done[u] /\ Called(u)
    BY <1>0 DEF InStep, WorkerPlace, Parked, Ran, Taken
  <1>3. /\ \A w \in Workers : w # u => /\ go'[w] = go[w] /\ ran'[w] = ran[w]
                                      /\ active'[w] = active[w] /\ pc'[w] = pc[w]
        /\ ~go'[u] /\ pc'[u] = "take" /\ ran'[u] = Append(ran[u], round - 1)
        /\ active'[u] = Append(active[u], <<u, Len(ran[u]) + 1>>)
    BY <1>0, <1>1 DEF Carriers, Signals, PoolSignals
  <1>4. /\ Len(ran'[u]) = round /\ DOMAIN ran'[u] = 1 .. round
        /\ \A k \in 1 .. round : ran'[u][k] = k - 1
    <2>1. Len(ran[u]) = round - 1 /\ \A k \in DOMAIN ran[u] : ran[u][k] = k - 1
      BY <1>2 DEF Called, InStep, Calm
    <2> DEFINE a == Append(ran[u], round - 1)
    <2>2. /\ Len(a) = Len(ran[u]) + 1 /\ DOMAIN a = 1 .. Len(ran[u]) + 1
          /\ \A k \in 1 .. Len(ran[u]) : a[k] = ran[u][k]
          /\ a[Len(ran[u]) + 1] = round - 1
      BY <1>1
    <2> HIDE DEF a
    <2>3. Len(a) = round /\ DOMAIN a = 1 .. round /\ \A k \in 1 .. round : a[k] = k - 1
      <3>1. Len(a) = round /\ DOMAIN a = 1 .. round
        BY <1>1, <2>1, <2>2
      <3>2. ASSUME NEW k \in 1 .. round
            PROVE  a[k] = k - 1
        <4>1. k \in 1 .. Len(ran[u]) \/ (k = round /\ k = Len(ran[u]) + 1)
          BY <1>1, <2>1
        <4>. QED BY <1>1, <2>1, <2>2, <4>1
      <3>. QED BY <3>1, <3>2
    <2>. QED BY <1>3, <2>3 DEF a
  <1>5. active'[u] = <<<<u, round>>>>
    BY <1>1, <1>2, <1>3 DEF Called
  <1>6. Calm'
    BY <1>0, <1>3, <1>4 DEF InStep, Calm
  <1>7. \A m \in Mergers : InOrder(out[m])'
    BY <1>0 DEF InStep, InOrder
  <1>8. ASSUME NEW w \in Workers
        PROVE  WorkerPlace(w)'
    <2>1. CASE w = u
      <3>1. Ran(u)'
        BY <1>0, <1>2, <1>3, <1>4, <1>5 DEF Ran, Called, Returned
      <3>. QED BY <1>0, <1>2, <2>1, <3>1 DEF WorkerPlace
    <2>2. CASE w # u
      BY <1>0, <1>3, <2>2 DEF InStep, WorkerPlace, Parked, Called, Ran, Taken, Returned, Filled
    <2>. QED BY <2>1, <2>2
  <1>9. \A m \in Mergers : MergerPlace(m)'
    BY <1>0, <1>2, MergersRest DEF Called, Parked
  <1>. QED BY <1>6, <1>7, <1>8, <1>9 DEF InStep

\* It finds a ring in the recycle slot, as the last flush has given it back.
LEMMA LoopTakeRecycle ==
  ASSUME PathInv, InStep, NEW u \in Workers, TakeRecycle(u), Mergers' = Mergers, mergers' = mergers
  PROVE  InStep'
  <1>0. /\ pc[u] = "take" /\ recycle' = [recycle EXCEPT ![u] = FALSE]
        /\ pc' = [pc EXCEPT ![u] = IF recycle[u] THEN "publish" ELSE "wait"]
        /\ done' = [done EXCEPT ![u] = done[u] \/ ~recycle[u]]
        /\ UNCHANGED <<round, unjoined, go, ran, active, batch, mergers, ordered, mpc, at, next, pending,
                       out, flushes, lost, fresh>>
    BY DEF TakeRecycle, chosen, merging, history
  <1>1. Signals
    BY DEF PathInv
  <1>2. unjoined /\ ~done[u] /\ Ran(u)
    BY <1>0 DEF InStep, WorkerPlace, Parked, Called, Taken
  <1>3. /\ \A w \in Workers : w # u => recycle'[w] = recycle[w] /\ pc'[w] = pc[w] /\ done'[w] = done[w]
        /\ ~recycle'[u] /\ pc'[u] = "publish" /\ ~done'[u]
    BY <1>0, <1>1, <1>2 DEF Signals, PoolSignals, Ran, Returned
  <1>4. Calm'
    BY <1>0 DEF InStep, Calm
  <1>5. \A m \in Mergers : InOrder(out[m])'
    BY <1>0 DEF InStep, InOrder
  <1>6. ASSUME NEW w \in Workers
        PROVE  WorkerPlace(w)'
    <2>1. CASE w = u
      <3>1. Taken(u)'
        BY <1>0, <1>2, <1>3 DEF Ran, Taken, Returned
      <3>. QED BY <1>0, <1>2, <1>3, <2>1, <3>1 DEF WorkerPlace
    <2>2. CASE w # u
      BY <1>0, <1>3, <2>2 DEF InStep, WorkerPlace, Parked, Called, Ran, Taken, Returned, Filled
    <2>. QED BY <2>1, <2>2
  <1>7. \A m \in Mergers : MergerPlace(m)'
    BY <1>0, <1>2, MergersRest DEF Ran, Parked
  <1>. QED BY <1>4, <1>5, <1>6, <1>7 DEF InStep

\* It finds its slot empty, as the last flush has collected from it.
LEMMA LoopPublish ==
  ASSUME PathInv, InStep, NEW u \in Workers, Publish(u), Mergers' = Mergers, mergers' = mergers
  PROVE  InStep'
  <1>0. /\ pc[u] = "publish" /\ batch' = [batch EXCEPT ![u] = active[u]]
        /\ active' = [active EXCEPT ![u] = IF batch[u] = None THEN <<>> ELSE batch[u]]
        /\ done' = [done EXCEPT ![u] = TRUE] /\ pc' = [pc EXCEPT ![u] = "wait"]
        /\ UNCHANGED <<round, unjoined, go, ran, recycle, mergers, ordered, mpc, at, next, pending,
                       out, flushes, lost, fresh>>
    BY DEF Publish, chosen, merging, history
  <1>1. Signals /\ Carriers
    BY DEF PathInv
  <1>2. unjoined /\ Taken(u) /\ ~fresh
    BY <1>0 DEF InStep, WorkerPlace, Parked, Called, Ran, Calm
  <1>3. /\ \A w \in Workers : w # u => /\ batch'[w] = batch[w] /\ active'[w] = active[w]
                                      /\ pc'[w] = pc[w] /\ done'[w] = done[w]
        /\ batch'[u] = <<<<u, round>>>> /\ active'[u] = <<>> /\ pc'[u] = "wait" /\ done'[u]
    BY <1>0, <1>1, <1>2 DEF Signals, PoolSignals, Carriers, Taken
  <1>4. Calm'
    BY <1>0 DEF InStep, Calm
  <1>5. \A m \in Mergers : InOrder(out[m])'
    BY <1>0 DEF InStep, InOrder
  <1>6. ASSUME NEW w \in Workers
        PROVE  WorkerPlace(w)'
    <2>1. CASE w = u
      <3>1. Parked(u)' /\ Filled(u)'
        BY <1>0, <1>2, <1>3 DEF Taken, Parked, Filled
      <3>. QED BY <1>0, <1>2, <1>3, <2>1, <3>1 DEF WorkerPlace
    <2>2. CASE w # u
      BY <1>0, <1>3, <2>2 DEF InStep, WorkerPlace, Parked, Called, Ran, Taken, Returned, Filled
    <2>. QED BY <2>1, <2>2
  <1>7. \A m \in Mergers : MergerPlace(m)'
    BY <1>0, <1>2, MergersRest DEF Taken, Parked
  <1>. QED BY <1>4, <1>5, <1>6, <1>7 DEF InStep

\* While the mergers flush, the workers are parked.
LEMMA WorkersRest ==
  ASSUME InStep, fresh,
         UNCHANGED <<round, unjoined, fresh, go, done, pc, ran, active>>
  PROVE  \A w \in Workers : WorkerPlace(w)'
  <1>1. ~unjoined
    BY DEF InStep, Calm
  <1>2. \A w \in Workers : Parked(w) /\ ~done[w]
    BY <1>1 DEF InStep, WorkerPlace
  <1>. QED BY <1>2 DEF WorkerPlace, Parked

\* A slot ahead of a merger is never empty.
LEMMA LoopSkips ==
  ASSUME PathInv, InStep, NEW m \in Mergers, SkipSlot(m)
  PROVE  FALSE
  <1>1. mpc[m] = "take" /\ batch[at[m]] = None /\ at[m] \in Slots(m)
    BY DEF SkipSlot, PathInv, Bounds
  <1>2. at[m] \in Nat /\ MergerPlace(m)
    BY DEF PathInv, Signals, MergerSignals, InStep
  <1>3. Filled(at[m])
    BY <1>1, <1>2 DEF MergerPlace, Passed
  <1>4. at[m] \in Workers /\ batch[at[m]] \in Seq(Mine(at[m])) \union {None} /\ round \in Nat
    BY <1>1, SlotsAre DEF PathInv, Carriers, Signals, PoolSignals, MergerSignals
  <1>5. <<<<at[m], round>>>> \in Seq(Mine(at[m]))
    BY <1>4 DEF Mine
  <1>. QED BY <1>1, <1>3, <1>4, <1>5, AllAreItems DEF Filled, PathInv

\* What a merger collects is the item of the round, and it is due.
LEMMA LoopCollect ==
  ASSUME PathInv, InStep, NEW m \in Mergers, Collect(m), Mergers' = Mergers, mergers' = mergers
  PROVE  InStep'
  <1> DEFINE v == at[m]
  <1>0. Signals /\ Carriers /\ mpc[m] = "take" /\ v \in Slots(m) /\ v \in Workers /\ Merger(v) = m
        /\ round \in Nat /\ batch[v] # None
    BY SlotsAre DEF Collect, PathInv, Bounds, Signals, PoolSignals, MergerSignals
  <1>1. /\ fresh /\ (ordered => next[m] + 1 = round)
        /\ \A w \in Slots(m) : IF w < v THEN Returned(w) ELSE Filled(w)
    BY <1>0 DEF InStep, MergerPlace, Passed
  <1>2. batch[v] = <<<<v, round>>>> /\ ~recycle[v]
    <2>1. ~(v < v)
      BY <1>0 DEF Signals, MergerSignals
    <2>. QED BY <1>0, <1>1, <2>1 DEF Filled
  <1>3. Due(m)
    BY <1>0, <1>1 DEF Due, Signals, PoolSignals, MergerSignals
  <1>4. /\ batch' = [batch EXCEPT ![v] = None] /\ out' = [out EXCEPT ![m] = out[m] \o batch[v]]
        /\ mpc' = [mpc EXCEPT ![m] = "recycle"]
        /\ UNCHANGED <<round, unjoined, go, done, pc, ran, active, recycle, mergers, ordered, at, next,
                       pending, flushes, lost, fresh>>
    BY <1>3 DEF Collect, pool, chosen, history
  <1>5. /\ batch'[v] = None /\ \A w \in Workers : w # v => batch'[w] = batch[w]
        /\ out'[m] = out[m] \o batch[v] /\ \A n \in Mergers : n # m => out'[n] = out[n] /\ mpc'[n] = mpc[n]
        /\ mpc'[m] = "recycle"
    BY <1>0, <1>4 DEF Carriers, Signals, MergerSignals
  <1>6. Calm'
    BY <1>4 DEF InStep, Calm
  <1>7. InOrder(out'[m])
    <2> DEFINE o == out[m]
               b == <<<<v, round>>>>
               c == o \o b
    <2>1. o \in Seq(Item) /\ b \in Seq(Item) /\ Len(b) = 1 /\ b[1] = <<v, round>>
      BY <1>0, AllAreItems DEF Item
    <2>2. \A i \in DOMAIN o : o[i][2] <= round /\ o[i][2] \in Int
      <3>1. \A i \in DOMAIN o : o[i] \in Item
        BY <2>1
      <3>. QED BY <3>1, OutBounds DEF Item
    <2>3. InOrder(o)
      BY DEF InStep
    <2> HIDE DEF b, o
    <2>4. /\ DOMAIN c = 1 .. Len(o) + 1 /\ Len(o) \in Nat /\ DOMAIN o = 1 .. Len(o)
          /\ \A i \in 1 .. Len(o) : c[i] = o[i]
          /\ c[Len(o) + 1][2] = round
      <3>1. c[Len(o) + 1] = b[1]
        BY <2>1
      <3>2. <<v, round>>[2] = round
        OBVIOUS
      <3>3. DOMAIN c = 1 .. Len(o) + Len(b) /\ \A i \in 1 .. Len(o) : c[i] = o[i]
        BY <2>1, Concat, ZenonT(60)
      <3>4. Len(o) \in Nat /\ DOMAIN o = 1 .. Len(o)
        BY <2>1
      <3>. QED BY <2>1, <3>1, <3>2, <3>3, <3>4
    <2> HIDE DEF c
    <2>5. ASSUME NEW i \in DOMAIN c, NEW j \in DOMAIN c, i < j
          PROVE  c[i][2] <= c[j][2]
      <3>1. i \in 1 .. Len(o) /\ (j \in 1 .. Len(o) \/ j = Len(o) + 1)
        BY <2>4, <2>5
      <3>2. CASE j \in 1 .. Len(o)
        BY <2>3, <2>4, <2>5, <3>1, <3>2 DEF InOrder
      <3>3. CASE j = Len(o) + 1
        BY <2>2, <2>4, <3>1, <3>3
      <3>. QED BY <3>1, <3>2, <3>3
    <2>6. out'[m] = c
      BY <1>2, <1>5 DEF c, o, b
    <2>. QED BY <2>5, <2>6 DEF InOrder
  <1>8. \A n \in Mergers : InOrder(out[n])'
    <2>1. ASSUME NEW n \in Mergers
          PROVE  InOrder(out'[n])
      BY <1>5, <1>7 DEF InStep
    <2>. QED BY <2>1 DEF InOrder
  <1>9. \A w \in Workers : WorkerPlace(w)'
    BY <1>1, <1>4, WorkersRest
  <1>10. ASSUME NEW n \in Mergers
         PROVE  MergerPlace(n)'
    <2>1. \A w \in Slots(n) : w \in Workers /\ Merger(w) = n
      BY SlotsAre, <1>0 DEF Signals, MergerSignals
    <2>2. Slots(n)' = Slots(n)
      BY DEF Slots, Merger
    <2>3. \A w \in Slots(n) : w # v => (Returned(w)' <=> Returned(w)) /\ (Filled(w)' <=> Filled(w))
      BY <1>4, <1>5, <2>1 DEF Returned, Filled
    <2>4. CASE n = m
      <3>1. Passed(m)'
        BY <1>1, <1>4, <1>5, <2>2, <2>3, <2>4 DEF Passed
      <3>. QED BY <1>1, <1>4, <2>4, <3>1 DEF MergerPlace
    <2>5. CASE n # m
      <3>1. \A w \in Slots(n) : w # v
        BY <1>0, <2>1, <2>5
      <3>. QED BY <1>4, <1>5, <2>2, <2>3, <2>5, <3>1 DEF InStep, MergerPlace, Passed
    <2>. QED BY <2>4, <2>5
  <1>. QED BY <1>6, <1>8, <1>9, <1>10 DEF InStep

\* The merger leaves a slot behind it with its ring given back.
LEMMA LoopRecycle ==
  ASSUME PathInv, InStep, NEW m \in Mergers, Recycle(m), Mergers' = Mergers, mergers' = mergers
  PROVE  InStep'
  <1> DEFINE v == at[m]
  <1>0. Signals /\ mpc[m] = "recycle" /\ v \in Slots(m) /\ v \in Workers /\ Merger(v) = m
        /\ batch[v] = None
    BY SlotsAre DEF Recycle, PathInv, Bounds, Rings, Signals, MergerSignals
  <1>1. /\ fresh /\ (ordered => next[m] + 1 = round)
        /\ \A w \in Slots(m) \ {v} : IF w < v THEN Returned(w) ELSE Filled(w)
    BY <1>0 DEF InStep, MergerPlace, Passed
  <1>2. /\ recycle' = [recycle EXCEPT ![v] = TRUE]
        /\ mpc' = [mpc EXCEPT ![m] = Onward(m)] /\ at' = [at EXCEPT ![m] = v + mergers]
        /\ UNCHANGED <<round, unjoined, go, done, pc, ran, active, batch, mergers, ordered, next,
                       pending, out, flushes, lost, fresh>>
    BY DEF Recycle, pool, chosen, history
  <1>3. /\ recycle'[v] /\ \A w \in Workers : w # v => recycle'[w] = recycle[w]
        /\ mpc'[m] = Onward(m) /\ at'[m] = v + mergers
        /\ \A n \in Mergers : n # m => mpc'[n] = mpc[n] /\ at'[n] = at[n]
    BY <1>0, <1>2 DEF Signals, PoolSignals, MergerSignals
  <1>4. Calm'
    BY <1>2 DEF InStep, Calm
  <1>5. \A n \in Mergers : InOrder(out[n])'
    BY <1>2 DEF InStep, InOrder
  <1>6. \A w \in Workers : WorkerPlace(w)'
    BY <1>1, <1>2, WorkersRest
  <1>7. ASSUME NEW n \in Mergers
        PROVE  MergerPlace(n)'
    <2>1. \A w \in Slots(n) : w \in Workers /\ Merger(w) = n
      BY SlotsAre, <1>0 DEF Signals, MergerSignals
    <2>2. Slots(n)' = Slots(n)
      BY DEF Slots, Merger
    <2>3. /\ \A w \in Slots(n) : w # v => (Returned(w)' <=> Returned(w)) /\ (Filled(w)' <=> Filled(w))
          /\ batch'[v] = None /\ recycle'[v]
      BY <1>0, <1>2, <1>3, <2>1 DEF Returned, Filled
    <2>4. CASE n = m
      <3>1. \A w \in Slots(m) : IF w < v + mergers THEN Returned(w)' ELSE Filled(w)'
        <4> SUFFICES ASSUME NEW w \in Slots(m)
                     PROVE  IF w < v + mergers THEN Returned(w)' ELSE Filled(w)'
          OBVIOUS
        <4>1. w \in Nat /\ v \in Nat /\ mergers \in Nat \ {0} /\ (w < v + mergers => w <= v)
          BY <1>0, SlotsAre, FanInAssumption DEF Signals, MergerSignals
        <4>2. CASE w = v
          BY <2>3, <4>1, <4>2 DEF Returned
        <4>3. CASE w # v
          BY <1>1, <2>3, <2>4, <4>1, <4>3
        <4>. QED BY <4>2, <4>3
      <3>2. CASE v + mergers \in Workers
        <4>1. Onward(m) = "take"
          BY <3>2 DEF Onward
        <4>. QED BY <1>1, <1>2, <1>3, <2>2, <2>4, <3>1, <4>1 DEF MergerPlace, Passed
      <3>3. CASE v + mergers \notin Workers
        <4>1. Onward(m) = "finish"
          BY <3>3 DEF Onward
        <4>2. \A w \in Slots(m) : w < v + mergers
          <5>1. v + mergers \in Nat /\ NumWorkers \in Nat
            BY <1>0, FanInAssumption DEF Signals, MergerSignals
          <5>2. v + mergers >= NumWorkers
            BY <3>3, <5>1 DEF Workers
          <5>. QED BY <2>1, <2>4, <5>1, <5>2 DEF Workers
        <4>. QED BY <1>1, <1>2, <1>3, <2>2, <2>4, <3>1, <4>1, <4>2 DEF MergerPlace, Passed
      <3>. QED BY <3>2, <3>3
    <2>5. CASE n # m
      <3>1. \A w \in Slots(n) : w # v
        BY <1>0, <2>1, <2>5
      <3>. QED BY <1>2, <1>3, <2>2, <2>3, <2>5, <3>1 DEF InStep, MergerPlace, Passed
    <2>. QED BY <2>4, <2>5
  <1>. QED BY <1>4, <1>5, <1>6, <1>7 DEF InStep

\* The end of the flush finds nothing buffered: the next round becomes due.
LEMMA LoopFinish ==
  ASSUME PathInv, InStep, NEW m \in Mergers, Finish(m), Mergers' = Mergers, mergers' = mergers
  PROVE  InStep'
  <1>0. /\ Signals /\ Carriers /\ mpc[m] = "finish" /\ next[m] \in Nat
        /\ out[m] \in Seq(Item) /\ pending[m] \in Buffers(Item)
    BY AllAreItems DEF Finish, PathInv, Signals, MergerSignals
  <1>1. /\ fresh /\ (ordered => next[m] + 1 = round) /\ \A w \in Slots(m) : Returned(w)
    BY <1>0 DEF InStep, MergerPlace, Passed
  <1>2. Drained(m) = {}
    BY <1>0, FanInAssumption DEF Drained, Run, InStep, Calm
  <1>3. Joined(pending[m], next[m] + 1, Cardinality(Drained(m))) = <<>> /\ Cardinality(Drained(m)) = 0
    <2>1. Cardinality(Drained(m)) = 0
      BY <1>2, FS_EmptySet
    <2>2. \A k \in 1 .. 0 : pending[m][(next[m] + 1) + k - 1] = <<>>
      OBVIOUS
    <2>3. next[m] + 1 \in Int /\ 0 \in Nat
      BY <1>0
    <2>4. Joined(pending[m], next[m] + 1, 0) = <<>>
      BY <2>2, <2>3, JoinedNone
    <2>. QED BY <2>1, <2>4
  <1>4. /\ mpc' = [mpc EXCEPT ![m] = "idle"]
        /\ ordered => /\ next' = [next EXCEPT ![m] = next[m] + 1 + 0]
                      /\ out' = [out EXCEPT ![m] = out[m] \o <<>>]
                      /\ pending' = [pending EXCEPT ![m] = Emptied(m, Drained(m))]
        /\ ~ordered => UNCHANGED <<next, out, pending>>
        /\ UNCHANGED <<round, unjoined, go, done, pc, ran, active, batch, recycle, mergers, ordered, at,
                       flushes, lost, fresh>>
    BY <1>3 DEF Finish, pool, workers, chosen, history
  <1>5. /\ out' = out /\ \A n \in Mergers, s \in 0 .. MaxRounds : pending'[n][s] = pending[n][s]
        /\ ordered => next'[m] = round
        /\ \A n \in Mergers : n # m => next'[n] = next[n] /\ mpc'[n] = mpc[n]
        /\ mpc'[m] = "idle"
    <2>1. out[m] \o <<>> = out[m]
      BY <1>0
    <2>2. out' = out
      BY <1>0, <1>4, <2>1 DEF Carriers
    <2>3. \A n \in Mergers, s \in 0 .. MaxRounds : pending'[n][s] = pending[n][s]
      BY <1>0, <1>2, <1>4 DEF Carriers, Emptied, Buffers
    <2>4. /\ ordered => next'[m] = round
          /\ \A n \in Mergers : n # m => next'[n] = next[n] /\ mpc'[n] = mpc[n]
          /\ mpc'[m] = "idle"
      BY <1>0, <1>1, <1>4 DEF Signals, MergerSignals
    <2>. QED BY <2>2, <2>3, <2>4
  <1>6. Calm'
    BY <1>4, <1>5 DEF InStep, Calm
  <1>7. \A n \in Mergers : InOrder(out[n])'
    BY <1>5 DEF InStep, InOrder
  <1>8. \A w \in Workers : WorkerPlace(w)'
    BY <1>1, <1>4, WorkersRest
  <1>9. ASSUME NEW n \in Mergers
        PROVE  MergerPlace(n)'
    <2>1. Slots(n)' = Slots(n) /\ \A w : (Returned(w)' <=> Returned(w)) /\ (Filled(w)' <=> Filled(w))
      BY <1>4 DEF Slots, Merger, Returned, Filled
    <2>2. CASE n = m
      BY <1>1, <1>4, <1>5, <2>1, <2>2 DEF MergerPlace
    <2>3. CASE n # m
      BY <1>4, <1>5, <2>1, <2>3 DEF InStep, MergerPlace, Passed
    <2>. QED BY <2>2, <2>3
  <1>. QED BY <1>6, <1>7, <1>8, <1>9 DEF InStep

\* Every step keeps the loop in step, or is none of the loop.
LEMMA LoopKept ==
  ASSUME PathInv, LoopInv, [Next]_vars
  PROVE  LoopInv'
  <1> SUFFICES ASSUME steady'
               PROVE  InStep'
    BY DEF LoopInv
  <1>0. Mergers' = Mergers /\ mergers' = mergers
    BY MergersStay
  <1>1. InStep
    <2>1. steady
      BY ZenonT(60) DEF Next, Dispatch, Join, NewCollectors, Flush, Work, TakeRecycle, Publish, SkipSlot, Collect,
             Recycle, Finish, CollectFails, FinishFails, vars, history
    <2>. QED BY <2>1 DEF LoopInv
  <1>2. CASE Dispatch \/ Join
    BY <1>0, <1>1, <1>2, LoopDispatch, LoopJoin
  <1>3. ASSUME NEW S, Flush(S)
        PROVE  InStep'
    BY <1>0, <1>1, <1>3, LoopFlush
  <1>4. ASSUME NEW w \in Workers, Work(w) \/ TakeRecycle(w) \/ Publish(w)
        PROVE  InStep'
    BY <1>0, <1>1, <1>4, LoopWork, LoopTakeRecycle, LoopPublish
  <1>5. ASSUME NEW m \in Mergers, SkipSlot(m) \/ Collect(m) \/ Recycle(m) \/ Finish(m)
        PROVE  InStep'
    BY <1>0, <1>1, <1>5, LoopSkips, LoopCollect, LoopRecycle, LoopFinish
  <1>6. ASSUME NEW m, NEW k, CollectFails(m, k) \/ \E s : FinishFails(m, s, k)
        PROVE  FALSE
    BY <1>6 DEF CollectFails, FinishFails
  <1>7. CASE NewCollectors
    BY <1>7 DEF NewCollectors
  <1>8. CASE UNCHANGED vars
    BY <1>0, <1>1, <1>8
       DEF vars, pool, workers, chosen, merging, history, InStep, Calm, InOrder, WorkerPlace, Parked,
           Called, Ran, Taken, MergerPlace, Passed, Slots, Merger, Returned, Filled
  <1>. QED BY <1>2, <1>3, <1>4, <1>5, <1>6, <1>7, <1>8, Zenon DEF Next

-------------------------------------------------------------------------------
(* What the loop promises *)

\* In step, the numbers of the rounds do not go back in what a merger has put out.
LEMMA LoopOrders == PathInv /\ LoopInv => LoopEmitsByRound
  <1> SUFFICES ASSUME PathInv, InStep, NEW m \in Mergers, NEW i \in DOMAIN out[m], NEW j \in DOMAIN out[m],
                      i < j
               PROVE  RoundOf(out[m][i]) <= RoundOf(out[m][j])
    BY DEF LoopInv, LoopEmitsByRound
  <1>1. ASSUME NEW k \in DOMAIN out[m]
        PROVE  RoundOf(out[m][k]) = out[m][k][2] - 1 /\ out[m][k][2] \in Int
    <2>1. out[m][k][1] \in Workers /\ out[m][k][2] \in 1 .. Len(ran[out[m][k][1]])
      <3>1. out[m][k][1] \in Slots(m) /\ out[m][k][2] \in 1 .. Len(ran[out[m][k][1]])
        BY OutBounds, Zenon
      <3>. QED BY <3>1 DEF Slots
    <2>2. ran[out[m][k][1]] \in Seq(Int)
      BY <2>1 DEF PathInv, Carriers
    <2>. QED BY <2>1, <2>2 DEF RoundOf, InStep, Calm
  <1>2. out[m][i][2] <= out[m][j][2]
    BY DEF InStep, InOrder
  <1>. QED BY <1>1, <1>2

\* In step, after a flush every worker's items are all in what its merger has put out.
LEMMA LoopArrives == PathInv /\ LoopInv => LoopDelivers
  <1> SUFFICES ASSUME PathInv, InStep, fresh, ~Flushing
               PROVE  /\ \A w \in Workers : Len(Of(w, out[Merger(w)])) = round
                      /\ \A m \in Mergers : Buffered(m) = {} /\ (ordered => next[m] = round)
    BY DEF LoopInv, LoopDelivers
  <1>0. Signals /\ Carriers /\ Accounted /\ round \in Nat /\ ~unjoined /\ lost = {}
    BY DEF PathInv, Signals, PoolSignals, InStep, Calm
  <1>1. ASSUME NEW m \in Mergers
        PROVE  /\ Buffered(m) = {} /\ (ordered => next[m] = round)
               /\ \A w \in Slots(m) : Returned(w)
               /\ Joined(pending[m], 0, MaxRounds + 1) = <<>>
               /\ out[m] \in Seq(Item)
    <2>1. /\ pending[m] \in Buffers(Item) /\ out[m] \in Seq(Item)
          /\ \A s \in 0 .. MaxRounds : pending[m][s] = <<>>
      BY <1>0, AllAreItems DEF InStep, Calm
    <2>2. Buffered(m) = {}
      BY <2>1, NoneHas DEF Buffered, Buffers
    <2>3. Joined(pending[m], 0, MaxRounds + 1) = <<>>
      BY <2>1, BufferJoined, Zenon
    <2>4. mpc[m] = "idle"
      BY DEF Flushing
    <2>5. (ordered => next[m] = round) /\ \A w \in Slots(m) : Returned(w)
      BY <2>4 DEF InStep, MergerPlace, Passed
    <2>. QED BY <2>1, <2>2, <2>3, <2>5
  <1>2. ASSUME NEW w \in Workers
        PROVE  Len(Of(w, out[Merger(w)])) = round
    <2> DEFINE m == Merger(w)
               p == Of(w, out[m])
    <2>1. m \in Mergers /\ w \in Slots(m)
      BY <1>0, SlotsAre DEF Signals, MergerSignals
    <2>2. batch[w] = None /\ active[w] = <<>> /\ Len(ran[w]) = round
      BY <1>0, <1>1, <2>1 DEF InStep, WorkerPlace, Parked, Returned
    <2>3. p \in Seq(Mine(w))
      BY <1>1, <2>1, OfIs
    <2>4. Of(w, <<>>) = <<>>
      BY NoneHas, OfIs
    <2>5. Path(w) = p \o <<>> \o <<>> \o <<>>
      BY <1>1, <2>1, <2>2, <2>4 DEF Path
    <2> HIDE DEF p
    <2>6. Path(w) = p
      BY <2>3, <2>5
    <2>7. Ordered(p) /\ Elements(p) = {<<w, k>> : k \in 1 .. round}
      BY <1>0, <2>2, <2>6 DEF Accounted, Accounts
    <2>8. Distinct(p)
      <3>1. DOMAIN p = 1 .. Len(p) /\ \A i \in DOMAIN p : p[i][2] \in Int
        BY <2>3 DEF Mine
      <3>. QED BY <2>7, <3>1 DEF Ordered, Distinct
    <2>9. Len(p) = Cardinality(Elements(p))
      BY <2>3, <2>8, DistinctCount
    <2>10. Cardinality({<<w, k>> : k \in 1 .. round}) = round
      <3> DEFINE f == [k \in 1 .. round |-> <<w, k>>]
                 A == {<<w, k>> : k \in 1 .. round}
      <3>1. f \in Bijection(1 .. round, A)
        <4>1. f \in [1 .. round -> A]
          OBVIOUS
        <4>2. \A i, j \in 1 .. round : f[i] = f[j] => i = j
          OBVIOUS
        <4>3. \A x \in A : \E k \in 1 .. round : f[k] = x
          OBVIOUS
        <4> HIDE DEF f, A
        <4>. QED BY <4>1, <4>2, <4>3 DEF Bijection, Injection, Surjection, IsInjective
      <3>2. Cardinality(1 .. round) = round /\ IsFiniteSet(1 .. round)
        BY <1>0, FS_Interval
      <3> HIDE DEF f, A
      <3>3. Cardinality(A) = Cardinality(1 .. round)
        BY <3>1, <3>2, FS_Bijection DEF ExistsBijection
      <3>. QED BY <3>2, <3>3 DEF A
    <2>. QED BY <2>7, <2>9, <2>10 DEF p
  <1>. QED BY <1>1, <1>2

\* Both invariants hold all along.
LEMMA LoopHolds == Spec => [](PathInv /\ LoopInv)
  <1>1. Init => PathInv /\ LoopInv
    BY InitInv, InStepAtFirst
  <1>2. (PathInv /\ LoopInv) /\ [Next]_vars => (PathInv /\ LoopInv)'
    BY PathInvKept, LoopKept
  <1>. QED BY <1>1, <1>2, PTL DEF Spec

\* Only what is early is buffered, and the loop emits round after round.
THEOREM SequencedHolds == Spec => []Sequenced
  <1>1. PathInv /\ LoopInv => Sequenced
    BY AheadIs, LoopOrders DEF Sequenced
  <1>. QED BY <1>1, LoopHolds, PTL

\* After each flush of the loop everything has arrived and nothing is buffered.
THEOREM LoopDeliversHolds == Spec => []LoopDelivers
  <1>1. PathInv /\ LoopInv => LoopDelivers
    BY LoopArrives
  <1>. QED BY <1>1, LoopHolds, PTL
===============================================================================
