-------------------------- MODULE TieredStore_proofs --------------------------
(***************************************************************************)
(* Theorems about TieredStore for every kind of cold tier and storage, any   *)
(* capacity of their buffers and any number of workers.                      *)
(***************************************************************************)
EXTENDS TieredStore, DataFacts

-------------------------------------------------------------------------------
(* Writing entries one after the other *)

\* Entry i is the last one of id in es.
LastOf(es, id, i) ==
  /\ i \in 1 .. Len(es) /\ es[i].id = id
  /\ \A j \in 1 .. Len(es) : es[j].id = id => j <= i

\* No entry of es is of id.
NoneOf(es, id) == \A i \in 1 .. Len(es) : es[i].id # id

\* An id has a last entry, or none.
LEMMA LastOrNone ==
  ASSUME NEW T, NEW es \in Seq(T), NEW id
  PROVE  NoneOf(es, id) \/ \E i \in 1 .. Len(es) : LastOf(es, id, i)
  <1> DEFINE A == {i \in 1 .. Len(es) : es[i].id = id}
  <1>1. Len(es) \in Nat /\ A \in SUBSET (1 .. Len(es))
    OBVIOUS
  <1>2. CASE A = {}
    BY <1>2 DEF NoneOf
  <1>3. CASE A # {}
    <2>1. \E i \in A : \A j \in A : j <= i
      <3> HIDE DEF A
      <3>. QED BY <1>1, <1>3, LastPosition
    <2>. QED BY <2>1 DEF LastOf
  <1>. QED BY <1>2, <1>3

\* The last entry of an id is what stays.
LEMMA AppliedIs ==
  ASSUME NEW st, NEW T, NEW es \in Seq(T), NEW id \in Ids
  PROVE  /\ NoneOf(es, id) => Applied(st, es)[id] = st[id]
         /\ \A i : LastOf(es, id, i) => Applied(st, es)[id] = es[i].ver
  <1> DEFINE A == {i \in DOMAIN es : es[i].id = id}
  <1>1. Applied(st, es)[id] =
          IF A = {} THEN st[id] ELSE es[CHOOSE i \in A : \A j \in A : j <= i].ver
    BY DEF Applied
  <1>2. DOMAIN es = 1 .. Len(es) /\ Len(es) \in Nat
    OBVIOUS
  <1>3. NoneOf(es, id) => A = {}
    BY <1>2 DEF NoneOf
  <1>4. ASSUME NEW i, LastOf(es, id, i)
        PROVE  i \in A /\ (CHOOSE k \in A : \A j \in A : j <= k) = i
    <2>1. i \in A /\ \A j \in A : j <= i
      BY <1>2, <1>4 DEF LastOf
    <2>2. A \subseteq Nat
      BY <1>2
    <2> HIDE DEF A
    <2>3. \A k \in A : (\A j \in A : j <= k) => k = i
      BY <2>1, <2>2
    <2>. QED BY <2>1, <2>3
  <1>5. ASSUME NEW i, LastOf(es, id, i)
        PROVE  Applied(st, es)[id] = es[i].ver
    <2> HIDE DEF A
    <2>. QED BY <1>1, <1>4, <1>5
  <1>. QED BY <1>1, <1>3, <1>5

\* The same, ready to be cited.
LEMMA AppliedLast ==
  ASSUME NEW st, NEW T, NEW es \in Seq(T), NEW id \in Ids, NEW i, LastOf(es, id, i)
  PROVE  Applied(st, es)[id] = es[i].ver
  BY AppliedIs

\* Writing nothing, one entry, or two runs of entries.
LEMMA AppliedNone ==
  ASSUME NEW st, NEW id \in Ids
  PROVE  Applied(st, <<>>)[id] = st[id]
  BY DEF Applied

InTurn(st, a, b) == Applied(Applied(st, a), b) = Applied(st, a \o b)

\* Writing a and then b (two batches, store by store) is writing a \o b.
LEMMA AppliedConcat ==
  ASSUME NEW st, NEW T, NEW a \in Seq(T), NEW b \in Seq(T)
  PROVE  InTurn(st, a, b)
  <1> DEFINE c == a \o b
  <1>0. c \in Seq(T)
    OBVIOUS
  <1>1. /\ Len(c) = Len(a) + Len(b)
        /\ Len(a) \in Nat /\ Len(b) \in Nat
        /\ \A i \in 1 .. Len(a) : c[i] = a[i]
        /\ \A i \in 1 .. Len(b) : c[Len(a) + i] = b[i]
        /\ \A i \in 1 .. Len(a) + Len(b) : i > Len(a) =>
             i - Len(a) \in 1 .. Len(b) /\ c[i] = b[i - Len(a)]
    BY Concat
  <1> HIDE DEF c
  <1>2. ASSUME NEW id \in Ids
        PROVE  Applied(Applied(st, a), b)[id] = Applied(st, c)[id]
    <2>1. ASSUME NEW i \in 1 .. Len(b), LastOf(b, id, i)
          PROVE  LastOf(c, id, Len(a) + i)
      <3>1. Len(a) + i \in 1 .. Len(c) /\ c[Len(a) + i] = b[i] /\ b[i].id = id
        BY <1>1, <2>1 DEF LastOf
      <3>2. ASSUME NEW j \in 1 .. Len(c), c[j].id = id
            PROVE  j <= Len(a) + i
        <4>1. CASE j <= Len(a)
          BY <1>1, <4>1
        <4>2. CASE j > Len(a)
          <5>1. j - Len(a) \in 1 .. Len(b) /\ b[j - Len(a)].id = id
            BY <1>1, <3>2, <4>2
          <5>2. j - Len(a) <= i
            BY <2>1, <5>1 DEF LastOf
          <5>. QED BY <1>1, <5>2
        <4>. QED BY <1>1, <4>1, <4>2
      <3>. QED BY <3>1, <3>2 DEF LastOf
    <2>2. ASSUME NEW i \in 1 .. Len(a), LastOf(a, id, i), NoneOf(b, id)
          PROVE  LastOf(c, id, i) /\ c[i] = a[i]
      <3>1. i \in 1 .. Len(c) /\ c[i] = a[i] /\ a[i].id = id
        BY <1>1, <2>2 DEF LastOf
      <3>2. ASSUME NEW j \in 1 .. Len(c), c[j].id = id
            PROVE  j <= i
        <4>1. CASE j <= Len(a)
          <5>1. j \in 1 .. Len(a) /\ a[j].id = id
            BY <1>1, <3>2, <4>1
          <5>. QED BY <2>2, <5>1 DEF LastOf
        <4>2. CASE j > Len(a)
          <5>1. j - Len(a) \in 1 .. Len(b) /\ b[j - Len(a)].id = id
            BY <1>1, <3>2, <4>2
          <5>. QED BY <2>2, <5>1 DEF NoneOf
        <4>. QED BY <1>1, <4>1, <4>2
      <3>. QED BY <3>1, <3>2 DEF LastOf
    <2>3. ASSUME NoneOf(a, id), NoneOf(b, id)
          PROVE  NoneOf(c, id)
      <3>1. ASSUME NEW j \in 1 .. Len(c)
            PROVE  c[j].id # id
        <4>1. CASE j <= Len(a)
          <5>1. j \in 1 .. Len(a) /\ c[j] = a[j]
            BY <1>1, <4>1
          <5>. QED BY <2>3, <5>1 DEF NoneOf
        <4>2. CASE j > Len(a)
          <5>1. j - Len(a) \in 1 .. Len(b) /\ c[j] = b[j - Len(a)]
            BY <1>1, <4>2
          <5>. QED BY <2>3, <5>1 DEF NoneOf
        <4>. QED BY <1>1, <4>1, <4>2
      <3>. QED BY <3>1 DEF NoneOf
    <2>4. CASE NoneOf(b, id)
      <3>1. Applied(Applied(st, a), b)[id] = Applied(st, a)[id]
        BY <2>4, AppliedIs
      <3>2. CASE NoneOf(a, id)
        <4>1. NoneOf(c, id)
          BY <2>3, <2>4, <3>2
        <4>2. Applied(st, c)[id] = st[id] /\ Applied(st, a)[id] = st[id]
          BY <1>0, <3>2, <4>1, AppliedIs, Zenon
        <4>. QED BY <3>1, <4>2
      <3>3. ASSUME NEW i \in 1 .. Len(a), LastOf(a, id, i)
            PROVE  Applied(st, a)[id] = Applied(st, c)[id]
        <4>1. LastOf(c, id, i) /\ c[i] = a[i]
          BY <2>2, <2>4, <3>3, Zenon
        <4>2. Applied(st, c)[id] = c[i].ver
          BY <1>0, <4>1, AppliedLast
        <4>3. Applied(st, a)[id] = a[i].ver
          BY <3>3, AppliedIs
        <4>. QED BY <4>1, <4>2, <4>3, Zenon
      <3>. QED BY <3>1, <3>2, <3>3, LastOrNone, Zenon
    <2>5. ASSUME NEW i \in 1 .. Len(b), LastOf(b, id, i)
          PROVE  Applied(Applied(st, a), b)[id] = Applied(st, c)[id]
      <3>1. LastOf(c, id, Len(a) + i) /\ c[Len(a) + i] = b[i]
        BY <1>1, <2>1, <2>5, Zenon
      <3>2. Applied(st, c)[id] = c[Len(a) + i].ver
        BY <1>0, <3>1, AppliedLast
      <3>3. Applied(Applied(st, a), b)[id] = b[i].ver
        BY <2>5, AppliedIs
      <3>. QED BY <3>1, <3>2, <3>3, Zenon
    <2>. QED BY <2>4, <2>5, LastOrNone, Zenon
  <1>3. Applied(Applied(st, a), b) = Applied(st, c)
    BY <1>2 DEF Applied
  <1>. QED BY <1>3 DEF c, InTurn

-------------------------------------------------------------------------------
(* Concatenating the workers' rings *)

\* What any function that follows FlattenSeq's recursion ends with is its value.
LEMMA FlattenIs ==
  ASSUME NEW T, NEW s \in Seq(Seq(T)), Len(s) # 0, NEW f \in [1 .. Len(s) -> Seq(T)],
         f[1] = s[1], \A i \in 2 .. Len(s) : f[i] = f[i - 1] \o s[i]
  PROVE  SeqOps!FlattenSeq(s) = f[Len(s)]
  <1> DEFINE fl[i \in 1 .. Len(s)] == IF i = 1 THEN s[i] ELSE fl[i - 1] \o s[i]
             step(g) == [i \in 1 .. Len(s) |-> IF i = 1 THEN s[i] ELSE g[i - 1] \o s[i]]
  <1>1. SeqOps!FlattenSeq(s) = fl[Len(s)]
    BY DEF SeqOps!FlattenSeq
  <1>2. Len(s) \in Nat /\ Len(s) >= 1
    OBVIOUS
  <1>3. f = step(f)
    <2>1. ASSUME NEW i \in 1 .. Len(s)
          PROVE  f[i] = IF i = 1 THEN s[i] ELSE f[i - 1] \o s[i]
      <3>1. i = 1 \/ i \in 2 .. Len(s)
        BY <1>2
      <3>2. i \in 2 .. Len(s) => i # 1
        OBVIOUS
      <3>. QED BY <3>1, <3>2, Zenon
    <2>2. f = [i \in 1 .. Len(s) |-> f[i]]
      OBVIOUS
    <2>. QED BY <2>1, <2>2
  <1>4. fl = step(fl)
    <2>1. fl = CHOOSE g : g = step(g)
      OBVIOUS
    <2> HIDE DEF fl, step
    <2>. QED BY <1>3, <2>1
  <1> HIDE DEF fl
  <1> DEFINE S == {n \in Nat : n \in 1 .. Len(s) => fl[n] = f[n]}
  <1>5. 0 \in S
    BY <1>2
  <1>6. ASSUME NEW n \in Nat, n \in S
        PROVE  n + 1 \in S
    <2>1. ASSUME n + 1 \in 1 .. Len(s)
          PROVE  fl[n + 1] = f[n + 1]
      <3>1. \A i \in 1 .. Len(s) : fl[i] = IF i = 1 THEN s[i] ELSE fl[i - 1] \o s[i]
        BY <1>4
      <3>2. CASE n = 0
        BY <2>1, <3>1, <3>2
      <3>3. CASE n # 0
        <4>1. PICK m \in Nat : m = n + 1
          OBVIOUS
        <4>2. /\ n \in 1 .. Len(s) /\ m \in 1 .. Len(s) /\ m \in 2 .. Len(s) /\ m - 1 = n
              /\ m # 1
          BY <1>2, <2>1, <3>3, <4>1
        <4>3. fl[n] = f[n]
          BY <1>6, <4>2
        <4>4. fl[m] = fl[m - 1] \o s[m]
          BY <3>1, <4>2, Zenon
        <4>5. f[m] = f[m - 1] \o s[m]
          BY <4>2, Zenon
        <4>. QED BY <4>1, <4>2, <4>3, <4>4, <4>5, Zenon
      <3>. QED BY <3>2, <3>3
    <2>. QED BY <2>1
  <1>7. Len(s) \in S
    <2> HIDE DEF S
    <2>. QED BY <1>2, <1>5, <1>6, Induction, Zenon
  <1>. QED BY <1>1, <1>2, <1>7

\* It is a sequence of what they hold.
LEMMA FlattenType ==
  ASSUME NEW T, NEW s \in Seq(Seq(T)), Len(s) # 0
  PROVE  SeqOps!FlattenSeq(s) \in Seq(T)
  <1> DEFINE Follows(f, n) == /\ f \in [1 .. n -> Seq(T)]
                              /\ n >= 1 => f[1] = s[1]
                              /\ \A i \in 2 .. n : f[i] = f[i - 1] \o s[i]
             S == {n \in Nat : n <= Len(s) => \E f : Follows(f, n)}
  <1>1. Len(s) \in Nat /\ Len(s) >= 1 /\ \A i \in 1 .. Len(s) : s[i] \in Seq(T)
    OBVIOUS
  <1>2. 0 \in S
    <2>1. Follows([i \in 1 .. 0 |-> <<>>], 0)
      OBVIOUS
    <2>. QED BY <2>1
  <1>3. ASSUME NEW n \in Nat, n \in S, n + 1 <= Len(s)
        PROVE  \E f : Follows(f, n + 1)
    <2>0. n <= Len(s)
      BY <1>1, <1>3
    <2>1. PICK f : Follows(f, n)
      BY <1>3, <2>0, Zenon
    <2> DEFINE g == [i \in 1 .. n + 1 |-> IF i <= n THEN f[i]
                                          ELSE IF n = 0 THEN s[1] ELSE f[n] \o s[n + 1]]
    <2>2. n + 1 \in 1 .. Len(s) /\ s[n + 1] \in Seq(T) /\ s[1] \in Seq(T)
      BY <1>1, <1>3
    <2>3. n # 0 => f[n] \in Seq(T)
      BY <2>1
    <2>4. n # 0 => f[n] \o s[n + 1] \in Seq(T)
      BY <2>2, <2>3
    <2>5. g \in [1 .. n + 1 -> Seq(T)]
      BY <2>1, <2>2, <2>4
    <2>6. g[1] = s[1]
      BY <2>1
    <2>7. ASSUME NEW i \in 2 .. n + 1
          PROVE  g[i] = g[i - 1] \o s[i]
      <3>1. CASE i <= n
        <4>1. g[i] = f[i] /\ g[i - 1] = f[i - 1] /\ i \in 2 .. n
          BY <3>1
        <4>. QED BY <2>1, <4>1
      <3>2. CASE i = n + 1
        <4>1. i \in 1 .. n + 1 /\ i - 1 \in 1 .. n + 1 /\ ~(i <= n) /\ n # 0 /\ i - 1 <= n
              /\ i - 1 = n
          BY <3>2
        <4>2. g[i] = f[n] \o s[n + 1]
          BY <4>1, Zenon
        <4>3. g[i - 1] = f[n]
          BY <4>1, Zenon
        <4>. QED BY <3>2, <4>2, <4>3, Zenon
      <3>3. i <= n \/ i = n + 1
        OBVIOUS
      <3>. QED BY <3>1, <3>2, <3>3, Zenon
    <2>8. Follows(g, n + 1)
      <3> HIDE DEF g
      <3>. QED BY <2>5, <2>6, <2>7
    <2>. QED BY <2>8
  <1>4. Len(s) \in S
    <2>1. \A n \in Nat : n \in S => n + 1 \in S
      <3> HIDE DEF Follows
      <3>. QED BY <1>3
    <2> HIDE DEF S
    <2>. QED BY <1>1, <1>2, <2>1, Induction, Zenon
  <1>5. PICK f : Follows(f, Len(s))
    <2> HIDE DEF Follows
    <2>. QED BY <1>1, <1>4
  <1>6. SeqOps!FlattenSeq(s) = f[Len(s)]
    BY <1>1, <1>5, FlattenIs
  <1>. QED BY <1>1, <1>5, <1>6

\* Workers with one item each, in their order, and none beyond the last item.
LEMMA FlattenDealt ==
  ASSUME NEW T, NEW b \in Seq(T), NEW s \in Seq(Seq(T)), Len(s) # 0, Len(b) <= Len(s),
         \A w \in 1 .. Len(s) : s[w] = IF w <= Len(b) THEN <<b[w]>> ELSE <<>>
  PROVE  SeqOps!FlattenSeq(s) = b
  <1> DEFINE f == [i \in 1 .. Len(s) |-> IF i <= Len(b) THEN SubSeq(b, 1, i) ELSE b]
  <1>1. Len(s) \in Nat /\ Len(s) >= 1 /\ Len(b) \in Nat
    OBVIOUS
  <1>2. \A i \in 1 .. Len(b) : SubSeq(b, 1, i) \in Seq(T)
    BY <1>1
  <1>3. f \in [1 .. Len(s) -> Seq(T)]
    BY <1>1, <1>2
  <1>4. SubSeq(b, 1, Len(b)) = b
    OBVIOUS
  <1>5. ASSUME NEW i \in 1 .. Len(s)
        PROVE  /\ i <= Len(b) => f[i] = SubSeq(b, 1, i) /\ s[i] = <<b[i]>>
               /\ ~(i <= Len(b)) => f[i] = b /\ s[i] = <<>>
    <2>1. f[i] = IF i <= Len(b) THEN SubSeq(b, 1, i) ELSE b
      OBVIOUS
    <2>2. s[i] = IF i <= Len(b) THEN <<b[i]>> ELSE <<>>
      OBVIOUS
    <2> HIDE DEF f
    <2>. QED BY <2>1, <2>2, Zenon
  <1>6. f[1] = s[1]
    <2>1. CASE 1 <= Len(b)
      <3>1. SubSeq(b, 1, 1) = <<b[1]>>
        <4>1. 1 \in 1 .. Len(b) /\ b[1] \in T
          BY <1>1, <2>1
        <4>2. SubSeq(b, 1, 1) \in Seq(T) /\ Len(SubSeq(b, 1, 1)) = 1
              /\ SubSeq(b, 1, 1)[1] = b[1]
          BY <1>1, <4>1
        <4> DEFINE one == SubSeq(b, 1, 1)
        <4>3. one \in Seq(T) /\ Len(one) = 1 /\ one[1] = b[1]
          BY <4>2
        <4> HIDE DEF one
        <4>4. one = <<b[1]>>
          BY <4>1, <4>3
        <4>. QED BY <4>4 DEF one
      <3>2. 1 \in 1 .. Len(s)
        BY <1>1
      <3> HIDE DEF f
      <3>. QED BY <1>5, <2>1, <3>1, <3>2, Zenon
    <2>2. CASE ~(1 <= Len(b))
      <3>1. b = <<>>
        BY <1>1, <2>2
      <3>2. 1 \in 1 .. Len(s)
        BY <1>1
      <3> HIDE DEF f
      <3>3. f[1] = b /\ s[1] = <<>>
        BY <1>5, <2>2, <3>2
      <3>. QED BY <3>1, <3>3, Zenon
    <2>. QED BY <2>1, <2>2
  <1> HIDE DEF f
  <1>7. ASSUME NEW i \in 2 .. Len(s)
        PROVE  f[i] = f[i - 1] \o s[i]
    <2>1. PICK k \in Nat : k = i - 1
      BY <1>1
    <2>2. i \in 1 .. Len(s) /\ k \in 1 .. Len(s)
      BY <1>1, <2>1
    <2>3. CASE i <= Len(b)
      <3>1. k <= Len(b)
        BY <1>1, <2>1, <2>3
      <3>2. f[i] = SubSeq(b, 1, i) /\ s[i] = <<b[i]>> /\ f[k] = SubSeq(b, 1, k)
        BY <1>5, <2>2, <2>3, <3>1, Zenon
      <3>3. SubSeq(b, 1, i) = SubSeq(b, 1, k) \o <<b[i]>>
        BY <1>1, <2>1, <2>3
      <3>. QED BY <2>1, <3>2, <3>3, Zenon
    <2>4. CASE ~(i <= Len(b))
      <3>1. k <= Len(b) => k = Len(b)
        BY <1>1, <2>1, <2>4
      <3>2. f[i] = b /\ s[i] = <<>> /\ f[k] = b
        BY <1>4, <1>5, <2>2, <2>4, <3>1, Zenon
      <3>3. b \o <<>> = b
        OBVIOUS
      <3>. QED BY <2>1, <3>2, <3>3, Zenon
    <2>. QED BY <2>3, <2>4
  <1>8. f[Len(s)] = b
    <2>1. Len(s) <= Len(b) => Len(s) = Len(b)
      BY <1>1
    <2>2. Len(s) \in 1 .. Len(s)
      BY <1>1
    <2>3. Len(s) <= Len(b) => f[Len(s)] = SubSeq(b, 1, Len(s))
      BY <1>5, <2>2, Zenon
    <2>4. ~(Len(s) <= Len(b)) => f[Len(s)] = b
      BY <1>5, <2>2, Zenon
    <2>. QED BY <1>4, <2>1, <2>3, <2>4, Zenon
  <1>9. SeqOps!FlattenSeq(s) = f[Len(s)]
    BY <1>3, <1>6, <1>7, FlattenIs
  <1>. QED BY <1>8, <1>9

\* Workers without an item.
LEMMA FlattenEmpty ==
  ASSUME NEW n \in Nat \ {0}
  PROVE  SeqOps!FlattenSeq([w \in 1 .. n |-> <<>>]) = <<>>
  <1> DEFINE s == [w \in 1 .. n |-> <<>>]
  <1>1. s \in Seq(Seq({})) /\ Len(s) = n /\ <<>> \in Seq({}) /\ Len(<<>>) = 0
    OBVIOUS
  <1>2. \A w \in 1 .. Len(s) : ~(w <= 0) /\ s[w] = <<>>
    OBVIOUS
  <1> HIDE DEF s
  <1>3. SeqOps!FlattenSeq(s) = <<>>
    <2> DEFINE b == <<>>
    <2>1. b \in Seq({}) /\ Len(b) = 0 /\ Len(b) <= Len(s) /\ Len(s) # 0
      BY <1>1
    <2>2. \A w \in 1 .. Len(s) : s[w] = IF w <= Len(b) THEN <<b[w]>> ELSE <<>>
      BY <1>2, <2>1, Zenon
    <2>3. b = <<>>
      OBVIOUS
    <2> HIDE DEF b
    <2>4. SeqOps!FlattenSeq(s) = b
      BY <1>1, <2>1, <2>2, FlattenDealt, Zenon
    <2>. QED BY <2>3, <2>4
  <1>. QED BY <1>3 DEF s

-------------------------------------------------------------------------------
(* What the buffers hold *)

\* The state of a cold tier between two calls.
ColdShape ==
  /\ kind \in {"direct", "ring", "parallel"}
  /\ backend \in {"memory", "file", "shared"}
  /\ numWorkers \in 1 .. MaxWorkers
  /\ storage \in [Ids -> Versions \union {0}]
  /\ written \subseteq {id \in Ids : storage[id] # 0}
  /\ ring \in Seq(Entries) /\ Len(ring) <= RingCapacity
  /\ pending \in Seq(Entries)
  /\ active = Empty
  /\ slot \in [Workers -> Seq(Entries)]
  /\ published \in [Workers -> BOOLEAN] /\ spare \in [Workers -> BOOLEAN]
  /\ \A w \in Workers : spare[w] \/ published[w]
  /\ strayed = <<>>
  /\ swallowed \subseteq Versions
  /\ kind # "parallel" => pending = <<>> /\ slot = Empty
  /\ kind # "ring" => ring = <<>>
  /\ kind = "parallel" => Len(pending) < numWorkers
  /\ kind # "direct" => swallowed = {}

\* The rings of n workers, and workers that have nothing.
Rings(n, T) == [1 .. n -> Seq(T)]
Nothing(n)  == [w \in 1 .. n |-> <<>>]

\* What is in a ring, then what the workers hold, then what is pending.
Chain(r, s, a, p) == r \o SeqOps!FlattenSeq(s) \o SeqOps!FlattenSeq(a) \o p

\* That chain when the workers' own rings are empty.
ChainIs(n, T, r, s, p) ==
  /\ SeqOps!FlattenSeq(s) \in Seq(T)
  /\ Chain(r, s, Nothing(n), p) \in Seq(T)
  /\ r = <<>> => Chain(r, s, Nothing(n), p) = SeqOps!FlattenSeq(s) \o p
  /\ s = Nothing(n) /\ p = <<>> => Chain(r, s, Nothing(n), p) = r
  /\ Chain(r, s, Nothing(n), p) = r \o SeqOps!FlattenSeq(s) \o p

\* What the buffers of a cold tier hold is one sequence, the spill ring first or
\* the workers' rings in their order, then the pending batch.
LEMMA BufferShape ==
  ASSUME NEW n \in Nat \ {0}, NEW T, NEW r \in Seq(T), NEW s \in Rings(n, T),
         NEW p \in Seq(T)
  PROVE  ChainIs(n, T, r, s, p)
  <1> DEFINE h == SeqOps!FlattenSeq(s)
  <1>1. s \in Seq(Seq(T)) /\ Len(s) # 0
    BY DEF Rings
  <1>2. h \in Seq(T)
    BY <1>1, FlattenType
  <1>3. SeqOps!FlattenSeq(Nothing(n)) = <<>>
    BY FlattenEmpty DEF Nothing
  <1>4. s = Nothing(n) => h = <<>>
    BY <1>3
  <1> HIDE DEF h
  <1>5. /\ r \o h \o <<>> \o p \in Seq(T)
        /\ r = <<>> => r \o h \o <<>> \o p = h \o p
        /\ h = <<>> /\ p = <<>> => r \o h \o <<>> \o p = r
        /\ r \o h \o <<>> \o p = r \o h \o p
    <2>1. r \o h \in Seq(T)
      BY <1>2
    <2> DEFINE rh == r \o h
    <2>2. rh \o <<>> = rh
      <3> HIDE DEF rh
      <3>. QED BY <2>1, ConcatEmptySeq DEF rh
    <2>3. rh \o p \in Seq(T)
      BY <2>1
    <2>4. r = <<>> => rh = h
      BY <1>2, ConcatEmptySeq
    <2>5. h = <<>> /\ p = <<>> => rh \o p = r
      BY <1>2, ConcatEmptySeq
    <2> HIDE DEF rh
    <2>6. /\ rh \o <<>> \o p \in Seq(T)
          /\ r = <<>> => rh \o <<>> \o p = h \o p
          /\ h = <<>> /\ p = <<>> => rh \o <<>> \o p = r
          /\ rh \o <<>> \o p = rh \o p
      BY <2>2, <2>3, <2>4, <2>5, Zenon
    <2>. QED BY <2>6 DEF rh
  <1>6. Chain(r, s, Nothing(n), p) = r \o h \o <<>> \o p
    BY <1>3, Zenon DEF Chain, h
  <1>. QED BY <1>2, <1>4, <1>5, <1>6, Zenon DEF h, ChainIs

\* Buffered is a sequence of entries, and for each kind of cold tier the
\* concatenation of the buffers that kind has.
LEMMA BufferedIs ==
  ASSUME ColdShape
  PROVE  /\ Buffered \in Seq(Entries)
         /\ SeqOps!FlattenSeq(slot) \in Seq(Entries)
         /\ kind = "direct" => Buffered = <<>>
         /\ kind = "ring" => Buffered = ring
         /\ kind = "parallel" => Buffered = SeqOps!FlattenSeq(slot) \o pending
         /\ Buffered = ring \o SeqOps!FlattenSeq(slot) \o pending
  <1>1. numWorkers \in Nat \ {0}
    BY ColdAssumption DEF ColdShape
  <1>2. /\ ring \in Seq(Entries) /\ pending \in Seq(Entries)
        /\ slot \in Rings(numWorkers, Entries)
        /\ active = Nothing(numWorkers)
        /\ kind # "parallel" => pending = <<>> /\ slot = active
        /\ kind # "ring" => ring = <<>>
    BY DEF ColdShape, Workers, Empty, Rings, Nothing
  <1>3. /\ SeqOps!FlattenSeq(slot) \in Seq(Entries)
        /\ Buffered \in Seq(Entries)
        /\ ring = <<>> => Buffered = SeqOps!FlattenSeq(slot) \o pending
        /\ slot = active /\ pending = <<>> => Buffered = ring
        /\ Buffered = ring \o SeqOps!FlattenSeq(slot) \o pending
    <2> DEFINE all == Chain(ring, slot, Nothing(numWorkers), pending)
    <2>1. ChainIs(numWorkers, Entries, ring, slot, pending)
      BY <1>1, <1>2, BufferShape, Zenon
    <2>2. Buffered = all
      BY <1>2, Zenon DEF Buffered, Chain
    <2>3. active = Nothing(numWorkers)
      BY <1>2, Zenon
    <2>. QED BY <2>1, <2>2, <2>3, Zenon DEF ChainIs
  <1>. QED BY <1>2, <1>3, Zenon

\* The same of the state after a step.
LEMMA BufferedThen ==
  ASSUME ColdShape'
  PROVE  /\ Buffered' \in Seq(Entries)
         /\ kind' = "direct" => Buffered' = <<>>
         /\ kind' = "ring" => Buffered' = ring'
         /\ kind' = "parallel" => Buffered' = SeqOps!FlattenSeq(slot') \o pending'
  <1>1. numWorkers' \in Nat \ {0}
    BY ColdAssumption DEF ColdShape
  <1>2. /\ ring' \in Seq(Entries) /\ pending' \in Seq(Entries)
        /\ slot' \in Rings(numWorkers', Entries)
        /\ active' = Nothing(numWorkers')
        /\ kind' # "parallel" => pending' = <<>> /\ slot' = active'
        /\ kind' # "ring" => ring' = <<>>
    BY DEF ColdShape, Workers, Empty, Rings, Nothing
  <1>3. /\ Buffered' \in Seq(Entries)
        /\ ring' = <<>> => Buffered' = SeqOps!FlattenSeq(slot') \o pending'
        /\ slot' = active' /\ pending' = <<>> => Buffered' = ring'
    <2> DEFINE all == Chain(ring', slot', Nothing(numWorkers'), pending')
    <2>1. ChainIs(numWorkers', Entries, ring', slot', pending')
      BY <1>1, <1>2, BufferShape, Zenon
    <2>2. Buffered' = all
      BY <1>2, Zenon DEF Buffered, Chain
    <2>3. active' = Nothing(numWorkers')
      BY <1>2, Zenon
    <2>. QED BY <2>1, <2>2, <2>3, Zenon DEF ChainIs
  <1>. QED BY <1>2, <1>3, Zenon

-------------------------------------------------------------------------------
(* What is written *)

\* The entries written leave a version of every id they are of, and no other id
\* changes.
LEMMA AppliedType ==
  ASSUME NEW st \in [Ids -> Versions \union {0}], NEW es \in Seq(Entries)
  PROVE  /\ Applied(st, es) \in [Ids -> Versions \union {0}]
         /\ \A id \in Ids : ~ NoneOf(es, id) \/ st[id] # 0 => Applied(st, es)[id] # 0
  <1>1. \A i \in 1 .. Len(es) : es[i].ver \in Versions
    <2>1. \A i \in 1 .. Len(es) : es[i] \in Entries
      OBVIOUS
    <2>. QED BY <2>1 DEF Entries
  <1>2. 0 \notin Versions
    BY ColdAssumption
  <1>3. ASSUME NEW id \in Ids
        PROVE  /\ Applied(st, es)[id] \in Versions \union {0}
               /\ ~ NoneOf(es, id) \/ st[id] # 0 => Applied(st, es)[id] # 0
    <2>1. CASE NoneOf(es, id)
      <3>1. Applied(st, es)[id] = st[id]
        BY <2>1, AppliedIs
      <3>. QED BY <2>1, <3>1
    <2>2. ASSUME NEW i \in 1 .. Len(es), LastOf(es, id, i)
          PROVE  Applied(st, es)[id] \in Versions
      <3>1. Applied(st, es)[id] = es[i].ver
        BY <2>2, AppliedLast
      <3>. QED BY <1>1, <3>1
    <2>. QED BY <1>2, <2>1, <2>2, LastOrNone
  <1>. QED BY <1>3 DEF Applied

\* The ids of the entries es.
IdsOf(es) == {es[i].id : i \in DOMAIN es}

\* Entries written to storage (serialize_and_send) leave storage a function to
\* versions, with what is known to be written inside it.
LEMMA DeliverType ==
  ASSUME storage \in [Ids -> Versions \union {0}],
         written \subseteq {id \in Ids : storage[id] # 0},
         NEW es \in Seq(Entries), Deliver(es)
  PROVE  /\ storage' \in [Ids -> Versions \union {0}]
         /\ written' \subseteq {id \in Ids : storage'[id] # 0}
         /\ written' = written \union IdsOf(es)
  <1>1. \A i \in 1 .. Len(es) : es[i].id \in Ids
    <2>1. \A i \in 1 .. Len(es) : es[i] \in Entries
      OBVIOUS
    <2>. QED BY <2>1 DEF Entries
  <1>2. written' = written \union IdsOf(es) /\ storage' = Applied(storage, es)
    BY DEF Deliver, IdsOf
  <1>3. \A id \in IdsOf(es) : id \in Ids /\ ~ NoneOf(es, id)
    BY <1>1 DEF IdsOf, NoneOf
  <1>. QED BY <1>2, <1>3, AppliedType

\* Writing nothing changes nothing.
LEMMA DeliverNothing ==
  ASSUME storage \in [Ids -> Versions \union {0}]
  PROVE  Deliver(<<>>) <=> UNCHANGED <<storage, written>>
  <1>1. Applied(storage, <<>>) = storage
    <2>1. \A id \in Ids : Applied(storage, <<>>)[id] = storage[id]
      BY AppliedNone
    <2>2. Applied(storage, <<>>) = [id \in Ids |-> Applied(storage, <<>>)[id]]
      BY DEF Applied
    <2>. QED BY <2>1, <2>2
  <1>2. {<<>>[i].id : i \in DOMAIN <<>>} = {}
    OBVIOUS
  <1>. QED BY <1>1, <1>2 DEF Deliver

-------------------------------------------------------------------------------
(* Batches *)

\* A batch of at most one item for every worker is dealt out one by one.
LEMMA ShareIs ==
  ASSUME NEW n \in Nat \ {0}, numWorkers = n, NEW batch \in Seq(Entries), Len(batch) <= n,
         NEW w \in 1 .. n
  PROVE  Share(batch, w) = IF w <= Len(batch) THEN <<batch[w]>> ELSE <<>>
  <1> DEFINE mine == {i \in DOMAIN batch : (i - 1) % n = w - 1}
  <1>1. DOMAIN batch = 1 .. Len(batch) /\ Len(batch) \in Nat
    OBVIOUS
  <1>2. ASSUME NEW i \in 1 .. Len(batch)
        PROVE  (i - 1) % n = i - 1
    BY <1>1
  <1>3. mine = {i \in 1 .. Len(batch) : i = w}
    BY <1>1, <1>2
  <1>4. Share(batch, w) = [k \in 1 .. Cardinality(mine) |-> batch[w + (k - 1) * n]]
    BY DEF Share
  <1> HIDE DEF mine
  <1>5. CASE w <= Len(batch)
    <2>1. mine = {w}
      BY <1>1, <1>3, <1>5
    <2>2. Cardinality(mine) = 1
      BY <2>1, FS_Singleton
    <2>3. \A k \in 1 .. 1 : w + (k - 1) * n = w
      OBVIOUS
    <2>4. Share(batch, w) = [k \in 1 .. 1 |-> batch[w]]
      BY <1>4, <2>2, <2>3
    <2>. QED BY <1>5, <2>4
  <1>6. CASE ~(w <= Len(batch))
    <2>1. mine = {}
      BY <1>1, <1>3, <1>6
    <2>2. Cardinality(mine) = 0
      BY <2>1, FS_EmptySet
    <2>3. Share(batch, w) = [k \in 1 .. 0 |-> batch[w + (k - 1) * n]]
      BY <1>4, <2>2
    <2>4. Share(batch, w) = <<>>
      BY <2>3
    <2>. QED BY <1>6, <2>4
  <1>. QED BY <1>5, <1>6

\* After such a batch the workers hold its items in their order, and none spills.
LEMMA BatchIs ==
  ASSUME NEW n \in Nat \ {0}, numWorkers = n, active = Empty,
         NEW batch \in Seq(Entries), Len(batch) <= n
  PROVE  /\ Kept(batch) \in [1 .. n -> Seq(Entries)]
         /\ SeqOps!FlattenSeq(Kept(batch)) = batch
         /\ Spilt(batch) = <<>>
  <1>1. ASSUME NEW w \in 1 .. n
        PROVE  /\ Share(batch, w) \in Seq(Entries) /\ Len(Share(batch, w)) <= 1
               /\ Share(batch, w) = IF w <= Len(batch) THEN <<batch[w]>> ELSE <<>>
    <2>1. Share(batch, w) = IF w <= Len(batch) THEN <<batch[w]>> ELSE <<>>
      BY ShareIs
    <2>2. w <= Len(batch) => batch[w] \in Entries
      OBVIOUS
    <2>3. w <= Len(batch) => <<batch[w]>> \in Seq(Entries) /\ Len(<<batch[w]>>) = 1
      BY <2>2
    <2>4. <<>> \in Seq(Entries) /\ Len(<<>>) <= 1
      OBVIOUS
    <2>. QED BY <2>1, <2>3, <2>4
  <1>2. ASSUME NEW w \in 1 .. n
        PROVE  Pushed(batch)[w] = Share(batch, w)
    <2>1. Pushed(batch)[w] = <<>> \o Share(batch, w)
      BY DEF Pushed, Empty, Workers
    <2>. QED BY <1>1, <2>1, ConcatEmptySeq
  <1>3. ASSUME NEW s \in Seq(Entries), Len(s) <= 1
        PROVE  Prefix(s, Overflow(s, PoolCapacity)) = <<>> /\ Suffix(s, Overflow(s, PoolCapacity)) = s
    <2>1. Overflow(s, PoolCapacity) = 0
      BY <1>3, ColdAssumption DEF Overflow
    <2>2. SubSeq(s, 1, 0) = <<>> /\ SubSeq(s, 0 + 1, Len(s)) = s
      OBVIOUS
    <2>. QED BY <2>1, <2>2 DEF Prefix, Suffix
  <1>4. Kept(batch) = [w \in 1 .. n |-> Share(batch, w)]
    <2>1. \A w \in 1 .. n : Suffix(Pushed(batch)[w], Overflow(Pushed(batch)[w], PoolCapacity))
                              = Share(batch, w)
      BY <1>1, <1>2, <1>3
    <2>. QED BY <2>1 DEF Kept, Workers
  <1>5. Spilt(batch) = SeqOps!FlattenSeq([w \in 1 .. n |-> <<>>])
    <2>1. \A w \in 1 .. n : Prefix(Pushed(batch)[w], Overflow(Pushed(batch)[w], PoolCapacity))
                              = <<>>
      BY <1>1, <1>2, <1>3
    <2>2. [w \in Workers |-> Prefix(Pushed(batch)[w], Overflow(Pushed(batch)[w], PoolCapacity))]
            = [w \in 1 .. n |-> <<>>]
      BY <2>1 DEF Workers
    <2>. QED BY <2>2 DEF Spilt
  <1>6. Kept(batch) \in [1 .. n -> Seq(Entries)]
    BY <1>1, <1>4
  <1>7. SeqOps!FlattenSeq(Kept(batch)) = batch
    <2> DEFINE s == Kept(batch)
    <2>1. s \in Seq(Seq(Entries)) /\ Len(s) = n
      BY <1>6
    <2>2. \A w \in 1 .. Len(s) : s[w] = IF w <= Len(batch) THEN <<batch[w]>> ELSE <<>>
      BY <1>1, <1>4, <2>1
    <2> HIDE DEF s
    <2>3. Len(s) # 0 /\ Len(batch) <= Len(s)
      BY <2>1
    <2>4. SeqOps!FlattenSeq(s) = batch
      BY <2>1, <2>2, <2>3, FlattenDealt
    <2>. QED BY <2>4 DEF s
  <1>. QED BY <1>5, <1>6, <1>7, FlattenEmpty

\* After a collect every slot has a spare, so that every worker hands its ring over.
LEMMA AllHanded ==
  ASSUME ColdShape, NEW n \in Nat \ {0}, numWorkers = n, NEW batch,
         Kept(batch) \in [1 .. n -> Seq(Entries)]
  PROVE  /\ Collected = [w \in 1 .. n |-> TRUE]
         /\ Handed(batch) = Kept(batch)
         /\ Left(batch) = [w \in 1 .. n |-> <<>>]
  <1>1. Collected = [w \in 1 .. n |-> TRUE]
    BY DEF Collected, ColdShape, Workers
  <1>2. Handed(batch) = [w \in 1 .. n |-> Kept(batch)[w]]
    BY <1>1 DEF Handed, Workers
  <1>3. Left(batch) = [w \in 1 .. n |-> <<>>]
    BY <1>1 DEF Left, Workers
  <1>. QED BY <1>1, <1>2, <1>3

-------------------------------------------------------------------------------
(* What an operation of the cold tier does to what is buffered *)

\* The first entries of es reach storage, the others stay buffered.
Moves(es) == \E out \in Seq(Entries) : es = out \o Buffered' /\ Deliver(out)

\* run_batch: what the last batch left in the slots is written, the new batch is
\* buffered in its place.
LEMMA RunBatchStep ==
  ASSUME ColdShape, kind = "parallel", NEW batch \in Seq(Entries),
         Len(batch) <= numWorkers, RunBatch(batch),
         UNCHANGED <<kind, backend, numWorkers, ring, swallowed>>
  PROVE  /\ ColdShape'
         /\ Deliver(SeqOps!FlattenSeq(slot))
         /\ Buffered' = batch
  <1>1. PICK n \in Nat \ {0} : n = numWorkers /\ n \in 1 .. MaxWorkers
    BY ColdAssumption DEF ColdShape
  <1>2. /\ Kept(batch) \in [1 .. n -> Seq(Entries)]
        /\ SeqOps!FlattenSeq(Kept(batch)) = batch
        /\ Spilt(batch) = <<>>
    BY <1>1, BatchIs DEF ColdShape
  <1>3. SeqOps!FlattenSeq(slot) \in Seq(Entries)
    BY BufferedIs
  <1>4. Deliver(SeqOps!FlattenSeq(slot))
    <2> DEFINE h == SeqOps!FlattenSeq(slot)
               out == IF backend = "shared" THEN Spilt(batch) ELSE <<>>
    <2>1. out = <<>>
      BY <1>2
    <2>2. Deliver(h \o out)
      BY DEF RunBatch
    <2>3. h \in Seq(Entries)
      BY <1>3
    <2> HIDE DEF h, out
    <2>4. h \o out = h
      BY <2>1, <2>3, ConcatEmptySeq
    <2>5. Deliver(h)
      BY <2>2, <2>4
    <2>. QED BY <2>5 DEF h
  <1>5. strayed' = <<>>
    <2>1. strayed' = IF backend = "shared" THEN strayed ELSE strayed \o Spilt(batch)
      BY DEF RunBatch
    <2>2. strayed = <<>> /\ <<>> \o <<>> = <<>>
      BY DEF ColdShape
    <2>. QED BY <1>2, <2>1, <2>2
  <1>6. /\ active' = [w \in 1 .. n |-> <<>>]
        /\ slot' = Kept(batch)
        /\ published' = [w \in 1 .. n |-> TRUE]
        /\ spare' = [w \in 1 .. n |-> FALSE]
        /\ pending' = <<>>
    BY <1>1, <1>2, AllHanded DEF RunBatch, Run, Workers
  <1>7. Workers' = 1 .. n /\ Empty' = [w \in 1 .. n |-> <<>>]
    BY <1>1 DEF Workers, Empty
  <1>8. /\ storage' \in [Ids -> Versions \union {0}]
        /\ written' \subseteq {id \in Ids : storage'[id] # 0}
    BY <1>3, <1>4, DeliverType DEF ColdShape
  <1>9. ColdShape'
    <2>1. /\ kind' = "parallel" /\ backend' \in {"memory", "file", "shared"}
          /\ numWorkers' \in 1 .. MaxWorkers /\ numWorkers' > 0
          /\ ring' = <<>> /\ swallowed' = {}
      BY <1>1 DEF ColdShape
    <2>2. /\ <<>> \in Seq(Entries) /\ Len(<<>>) = 0 /\ Len(<<>>) <= RingCapacity
      BY ColdAssumption
    <2>3. /\ active' = Empty' /\ slot' \in [Workers' -> Seq(Entries)]
          /\ published' \in [Workers' -> BOOLEAN] /\ spare' \in [Workers' -> BOOLEAN]
          /\ \A w \in Workers' : published'[w]
      BY <1>2, <1>6, <1>7
    <2>. QED BY <1>5, <1>6, <1>8, <2>1, <2>2, <2>3 DEF ColdShape
  <1>10. Buffered' = SeqOps!FlattenSeq(slot') \o pending'
    BY <1>9, BufferedThen
  <1>11. Buffered' = batch \o <<>>
    BY <1>2, <1>6, <1>10, Zenon
  <1>. QED BY <1>4, <1>9, <1>11, ConcatEmptySeq

\* store() of ParallelCold.
LEMMA ParallelStoreStep ==
  ASSUME ColdShape, NEW e \in Entries, ParallelStore(e),
         UNCHANGED <<kind, backend, numWorkers>>
  PROVE  ColdShape' /\ Moves(Append(Buffered, e)) /\ UNCHANGED swallowed /\ swallowed = {}
  <1> DEFINE h == SeqOps!FlattenSeq(slot)
             batch == Append(pending, e)
  <1>1. /\ kind = "parallel" /\ swallowed = {} /\ UNCHANGED <<ring, swallowed>>
        /\ pending \in Seq(Entries) /\ Len(pending) < numWorkers
        /\ numWorkers \in Nat \ {0}
    BY ColdAssumption DEF ParallelStore, ColdShape
  <1>2. batch \in Seq(Entries) /\ Len(batch) = Len(pending) + 1 /\ Len(pending) \in Nat
    BY <1>1
  <1>3. h \in Seq(Entries) /\ Buffered = h \o pending
    BY <1>1, BufferedIs
  <1>4. Append(Buffered, e) = h \o batch
    <2> HIDE DEF h
    <2>1. Append(h \o pending, e) = h \o batch
      <3>1. h \in Seq(Entries) /\ pending \in Seq(Entries)
        BY <1>1, <1>3
      <3>. QED BY <3>1
    <2>. QED BY <1>3, <2>1
  <1>5. CASE Len(batch) >= numWorkers
    <2>1. RunBatch(batch) /\ Len(batch) <= numWorkers
      BY <1>1, <1>2, <1>5 DEF ParallelStore
    <2>2. ColdShape' /\ Deliver(h) /\ Buffered' = batch
      BY <1>1, <1>2, <2>1, RunBatchStep
    <2>3. Moves(Append(Buffered, e))
      <3> HIDE DEF h, batch
      <3>. QED BY <1>3, <1>4, <2>2, Zenon DEF Moves
    <2>. QED BY <1>1, <2>2, <2>3
  <1>6. CASE ~(Len(batch) >= numWorkers)
    <2>1. /\ pending' = batch
          /\ UNCHANGED <<storage, written, active, slot, published, spare, strayed>>
      BY <1>6 DEF ParallelStore
    <2>2. Workers' = Workers /\ Empty' = Empty
      BY DEF Workers, Empty
    <2>3. Len(batch) < numWorkers
      BY <1>1, <1>2, <1>6
    <2>4. ColdShape'
      <3> HIDE DEF batch
      <3>. QED BY <1>1, <1>2, <2>1, <2>2, <2>3 DEF ColdShape
    <2>5. Buffered' = h \o batch
      <3>1. kind' = "parallel" /\ slot' = slot
        BY <1>1, <2>1
      <3>. QED BY <2>1, <2>4, <3>1, BufferedThen
    <2>6. Deliver(<<>>)
      BY <2>1, DeliverNothing DEF ColdShape
    <2>7. Moves(Append(Buffered, e))
      <3> DEFINE full == Append(Buffered, e)
      <3>1. full \in Seq(Entries) /\ <<>> \in Seq(Entries)
        <4>1. Buffered \in Seq(Entries)
          BY BufferedIs
        <4>. QED BY <4>1
      <3>2. full = Buffered'
        BY <1>4, <2>5
      <3> HIDE DEF full
      <3>3. full = <<>> \o Buffered'
        BY <3>1, <3>2, ConcatEmptySeq
      <3>4. Moves(full)
        BY <2>6, <3>1, <3>3, Zenon DEF Moves
      <3>. QED BY <3>4 DEF full
    <2>. QED BY <1>1, <2>4, <2>7
  <1>. QED BY <1>5, <1>6

\* store() of RingCold: what does not fit is written, the oldest first.
LEMMA RingStoreStep ==
  ASSUME ColdShape, NEW e \in Entries, RingStore(e), UNCHANGED <<kind, backend, numWorkers>>
  PROVE  ColdShape' /\ Moves(Append(Buffered, e)) /\ UNCHANGED swallowed /\ swallowed = {}
  <1> DEFINE full == Append(ring, e)
  <1>1. /\ kind = "ring" /\ swallowed = {} /\ UNCHANGED <<pending, active, slot, published, spare, strayed, swallowed>>
        /\ ring \in Seq(Entries) /\ Len(ring) <= RingCapacity
        /\ RingCapacity \in Nat \ {0}
    BY ColdAssumption DEF RingStore, ColdShape
  <1>2. full \in Seq(Entries) /\ Len(full) \in Nat
    BY <1>1
  <1>3. PICK n \in Nat : n = Overflow(full, RingCapacity)
    <2> HIDE DEF full
    <2>1. Overflow(full, RingCapacity) \in Nat
      BY <1>1, <1>2 DEF Overflow
    <2>. QED BY <2>1
  <1>4. Deliver(SubSeq(full, 1, n)) /\ ring' = SubSeq(full, n + 1, Len(full))
    BY <1>3 DEF RingStore, Prefix, Suffix
  <1>5. n <= Len(full) /\ Len(full) - n <= RingCapacity
    <2> HIDE DEF full
    <2>. QED BY <1>1, <1>2, <1>3 DEF Overflow
  <1> HIDE DEF full
  <1>6. /\ SubSeq(full, 1, n) \in Seq(Entries) /\ ring' \in Seq(Entries)
        /\ Len(ring') <= RingCapacity
        /\ full = SubSeq(full, 1, n) \o SubSeq(full, n + 1, Len(full))
    <2>1. SubSeq(full, 1, n) \in Seq(Entries)
      BY <1>2, <1>5
    <2>2. ring' \in Seq(Entries) /\ Len(ring') = Len(full) - n
      BY <1>2, <1>4, <1>5
    <2>3. full = SubSeq(full, 1, n) \o SubSeq(full, n + 1, Len(full))
      <3>1. n \in 0 .. Len(full)
        BY <1>2, <1>5
      <3>. QED BY <1>2, <3>1, CutAt, Zenon DEF CutInto
    <2>. QED BY <1>5, <2>1, <2>2, <2>3
  <1>7. /\ storage' \in [Ids -> Versions \union {0}]
        /\ written' \subseteq {id \in Ids : storage'[id] # 0}
    BY <1>4, <1>6, DeliverType DEF ColdShape
  <1>8. Workers' = Workers /\ Empty' = Empty
    BY DEF Workers, Empty
  <1>9. ColdShape'
    BY <1>1, <1>6, <1>7, <1>8 DEF ColdShape
  <1>10. Buffered' = ring' /\ Buffered = ring
    BY <1>1, <1>9, BufferedIs, BufferedThen
  <1>11. Moves(full)
    BY <1>4, <1>6, <1>10, Zenon DEF Moves
  <1>12. full = Append(Buffered, e)
    BY <1>10, Zenon DEF full
  <1>. QED BY <1>1, <1>9, <1>11, <1>12, Zenon

\* store() of DirectStorage: written at once, unless the storage refuses it.
LEMMA DirectStoreStep ==
  ASSUME ColdShape, NEW e \in Entries, DirectStore(e), UNCHANGED <<kind, backend, numWorkers>>
  PROVE  /\ ColdShape'
         /\ \/ Moves(Append(Buffered, e)) /\ swallowed' = swallowed \ {e.ver}
            \/ /\ UNCHANGED <<storage, written>>
               /\ swallowed' = swallowed \union {e.ver}
         /\ Buffered = <<>> /\ Buffered' = <<>>
  <1>1. kind = "direct" /\ UNCHANGED <<ring, pending, active, slot, published, spare, strayed>>
    BY DEF DirectStore, buffers
  <1>2. Workers' = Workers /\ Empty' = Empty
    BY DEF Workers, Empty
  <1>3. e.ver \in Versions /\ <<e>> \in Seq(Entries)
    BY DEF Entries
  <1>4. CASE Deliver(<<e>>) /\ swallowed' = swallowed \ {e.ver}
    <2>1. /\ storage' \in [Ids -> Versions \union {0}]
          /\ written' \subseteq {id \in Ids : storage'[id] # 0}
      BY <1>3, <1>4, DeliverType DEF ColdShape
    <2>2. ColdShape'
      BY <1>1, <1>2, <1>4, <2>1 DEF ColdShape
    <2>3. Buffered' = <<>> /\ Buffered = <<>>
      BY <1>1, <2>2, BufferedIs, BufferedThen
    <2>4. Append(Buffered, e) = <<e>>
      BY <2>3
    <2>5. <<e>> = <<e>> \o Buffered'
      BY <1>3, <2>3
    <2>6. Moves(<<e>>)
      BY <1>3, <1>4, <2>5, Zenon DEF Moves
    <2>. QED BY <1>4, <2>2, <2>3, <2>4, <2>6
  <1>5. CASE UNCHANGED <<storage, written>> /\ swallowed' = swallowed \union {e.ver}
    <2>1. ColdShape'
      BY <1>1, <1>2, <1>3, <1>5 DEF ColdShape
    <2>2. Buffered' = <<>> /\ Buffered = <<>>
      BY <1>1, <2>1, BufferedIs, BufferedThen
    <2>. QED BY <1>5, <2>1, <2>2
  <1>. QED BY <1>4, <1>5 DEF DirectStore

\* store(): the first entries of what is buffered, the new one last, reach
\* storage; or the one it was given is lost, and nothing was buffered.
Refused(e) ==
  /\ UNCHANGED <<storage, written>>
  /\ swallowed' = swallowed \union {e.ver}
  /\ Buffered = <<>> /\ Buffered' = <<>>

\* store() of every kind of cold tier: the first of what is buffered moves to
\* storage with the new entry last, or direct storage lost what it was given.
LEMMA StoreStep ==
  ASSUME ColdShape, NEW e \in Entries, ColdStore(e)
  PROVE  /\ ColdShape'
         /\ \/ Moves(Append(Buffered, e)) /\ swallowed' = swallowed \ {e.ver}
            \/ Refused(e)
  <1>1. UNCHANGED <<kind, backend, numWorkers>>
    BY DEF ColdStore
  <1>2. CASE DirectStore(e)
    BY <1>1, <1>2, DirectStoreStep, Zenon DEF Refused
  <1>3. CASE RingStore(e)
    <2>1. ColdShape' /\ Moves(Append(Buffered, e)) /\ UNCHANGED swallowed /\ swallowed = {}
      BY <1>1, <1>3, RingStoreStep, Zenon
    <2>. QED BY <2>1
  <1>4. CASE ParallelStore(e)
    <2>1. ColdShape' /\ Moves(Append(Buffered, e)) /\ UNCHANGED swallowed /\ swallowed = {}
      BY <1>1, <1>4, ParallelStoreStep, Zenon
    <2>. QED BY <2>1
  <1>. QED BY <1>2, <1>3, <1>4 DEF ColdStore

\* flush() of ParallelCold: what the workers hold, then what is pending.
LEMMA ParallelFlushStep ==
  ASSUME ColdShape, ParallelFlush, UNCHANGED <<kind, backend, numWorkers>>
  PROVE  ColdShape' /\ Deliver(Buffered) /\ Buffered' = <<>> /\ UNCHANGED swallowed
  <1> DEFINE h == SeqOps!FlattenSeq(slot)
             ran == pending # <<>>
             spilt == IF ran /\ backend = "shared" THEN Spilt(pending) ELSE <<>>
             last == SeqOps!FlattenSeq(IF ran THEN Handed(pending) ELSE slot)
  <1>1. PICK n \in Nat \ {0} : n = numWorkers /\ n \in 1 .. MaxWorkers
    BY ColdAssumption DEF ColdShape
  <1>2. /\ kind = "parallel" /\ ring = <<>> /\ swallowed = {} /\ strayed = <<>>
        /\ pending \in Seq(Entries) /\ Len(pending) <= n
        /\ active = Empty
    BY <1>1 DEF ParallelFlush, ColdShape
  <1>3. /\ SeqOps!FlattenSeq(Handed(pending)) = pending
        /\ Spilt(pending) = <<>>
        /\ Collected = [w \in 1 .. n |-> TRUE]
        /\ Left(pending) = [w \in 1 .. n |-> <<>>]
    BY <1>1, <1>2, BatchIs, AllHanded
  <1>4. h \in Seq(Entries) /\ Buffered = h \o pending
    BY <1>2, BufferedIs
  <1>5. Deliver((IF ran THEN h ELSE <<>>) \o spilt \o last)
    BY DEF ParallelFlush
  <1>6. spilt = <<>> /\ last = IF ran THEN pending ELSE h
    BY <1>3
  <1>7. (IF ran THEN h ELSE <<>>) \o spilt \o last = Buffered
    <2> HIDE DEF h, spilt, last
    <2>1. CASE ran
      <3>1. h \o <<>> = h
        BY <1>4, ConcatEmptySeq
      <3>. QED BY <1>4, <1>6, <2>1, <3>1, Zenon
    <2>2. CASE ~ran
      <3>1. <<>> \o <<>> = <<>> /\ <<>> \o h = h /\ h \o <<>> = h
        BY <1>4, ConcatEmptySeq
      <3>. QED BY <1>4, <1>6, <2>2, <3>1, Zenon
    <2>. QED BY <2>1, <2>2
  <1>8. Deliver(Buffered)
    <2> HIDE DEF h, spilt, last
    <2>. QED BY <1>5, <1>7, Zenon
  <1>9. /\ strayed' = <<>> /\ active' = [w \in 1 .. n |-> <<>>]
        /\ slot' = [w \in 1 .. n |-> <<>>]
        /\ published' = [w \in 1 .. n |-> FALSE] /\ spare' = [w \in 1 .. n |-> TRUE]
        /\ pending' = <<>> /\ UNCHANGED <<ring, swallowed>>
    <2>1. <<>> \o <<>> = <<>>
      OBVIOUS
    <2>. QED BY <1>1, <1>2, <1>3, <2>1 DEF ParallelFlush, Empty, Workers
  <1>10. Workers' = 1 .. n /\ Empty' = [w \in 1 .. n |-> <<>>]
    BY <1>1 DEF Workers, Empty
  <1>11. /\ storage' \in [Ids -> Versions \union {0}]
         /\ written' \subseteq {id \in Ids : storage'[id] # 0}
    <2>1. Buffered \in Seq(Entries)
      BY BufferedIs
    <2>. QED BY <1>8, <2>1, DeliverType DEF ColdShape
  <1>12. ColdShape'
    <2>1. /\ kind' = "parallel" /\ backend' \in {"memory", "file", "shared"}
          /\ numWorkers' \in 1 .. MaxWorkers /\ numWorkers' > 0
          /\ ring' = <<>> /\ swallowed' = {}
      BY <1>1, <1>2, <1>9 DEF ColdShape
    <2>2. /\ <<>> \in Seq(Entries) /\ Len(<<>>) = 0 /\ Len(<<>>) <= RingCapacity
      BY ColdAssumption
    <2>3. /\ active' = Empty' /\ slot' \in [Workers' -> Seq(Entries)]
          /\ published' \in [Workers' -> BOOLEAN] /\ spare' \in [Workers' -> BOOLEAN]
          /\ \A w \in Workers' : spare'[w]
      BY <1>9, <1>10, <2>2
    <2>. QED BY <1>9, <1>11, <2>1, <2>2, <2>3 DEF ColdShape
  <1>13. Buffered' = SeqOps!FlattenSeq(slot') \o pending'
    BY <1>12, <1>2, BufferedThen
  <1>14. SeqOps!FlattenSeq([w \in 1 .. n |-> <<>>]) = <<>>
    BY FlattenEmpty
  <1>15. <<>> \o <<>> = <<>>
    OBVIOUS
  <1>16. Buffered' = <<>>
    BY <1>9, <1>13, <1>14, <1>15, Zenon
  <1>. QED BY <1>8, <1>9, <1>12, <1>16

\* flush(): everything that is buffered reaches storage.
LEMMA FlushStep ==
  ASSUME ColdShape, ColdFlush
  PROVE  ColdShape' /\ Deliver(Buffered) /\ Buffered' = <<>> /\ UNCHANGED swallowed
  <1>1. UNCHANGED <<kind, backend, numWorkers>> /\ Workers' = Workers /\ Empty' = Empty
    BY DEF ColdFlush, Workers, Empty
  <1>2. CASE DirectFlush
    <2>1. kind = "direct" /\ UNCHANGED <<storage, written, ring, pending, active, slot,
                                         published, spare, strayed, swallowed>>
      BY <1>2 DEF DirectFlush, buffers
    <2>2. ColdShape'
      BY <1>1, <2>1 DEF ColdShape
    <2>3. Buffered = <<>> /\ Buffered' = <<>>
      BY <1>1, <2>1, <2>2, BufferedIs, BufferedThen
    <2>4. Deliver(<<>>)
      BY <2>1, DeliverNothing DEF ColdShape
    <2>. QED BY <2>1, <2>2, <2>3, <2>4
  <1>3. CASE RingFlush
    <2>1. /\ kind = "ring" /\ Deliver(ring) /\ ring' = <<>>
          /\ UNCHANGED <<pending, active, slot, published, spare, strayed, swallowed>>
      BY <1>3 DEF RingFlush
    <2>2. /\ storage' \in [Ids -> Versions \union {0}]
          /\ written' \subseteq {id \in Ids : storage'[id] # 0}
      BY <2>1, DeliverType DEF ColdShape
    <2>3. <<>> \in Seq(Entries) /\ Len(<<>>) <= RingCapacity
      BY ColdAssumption
    <2>4. ColdShape'
      BY <1>1, <2>1, <2>2, <2>3 DEF ColdShape
    <2>5. Buffered = ring /\ Buffered' = <<>>
      BY <1>1, <2>1, <2>4, BufferedIs, BufferedThen
    <2>. QED BY <2>1, <2>4, <2>5
  <1>4. CASE ParallelFlush
    BY <1>1, <1>4, ParallelFlushStep, Zenon
  <1>. QED BY <1>2, <1>3, <1>4 DEF ColdFlush

\* remove() leaves the buffers alone.
LEMMA RemoveStep ==
  ASSUME ColdShape, NEW S \in SUBSET Ids, ColdRemove(S)
  PROVE  ColdShape' /\ Buffered' = Buffered /\ UNCHANGED swallowed
  <1>1. /\ written' = written \ S
        /\ UNCHANGED <<kind, backend, numWorkers, ring, pending, active, slot,
                       published, spare, strayed, swallowed>>
    BY DEF ColdRemove, buffers
  <1>2. PICK F : storage' = [id \in Ids |-> IF id \in (S \intersect written) \ F THEN 0
                                            ELSE storage[id]]
    BY DEF ColdRemove
  <1>3. Workers' = Workers /\ Empty' = Empty
    BY <1>1 DEF Workers, Empty
  <1>4. /\ storage' \in [Ids -> Versions \union {0}]
        /\ written' \subseteq {id \in Ids : storage'[id] # 0}
    BY <1>1, <1>2 DEF ColdShape
  <1>5. ColdShape'
    BY <1>1, <1>3, <1>4 DEF ColdShape
  <1>6. Buffered' = Buffered
    BY <1>1 DEF Buffered
  <1>. QED BY <1>1, <1>5, <1>6

\* with_dir() finds what it had written.
LEMMA ReopenStep ==
  ASSUME ColdShape, Reopened
  PROVE  ColdShape' /\ Buffered' = Buffered /\ UNCHANGED swallowed
  <1>1. UNCHANGED <<kind, backend, numWorkers, storage, ring, pending, active, slot,
                    published, spare, strayed, swallowed>>
    BY DEF Reopened, buffers
  <1>2. Workers' = Workers /\ Empty' = Empty
    BY <1>1 DEF Workers, Empty
  <1>3. /\ storage' \in [Ids -> Versions \union {0}]
        /\ written' \subseteq {id \in Ids : storage'[id] # 0}
    BY <1>1 DEF ColdShape, Reopened
  <1>4. ColdShape'
    BY <1>1, <1>2, <1>3 DEF ColdShape
  <1>5. Buffered' = Buffered
    BY <1>1 DEF Buffered
  <1>. QED BY <1>1, <1>4, <1>5

\* Memory is gone, or the first of the buffered entries have been written.
Gone == storage' = [id \in Ids |-> 0] /\ written' = {}
Stops ==
  \/ Gone
  \/ \E a, b \in Seq(Entries) : Buffered = a \o b /\ Deliver(a)

\* A tier that stops leaves its buffers empty, and in their shape.
LEMMA EmptiedStep ==
  ASSUME ColdShape, Stops, EmptyBuffers,
         UNCHANGED <<kind, backend, numWorkers, strayed, swallowed>>
  PROVE  ColdShape' /\ Buffered' = <<>>
  <1>1. Workers' = Workers /\ Empty' = Empty
    BY DEF Workers, Empty
  <1>2. /\ storage' \in [Ids -> Versions \union {0}]
        /\ written' \subseteq {id \in Ids : storage'[id] # 0}
    <2>1. CASE Gone
      BY <2>1 DEF Gone
    <2>2. CASE \E a, b \in Seq(Entries) : Buffered = a \o b /\ Deliver(a)
      BY <2>2, DeliverType DEF ColdShape
    <2>. QED BY <2>1, <2>2 DEF Stops
  <1>3. <<>> \in Seq(Entries) /\ Len(<<>>) = 0 /\ Len(<<>>) <= RingCapacity
    BY ColdAssumption
  <1>4. /\ ring' = <<>> /\ pending' = <<>> /\ active' = Empty /\ slot' = Empty
        /\ published' = [w \in Workers |-> FALSE] /\ spare' = [w \in Workers |-> TRUE]
    BY DEF EmptyBuffers
  <1>5. /\ slot' \in [Workers -> Seq(Entries)]
        /\ published' \in [Workers -> BOOLEAN] /\ spare' \in [Workers -> BOOLEAN]
        /\ \A w \in Workers : spare'[w]
    BY <1>3, <1>4 DEF Empty
  <1>6. numWorkers > 0
    BY DEF ColdShape
  <1>7. ColdShape'
    BY <1>1, <1>2, <1>3, <1>4, <1>5, <1>6 DEF ColdShape
  <1>8. PICK n \in Nat \ {0} : n = numWorkers
    BY ColdAssumption DEF ColdShape
  <1>9. SeqOps!FlattenSeq(slot') = <<>>
    <2>1. slot' = [w \in 1 .. n |-> <<>>]
      BY <1>4, <1>8 DEF Empty, Workers
    <2>. QED BY <2>1, FlattenEmpty, Zenon
  <1>10. Buffered' = <<>>
    <2>1. kind' = "parallel" => Buffered' = <<>> \o <<>>
      BY <1>4, <1>7, <1>9, BufferedThen, Zenon
    <2>2. <<>> \o <<>> = <<>>
      OBVIOUS
    <2>3. kind' = "direct" \/ kind' = "ring" => Buffered' = <<>>
      BY <1>4, <1>7, BufferedThen, Zenon
    <2>4. kind' \in {"direct", "ring", "parallel"}
      BY <1>7 DEF ColdShape
    <2>. QED BY <2>1, <2>2, <2>3, <2>4
  <1>. QED BY <1>7, <1>10

\* A crash after some of the buffered entries have been written.
LEMMA CutStep ==
  ASSUME ColdShape, NEW n, Cut(n)
  PROVE  ColdShape' /\ Buffered' = <<>> /\ Stops /\ UNCHANGED swallowed
  <1>1. /\ n \in 0 .. Len(Buffered) /\ EmptyBuffers
        /\ UNCHANGED <<kind, backend, numWorkers, strayed, swallowed>>
    BY DEF Cut
  <1>2. Stops
    <2>1. CASE Gone
      BY <2>1 DEF Stops
    <2>2. CASE Deliver(SubSeq(Buffered, 1, n))
      <3> DEFINE a == SubSeq(Buffered, 1, n)
                 b == SubSeq(Buffered, n + 1, Len(Buffered))
      <3>1. Buffered \in Seq(Entries)
        BY BufferedIs
      <3>2. a \in Seq(Entries) /\ b \in Seq(Entries) /\ Buffered = a \o b
        BY <1>1, <3>1, CutAt, Zenon DEF CutInto
      <3> HIDE DEF a, b
      <3>3. Deliver(a)
        BY <2>2 DEF a
      <3>. QED BY <3>2, <3>3, Zenon DEF Stops
    <2>. QED BY <2>1, <2>2 DEF Cut, Gone, Prefix
  <1>. QED BY <1>1, <1>2, EmptiedStep

\* The tier is dropped: the rings are written out, the pending batch is lost.
LEMMA DropStep ==
  ASSUME ColdShape, ColdDrop
  PROVE  ColdShape' /\ Buffered' = <<>> /\ Stops /\ UNCHANGED swallowed
  <1> DEFINE h == SeqOps!FlattenSeq(slot)
  <1>1. EmptyBuffers /\ UNCHANGED <<kind, backend, numWorkers, strayed, swallowed>>
    BY DEF ColdDrop
  <1>2. PICK n \in Nat \ {0} : n = numWorkers
    BY ColdAssumption DEF ColdShape
  <1>3. SeqOps!FlattenSeq(active) = <<>>
    <2>1. active = [w \in 1 .. n |-> <<>>]
      BY <1>2 DEF ColdShape, Empty, Workers
    <2>. QED BY <2>1, FlattenEmpty, Zenon
  <1>4. /\ ring \in Seq(Entries) /\ pending \in Seq(Entries) /\ h \in Seq(Entries)
        /\ Buffered = ring \o h \o pending
    BY BufferedIs DEF ColdShape
  <1>5. CASE Deliver(ring \o h \o SeqOps!FlattenSeq(active))
    <2> DEFINE a == ring \o h
    <2>1. a \in Seq(Entries) /\ Buffered = a \o pending
      <3> HIDE DEF h
      <3>1. a \in Seq(Entries)
        BY <1>4
      <3>. QED BY <1>4, <3>1, Zenon
    <2>2. Deliver(a \o <<>>)
      BY <1>3, <1>5, Zenon
    <2> HIDE DEF a
    <2>3. a \o <<>> = a
      BY <2>1, ConcatEmptySeq
    <2>4. Deliver(a)
      BY <2>2, <2>3, Zenon
    <2>. QED BY <1>1, <1>4, <2>1, <2>4, EmptiedStep, Zenon DEF Stops
  <1>6. CASE Gone
    BY <1>1, <1>6, EmptiedStep DEF Stops
  <1>. QED BY <1>5, <1>6 DEF ColdDrop, Gone

-------------------------------------------------------------------------------
(* What is on its way to storage *)

\* The versions of x in storage st or among the entries es.
CopiesIn(st, es, x) ==
  {v \in Versions : v = st[x] \/ \E i \in 1 .. Len(es) : es[i] = [id |-> x, ver |-> v]}

Coming  == Applied(storage, Buffered)
HasAll  == written \union IdsOf(Buffered)
Copy(x) == CopiesIn(storage, Buffered, x)

\* a \o b is of the ids that a and b are of.
IdsUnite(a, b) == IdsOf(a \o b) = IdsOf(a) \union IdsOf(b)

\* The ids of two runs of entries are those of the one and those of the other.
LEMMA IdsOfConcat ==
  ASSUME NEW T, NEW a \in Seq(T), NEW b \in Seq(T)
  PROVE  IdsUnite(a, b)
  <1> DEFINE c == a \o b
  <1>1. /\ DOMAIN c = 1 .. Len(a) + Len(b)
        /\ Len(a) \in Nat /\ Len(b) \in Nat
        /\ \A i \in 1 .. Len(a) : c[i] = a[i]
        /\ \A i \in 1 .. Len(b) : c[Len(a) + i] = b[i]
        /\ \A i \in 1 .. Len(a) + Len(b) : i > Len(a) =>
             i - Len(a) \in 1 .. Len(b) /\ c[i] = b[i - Len(a)]
    BY Concat
  <1>2. DOMAIN a = 1 .. Len(a) /\ DOMAIN b = 1 .. Len(b)
    OBVIOUS
  <1> HIDE DEF c
  <1>3. IdsOf(c) \subseteq IdsOf(a) \union IdsOf(b)
    <2>1. ASSUME NEW i \in DOMAIN c
          PROVE  c[i].id \in IdsOf(a) \union IdsOf(b)
      <3>1. CASE i <= Len(a)
        <4>1. i \in DOMAIN a /\ c[i] = a[i]
          BY <1>1, <1>2, <3>1
        <4>. QED BY <4>1 DEF IdsOf
      <3>2. CASE i > Len(a)
        <4>1. i - Len(a) \in DOMAIN b /\ c[i] = b[i - Len(a)]
          BY <1>1, <1>2, <3>2
        <4>. QED BY <4>1 DEF IdsOf
      <3>. QED BY <1>1, <3>1, <3>2
    <2>. QED BY <2>1 DEF IdsOf
  <1>4. ASSUME NEW i \in DOMAIN a
        PROVE  a[i].id \in IdsOf(c)
    <2>1. i \in DOMAIN c /\ c[i] = a[i]
      BY <1>1, <1>2
    <2>. QED BY <2>1 DEF IdsOf
  <1>5. ASSUME NEW i \in DOMAIN b
        PROVE  b[i].id \in IdsOf(c)
    <2>1. Len(a) + i \in DOMAIN c /\ c[Len(a) + i] = b[i]
      BY <1>1, <1>2
    <2>. QED BY <2>1 DEF IdsOf
  <1>6. IdsOf(a) \subseteq IdsOf(c) /\ IdsOf(b) \subseteq IdsOf(c)
    BY <1>4, <1>5 DEF IdsOf
  <1>7. IdsOf(c) = IdsOf(a) \union IdsOf(b)
    BY <1>3, <1>6
  <1>. QED BY <1>7 DEF c, IdsUnite

\* The ids of one entry, or of none.
LEMMA IdsOfOne ==
  ASSUME NEW e
  PROVE  IdsOf(<<e>>) = {e.id} /\ IdsOf(<<>>) = {}
  BY DEF IdsOf

\* Writing the first of the entries makes no copy that there was not.
LEMMA CopiesWritten ==
  ASSUME NEW st, NEW a \in Seq(Entries), NEW b \in Seq(Entries), NEW x \in Ids
  PROVE  /\ CopiesIn(Applied(st, a), b, x) \subseteq CopiesIn(st, a \o b, x)
         /\ CopiesIn(Applied(st, a), <<>>, x) \subseteq CopiesIn(st, a \o b, x)
  <1> DEFINE c == a \o b
  <1>1. /\ Len(c) = Len(a) + Len(b)
        /\ Len(a) \in Nat /\ Len(b) \in Nat
        /\ \A i \in 1 .. Len(a) : c[i] = a[i]
        /\ \A i \in 1 .. Len(b) : c[Len(a) + i] = b[i]
    BY Concat
  <1> HIDE DEF c
  <1>2. ASSUME NEW v \in Versions, v = Applied(st, a)[x]
        PROVE  v \in CopiesIn(st, c, x)
    <2>1. CASE NoneOf(a, x)
      BY <1>2, <2>1, AppliedIs DEF CopiesIn
    <2>2. ASSUME NEW i \in 1 .. Len(a), LastOf(a, x, i)
          PROVE  v \in CopiesIn(st, c, x)
      <3>1. Applied(st, a)[x] = a[i].ver
        BY <2>2, AppliedLast
      <3>2. a[i] \in Entries /\ a[i].id = x
        BY <2>2 DEF LastOf
      <3>3. a[i] = [id |-> x, ver |-> v]
        BY <1>2, <3>1, <3>2 DEF Entries
      <3>4. i \in 1 .. Len(c) /\ c[i] = a[i]
        BY <1>1
      <3>. QED BY <3>3, <3>4 DEF CopiesIn
    <2>. QED BY <2>1, <2>2, LastOrNone
  <1>3. ASSUME NEW v \in Versions, NEW i \in 1 .. Len(b), b[i] = [id |-> x, ver |-> v]
        PROVE  v \in CopiesIn(st, c, x)
    <2>1. Len(a) + i \in 1 .. Len(c) /\ c[Len(a) + i] = b[i]
      BY <1>1
    <2>. QED BY <1>3, <2>1 DEF CopiesIn
  <1>4. CopiesIn(Applied(st, a), b, x) \subseteq CopiesIn(st, c, x)
    BY <1>2, <1>3 DEF CopiesIn
  <1>5. CopiesIn(Applied(st, a), <<>>, x) \subseteq CopiesIn(st, c, x)
    <2>1. \A i \in 1 .. Len(<<>>) : FALSE
      OBVIOUS
    <2>. QED BY <1>2, <2>1 DEF CopiesIn
  <1>. QED BY <1>4, <1>5 DEF c

\* One more entry.
LEMMA OneMore ==
  ASSUME NEW st, NEW es \in Seq(Entries), NEW e \in Entries
  PROVE  /\ Append(es, e) \in Seq(Entries)
         /\ IdsOf(Append(es, e)) = IdsOf(es) \union {e.id}
         /\ Applied(st, Append(es, e)) = [Applied(st, es) EXCEPT ![e.id] = e.ver]
         /\ \A x \in Ids : CopiesIn(st, Append(es, e), x)
                             \subseteq CopiesIn(st, es, x) \union IF x = e.id THEN {e.ver} ELSE {}
  <1> DEFINE f == Append(es, e)
  <1>1. /\ f \in Seq(Entries) /\ Len(f) = Len(es) + 1 /\ Len(es) \in Nat
        /\ \A i \in 1 .. Len(es) : f[i] = es[i]
        /\ f[Len(f)] = e
    OBVIOUS
  <1>2. f = es \o <<e>>
    OBVIOUS
  <1>3. IdsOf(f) = IdsOf(es) \union {e.id}
    <2>1. <<e>> \in Seq(Entries)
      OBVIOUS
    <2> HIDE DEF f
    <2>2. IdsUnite(es, <<e>>)
      BY <2>1, IdsOfConcat, Zenon
    <2>3. IdsOf(es \o <<e>>) = IdsOf(es) \union IdsOf(<<e>>)
      BY <2>2 DEF IdsUnite
    <2>. QED BY <1>2, <2>3, IdsOfOne, Zenon
  <1> HIDE DEF f
  <1>4. LastOf(f, e.id, Len(f))
    BY <1>1 DEF LastOf
  <1>5. ASSUME NEW x \in Ids, x # e.id
        PROVE  Applied(st, f)[x] = Applied(st, es)[x]
    <2>1. CASE NoneOf(es, x)
      <3>1. NoneOf(f, x)
        BY <1>1, <1>5, <2>1 DEF NoneOf
      <3>2. Applied(st, f)[x] = st[x]
        BY <1>1, <3>1, AppliedIs
      <3>. QED BY <2>1, <3>2, AppliedIs
    <2>2. ASSUME NEW i \in 1 .. Len(es), LastOf(es, x, i)
          PROVE  Applied(st, f)[x] = Applied(st, es)[x]
      <3>1. LastOf(f, x, i) /\ f[i] = es[i]
        <4>1. \A j \in 1 .. Len(f) : j = Len(f) \/ j \in 1 .. Len(es)
          BY <1>1
        <4>2. i \in 1 .. Len(f)
          BY <1>1
        <4>. QED BY <1>1, <1>5, <2>2, <4>1, <4>2 DEF LastOf
      <3>2. Applied(st, f)[x] = f[i].ver
        BY <1>1, <3>1, AppliedLast
      <3>3. Applied(st, es)[x] = es[i].ver
        BY <2>2, AppliedLast
      <3>. QED BY <3>1, <3>2, <3>3, Zenon
    <2>. QED BY <2>1, <2>2, LastOrNone
  <1>6. e.id \in Ids /\ Applied(st, f)[e.id] = e.ver
    <2>1. e.id \in Ids
      BY DEF Entries
    <2>2. Applied(st, f)[e.id] = f[Len(f)].ver
      BY <1>1, <1>4, <2>1, AppliedLast
    <2>. QED BY <1>1, <2>1, <2>2
  <1>7. Applied(st, f) = [Applied(st, es) EXCEPT ![e.id] = e.ver]
    <2>1. \A x \in Ids : Applied(st, f)[x] = IF x = e.id THEN e.ver ELSE Applied(st, es)[x]
      BY <1>5, <1>6
    <2>2. Applied(st, f) = [x \in Ids |-> Applied(st, f)[x]]
          /\ Applied(st, es) = [x \in Ids |-> Applied(st, es)[x]]
      BY DEF Applied
    <2> DEFINE g == Applied(st, f)
               h == Applied(st, es)
    <2> HIDE DEF g, h
    <2>3. g = [h EXCEPT ![e.id] = e.ver]
      BY <1>6, <2>1, <2>2 DEF g, h
    <2>. QED BY <2>3 DEF g, h
  <1>8. ASSUME NEW x \in Ids, NEW v \in CopiesIn(st, f, x)
        PROVE  v \in CopiesIn(st, es, x) \union IF x = e.id THEN {e.ver} ELSE {}
    <2>1. CASE v = st[x]
      BY <2>1 DEF CopiesIn
    <2>2. ASSUME NEW i \in 1 .. Len(f), f[i] = [id |-> x, ver |-> v]
          PROVE  v \in CopiesIn(st, es, x) \union IF x = e.id THEN {e.ver} ELSE {}
      <3>1. CASE i = Len(f)
        BY <1>1, <2>2, <3>1
      <3>2. CASE i # Len(f)
        <4>1. i \in 1 .. Len(es) /\ f[i] = es[i]
          BY <1>1, <3>2
        <4>. QED BY <2>2, <4>1 DEF CopiesIn
      <3>. QED BY <3>1, <3>2
    <2>. QED BY <2>1, <2>2 DEF CopiesIn
  <1>. QED BY <1>1, <1>3, <1>7, <1>8 DEF f

\* Entries that move on to storage change neither what will be there in the end,
\* nor of which ids, and make no copy.
LEMMA MovesKeep ==
  ASSUME NEW es \in Seq(Entries), Moves(es), Buffered' \in Seq(Entries)
  PROVE  /\ Coming' = Applied(storage, es)
         /\ HasAll' = written \union IdsOf(es)
         /\ \A x \in Ids : Copy(x)' \subseteq CopiesIn(storage, es, x)
  <1>1. PICK out \in Seq(Entries) : es = out \o Buffered' /\ Deliver(out)
    BY DEF Moves
  <1>2. storage' = Applied(storage, out) /\ written' = written \union IdsOf(out)
    BY <1>1 DEF Deliver, IdsOf
  <1>3. Applied(Applied(storage, out), Buffered') = Applied(storage, es)
    <2>1. Applied(Applied(storage, out), Buffered') = Applied(storage, out \o Buffered')
      <3>1. InTurn(storage, out, Buffered')
        BY <1>1, AppliedConcat, Zenon
      <3>. QED BY <3>1 DEF InTurn
    <2>. QED BY <1>1, <2>1, Zenon
  <1>4. IdsOf(es) = IdsOf(out) \union IdsOf(Buffered')
    <2>1. IdsOf(out \o Buffered') = IdsOf(out) \union IdsOf(Buffered')
      <3>1. IdsUnite(out, Buffered')
        BY <1>1, IdsOfConcat, Zenon
      <3>. QED BY <3>1 DEF IdsUnite
    <2>. QED BY <1>1, <2>1, Zenon
  <1>5. HasAll' = written' \union IdsOf(Buffered')
    BY DEF HasAll, IdsOf
  <1>6. \A x \in Ids : CopiesIn(Applied(storage, out), Buffered', x) \subseteq CopiesIn(storage, es, x)
    BY <1>1, CopiesWritten, Zenon
  <1>7. \A x \in Ids : Copy(x)' = CopiesIn(Applied(storage, out), Buffered', x)
    BY <1>2 DEF Copy, CopiesIn
  <1>8. Coming' = Applied(storage', Buffered')
    BY DEF Coming, Applied
  <1>. QED BY <1>2, <1>3, <1>4, <1>5, <1>6, <1>7, <1>8

\* The effects of the operations on what is on its way.
LEMMA StoreEffect ==
  ASSUME ColdShape, NEW id \in Ids, NEW v \in Versions,
         ColdStore([id |-> id, ver |-> v])
  PROVE  /\ ColdShape'
         /\ \A x \in Ids : Copy(x)' \subseteq Copy(x) \union IF x = id THEN {v} ELSE {}
         /\ \/ /\ Coming' = [Coming EXCEPT ![id] = v] /\ HasAll' = HasAll \union {id}
               /\ swallowed' = swallowed \ {v}
            \/ /\ Coming' = Coming /\ HasAll' = HasAll
               /\ swallowed' = swallowed \union {v}
  <1> DEFINE e == [id |-> id, ver |-> v]
             full == Append(Buffered, e)
  <1>1. e \in Entries /\ e.id = id /\ e.ver = v
    BY DEF Entries
  <1> HIDE DEF e
  <1>2. /\ ColdShape'
        /\ \/ Moves(full) /\ swallowed' = swallowed \ {v}
           \/ Refused(e)
    <2>1. ColdStore(e)
      BY DEF e
    <2>. QED BY <1>1, <2>1, StoreStep
  <1>3. Buffered \in Seq(Entries) /\ Buffered' \in Seq(Entries)
    BY <1>2, BufferedIs, BufferedThen
  <1>4. /\ full \in Seq(Entries)
        /\ IdsOf(full) = IdsOf(Buffered) \union {id}
        /\ Applied(storage, full) = [Coming EXCEPT ![id] = v]
        /\ \A x \in Ids : CopiesIn(storage, full, x)
                            \subseteq Copy(x) \union IF x = id THEN {v} ELSE {}
    BY <1>1, <1>3, OneMore DEF Coming, Copy
  <1> HIDE DEF full
  <1>5. CASE Moves(full) /\ swallowed' = swallowed \ {v}
    <2>1. /\ Coming' = Applied(storage, full)
          /\ HasAll' = written \union IdsOf(full)
          /\ \A x \in Ids : Copy(x)' \subseteq CopiesIn(storage, full, x)
      BY <1>3, <1>4, <1>5, MovesKeep
    <2>2. HasAll' = HasAll \union {id}
      BY <1>4, <2>1 DEF HasAll
    <2>. QED BY <1>2, <1>4, <1>5, <2>1, <2>2
  <1>6. CASE Refused(e)
    <2>1. UNCHANGED <<storage, written>> /\ Buffered' = Buffered /\ swallowed' = swallowed \union {v}
      BY <1>1, <1>6 DEF Refused
    <2>2. Coming' = Coming /\ HasAll' = HasAll
      BY <2>1 DEF Coming, HasAll, Applied, IdsOf
    <2>3. \A x \in Ids : Copy(x)' = Copy(x)
      BY <2>1 DEF Copy, CopiesIn
    <2>. QED BY <1>2, <2>1, <2>2, <2>3
  <1>. QED BY <1>2, <1>5, <1>6

\* flush() leaves nothing buffered, and storage with what was on its way.
LEMMA FlushEffect ==
  ASSUME ColdShape, ColdFlush
  PROVE  /\ ColdShape' /\ Buffered' = <<>> /\ UNCHANGED swallowed
         /\ \A x \in Ids : Copy(x)' \subseteq Copy(x)
         /\ Coming' = Coming /\ HasAll' = HasAll
         /\ storage' = Coming
  <1>1. ColdShape' /\ Deliver(Buffered) /\ Buffered' = <<>> /\ UNCHANGED swallowed
    BY FlushStep
  <1>2. Buffered \in Seq(Entries) /\ Buffered' \in Seq(Entries)
    BY <1>1, BufferedIs, BufferedThen
  <1>3. Moves(Buffered)
    <2>1. Buffered = Buffered \o <<>>
      BY <1>2, ConcatEmptySeq, Zenon
    <2>2. Buffered = Buffered \o Buffered'
      BY <1>1, <2>1, Zenon
    <2>. QED BY <1>1, <1>2, <2>2, Zenon DEF Moves
  <1>4. /\ Coming' = Applied(storage, Buffered)
        /\ HasAll' = written \union IdsOf(Buffered)
        /\ \A x \in Ids : Copy(x)' \subseteq CopiesIn(storage, Buffered, x)
    BY <1>2, <1>3, MovesKeep
  <1>5. storage' = Coming
    BY <1>1 DEF Deliver, Coming
  <1>. QED BY <1>1, <1>4, <1>5 DEF Coming, HasAll, Copy

\* remove() takes ids out of storage and leaves what is buffered on its way.
LEMMA RemoveEffect ==
  ASSUME ColdShape, NEW S \in SUBSET Ids, ColdRemove(S)
  PROVE  /\ ColdShape' /\ Buffered' = Buffered /\ UNCHANGED swallowed
         /\ \A x \in Ids : Copy(x)' \subseteq Copy(x)
         /\ HasAll' = (written \ S) \union IdsOf(Buffered)
         /\ \A x \in Ids : x \notin S \/ x \in IdsOf(Buffered) => Coming'[x] = Coming[x]
  <1>1. ColdShape' /\ Buffered' = Buffered /\ UNCHANGED swallowed
    BY RemoveStep
  <1>2. Buffered \in Seq(Entries)
    BY BufferedIs
  <1>3. PICK F : storage' = [id \in Ids |-> IF id \in (S \intersect written) \ F THEN 0
                                            ELSE storage[id]]
    BY DEF ColdRemove
  <1>4. \A x \in Ids : /\ storage'[x] \in {0, storage[x]}
                       /\ x \notin S => storage'[x] = storage[x]
    BY <1>3
  <1>5. 0 \notin Versions
    BY ColdAssumption
  <1>6. \A x \in Ids : Copy(x)' \subseteq Copy(x)
    BY <1>1, <1>4, <1>5 DEF Copy, CopiesIn
  <1>7. HasAll' = (written \ S) \union IdsOf(Buffered)
    BY <1>1 DEF HasAll, IdsOf, ColdRemove
  <1>8. Coming' = Applied(storage', Buffered)
    BY <1>1 DEF Coming, Applied
  <1>9. ASSUME NEW x \in Ids, x \notin S \/ x \in IdsOf(Buffered)
        PROVE  Coming'[x] = Coming[x]
    <2>1. ASSUME NEW i \in 1 .. Len(Buffered), LastOf(Buffered, x, i)
          PROVE  Coming'[x] = Coming[x]
      <3>1. Applied(storage', Buffered)[x] = Buffered[i].ver
        BY <1>2, <2>1, AppliedLast
      <3>2. Applied(storage, Buffered)[x] = Buffered[i].ver
        BY <1>2, <2>1, AppliedLast
      <3>. QED BY <1>8, <3>1, <3>2, Zenon DEF Coming
    <2>2. CASE NoneOf(Buffered, x)
      <3>1. x \notin IdsOf(Buffered)
        BY <1>2, <2>2 DEF NoneOf, IdsOf
      <3>2. storage'[x] = storage[x]
        BY <1>4, <1>9, <3>1
      <3>3. Applied(storage', Buffered)[x] = storage'[x]
        BY <1>2, <2>2, AppliedIs
      <3>4. Applied(storage, Buffered)[x] = storage[x]
        BY <1>2, <2>2, AppliedIs
      <3>. QED BY <1>8, <3>2, <3>3, <3>4, Zenon DEF Coming
    <2>. QED BY <1>2, <2>1, <2>2, LastOrNone, Zenon
  <1>. QED BY <1>1, <1>6, <1>7, <1>9

\* With nothing buffered, what is on its way is there.
LEMMA NothingComing ==
  ASSUME ColdShape', Buffered' = <<>>
  PROVE  Coming' = storage' /\ HasAll' = written'
  <1>1. Coming' = Applied(storage', <<>>)
    BY DEF Coming, Applied
  <1>2. \A x \in Ids : Applied(storage', <<>>)[x] = storage'[x]
    BY AppliedNone
  <1>3. storage' = [x \in Ids |-> storage'[x]]
    BY DEF ColdShape
  <1>4. Applied(storage', <<>>) = [x \in Ids |-> Applied(storage', <<>>)[x]]
    BY DEF Applied
  <1>5. IdsOf(Buffered') = {}
    BY IdsOfOne
  <1>. QED BY <1>1, <1>2, <1>3, <1>4, <1>5 DEF HasAll, IdsOf

\* A stop makes no copy, and after it storage is all there is.
LEMMA StopEffect ==
  ASSUME ColdShape, Stops, ColdShape', Buffered' = <<>>
  PROVE  /\ \A x \in Ids : Copy(x)' \subseteq Copy(x)
         /\ Coming' = storage' /\ HasAll' = written'
  <1>1. Coming' = storage' /\ HasAll' = written'
    BY NothingComing
  <1>2. CASE Gone
    <2>1. \A i \in 1 .. Len(<<>>) : FALSE
      OBVIOUS
    <2>2. 0 \notin Versions
      BY ColdAssumption
    <2>3. \A x \in Ids : storage'[x] = 0
      BY <1>2 DEF Gone
    <2>4. \A x \in Ids : Copy(x)' = {}
      BY <2>1, <2>2, <2>3 DEF Copy, CopiesIn
    <2>. QED BY <1>1, <2>4
  <1>3. CASE \E a, b \in Seq(Entries) : Buffered = a \o b /\ Deliver(a)
    <2>1. PICK a \in Seq(Entries), b \in Seq(Entries) : Buffered = a \o b /\ Deliver(a)
      BY <1>3
    <2>2. storage' = Applied(storage, a)
      BY <2>1 DEF Deliver
    <2>3. \A x \in Ids : CopiesIn(Applied(storage, a), <<>>, x) \subseteq CopiesIn(storage, Buffered, x)
      BY <2>1, CopiesWritten, Zenon
    <2>4. \A x \in Ids : Copy(x)' = CopiesIn(Applied(storage, a), <<>>, x)
      BY <2>2 DEF Copy, CopiesIn
    <2>. QED BY <1>1, <2>3, <2>4 DEF Copy
  <1>. QED BY <1>2, <1>3 DEF Stops

\* with_dir() changes nothing but the index of what is written.
LEMMA ReopenEffect ==
  ASSUME ColdShape, Reopened
  PROVE  /\ ColdShape' /\ Buffered' = Buffered /\ UNCHANGED <<storage, swallowed>>
         /\ written' = {id \in Ids : storage[id] # 0}
         /\ \A x \in Ids : Copy(x)' = Copy(x)
  <1>1. ColdShape' /\ Buffered' = Buffered /\ UNCHANGED swallowed
    BY ReopenStep
  <1>2. UNCHANGED storage /\ written' = {id \in Ids : storage[id] # 0}
    BY DEF Reopened
  <1>. QED BY <1>1, <1>2 DEF Copy, CopiesIn

\* An operation that does not touch the cold tier.
LEMMA ColdUnchanged ==
  ASSUME ColdShape, UNCHANGED coldVars
  PROVE  /\ ColdShape' /\ Buffered' = Buffered /\ UNCHANGED <<storage, written, swallowed>>
         /\ \A x \in Ids : Copy(x)' = Copy(x)
         /\ Coming' = Coming /\ HasAll' = HasAll
  <1>1. UNCHANGED <<kind, backend, numWorkers, storage, written, ring, pending,
                    active, slot, published, spare, strayed, swallowed>>
    BY DEF coldVars
  <1>2. Workers' = Workers /\ Empty' = Empty
    BY <1>1 DEF Workers, Empty
  <1>3. ColdShape'
    BY <1>1, <1>2 DEF ColdShape
  <1>4. Buffered' = Buffered
    BY <1>1 DEF Buffered
  <1>. QED BY <1>1, <1>3, <1>4 DEF Copy, CopiesIn, Coming, HasAll, Applied, IdsOf

-------------------------------------------------------------------------------
(* The inductive invariant of the manager and its cold tier *)

ManagerShape ==
  /\ state \in {"open", "flushing", "down"}
  /\ hot \subseteq Ids /\ blue \subseteq Ids
  /\ hot \intersect blue = {}
  /\ dirty \subseteq hot
  /\ tombstoned \subseteq Ids \ Nodes
  /\ content \in [Ids -> Versions \union {0}]
  /\ latest \in [Ids -> Versions \union {0}]
  /\ \A id \in Nodes : content[id] # 0
  /\ adds \in 0 .. MaxAdds
  /\ state = "down" => Nodes = {} /\ tombstoned = {} /\ Buffered = <<>>
  /\ flushed => Buffered = <<>>

\* No two checkpoints have the same version: a version that a storage has swallowed
\* is not one that another checkpoint is now stored as.
AllCopies(x) == Copy(x) \union ({content[x]} \ {0})
CopiesApart ==
  /\ \A x \in Ids : AllCopies(x) \subseteq 1 .. adds
  /\ \A x, y \in Ids : x # y => AllCopies(x) \intersect AllCopies(y) = {}

\* What storage is to have after a flush is what is on its way.
WillBeLatest == \A id \in Ids : latest[id] = IF id \in HasAll THEN Coming[id] ELSE 0

StoreInv ==
  ColdShape /\ ManagerShape /\ CopiesApart /\ WillBeLatest /\ BlueComesBack

\* A step that adds no version and makes no copy keeps the copies apart.
LEMMA CopiesKept ==
  ASSUME CopiesApart, UNCHANGED adds, \A x \in Ids : AllCopies(x)' \subseteq AllCopies(x)
  PROVE  CopiesApart'
  <1>1. ASSUME NEW x \in Ids
        PROVE  AllCopies(x)' \subseteq 1 .. adds'
    BY DEF CopiesApart
  <1>2. ASSUME NEW x \in Ids, NEW y \in Ids, x # y
        PROVE  AllCopies(x)' \intersect AllCopies(y)' = {}
    <2>1. AllCopies(x) \intersect AllCopies(y) = {}
      BY <1>2 DEF CopiesApart
    <2>. QED BY <2>1
  <1>. QED BY <1>1, <1>2 DEF CopiesApart

\* Every version there is has been added.
LEMMA VersionsBound ==
  ASSUME StoreInv
  PROVE  /\ 0 \notin Versions /\ 1 .. MaxAdds \subseteq Versions
         /\ MaxAdds \in Nat
  BY ColdAssumption, StoreAssumption

\* add() preserves the invariant: the version it hands out is new.
LEMMA AddKeeps ==
  ASSUME StoreInv, NEW id \in Ids, Add(id)
  PROVE  StoreInv'
  <1>1. /\ ColdShape' /\ Buffered' = Buffered /\ UNCHANGED <<storage, written, swallowed>>
        /\ \A x \in Ids : Copy(x)' = Copy(x)
        /\ Coming' = Coming /\ HasAll' = HasAll
    BY ColdUnchanged DEF StoreInv, Add
  <1>2. /\ state = "open" /\ id \notin Nodes \union tombstoned
        /\ adds < MaxAdds /\ adds' = adds + 1
        /\ content' = [content EXCEPT ![id] = adds + 1]
        /\ hot' = hot \union {id} /\ dirty' = dirty \union {id}
        /\ UNCHANGED <<state, blue, tombstoned, latest, flushed>>
    BY DEF Add
  <1>3. /\ 0 \notin Versions /\ 1 .. MaxAdds \subseteq Versions /\ MaxAdds \in Nat
    BY VersionsBound
  <1>4. /\ adds \in 0 .. MaxAdds /\ content \in [Ids -> Versions \union {0}]
    BY DEF StoreInv, ManagerShape
  <1>5. adds + 1 \in Versions /\ adds' \in 1 .. MaxAdds /\ adds + 1 # 0
    BY <1>2, <1>3, <1>4
  <1>6. /\ content' \in [Ids -> Versions \union {0}]
        /\ content'[id] = adds + 1
        /\ \A x \in Ids : x # id => content'[x] = content[x]
    BY <1>2, <1>4, <1>5
  <1>7. ManagerShape'
    BY <1>1, <1>2, <1>5, <1>6 DEF StoreInv, ManagerShape, Nodes
  <1>8. CopiesApart'
    <2>1. \A x \in Ids : AllCopies(x) \subseteq 1 .. adds
      BY DEF StoreInv, CopiesApart
    <2>2. \A x \in Ids : AllCopies(x)' \subseteq AllCopies(x) \union IF x = id THEN {adds + 1} ELSE {}
      BY <1>1, <1>6 DEF AllCopies
    <2>3. ASSUME NEW x \in Ids
          PROVE  AllCopies(x)' \subseteq 1 .. adds'
      BY <1>2, <1>4, <2>1, <2>2
    <2>4. ASSUME NEW x \in Ids, NEW y \in Ids, x # y
          PROVE  AllCopies(x)' \intersect AllCopies(y)' = {}
      <3>1. AllCopies(x) \intersect AllCopies(y) = {}
        BY <2>4 DEF StoreInv, CopiesApart
      <3>2. adds + 1 \notin AllCopies(x) /\ adds + 1 \notin AllCopies(y)
        BY <1>4, <2>1
      <3>. QED BY <2>2, <2>4, <3>1, <3>2
    <2>. QED BY <2>3, <2>4 DEF CopiesApart
  <1>9. WillBeLatest'
    BY <1>1, <1>2 DEF StoreInv, WillBeLatest
  <1>10. BlueComesBack'
    <2>1. \A x \in blue : x \in Ids /\ x # id
      BY <1>2 DEF StoreInv, ManagerShape, Nodes
    <2>2. \A x \in blue : Coming[x] = content[x] \/ content[x] \in swallowed
      BY DEF StoreInv, BlueComesBack, Coming
    <2>3. \A x \in blue' : Coming'[x] = content'[x] \/ content'[x] \in swallowed'
      BY <1>1, <1>2, <1>6, <2>1, <2>2
    <2>. QED BY <2>3 DEF BlueComesBack, Coming, Applied
  <1>. QED BY <1>1, <1>7, <1>8, <1>9, <1>10 DEF StoreInv

\* Every copy written is one of a checkpoint in memory.
LEMMA PersistKeeps ==
  ASSUME StoreInv, NEW id \in hot, Persist(id),
         UNCHANGED <<state, content, tombstoned, adds>>, state # "down",
         \/ hot' = hot \ {id} /\ blue' = blue \union {id}
         \/ UNCHANGED <<hot, blue>>
  PROVE  StoreInv'
  <1> DEFINE v == content[id]
  <1>1. /\ id \in Ids /\ v \in Versions /\ v # 0 /\ id \in Nodes
        /\ content \in [Ids -> Versions \union {0}]
    BY DEF StoreInv, ManagerShape, Nodes
  <1>2. /\ ColdStore([id |-> id, ver |-> v])
        /\ latest' = [latest EXCEPT ![id] = IF v \in swallowed' THEN @ ELSE v]
        /\ flushed' = FALSE /\ dirty' = dirty \ {id}
    BY DEF Persist
  <1> HIDE DEF v
  <1>3. /\ ColdShape'
        /\ \A x \in Ids : Copy(x)' \subseteq Copy(x) \union IF x = id THEN {v} ELSE {}
        /\ \/ /\ Coming' = [Coming EXCEPT ![id] = v] /\ HasAll' = HasAll \union {id}
              /\ swallowed' = swallowed \ {v}
           \/ /\ Coming' = Coming /\ HasAll' = HasAll
              /\ swallowed' = swallowed \union {v}
    BY <1>1, <1>2, StoreEffect DEF StoreInv
  <1>4. ManagerShape'
    <2>1. latest' \in [Ids -> Versions \union {0}]
      BY <1>1, <1>2 DEF StoreInv, ManagerShape
    <2>2. Nodes' = Nodes
      BY <1>1 DEF Nodes
    <2>3. /\ hot' \subseteq Ids /\ blue' \subseteq Ids /\ hot' \intersect blue' = {}
          /\ dirty' \subseteq hot'
      BY <1>1, <1>2 DEF StoreInv, ManagerShape
    <2>. QED BY <1>2, <2>1, <2>2, <2>3 DEF StoreInv, ManagerShape
  <1>5. CopiesApart'
    <2>1. \A x \in Ids : AllCopies(x)' \subseteq AllCopies(x)
      BY <1>1, <1>3 DEF AllCopies, v
    <2>. QED BY <2>1, CopiesKept DEF StoreInv
  <1>6. Coming \in [Ids -> Versions \union {0}]
    <2>1. Buffered \in Seq(Entries)
      BY BufferedIs DEF StoreInv
    <2>. QED BY <2>1, AppliedType DEF Coming, StoreInv, ColdShape
  <1>7. WillBeLatest'
    <2>1. ASSUME NEW x \in Ids
          PROVE  latest'[x] = IF x \in HasAll' THEN Coming'[x] ELSE 0
      <3>1. latest[x] = IF x \in HasAll THEN Coming[x] ELSE 0
        BY DEF StoreInv, WillBeLatest
      <3>2. latest'[x] = IF x = id /\ v \notin swallowed' THEN v ELSE latest[x]
        BY <1>2 DEF StoreInv, ManagerShape
      <3>. QED BY <1>3, <1>6, <3>1, <3>2
    <2>. QED BY <2>1 DEF WillBeLatest
  <1>8. BlueComesBack'
    <2>1. ASSUME NEW x \in blue'
          PROVE  Coming'[x] = content[x] \/ content[x] \in swallowed'
      <3>1. CASE x = id
        BY <1>1, <1>3, <1>6, <3>1 DEF v
      <3>2. CASE x # id
        <4>1. x \in blue /\ x \in Ids /\ content[x] # 0
          BY <2>1, <3>2 DEF StoreInv, ManagerShape, Nodes
        <4>2. Coming[x] = content[x] \/ content[x] \in swallowed
          BY <4>1 DEF StoreInv, BlueComesBack, Coming
        <4>3. content[x] # v
          <5>1. AllCopies(x) \intersect AllCopies(id) = {}
            BY <1>1, <3>2, <4>1 DEF StoreInv, CopiesApart
          <5>2. content[x] \in AllCopies(x) /\ v \in AllCopies(id)
            BY <1>1, <4>1 DEF AllCopies, v
          <5>. QED BY <5>1, <5>2
        <4>4. Coming'[x] = Coming[x]
          BY <1>3, <1>6, <3>2, <4>1
        <4>. QED BY <1>3, <4>2, <4>3, <4>4
      <3>. QED BY <3>1, <3>2
    <2>2. \A x \in blue' : Coming'[x] = content'[x] \/ content'[x] \in swallowed'
      BY <2>1
    <2>. QED BY <2>2 DEF BlueComesBack, Coming, Applied
  <1>. QED BY <1>3, <1>4, <1>5, <1>7, <1>8 DEF StoreInv

\* A step that leaves the cold tier, the checkpoints and their versions alone and
\* forgets hot ones at most.
LEMMA MemoryStepKeeps ==
  ASSUME StoreInv, UNCHANGED <<coldVars, content, latest, flushed, adds>>,
         state # "down", state' \in {"open", "flushing"},
         hot' \subseteq hot, blue' \subseteq blue, dirty' \subseteq dirty \intersect hot',
         tombstoned' \subseteq tombstoned \union (Nodes \ Nodes')
  PROVE  StoreInv'
  <1>1. /\ ColdShape' /\ Buffered' = Buffered /\ UNCHANGED <<storage, written, swallowed>>
        /\ \A x \in Ids : Copy(x)' = Copy(x)
        /\ Coming' = Coming /\ HasAll' = HasAll
    BY ColdUnchanged DEF StoreInv
  <1>2. ManagerShape'
    BY <1>1 DEF StoreInv, ManagerShape, Nodes
  <1>3. CopiesApart'
    <2>1. \A x \in Ids : AllCopies(x)' \subseteq AllCopies(x)
      BY <1>1 DEF AllCopies
    <2>. QED BY <2>1, CopiesKept DEF StoreInv
  <1>4. WillBeLatest'
    BY <1>1 DEF StoreInv, WillBeLatest
  <1>5. BlueComesBack'
    <2>1. \A x \in blue' : Coming'[x] = content'[x] \/ content'[x] \in swallowed'
      BY <1>1 DEF StoreInv, BlueComesBack, Coming
    <2>. QED BY <2>1 DEF BlueComesBack, Coming, Applied
  <1>. QED BY <1>1, <1>2, <1>3, <1>4, <1>5 DEF StoreInv

\* load() preserves the invariant: it flushes and reads what was on its way.
LEMMA LoadKeeps ==
  ASSUME StoreInv, NEW id \in Ids, Load(id)
  PROVE  StoreInv'
  <1> DEFINE got == storage'[id]
  <1>1. /\ ColdShape' /\ Buffered' = <<>> /\ UNCHANGED swallowed
        /\ \A x \in Ids : Copy(x)' \subseteq Copy(x)
        /\ Coming' = Coming /\ HasAll' = HasAll
        /\ storage' = Coming
    BY FlushEffect DEF StoreInv, Load
  <1>2. /\ state = "open" /\ id \in blue
        /\ hot' = IF got # 0 THEN hot \union {id} ELSE hot
        /\ blue' = IF got # 0 THEN blue \ {id} ELSE blue
        /\ content' = IF got # 0 THEN [content EXCEPT ![id] = got] ELSE content
        /\ flushed' = TRUE
        /\ UNCHANGED <<state, dirty, tombstoned, latest, adds>>
    BY DEF Load, Loaded
  <1>3. storage' \in [Ids -> Versions \union {0}]
    BY <1>1 DEF ColdShape
  <1> HIDE DEF got
  <1>4. got \in Versions \union {0} /\ got = Coming[id] /\ got = storage'[id]
    BY <1>1, <1>3 DEF got
  <1>5. /\ content \in [Ids -> Versions \union {0}]
        /\ content' \in [Ids -> Versions \union {0}]
        /\ content'[id] = IF got # 0 THEN got ELSE content[id]
        /\ \A x \in Ids : x # id => content'[x] = content[x]
    <2>1. content \in [Ids -> Versions \union {0}]
      BY DEF StoreInv, ManagerShape
    <2>. QED BY <1>2, <1>4, <2>1
  <1>6. ManagerShape'
    <2>1. Nodes' = Nodes
      BY <1>2 DEF Nodes
    <2>2. /\ hot' \subseteq Ids /\ blue' \subseteq Ids /\ hot' \intersect blue' = {}
          /\ dirty' \subseteq hot'
      BY <1>2 DEF StoreInv, ManagerShape
    <2>3. \A x \in Nodes' : content'[x] # 0
      BY <1>5, <2>1 DEF StoreInv, ManagerShape, Nodes
    <2>. QED BY <1>1, <1>2, <1>5, <2>1, <2>2, <2>3 DEF StoreInv, ManagerShape
  <1>7. CopiesApart'
    <2>1. got \in Copy(id) \/ got = 0
      <3>1. got # 0 => got \in Copy(id)'
        BY <1>4 DEF Copy, CopiesIn
      <3>. QED BY <1>1, <3>1
    <2>2. \A x \in Ids : AllCopies(x)' \subseteq AllCopies(x)
      BY <1>1, <1>5, <2>1 DEF AllCopies
    <2>. QED BY <1>2, <2>2, CopiesKept DEF StoreInv
  <1>8. WillBeLatest'
    BY <1>1, <1>2 DEF StoreInv, WillBeLatest
  <1>9. BlueComesBack'
    <2>1. \A x \in blue : Coming[x] = content[x] \/ content[x] \in swallowed
      BY DEF StoreInv, BlueComesBack, Coming
    <2>2. \A x \in blue' : x \in blue /\ x \in Ids /\ content'[x] = content[x]
      BY <1>2, <1>5 DEF StoreInv, ManagerShape
    <2>3. \A x \in blue' : Coming'[x] = content'[x] \/ content'[x] \in swallowed'
      BY <1>1, <2>1, <2>2
    <2>. QED BY <2>3 DEF BlueComesBack, Coming, Applied
  <1>. QED BY <1>1, <1>6, <1>7, <1>8, <1>9 DEF StoreInv

\* flush() preserves the invariant.
LEMMA FlushKeeps ==
  ASSUME StoreInv, FlushEnds
  PROVE  StoreInv'
  <1>1. /\ ColdShape' /\ Buffered' = <<>> /\ UNCHANGED swallowed
        /\ \A x \in Ids : Copy(x)' \subseteq Copy(x)
        /\ Coming' = Coming /\ HasAll' = HasAll
    BY FlushEffect DEF StoreInv, FlushEnds
  <1>2. /\ state = "flushing" /\ state' = "open" /\ flushed' = TRUE
        /\ UNCHANGED <<hot, blue, content, dirty, tombstoned, latest, adds>>
    BY DEF FlushEnds
  <1>3. ManagerShape'
    BY <1>1, <1>2 DEF StoreInv, ManagerShape, Nodes
  <1>4. CopiesApart'
    <2>1. \A x \in Ids : AllCopies(x)' \subseteq AllCopies(x)
      BY <1>1, <1>2 DEF AllCopies
    <2>. QED BY <1>2, <2>1, CopiesKept DEF StoreInv
  <1>5. WillBeLatest'
    BY <1>1, <1>2 DEF StoreInv, WillBeLatest
  <1>6. BlueComesBack'
    <2>1. \A x \in blue' : Coming'[x] = content'[x] \/ content'[x] \in swallowed'
      BY <1>1, <1>2 DEF StoreInv, BlueComesBack, Coming
    <2>. QED BY <2>1 DEF BlueComesBack, Coming, Applied
  <1>. QED BY <1>1, <1>3, <1>4, <1>5, <1>6 DEF StoreInv

\* InBuffer as a set.
LEMMA InBufferIs ==
  ASSUME NEW id
  PROVE  InBuffer(id) <=> id \in IdsOf(Buffered)
  BY DEF InBuffer, IdsOf

\* compact() preserves the invariant: an id still buffered when its tombstone is
\* applied comes back with a later write.
LEMMA CompactKeeps ==
  ASSUME StoreInv, Compact
  PROVE  StoreInv'
  <1>1. /\ state = "open" /\ ColdRemove(tombstoned) /\ tombstoned' = {}
        /\ latest' = [id \in Ids |-> IF id \in tombstoned /\ ~InBuffer(id) THEN 0 ELSE latest[id]]
        /\ UNCHANGED <<state, hot, blue, content, dirty, flushed, adds>>
    BY DEF Compact
  <1>2. tombstoned \in SUBSET Ids /\ tombstoned \intersect Nodes = {}
    BY DEF StoreInv, ManagerShape
  <1>3. /\ ColdShape' /\ Buffered' = Buffered /\ UNCHANGED swallowed
        /\ \A x \in Ids : Copy(x)' \subseteq Copy(x)
        /\ HasAll' = (written \ tombstoned) \union IdsOf(Buffered)
        /\ \A x \in Ids : x \notin tombstoned \/ x \in IdsOf(Buffered) => Coming'[x] = Coming[x]
    BY <1>1, <1>2, RemoveEffect DEF StoreInv
  <1>4. ManagerShape'
    <2>1. latest' \in [Ids -> Versions \union {0}]
      BY <1>1 DEF StoreInv, ManagerShape
    <2>. QED BY <1>1, <1>3, <2>1 DEF StoreInv, ManagerShape, Nodes
  <1>5. CopiesApart'
    <2>1. \A x \in Ids : AllCopies(x)' \subseteq AllCopies(x)
      BY <1>1, <1>3 DEF AllCopies
    <2>. QED BY <1>1, <2>1, CopiesKept DEF StoreInv
  <1>6. WillBeLatest'
    <2>1. ASSUME NEW x \in Ids
          PROVE  latest'[x] = IF x \in HasAll' THEN Coming'[x] ELSE 0
      <3>1. latest[x] = IF x \in HasAll THEN Coming[x] ELSE 0
        BY DEF StoreInv, WillBeLatest
      <3>2. latest'[x] = IF x \in tombstoned /\ x \notin IdsOf(Buffered) THEN 0 ELSE latest[x]
        BY <1>1, InBufferIs
      <3>3. HasAll = written \union IdsOf(Buffered)
        BY DEF HasAll
      <3>. QED BY <1>3, <3>1, <3>2, <3>3
    <2>. QED BY <2>1 DEF WillBeLatest
  <1>7. BlueComesBack'
    <2>1. \A x \in blue : x \in Ids /\ x \notin tombstoned
      BY <1>2 DEF StoreInv, ManagerShape, Nodes
    <2>2. \A x \in blue : Coming[x] = content[x] \/ content[x] \in swallowed
      BY DEF StoreInv, BlueComesBack, Coming
    <2>3. \A x \in blue' : Coming'[x] = content'[x] \/ content'[x] \in swallowed'
      BY <1>1, <1>3, <2>1, <2>2
    <2>. QED BY <2>3 DEF BlueComesBack, Coming, Applied
  <1>. QED BY <1>3, <1>4, <1>5, <1>6, <1>7 DEF StoreInv

\* The manager is killed or dropped.
LEMMA DownKeeps ==
  ASSUME StoreInv, Down, Stops, ColdShape', Buffered' = <<>>
  PROVE  StoreInv'
  <1>1. /\ state' = "down" /\ flushed' = TRUE
        /\ hot' = {} /\ blue' = {} /\ dirty' = {} /\ tombstoned' = {}
        /\ latest' = [id \in Ids |-> IF id \in written' THEN storage'[id] ELSE 0]
        /\ UNCHANGED <<content, adds>>
    BY DEF Down
  <1>2. /\ \A x \in Ids : Copy(x)' \subseteq Copy(x)
        /\ Coming' = storage' /\ HasAll' = written'
    BY StopEffect DEF StoreInv
  <1>3. ManagerShape'
    <2>1. latest' \in [Ids -> Versions \union {0}]
      BY <1>1 DEF ColdShape
    <2>. QED BY <1>1, <2>1 DEF StoreInv, ManagerShape, Nodes
  <1>4. CopiesApart'
    <2>1. \A x \in Ids : AllCopies(x)' \subseteq AllCopies(x)
      BY <1>1, <1>2 DEF AllCopies
    <2>. QED BY <1>1, <2>1, CopiesKept DEF StoreInv
  <1>5. WillBeLatest'
    BY <1>1, <1>2 DEF WillBeLatest
  <1>6. BlueComesBack'
    BY <1>1 DEF BlueComesBack
  <1>. QED BY <1>3, <1>4, <1>5, <1>6 DEF StoreInv

\* recover() preserves the invariant: what is read back is what storage has.
LEMMA RecoverKeeps ==
  ASSUME StoreInv, Recover
  PROVE  StoreInv'
  <1>1. /\ state = "down" /\ state' = "open" /\ Reopened
        /\ latest' = storage /\ content' = storage
        /\ UNCHANGED <<dirty, tombstoned, flushed, adds>>
    BY DEF Recover
  <1>2. PICK H \in SUBSET written' : hot' = H /\ blue' = written' \ H
    BY DEF Recover
  <1>3. /\ ColdShape' /\ Buffered' = Buffered /\ UNCHANGED <<storage, swallowed>>
        /\ written' = {id \in Ids : storage[id] # 0}
        /\ \A x \in Ids : Copy(x)' = Copy(x)
    BY <1>1, ReopenEffect DEF StoreInv
  <1>4. Nodes = {} /\ tombstoned = {} /\ Buffered = <<>> /\ dirty = {}
    BY <1>1 DEF StoreInv, ManagerShape, Nodes
  <1>5. storage \in [Ids -> Versions \union {0}]
    BY DEF StoreInv, ColdShape
  <1>6. Coming' = storage' /\ HasAll' = written'
    BY <1>3, <1>4, NothingComing
  <1>7. Nodes' = written'
    BY <1>2 DEF Nodes
  <1>8. ManagerShape'
    <2>1. /\ hot' \subseteq Ids /\ blue' \subseteq Ids /\ hot' \intersect blue' = {}
          /\ dirty' \subseteq hot'
      BY <1>1, <1>2, <1>3, <1>4
    <2>2. \A x \in Nodes' : content'[x] # 0
      BY <1>1, <1>3, <1>7
    <2>. QED BY <1>1, <1>3, <1>4, <1>5, <2>1, <2>2 DEF StoreInv, ManagerShape
  <1>9. CopiesApart'
    <2>1. \A x \in Ids : storage[x] # 0 => storage[x] \in Copy(x)
      BY <1>5 DEF Copy, CopiesIn
    <2>2. \A x \in Ids : AllCopies(x)' \subseteq AllCopies(x)
      BY <1>1, <1>3, <2>1 DEF AllCopies
    <2>. QED BY <1>1, <2>2, CopiesKept DEF StoreInv
  <1>10. WillBeLatest'
    <2>1. ASSUME NEW x \in Ids
          PROVE  latest'[x] = IF x \in HasAll' THEN Coming'[x] ELSE 0
      BY <1>1, <1>3, <1>6
    <2>. QED BY <2>1 DEF WillBeLatest
  <1>11. BlueComesBack'
    <2>1. \A x \in blue' : Coming'[x] = content'[x]
      BY <1>1, <1>3, <1>6
    <2>. QED BY <2>1 DEF BlueComesBack, Coming, Applied
  <1>. QED BY <1>3, <1>8, <1>9, <1>10, <1>11 DEF StoreInv

\* A new manager over an empty storage satisfies the invariant.
LEMMA StoreInit ==
  ASSUME Init
  PROVE  StoreInv
  <1>1. /\ kind \in {"direct", "ring", "parallel"}
        /\ backend \in {"memory", "file", "shared"}
        /\ storage = [id \in Ids |-> 0] /\ written = {}
        /\ ring = <<>> /\ pending = <<>> /\ active = Empty /\ slot = Empty
        /\ published = [w \in Workers |-> FALSE] /\ spare = [w \in Workers |-> TRUE]
        /\ strayed = <<>> /\ swallowed = {}
    BY DEF Init, ColdInit
  <1>2. numWorkers \in 1 .. MaxWorkers
    BY ColdAssumption DEF Init, ColdInit
  <1>3. <<>> \in Seq(Entries) /\ Len(<<>>) = 0
    OBVIOUS
  <1>4. ColdShape
    <2>1. /\ slot \in [Workers -> Seq(Entries)]
          /\ published \in [Workers -> BOOLEAN] /\ spare \in [Workers -> BOOLEAN]
          /\ \A w \in Workers : spare[w]
      BY <1>1, <1>3 DEF Empty
    <2>2. numWorkers > 0 /\ 0 <= RingCapacity
      BY <1>2, ColdAssumption
    <2>. QED BY <1>1, <1>2, <1>3, <2>1, <2>2 DEF ColdShape
  <1>5. Buffered = <<>>
    <2>1. PICK n \in Nat \ {0} : n = numWorkers
      BY <1>2, ColdAssumption
    <2>2. slot = [w \in 1 .. n |-> <<>>]
      BY <1>1, <2>1 DEF Empty, Workers
    <2>3. SeqOps!FlattenSeq(slot) = <<>>
      BY <2>2, FlattenEmpty, Zenon
    <2>4. Buffered = ring \o SeqOps!FlattenSeq(slot) \o pending
      BY <1>4, BufferedIs
    <2>5. <<>> \o <<>> \o <<>> = <<>>
      OBVIOUS
    <2>. QED BY <1>1, <2>3, <2>4, <2>5, Zenon
  <1>6. /\ state = "open" /\ hot = {} /\ blue = {} /\ dirty = {} /\ tombstoned = {}
        /\ content = [id \in Ids |-> 0] /\ latest = [id \in Ids |-> 0]
        /\ flushed = TRUE /\ adds = 0
    BY DEF Init
  <1>7. ManagerShape
    BY <1>5, <1>6, StoreAssumption DEF ManagerShape, Nodes
  <1>8. CopiesApart
    <2>1. \A i \in 1 .. Len(<<>>) : FALSE
      OBVIOUS
    <2>2. 0 \notin Versions
      BY ColdAssumption
    <2>3. \A x \in Ids : AllCopies(x) = {}
      BY <1>1, <1>5, <1>6, <2>1, <2>2 DEF AllCopies, Copy, CopiesIn
    <2>. QED BY <2>3 DEF CopiesApart
  <1>9. WillBeLatest
    <2>1. HasAll = {}
      BY <1>1, <1>5 DEF HasAll, IdsOf
    <2>. QED BY <1>6, <2>1 DEF WillBeLatest
  <1>10. BlueComesBack
    BY <1>6 DEF BlueComesBack
  <1>. QED BY <1>4, <1>7, <1>8, <1>9, <1>10 DEF StoreInv

\* Every operation of the manager preserves the invariant.
LEMMA StoreNext ==
  ASSUME StoreInv, [Next]_vars
  PROVE  StoreInv'
  <1>1. ASSUME NEW id \in Ids, Add(id)
        PROVE  StoreInv'
    BY <1>1, AddKeeps
  <1>2. ASSUME NEW id \in Ids, Evict(id)
        PROVE  StoreInv'
    BY <1>2, PersistKeeps DEF Evict
  <1>3. ASSUME NEW id \in Ids, EvictFails(id)
        PROVE  StoreInv'
    BY <1>3, MemoryStepKeeps DEF EvictFails, StoreInv, ManagerShape
  <1>4. ASSUME NEW id \in Ids, Load(id)
        PROVE  StoreInv'
    BY <1>4, LoadKeeps
  <1>5. ASSUME FlushBegins
        PROVE  StoreInv'
    BY <1>5, MemoryStepKeeps DEF FlushBegins, StoreInv, ManagerShape
  <1>6. ASSUME NEW id \in Ids, FlushDirty(id)
        PROVE  StoreInv'
    <2>1. id \in hot
      BY <1>6 DEF FlushDirty, StoreInv, ManagerShape
    <2>. QED BY <1>6, <2>1, PersistKeeps DEF FlushDirty
  <1>7. ASSUME NEW id \in Ids, FlushFails(id)
        PROVE  StoreInv'
    BY <1>7, MemoryStepKeeps DEF FlushFails, StoreInv, ManagerShape
  <1>8. ASSUME NEW id \in Ids, DropFails(id)
        PROVE  StoreInv'
    BY <1>8, DropStep, DownKeeps DEF DropFails, StoreInv
  <1>9. ASSUME FlushEnds
        PROVE  StoreInv'
    BY <1>9, FlushKeeps
  <1>10. ASSUME NEW id \in Ids, Remove(id)
         PROVE  StoreInv'
    <2>1. /\ state = "open" /\ state' = "open"
          /\ UNCHANGED <<coldVars, content, latest, flushed, adds>>
          /\ hot' = hot \ {id} /\ blue' = blue \ {id} /\ dirty' = dirty \ {id}
          /\ tombstoned' \subseteq tombstoned \union {id} /\ id \in Nodes
      BY <1>10 DEF Remove
    <2>2. id \notin Nodes'
      BY <2>1 DEF Nodes
    <2>. QED BY <2>1, <2>2, MemoryStepKeeps DEF StoreInv, ManagerShape
  <1>11. ASSUME Compact
         PROVE  StoreInv'
    BY <1>11, CompactKeeps
  <1>12. ASSUME Crash
         PROVE  StoreInv'
    <2>1. PICK n : Cut(n)
      BY <1>12 DEF Crash
    <2>. QED BY <1>12, <2>1, CutStep, DownKeeps DEF Crash, StoreInv
  <1>13. ASSUME Drop
         PROVE  StoreInv'
    BY <1>13, DropStep, DownKeeps DEF Drop, StoreInv
  <1>14. ASSUME Recover
         PROVE  StoreInv'
    BY <1>14, RecoverKeeps
  <1>15. ASSUME UNCHANGED vars
         PROVE  StoreInv'
    <2>1. UNCHANGED <<coldVars, managerVars>>
      BY <1>15 DEF vars
    <2>2. /\ ColdShape' /\ Buffered' = Buffered /\ UNCHANGED <<storage, written, swallowed>>
          /\ \A x \in Ids : Copy(x)' = Copy(x)
          /\ Coming' = Coming /\ HasAll' = HasAll
      BY <2>1, ColdUnchanged DEF StoreInv
    <2>3. UNCHANGED <<state, hot, blue, content, dirty, tombstoned, latest, flushed, adds>>
      BY <2>1 DEF managerVars
    <2>4. ManagerShape' /\ WillBeLatest'
      BY <2>2, <2>3 DEF StoreInv, ManagerShape, Nodes, WillBeLatest
    <2>5. CopiesApart'
      <3>1. \A x \in Ids : AllCopies(x)' \subseteq AllCopies(x)
        BY <2>2, <2>3 DEF AllCopies
      <3>. QED BY <2>3, <3>1, CopiesKept DEF StoreInv
    <2>6. BlueComesBack'
      <3>1. \A x \in blue' : Coming'[x] = content'[x] \/ content'[x] \in swallowed'
        BY <2>2, <2>3 DEF StoreInv, BlueComesBack, Coming
      <3>. QED BY <3>1 DEF BlueComesBack, Coming, Applied
    <2>. QED BY <2>2, <2>4, <2>5, <2>6 DEF StoreInv
  <1>. QED BY <1>1, <1>2, <1>3, <1>4, <1>5, <1>6, <1>7, <1>8, <1>9, <1>10, <1>11,
              <1>12, <1>13, <1>14, <1>15 DEF Next

\* In every reachable state the buffers have their shape, versions are in one
\* place, storage is to hold what store() took last, and a cold checkpoint is on
\* its way or there, unless direct storage swallowed its error.
THEOREM StoreInvHolds == Spec => []StoreInv
  BY StoreInit, StoreNext, PTL DEF Spec

-------------------------------------------------------------------------------
(* The manifest *)

LogEntries == [id : Ids, seq : Nat, tombstone : BOOLEAN]

LogShape ==
  /\ seq \in Nat
  /\ entries \in Seq(LogEntries) /\ Len(entries) <= LogCapacity
  /\ journal \in Seq(LogEntries)

\* Everything the manager has recorded, whether its spout has it or not.
Whole == journal \o entries

\* The entries of w are numbered from 0, k comes next.
Numbered(w, k) == k = Len(w) /\ \A i \in 1 .. Len(w) : w[i].seq = i - 1

\* Numbered from k on.
NumberedFrom(es, k) == \A j \in 1 .. Len(es) : es[j].seq = k + j - 1

\* a \o b announces what a and b do.
AnnouncedUnite(a, b) ==
  Announced(a \o b) = Announced(a) \union Announced(b)

\* Two runs of manifest entries announce what the one does and the other.
LEMMA AnnouncedConcat ==
  ASSUME NEW T, NEW a \in Seq(T), NEW b \in Seq(T)
  PROVE  AnnouncedUnite(a, b)
  <1> DEFINE c == a \o b
  <1>1. /\ DOMAIN c = 1 .. Len(a) + Len(b)
        /\ Len(a) \in Nat /\ Len(b) \in Nat
        /\ \A i \in 1 .. Len(a) : c[i] = a[i]
        /\ \A i \in 1 .. Len(b) : c[Len(a) + i] = b[i]
        /\ \A i \in 1 .. Len(a) + Len(b) : i > Len(a) =>
             i - Len(a) \in 1 .. Len(b) /\ c[i] = b[i - Len(a)]
    BY Concat
  <1>2. DOMAIN a = 1 .. Len(a) /\ DOMAIN b = 1 .. Len(b)
    OBVIOUS
  <1> HIDE DEF c
  <1>3. ASSUME NEW i \in DOMAIN c, ~c[i].tombstone
        PROVE  c[i].id \in Announced(a) \union Announced(b)
    <2>1. CASE i <= Len(a)
      <3>1. i \in DOMAIN a /\ c[i] = a[i]
        BY <1>1, <1>2, <2>1
      <3>. QED BY <1>3, <3>1 DEF Announced
    <2>2. CASE i > Len(a)
      <3>1. i - Len(a) \in DOMAIN b /\ c[i] = b[i - Len(a)]
        BY <1>1, <1>2, <2>2
      <3>. QED BY <1>3, <3>1 DEF Announced
    <2>. QED BY <1>1, <2>1, <2>2
  <1>4. ASSUME NEW i \in DOMAIN a, ~a[i].tombstone
        PROVE  a[i].id \in Announced(c)
    <2>1. i \in DOMAIN c /\ c[i] = a[i]
      BY <1>1, <1>2
    <2>. QED BY <1>4, <2>1 DEF Announced
  <1>5. ASSUME NEW i \in DOMAIN b, ~b[i].tombstone
        PROVE  b[i].id \in Announced(c)
    <2>1. Len(a) + i \in DOMAIN c /\ c[Len(a) + i] = b[i]
      BY <1>1, <1>2
    <2>. QED BY <1>5, <2>1 DEF Announced
  <1>6. Announced(c) \subseteq Announced(a) \union Announced(b)
    BY <1>3 DEF Announced
  <1>7. Announced(a) \subseteq Announced(c) /\ Announced(b) \subseteq Announced(c)
    BY <1>4, <1>5 DEF Announced
  <1>8. Announced(c) = Announced(a) \union Announced(b)
    BY <1>6, <1>7
  <1>. QED BY <1>8 DEF c, AnnouncedUnite

\* Entries numbered from k on, after k entries numbered from 0, leave no gap.
LEMMA NumberedConcat ==
  ASSUME NEW T, NEW w \in Seq(T), NEW es \in Seq(T), NEW k, Numbered(w, k), NumberedFrom(es, k)
  PROVE  Numbered(w \o es, k + Len(es))
  <1> DEFINE c == w \o es
  <1>1. /\ Len(c) = Len(w) + Len(es)
        /\ Len(w) \in Nat /\ Len(es) \in Nat
        /\ \A i \in 1 .. Len(w) : c[i] = w[i]
        /\ \A i \in 1 .. Len(w) + Len(es) : i > Len(w) =>
             i - Len(w) \in 1 .. Len(es) /\ c[i] = es[i - Len(w)]
    BY Concat
  <1> HIDE DEF c
  <1>2. ASSUME NEW i \in 1 .. Len(c)
        PROVE  c[i].seq = i - 1
    <2>1. CASE i <= Len(w)
      BY <1>1, <2>1 DEF Numbered
    <2>2. CASE i > Len(w)
      <3>1. i - Len(w) \in 1 .. Len(es) /\ c[i] = es[i - Len(w)]
        BY <1>1, <2>2
      <3>2. es[i - Len(w)].seq = k + (i - Len(w)) - 1
        BY <3>1 DEF NumberedFrom
      <3>. QED BY <1>1, <3>1, <3>2 DEF Numbered
    <2>. QED BY <1>1, <2>1, <2>2
  <1>3. Numbered(c, k + Len(es))
    BY <1>1, <1>2 DEF Numbered
  <1>. QED BY <1>3 DEF c

\* Entries pushed come after everything that was recorded.
LEMMA PushEffect ==
  ASSUME LogShape, NEW es \in Seq(LogEntries), LogPushed(es), NumberedFrom(es, seq)
  PROVE  /\ LogShape'
         /\ Announced(Whole') = Announced(Whole) \union Announced(es)
         /\ Numbered(Whole, seq) => Numbered(Whole', seq')
  <1> DEFINE full == entries \o es
  <1>1. full \in Seq(LogEntries) /\ Len(full) \in Nat
    BY DEF LogShape
  <1>2. PICK n \in Nat :
          /\ n = IF Len(full) > LogCapacity THEN Len(full) - LogCapacity ELSE 0
          /\ n \in 0 .. Len(full) /\ Len(full) - n <= LogCapacity
    <2> HIDE DEF full
    <2>1. LogCapacity \in Nat \ {0}
      BY ManifestAssumption
    <2> DEFINE n == IF Len(full) > LogCapacity THEN Len(full) - LogCapacity ELSE 0
    <2>2. n \in 0 .. Len(full) /\ Len(full) - n <= LogCapacity /\ n \in Nat
      BY <1>1, <2>1
    <2>. QED BY <2>2
  <1>3. /\ seq' = seq + Len(es)
        /\ journal' = journal \o SubSeq(full, 1, n)
        /\ entries' = SubSeq(full, n + 1, Len(full))
    BY <1>2 DEF LogPushed
  <1>4. Whole \o es = journal \o full
    BY DEF LogShape, Whole
  <1> HIDE DEF full
  <1> DEFINE a == SubSeq(full, 1, n)
             b == SubSeq(full, n + 1, Len(full))
  <1>5. /\ a \in Seq(LogEntries) /\ b \in Seq(LogEntries)
        /\ Len(b) <= LogCapacity /\ full = a \o b
    <2>1. /\ a \in Seq(LogEntries) /\ b \in Seq(LogEntries)
          /\ Len(b) = Len(full) - n
      BY <1>1, <1>2, CutAt, Zenon DEF CutInto
    <2>2. full = a \o b
      BY <1>1, <1>2, CutAt, Zenon DEF CutInto
    <2>3. Len(b) <= LogCapacity
      <3> HIDE DEF a, b
      <3>. QED BY <1>2, <2>1
    <2>. QED BY <2>1, <2>2, <2>3
  <1> HIDE DEF a, b
  <1>6. journal' = journal \o a /\ entries' = b
    BY <1>3 DEF a, b
  <1>7. LogShape'
    <2>1. seq' \in Nat
      BY <1>3 DEF LogShape
    <2>2. journal \o a \in Seq(LogEntries)
      BY <1>5 DEF LogShape
    <2>. QED BY <1>5, <1>6, <2>1, <2>2, Zenon DEF LogShape
  <1>8. Whole' = Whole \o es
    <2>1. Whole' = (journal \o a) \o b
      BY <1>6, Zenon DEF Whole
    <2>2. (journal \o a) \o b = journal \o (a \o b)
      <3>1. journal \in Seq(LogEntries)
        BY DEF LogShape
      <3>. QED BY ONLY <1>5, <3>1
    <2>. QED BY <1>4, <1>5, <2>1, <2>2, Zenon
  <1>9. Whole \in Seq(LogEntries)
    BY DEF Whole, LogShape
  <1>10. Announced(Whole \o es) = Announced(Whole) \union Announced(es)
    <2>1. AnnouncedUnite(Whole, es)
      BY <1>9, AnnouncedConcat, Zenon
    <2>. QED BY <2>1 DEF AnnouncedUnite
  <1>11. Numbered(Whole, seq) => Numbered(Whole \o es, seq + Len(es))
    BY <1>9, NumberedConcat, Zenon
  <1>. QED BY <1>3, <1>7, <1>8, <1>10, <1>11, Zenon

\* One entry, or an entry and its tombstone.
LEMMA EntriesAre ==
  ASSUME seq \in Nat, NEW id \in Ids, NEW t \in BOOLEAN
  PROVE  /\ <<Entry(id, seq, t)>> \in Seq(LogEntries)
         /\ NumberedFrom(<<Entry(id, seq, t)>>, seq)
         /\ id \in Announced(<<Entry(id, seq, FALSE)>>)
         /\ Undone(id) \in Seq(LogEntries)
         /\ NumberedFrom(Undone(id), seq)
  <1>1. Entry(id, seq, t) \in LogEntries /\ Entry(id, seq, t).seq = seq
    BY DEF Entry, LogEntries
  <1>2. /\ Entry(id, seq, FALSE) \in LogEntries /\ Entry(id, seq, FALSE).seq = seq
        /\ Entry(id, seq, FALSE).id = id /\ Entry(id, seq, FALSE).tombstone = FALSE
        /\ Entry(id, seq + 1, TRUE) \in LogEntries /\ Entry(id, seq + 1, TRUE).seq = seq + 1
    BY DEF Entry, LogEntries
  <1>3. <<Entry(id, seq, t)>> \in Seq(LogEntries) /\ NumberedFrom(<<Entry(id, seq, t)>>, seq)
    BY <1>1 DEF NumberedFrom
  <1> DEFINE e == Entry(id, seq, FALSE)
             d == Entry(id, seq + 1, TRUE)
  <1>4. id \in Announced(<<e>>)
    <2>0. e.id = id /\ ~e.tombstone
      BY <1>2
    <2> HIDE DEF e
    <2> DEFINE es == <<e>>
    <2>1. 1 \in DOMAIN es /\ es[1].id = id /\ ~es[1].tombstone
      BY <2>0
    <2> HIDE DEF es
    <2>2. id \in Announced(es)
      BY <2>1 DEF Announced
    <2>. QED BY <2>2 DEF es
  <1>5. <<e, d>> \in Seq(LogEntries) /\ NumberedFrom(<<e, d>>, seq)
    <2>1. e \in LogEntries /\ d \in LogEntries /\ e.seq = seq /\ d.seq = seq + 1
      BY <1>2
    <2> HIDE DEF e, d
    <2> DEFINE es == <<e, d>>
    <2>2. /\ es \in Seq(LogEntries) /\ Len(es) = 2
          /\ es[1].seq = seq /\ es[2].seq = seq + 1
      BY <2>1
    <2> HIDE DEF es
    <2>3. es \in Seq(LogEntries) /\ NumberedFrom(es, seq)
      <3>1. ASSUME NEW j \in 1 .. 2
            PROVE  es[j].seq = seq + j - 1
        <4>1. j = 1 \/ j = 2
          OBVIOUS
        <4>. QED BY <2>2, <4>1
      <3>. QED BY <2>2, <3>1 DEF NumberedFrom
    <2>. QED BY <2>3 DEF es
  <1>6. Undone(id) = <<e, d>>
    BY DEF Undone
  <1>. QED BY <1>3, <1>4, <1>5, <1>6

\* A flush hands over the entries, all and in order.
LEMMA LogFlushEffect ==
  ASSUME LogShape, LogFlush
  PROVE  LogShape' /\ Whole' = Whole /\ UNCHANGED seq
  <1>1. journal' = Whole /\ entries' = <<>> /\ UNCHANGED seq
    BY DEF LogFlush, Whole
  <1>2. Whole \in Seq(LogEntries) /\ <<>> \in Seq(LogEntries) /\ Len(<<>>) <= LogCapacity
    BY ManifestAssumption DEF Whole, LogShape
  <1>3. Whole' = Whole \o <<>>
    BY <1>1, Zenon DEF Whole
  <1>. QED BY <1>1, <1>2, <1>3, ConcatEmptySeq DEF LogShape

\* A manifest that is dropped writes out what it buffers, and forgets nothing.
LEMMA LogDropEffect ==
  ASSUME LogShape, NEW es \in Seq(LogEntries), LogDropped(es)
  PROVE  LogShape' /\ Announced(Whole) \subseteq Announced(Whole')
  <1>1. journal' = Whole \o es /\ entries' = <<>> /\ seq' = 0
    BY DEF LogDropped, Whole
  <1>2. Whole \in Seq(LogEntries) /\ <<>> \in Seq(LogEntries) /\ Len(<<>>) <= LogCapacity
    BY ManifestAssumption DEF Whole, LogShape
  <1>3. journal' \in Seq(LogEntries)
    <2> HIDE DEF Whole
    <2>. QED BY <1>1, <1>2
  <1>4. Whole' = journal'
    <2>1. Whole' = journal' \o <<>>
      BY <1>1, Zenon DEF Whole
    <2>. QED BY <1>3, <2>1, ConcatEmptySeq
  <1>5. Announced(Whole \o es) = Announced(Whole) \union Announced(es)
    <2>1. AnnouncedUnite(Whole, es)
      BY <1>2, AnnouncedConcat, Zenon
    <2>. QED BY <2>1 DEF AnnouncedUnite
  <1>6. LogShape'
    BY <1>1, <1>2, <1>3 DEF LogShape
  <1>. QED BY <1>1, <1>4, <1>5, <1>6, Zenon

\* A crash loses the buffered entries of the manifest and no other.
LEMMA LogLostEffect ==
  ASSUME LogShape, LogLost, seen' = seen \union (Announced(entries) \ Announced(journal))
  PROVE  LogShape' /\ Announced(Whole) \union seen \subseteq Announced(Whole') \union seen'
  <1>1. journal' = journal /\ entries' = <<>> /\ seq' = 0
    BY DEF LogLost
  <1>2. <<>> \in Seq(LogEntries) /\ Len(<<>>) <= LogCapacity
    BY ManifestAssumption
  <1>3. LogShape'
    BY <1>1, <1>2 DEF LogShape
  <1>4. Whole' = journal
    <2>1. Whole' = journal \o <<>>
      BY <1>1, Zenon DEF Whole
    <2>. QED BY <2>1, ConcatEmptySeq DEF LogShape
  <1>5. Announced(Whole) = Announced(journal) \union Announced(entries)
    <2>1. journal \in Seq(LogEntries) /\ entries \in Seq(LogEntries)
      BY DEF LogShape
    <2>2. Announced(journal \o entries) = Announced(journal) \union Announced(entries)
      <3>1. AnnouncedUnite(journal, entries)
        BY <2>1, AnnouncedConcat, Zenon
      <3>. QED BY <3>1 DEF AnnouncedUnite
    <2>. QED BY <2>2, Zenon DEF Whole
  <1>. QED BY <1>3, <1>4, <1>5

\* A sequence announces no more ids than it has entries.
LEMMA AnnouncedFew ==
  ASSUME NEW es \in Seq(LogEntries)
  PROVE  IsFiniteSet(Announced(es)) /\ Cardinality(Announced(es)) <= Len(es)
  <1> DEFINE at == {i \in DOMAIN es : ~es[i].tombstone}
             f  == [i \in at |-> es[i].id]
  <1>1. IsFiniteSet(1 .. Len(es)) /\ Cardinality(1 .. Len(es)) = Len(es)
    <2>1. Len(es) \in Nat
      OBVIOUS
    <2>. QED BY <2>1, FS_Interval
  <1>2. at \subseteq 1 .. Len(es)
    OBVIOUS
  <1>3. IsFiniteSet(at) /\ Cardinality(at) <= Len(es)
    BY <1>1, <1>2, FS_Subset
  <1>4. f \in Surjection(at, Announced(es))
    BY DEF Surjection, Announced
  <1>5. IsFiniteSet(Announced(es)) /\ Cardinality(Announced(es)) <= Cardinality(at)
    BY <1>3, <1>4, FS_Surjection
  <1>. QED BY <1>3, <1>5, FS_CardinalityType

\* The ids a kill takes from the log are no more than its ring has room for.
SeenBound ==
  /\ kills \in Nat
  /\ IsFiniteSet(seen) /\ Cardinality(seen) <= LogCapacity * kills

LEMMA KillCost ==
  ASSUME LogShape, SeenBound, kills' = kills + 1,
         seen' = seen \union (Announced(entries) \ Announced(journal))
  PROVE  SeenBound'
  <1> DEFINE new == Announced(entries) \ Announced(journal)
  <1>1. IsFiniteSet(Announced(entries)) /\ Cardinality(Announced(entries)) <= Len(entries)
    BY AnnouncedFew DEF LogShape
  <1>2. IsFiniteSet(new) /\ Cardinality(new) <= Cardinality(Announced(entries))
    BY <1>1, FS_Subset
  <1>3. Cardinality(new) <= LogCapacity
    <2>1. Len(entries) \in Nat /\ Len(entries) <= LogCapacity /\ LogCapacity \in Nat
      BY ManifestAssumption DEF LogShape
    <2>. QED BY <1>1, <1>2, <2>1, FS_CardinalityType
  <1> HIDE DEF new
  <1>4. IsFiniteSet(seen \union new) /\ Cardinality(seen \union new) <= Cardinality(seen) + Cardinality(new)
    <2>1. /\ IsFiniteSet(seen \union new) /\ IsFiniteSet(seen \intersect new)
          /\ Cardinality(seen \union new)
               = Cardinality(seen) + Cardinality(new) - Cardinality(seen \intersect new)
      BY <1>2, FS_Union, FS_Intersection DEF SeenBound
    <2>. QED BY <1>2, <2>1, FS_CardinalityType DEF SeenBound
  <1>5. LogCapacity * (kills + 1) = LogCapacity * kills + LogCapacity
    BY ManifestAssumption DEF SeenBound
  <1>6. seen' = seen \union new
    BY DEF new
  <1>7. /\ Cardinality(seen) \in Nat /\ Cardinality(new) \in Nat
        /\ Cardinality(seen \union new) \in Nat
    BY <1>2, <1>4, FS_CardinalityType DEF SeenBound
  <1>8. Cardinality(seen \union new) <= LogCapacity * kills + LogCapacity
    <2>1. LogCapacity * kills \in Nat /\ LogCapacity \in Nat
      BY ManifestAssumption DEF SeenBound
    <2>2. Cardinality(seen) <= LogCapacity * kills
      BY DEF SeenBound
    <2>. QED BY <1>3, <1>4, <1>7, <2>1, <2>2
  <1>. QED BY <1>4, <1>5, <1>6, <1>8 DEF SeenBound

-------------------------------------------------------------------------------
(* What the manifest tells of the checkpoints *)

\* Ids of which there is a cold checkpoint, or a copy in storage or on its way.
Told == blue \union {x \in Ids : Copy(x) # {}}

\* Every such id has been announced, or had an entry that died with a manager; those
\* are few.
LogInv ==
  /\ LogShape
  /\ stops \in Nat
  /\ SeenBound
  /\ Told \subseteq Announced(Whole) \union seen
  /\ stops = 0 => state # "down" /\ Numbered(Whole, seq)

\* A step after which there are no more ids to tell of, and nothing recorded is lost.
LEMMA LogKept ==
  ASSUME LogInv, LogShape', Told' \subseteq Told,
         Announced(Whole) \union seen \subseteq Announced(Whole') \union seen',
         SeenBound', stops' \in Nat,
         stops' = 0 => stops = 0 /\ state' # "down"
                         /\ (Numbered(Whole, seq) => Numbered(Whole', seq'))
  PROVE  LogInv'
  BY DEF LogInv

\* A checkpoint is announced before it is stored.
LEMMA PersistTold ==
  ASSUME StoreInv, LogInv, NEW id \in hot, Persist(id),
         UNCHANGED <<state, content, seen, kills, stops>>,
         blue' \subseteq blue \union {id}
  PROVE  LogInv'
  <1>1. id \in Ids /\ content[id] \in Versions
    BY DEF StoreInv, ManagerShape, Nodes
  <1>2. \A x \in Ids : Copy(x)' \subseteq Copy(x) \union IF x = id THEN {content[id]} ELSE {}
    BY <1>1, StoreEffect DEF StoreInv, Persist
  <1>3. Told' \subseteq Told \union {id}
    BY <1>1, <1>2 DEF Told
  <1> DEFINE es == <<Entry(id, seq, FALSE)>>
  <1>4. LogPushed(es)
    BY DEF Persist, Record
  <1>5. /\ es \in Seq(LogEntries) /\ NumberedFrom(es, seq) /\ id \in Announced(es)
    BY <1>1, EntriesAre DEF LogInv, LogShape
  <1> HIDE DEF es
  <1>6. /\ LogShape'
        /\ Announced(Whole') = Announced(Whole) \union Announced(es)
        /\ Numbered(Whole, seq) => Numbered(Whole', seq')
    BY <1>4, <1>5, PushEffect DEF LogInv
  <1>. QED BY <1>3, <1>5, <1>6 DEF LogInv, SeenBound

\* An entry, and a tombstone where there is one, is recorded.
LEMMA RecordTold ==
  ASSUME LogInv, NEW es \in Seq(LogEntries), LogPushed(es), NumberedFrom(es, seq),
         UNCHANGED <<seen, kills, stops>>, state' # "down", Told' \subseteq Told
  PROVE  LogInv'
  <1>1. /\ LogShape'
        /\ Announced(Whole') = Announced(Whole) \union Announced(es)
        /\ Numbered(Whole, seq) => Numbered(Whole', seq')
    BY PushEffect DEF LogInv
  <1>. QED BY <1>1, LogKept DEF LogInv, SeenBound

\* A step that records nothing.
LEMMA QuietTold ==
  ASSUME LogInv, UNCHANGED <<logVars, seen, kills, stops>>, state' # "down" \/ state' = state,
         Told' \subseteq Told
  PROVE  LogInv'
  <1>1. UNCHANGED <<seq, entries, journal>>
    BY DEF logVars
  <1>2. LogShape' /\ Whole' = Whole
    BY <1>1 DEF LogInv, LogShape, Whole
  <1>. QED BY <1>1, <1>2, LogKept DEF LogInv, SeenBound

\* The ids to tell of change with the copies and the cold checkpoints.
LEMMA ToldKept ==
  ASSUME \A x \in Ids : Copy(x)' \subseteq Copy(x), blue' \subseteq blue
  PROVE  Told' \subseteq Told
  BY DEF Told

\* Every operation keeps the manifest telling of all there is to tell.
LEMMA LogNext ==
  ASSUME StoreInv, LogInv, [Next]_vars
  PROVE  LogInv'
  <1>1. ASSUME UNCHANGED coldVars, blue' \subseteq blue
        PROVE  Told' \subseteq Told
    BY <1>1, ColdUnchanged, ToldKept DEF StoreInv
  <1>2. ASSUME NEW id \in Ids, Add(id)
        PROVE  LogInv'
    <2>1. UNCHANGED <<coldVars, logVars, seen, kills, stops, state, blue>>
      BY <1>2 DEF Add
    <2>. QED BY <1>1, <2>1, QuietTold
  <1>3. ASSUME NEW id \in Ids, Evict(id)
        PROVE  LogInv'
    BY <1>3, PersistTold DEF Evict
  <1>4. ASSUME NEW id \in Ids, EvictFails(id)
        PROVE  LogInv'
    <2>1. /\ UNCHANGED <<coldVars, seen, kills, stops, state, blue>> /\ state = "open"
          /\ LogPushed(Undone(id))
      BY <1>4 DEF EvictFails, RecordUndone
    <2>2. Undone(id) \in Seq(LogEntries) /\ NumberedFrom(Undone(id), seq)
      BY EntriesAre DEF LogInv, LogShape
    <2>. QED BY <1>1, <2>1, <2>2, RecordTold
  <1>5. ASSUME NEW id \in Ids, Load(id)
        PROVE  LogInv'
    <2>1. /\ UNCHANGED <<logVars, seen, kills, stops, state>> /\ blue' \subseteq blue
          /\ ColdFlush
      BY <1>5 DEF Load
    <2>2. Told' \subseteq Told
      BY <2>1, FlushEffect, ToldKept DEF StoreInv
    <2>. QED BY <2>1, <2>2, QuietTold
  <1>6. ASSUME FlushBegins
        PROVE  LogInv'
    <2>1. UNCHANGED <<coldVars, logVars, seen, kills, stops, blue>> /\ state' = "flushing"
      BY <1>6 DEF FlushBegins
    <2>. QED BY <1>1, <2>1, QuietTold
  <1>7. ASSUME NEW id \in Ids, FlushDirty(id)
        PROVE  LogInv'
    <2>1. id \in hot
      BY <1>7 DEF FlushDirty, StoreInv, ManagerShape
    <2>. QED BY <1>7, <2>1, PersistTold DEF FlushDirty
  <1>8. ASSUME NEW id \in Ids, FlushFails(id)
        PROVE  LogInv'
    <2>1. /\ UNCHANGED <<coldVars, seen, kills, stops, blue>> /\ state' = "open"
          /\ LogPushed(Undone(id))
      BY <1>8 DEF FlushFails, RecordUndone
    <2>2. Undone(id) \in Seq(LogEntries) /\ NumberedFrom(Undone(id), seq)
      BY EntriesAre DEF LogInv, LogShape
    <2>. QED BY <1>1, <2>1, <2>2, RecordTold
  <1>9. ASSUME FlushEnds
        PROVE  LogInv'
    <2>1. /\ ColdFlush /\ LogFlush /\ state' = "open" /\ UNCHANGED <<blue, seen, kills, stops>>
      BY <1>9 DEF FlushEnds
    <2>2. Told' \subseteq Told
      BY <2>1, FlushEffect, ToldKept DEF StoreInv
    <2>3. LogShape' /\ Whole' = Whole /\ UNCHANGED seq
      BY <2>1, LogFlushEffect DEF LogInv
    <2>. QED BY <2>1, <2>2, <2>3, LogKept DEF LogInv, SeenBound
  <1>10. ASSUME NEW id \in Ids, Remove(id)
         PROVE  LogInv'
    <2>1. /\ UNCHANGED <<coldVars, seen, kills, stops, state>> /\ blue' \subseteq blue
          /\ state = "open"
          /\ LogPushed(<<Entry(id, seq, TRUE)>>) \/ UNCHANGED logVars
      BY <1>10 DEF Remove, RecordTombstone
    <2>2. /\ <<Entry(id, seq, TRUE)>> \in Seq(LogEntries)
          /\ NumberedFrom(<<Entry(id, seq, TRUE)>>, seq)
      BY EntriesAre DEF LogInv, LogShape
    <2>. QED BY <1>1, <2>1, <2>2, RecordTold, QuietTold
  <1>11. ASSUME Compact
         PROVE  LogInv'
    <2>1. /\ UNCHANGED <<logVars, seen, kills, stops, state, blue>> /\ ColdRemove(tombstoned)
      BY <1>11 DEF Compact
    <2>2. tombstoned \in SUBSET Ids
      BY DEF StoreInv, ManagerShape
    <2>3. Told' \subseteq Told
      BY <2>1, <2>2, RemoveEffect, ToldKept DEF StoreInv
    <2>. QED BY <2>1, <2>3, QuietTold
  <1>12. ASSUME Down, Stops, ColdShape', Buffered' = <<>>, LogShape', SeenBound',
                Announced(Whole) \union seen \subseteq Announced(Whole') \union seen'
         PROVE  LogInv'
    <2>1. stops' = stops + 1 /\ blue' = {}
      BY <1>12 DEF Down
    <2>2. Told' \subseteq Told
      BY <1>12, <2>1, StopEffect, ToldKept DEF StoreInv
    <2>3. stops' \in Nat /\ stops' # 0
      BY <2>1 DEF LogInv
    <2>. QED BY <1>12, <2>2, <2>3, LogKept
  <1>13. ASSUME Crash
         PROVE  LogInv'
    <2>1. PICK n : Cut(n)
      BY <1>13 DEF Crash
    <2>2. ColdShape' /\ Buffered' = <<>> /\ Stops
      BY <2>1, CutStep DEF StoreInv
    <2>3. LogShape' /\ Announced(Whole) \union seen \subseteq Announced(Whole') \union seen'
      BY <1>13, LogLostEffect DEF Crash, LogInv
    <2>4. SeenBound'
      BY <1>13, KillCost DEF Crash, LogInv
    <2>. QED BY <1>12, <1>13, <2>2, <2>3, <2>4 DEF Crash
  <1>14. ASSUME NEW es \in Seq(LogEntries), ColdDrop, LogDropped(es), UNCHANGED <<seen, kills>>, Down
         PROVE  LogInv'
    <2>1. ColdShape' /\ Buffered' = <<>> /\ Stops
      BY <1>14, DropStep DEF StoreInv
    <2>2. LogShape' /\ Announced(Whole) \subseteq Announced(Whole')
      BY <1>14, LogDropEffect DEF LogInv
    <2>3. SeenBound'
      BY <1>14 DEF LogInv, SeenBound
    <2>. QED BY <1>12, <1>14, <2>1, <2>2, <2>3
  <1>15. ASSUME Drop
         PROVE  LogInv'
    <2>1. <<>> \in Seq(LogEntries)
      OBVIOUS
    <2>. QED BY <1>14, <1>15, <2>1 DEF Drop
  <1>16. ASSUME NEW id \in Ids, DropFails(id)
         PROVE  LogInv'
    <2>1. Undone(id) \in Seq(LogEntries)
      BY EntriesAre DEF LogInv, LogShape
    <2>. QED BY <1>14, <1>16, <2>1 DEF DropFails
  <1>17. ASSUME Recover
         PROVE  LogInv'
    <2>1. /\ Reopened /\ state' = "open" /\ UNCHANGED <<logVars, seen, kills, stops>>
          /\ blue' \subseteq written'
      BY <1>17 DEF Recover
    <2>2. /\ written' = {id \in Ids : storage[id] # 0}
          /\ \A x \in Ids : Copy(x)' = Copy(x)
      BY <2>1, ReopenEffect DEF StoreInv
    <2>3. storage \in [Ids -> Versions \union {0}]
      BY DEF StoreInv, ColdShape
    <2>4. \A x \in written' : storage[x] \in Copy(x)
      BY <2>2, <2>3 DEF Copy, CopiesIn
    <2>5. Told' \subseteq Told
      BY <2>1, <2>2, <2>4 DEF Told
    <2>. QED BY <2>1, <2>5, QuietTold
  <1>18. ASSUME UNCHANGED vars
         PROVE  LogInv'
    <2>1. UNCHANGED <<coldVars, logVars, managerVars>>
      BY <1>18 DEF vars
    <2>2. UNCHANGED <<state, blue, seen, kills, stops>>
      BY <2>1 DEF managerVars
    <2>. QED BY <1>1, <2>1, <2>2, QuietTold
  <1>. QED BY <1>2, <1>3, <1>4, <1>5, <1>6, <1>7, <1>8, <1>9, <1>10, <1>11, <1>13,
              <1>15, <1>16, <1>17, <1>18 DEF Next

\* The empty manifest of a new manager.
LEMMA LogStart ==
  ASSUME Init
  PROVE  LogInv
  <1>1. StoreInv
    BY StoreInit
  <1>2. /\ seq = 0 /\ entries = <<>> /\ journal = <<>> /\ stops = 0 /\ blue = {}
        /\ state = "open" /\ storage = [id \in Ids |-> 0]
    BY DEF Init, LogInit, ColdInit
  <1>3. <<>> \in Seq(LogEntries) /\ Len(<<>>) = 0 /\ Len(<<>>) <= LogCapacity
    BY ManifestAssumption
  <1>4. Whole = <<>>
    <2>1. <<>> \o <<>> = <<>>
      OBVIOUS
    <2>. QED BY <1>2, <2>1 DEF Whole
  <1>5. Numbered(Whole, seq)
    BY <1>2, <1>4 DEF Numbered
  <1>6. Told = {}
    <2>1. flushed = TRUE
      BY DEF Init
    <2>2. Buffered = <<>>
      BY <1>1, <2>1 DEF StoreInv, ManagerShape
    <2>3. \A i \in 1 .. Len(<<>>) : FALSE
      OBVIOUS
    <2>4. 0 \notin Versions
      BY ColdAssumption
    <2>5. \A x \in Ids : Copy(x) = {}
      BY <1>2, <2>2, <2>3, <2>4 DEF Copy, CopiesIn
    <2>. QED BY <1>2, <2>5 DEF Told
  <1>7. SeenBound
    <2>1. seen = {} /\ kills = 0
      BY DEF Init
    <2>2. LogCapacity * 0 = 0
      BY ManifestAssumption
    <2>. QED BY <2>1, <2>2, FS_EmptySet DEF SeenBound
  <1>. QED BY <1>2, <1>3, <1>5, <1>6, <1>7 DEF LogInv, LogShape

\* In every reachable state the manifest tells of each checkpoint that is outside
\* memory (or a crash lost the entry), and its entries are numbered without a gap.
THEOREM LogInvHolds == Spec => []LogInv
  BY StoreInvHolds, LogStart, LogNext, PTL DEF Spec

-------------------------------------------------------------------------------
(* The properties *)

\* A version that comes back is the one that was evicted: in the storage after the
\* load's flush is what was on its way.
LEMMA LoadStep ==
  ASSUME StoreInv, [Next]_vars, NEW id \in blue, id \in hot', content[id] \notin swallowed
  PROVE  content'[id] = content[id]
  <1>1. id \in Ids /\ id \notin hot /\ id \in Nodes
    BY DEF StoreInv, ManagerShape, Nodes
  <1>2. Coming[id] = content[id]
    BY DEF StoreInv, BlueComesBack, Coming
  <1>3. ASSUME NEW x \in Ids, Load(x)
        PROVE  content'[id] = content[id]
    <2>1. storage' = Coming
      BY <1>3, FlushEffect DEF StoreInv, Load
    <2>2. content' = IF storage'[x] # 0 THEN [content EXCEPT ![x] = storage'[x]] ELSE content
      BY <1>3 DEF Load, Loaded
    <2>3. content \in [Ids -> Versions \union {0}]
      BY DEF StoreInv, ManagerShape
    <2>. QED BY <1>1, <1>2, <2>1, <2>2, <2>3
  <1>4. ASSUME NEW x \in Ids, Add(x)
        PROVE  FALSE
    BY <1>1, <1>4 DEF Add
  <1>5. ASSUME Recover
        PROVE  FALSE
    BY <1>1, <1>5 DEF Recover, StoreInv, ManagerShape
  <1>6. ASSUME UNCHANGED hot \/ hot' \subseteq hot
        PROVE  FALSE
    BY <1>1, <1>6
  <1>7. ASSUME Crash \/ Drop \/ \E x \in Ids : DropFails(x)
        PROVE  FALSE
    BY <1>6, <1>7 DEF Crash, Drop, DropFails, Down
  <1>8. ASSUME NEW x \in Ids, Evict(x) \/ EvictFails(x) \/ FlushDirty(x) \/ FlushFails(x) \/ Remove(x)
        PROVE  FALSE
    BY <1>6, <1>8 DEF Evict, EvictFails, FlushDirty, FlushFails, Remove
  <1>9. ASSUME FlushBegins \/ FlushEnds \/ Compact \/ UNCHANGED vars
        PROVE  FALSE
    BY <1>6, <1>9 DEF FlushBegins, FlushEnds, Compact, vars, managerVars
  <1>. QED BY <1>3, <1>4, <1>5, <1>7, <1>8, <1>9 DEF Next

\* The type invariant, that nothing strays, and that every cold checkpoint comes
\* back: for any capacities of the buffers and any number of workers.
THEOREM BuffersHold == Spec => []Buffers
  <1>1. StoreInv /\ LogInv => Buffers
    <2> SUFFICES ASSUME StoreInv, LogInv
                 PROVE  Buffers
      OBVIOUS
    <2>1. ColdShape /\ ManagerShape /\ BlueComesBack
      BY DEF StoreInv
    <2>2. active \in [Workers -> Seq(Entries)] /\ strayed \in Seq(Entries)
      <3>1. <<>> \in Seq(Entries)
        OBVIOUS
      <3>. QED BY <2>1, <3>1 DEF ColdShape, Empty
    <2>3. /\ seq \in Nat /\ Len(entries) <= LogCapacity
          /\ entries \in Seq([id : Ids, seq : Nat, tombstone : BOOLEAN])
          /\ journal \in Seq([id : Ids, seq : Nat, tombstone : BOOLEAN])
      BY DEF LogInv, LogShape, LogEntries
    <2>4. TypeOK
      BY <2>1, <2>2, <2>3 DEF TypeOK, ColdShape, ManagerShape
    <2>5. NothingStrays
      BY <2>1 DEF NothingStrays, ColdShape
    <2>. QED BY <2>1, <2>4, <2>5 DEF Buffers
  <1>. QED BY <1>1, StoreInvHolds, LogInvHolds, PTL

\* After a flush load and contains see of each id what store() took last.
THEOREM FlushHolds == Spec => []FlushMakesVisible
  <1>1. StoreInv => FlushMakesVisible
    <2> SUFFICES ASSUME StoreInv, flushed
                 PROVE  \A id \in Ids : Visible(id) = latest[id]
      BY DEF FlushMakesVisible
    <2>1. Buffered = <<>>
      BY DEF StoreInv, ManagerShape
    <2>2. HasAll = written
      BY <2>1, IdsOfOne DEF HasAll
    <2>3. \A id \in Ids : Coming[id] = storage[id]
      BY <2>1, AppliedNone DEF Coming
    <2>. QED BY <2>2, <2>3 DEF StoreInv, WillBeLatest, Visible, ColdContains, Loaded
  <1>. QED BY <1>1, StoreInvHolds, PTL

\* After any number of stops the manifest still tells of every checkpoint outside
\* memory but for those whose only entry was in the ring of a manager that was killed,
\* of which each kill makes at most as many as the ring has room for; and its numbers
\* have no gap until the first stop.
THEOREM JournalHolds == Spec => []JournalIsTrue
  <1>1. LogInv /\ StoreInv => JournalIsTrue
    <2> SUFFICES ASSUME LogInv, StoreInv
                 PROVE  JournalIsTrue
      OBVIOUS
    <2>1. OnlyKillsUntell
      <3>1. ASSUME NEW id \in Ids, Visible(id) # 0
            PROVE  id \in Told
        <4>1. storage[id] \in Copy(id)
          BY <3>1 DEF Visible, Loaded, Copy, CopiesIn, StoreInv, ColdShape
        <4>. QED BY <4>1 DEF Told
      <3>2. Untold \subseteq Told \ Announced(Whole)
        BY <3>1 DEF Untold, Told, Whole
      <3>3. Untold \subseteq seen
        BY <3>2 DEF LogInv
      <3>4. IsFiniteSet(Untold) /\ Cardinality(Untold) <= Cardinality(seen)
        BY <3>3, FS_Subset DEF LogInv, SeenBound
      <3>5. Cardinality(Untold) \in Nat /\ Cardinality(seen) \in Nat
        BY <3>4, FS_CardinalityType DEF LogInv, SeenBound
      <3>6. LogCapacity * kills \in Nat
        BY ManifestAssumption DEF LogInv, SeenBound
      <3>. QED BY <3>4, <3>5, <3>6 DEF OnlyKillsUntell, LogInv, SeenBound
    <2>2. ASSUME stops = 0
          PROVE  \A i \in DOMAIN (journal \o entries) : (journal \o entries)[i].seq = i - 1
      <3>1. Whole \in Seq(LogEntries)
        BY DEF Whole, LogInv, LogShape
      <3>2. \A i \in DOMAIN Whole : Whole[i].seq = i - 1
        <4> HIDE DEF Whole
        <4>. QED BY <2>2, <3>1 DEF LogInv, Numbered
      <3>. QED BY <3>2 DEF Whole
    <2>. QED BY <2>1, <2>2 DEF JournalIsTrue, JournalHasNoGaps
  <1>. QED BY <1>1, StoreInvHolds, LogInvHolds, PTL

\* load() returns the version that was evicted.
THEOREM LoadHolds == Spec => LoadReturnsWhatWasEvicted
  <1>1. StoreInv /\ [Next]_vars
          => [\A id \in Ids : id \in blue /\ id \in hot' /\ content[id] \notin swallowed
                                => content'[id] = content[id]]_vars
    BY LoadStep
  <1>. QED BY <1>1, StoreInvHolds, PTL DEF Spec, LoadReturnsWhatWasEvicted

-------------------------------------------------------------------------------
(* Every cold tier implements ColdLog *)

Shown == [id \in Ids |-> Visible(id)]
KeptBack == [id \in Ids |-> Hidden(id)]

\* Entries written to storage are the first entries of the log delivered.
LEMMA LogDeliver ==
  ASSUME StoreInv, NEW q \in Seq(Entries), NEW n \in 0 .. Len(q), Deliver(SubSeq(q, 1, n))
  PROVE  Log!Deliver(q, n)
  <1> DEFINE es == SubSeq(q, 1, n)
  <1>1. es \in Seq(Entries)
    BY CutAt DEF CutInto
  <1>2. Log!Written(Shown, es) = Applied(Shown, es)
    BY DEF Log!Written, Applied
  <1>3. Deliver(es)
    OBVIOUS
  <1> HIDE DEF es
  <1>4. storage' = Applied(storage, es) /\ written' = written \union IdsOf(es)
    BY <1>3 DEF Deliver, IdsOf
  <1>5. ASSUME NEW x \in Ids
        PROVE  /\ Visible(x)' = Applied(Shown, es)[x]
               /\ Hidden(x)' = IF x \in IdsOf(es) THEN 0 ELSE Hidden(x)
    <2>1. Visible(x)' = (IF x \in written' THEN storage'[x] ELSE 0)
          /\ Hidden(x)' = (IF x \in written' THEN 0 ELSE storage'[x])
          /\ Visible(x) = (IF x \in written THEN storage[x] ELSE 0)
          /\ Hidden(x) = (IF x \in written THEN 0 ELSE storage[x])
          /\ Shown[x] = Visible(x)
      BY DEF Visible, Hidden, ColdContains, Loaded, Shown
    <2>2. CASE NoneOf(es, x)
      <3>1. x \notin IdsOf(es)
        BY <1>1, <2>2 DEF NoneOf, IdsOf
      <3>2. storage'[x] = storage[x]
        BY <1>1, <1>4, <2>2, AppliedIs
      <3>3. Applied(Shown, es)[x] = Shown[x]
        BY <1>1, <2>2, AppliedIs
      <3>. QED BY <1>4, <2>1, <3>1, <3>2, <3>3
    <2>3. ASSUME NEW i \in 1 .. Len(es), LastOf(es, x, i)
          PROVE  /\ Visible(x)' = Applied(Shown, es)[x]
                 /\ Hidden(x)' = IF x \in IdsOf(es) THEN 0 ELSE Hidden(x)
      <3>1. x \in IdsOf(es)
        BY <1>1, <2>3 DEF LastOf, IdsOf
      <3>2. Applied(storage, es)[x] = es[i].ver
        BY <1>1, <2>3, AppliedLast
      <3>3. Applied(Shown, es)[x] = es[i].ver
        BY <1>1, <2>3, AppliedLast
      <3>. QED BY <1>4, <2>1, <3>1, <3>2, <3>3
    <2>. QED BY <1>1, <2>2, <2>3, LastOrNone, Zenon
  <1>6. Shown' = Log!Written(Shown, es)
    <2>1. Shown' = [id \in Ids |-> Visible(id)']
      BY DEF Shown
    <2>2. Applied(Shown, es) = [id \in Ids |-> Applied(Shown, es)[id]]
      BY DEF Applied
    <2>. QED BY <1>2, <1>5, <2>1, <2>2
  <1>7. KeptBack' = [id \in Ids |-> IF \E i \in DOMAIN es : es[i].id = id THEN 0 ELSE KeptBack[id]]
    <2>1. KeptBack' = [id \in Ids |-> Hidden(id)']
      BY DEF KeptBack
    <2>2. \A id \in Ids : KeptBack[id] = Hidden(id)
      BY DEF KeptBack
    <2>3. \A id \in Ids : id \in IdsOf(es) <=> \E i \in DOMAIN es : es[i].id = id
      BY DEF IdsOf
    <2>. QED BY <1>5, <2>1, <2>2, <2>3
  <1>. QED BY <1>6, <1>7 DEF es, Log!Deliver, Shown, KeptBack

\* A step that changes nothing ColdLog looks at.
LEMMA LogStutter ==
  ASSUME UNCHANGED <<storage, written>>, Buffered' = Buffered
  PROVE  UNCHANGED Log!vars
  BY DEF Log!vars, Visible, Hidden, ColdContains, Loaded

\* What moves on to storage is a prefix of the queue, the rest stays queued.
LEMMA LogMoves ==
  ASSUME StoreInv, NEW q \in Seq(Entries), Moves(q), Buffered' \in Seq(Entries)
  PROVE  \E n \in 0 .. Len(q) : Log!Deliver(q, n) /\ Buffered' = SubSeq(q, n + 1, Len(q))
  <1>1. PICK out \in Seq(Entries) : q = out \o Buffered' /\ Deliver(out)
    BY DEF Moves
  <1>2. /\ Len(out) \in 0 .. Len(q) /\ SubSeq(q, 1, Len(out)) = out
        /\ SubSeq(q, Len(out) + 1, Len(q)) = Buffered'
    <2>1. Halves(q, out, Buffered')
      BY <1>1, CutIs, Zenon
    <2>. QED BY <2>1, Zenon DEF Halves
  <1>3. Deliver(SubSeq(q, 1, Len(out)))
    BY <1>1, <1>2, Zenon
  <1>4. Log!Deliver(q, Len(out))
    BY <1>2, <1>3, LogDeliver
  <1>. QED BY <1>2, <1>4

\* store() is ColdLog's: the entry is queued and a prefix delivered, or refused.
LEMMA LogStore ==
  ASSUME StoreInv, NEW id \in hot, Persist(id)
  PROVE  [Log!Next]_(Log!vars)
  <1> DEFINE e == [id |-> id, ver |-> content[id]]
             full == Append(Buffered, e)
  <1>1. id \in Ids /\ content[id] \in Versions /\ e \in Entries
    BY DEF StoreInv, ManagerShape, Nodes, Entries
  <1>2. ColdStore(e)
    BY DEF Persist
  <1>3. Buffered \in Seq(Entries)
    BY BufferedIs DEF StoreInv
  <1>4. full \in Seq(Entries)
    BY <1>1, <1>3
  <1> HIDE DEF e, full
  <1>5. ColdShape' /\ (Moves(full) \/ Refused(e))
    BY <1>1, <1>2, StoreStep DEF StoreInv, full
  <1>6. Buffered' \in Seq(Entries)
    BY <1>5, BufferedThen
  <1>7. CASE Moves(full)
    <2>1. \E n \in 0 .. Len(full) : Log!Deliver(full, n) /\ Buffered' = SubSeq(full, n + 1, Len(full))
      BY <1>4, <1>6, <1>7, LogMoves
    <2>2. Log!Store(e)
      BY <2>1 DEF Log!Store, full
    <2>3. Log!Next
      BY <1>1, <2>2 DEF Log!Next, e
    <2>. QED BY <2>3
  <1>8. CASE Refused(e)
    <2>1. UNCHANGED <<storage, written>> /\ Buffered' = Buffered
      BY <1>8 DEF Refused
    <2>. QED BY <2>1, LogStutter
  <1>. QED BY <1>5, <1>7, <1>8

\* flush() is ColdLog's: the whole queue is delivered.
LEMMA LogFlushes ==
  ASSUME StoreInv, ColdFlush
  PROVE  Log!Next
  <1>1. Deliver(Buffered) /\ Buffered' = <<>>
    BY FlushStep DEF StoreInv
  <1>2. Buffered \in Seq(Entries)
    BY BufferedIs DEF StoreInv
  <1>3. Len(Buffered) \in 0 .. Len(Buffered) /\ SubSeq(Buffered, 1, Len(Buffered)) = Buffered
    BY <1>2
  <1>4. Deliver(SubSeq(Buffered, 1, Len(Buffered)))
    BY <1>1, <1>3, Zenon
  <1>5. Log!Deliver(Buffered, Len(Buffered))
    BY <1>2, <1>3, <1>4, LogDeliver
  <1>. QED BY <1>1, <1>5 DEF Log!Next, Log!Flush

\* remove() is ColdLog's, whichever storage keeps the removed bytes.
LEMMA LogRemoves ==
  ASSUME StoreInv, NEW S \in SUBSET Ids, ColdRemove(S)
  PROVE  Log!Next
  <1>1. Buffered' = Buffered /\ written' = written \ S
    BY RemoveStep DEF StoreInv, ColdRemove
  <1>2. PICK F \in SUBSET (S \intersect written) :
          storage' = [id \in Ids |-> IF id \in (S \intersect written) \ F THEN 0 ELSE storage[id]]
    BY DEF ColdRemove
  <1>3. \A x \in written : x \in Ids /\ storage[x] # 0
    BY DEF StoreInv, ColdShape
  <1>4. ASSUME NEW x \in Ids
        PROVE  /\ Visible(x)' = IF x \in S THEN 0 ELSE Visible(x)
               /\ Hidden(x)' = IF x \in F /\ Visible(x) # 0 THEN Visible(x) ELSE Hidden(x)
    BY <1>1, <1>2, <1>3 DEF Visible, Hidden, ColdContains, Loaded
  <1>5. Log!Remove(S)
    <2>1. F \in SUBSET S
      OBVIOUS
    <2>2. Shown' = [id \in Ids |-> IF id \in S THEN 0 ELSE Shown[id]]
      BY <1>4 DEF Shown
    <2>3. KeptBack' = [id \in Ids |-> IF id \in F /\ Shown[id] # 0 THEN Shown[id] ELSE KeptBack[id]]
      BY <1>4 DEF Shown, KeptBack
    <2>. QED BY <1>1, <2>1, <2>2, <2>3 DEF Log!Remove, Shown, KeptBack
  <1>. QED BY <1>5 DEF Log!Next

\* A crash or a drop is ColdLog's stop: a prefix of the queue is delivered, the
\* rest is lost, or all of it when storage was memory.
LEMMA LogStops ==
  ASSUME StoreInv, Stops, Buffered' = <<>>
  PROVE  Log!Next
  <1>1. CASE Gone
    <2>1. \A x \in Ids : Visible(x)' = 0 /\ Hidden(x)' = 0
      BY <1>1 DEF Gone, Visible, Hidden, ColdContains, Loaded
    <2>2. Shown' = [id \in Ids |-> 0] /\ KeptBack' = [id \in Ids |-> 0]
      BY <2>1 DEF Shown, KeptBack
    <2>. QED BY <2>2 DEF Log!Next, Log!Stop, Log!None, Shown, KeptBack
  <1>2. CASE \E a, b \in Seq(Entries) : Buffered = a \o b /\ Deliver(a)
    <2>1. PICK a \in Seq(Entries), b \in Seq(Entries) : Buffered = a \o b /\ Deliver(a)
      BY <1>2
    <2>2. /\ Buffered \in Seq(Entries)
          /\ Len(a) \in 0 .. Len(Buffered) /\ SubSeq(Buffered, 1, Len(a)) = a
      <3>1. Buffered \in Seq(Entries) /\ Halves(Buffered, a, b)
        BY <2>1, CutIs, Zenon
      <3>. QED BY <3>1, Zenon DEF Halves
    <2>3. Deliver(SubSeq(Buffered, 1, Len(a)))
      BY <2>1, <2>2, Zenon
    <2>4. Log!Deliver(Buffered, Len(a))
      BY <2>2, <2>3, LogDeliver
    <2>. QED BY <2>2, <2>4 DEF Log!Next, Log!Stop
  <1>. QED BY <1>1, <1>2 DEF Stops

\* Recovery is ColdLog's reopening: bytes that stayed in the files are back.
LEMMA LogReopens ==
  ASSUME StoreInv, Recover
  PROVE  Log!Next
  <1>1. Buffered = <<>> /\ Reopened
    BY DEF Recover, StoreInv, ManagerShape
  <1>2. /\ Buffered' = Buffered /\ UNCHANGED storage
        /\ written' = {id \in Ids : storage[id] # 0}
    BY <1>1, ReopenEffect DEF StoreInv
  <1>3. \A x \in written : x \in Ids /\ storage[x] # 0
    BY DEF StoreInv, ColdShape
  <1>4. ASSUME NEW x \in Ids
        PROVE  /\ Visible(x)' = IF Hidden(x) # 0 THEN Hidden(x) ELSE Visible(x)
               /\ Hidden(x)' = 0
    BY <1>2, <1>3 DEF Visible, Hidden, ColdContains, Loaded
  <1>5. Shown' = [id \in Ids |-> IF KeptBack[id] # 0 THEN KeptBack[id] ELSE Shown[id]]
        /\ KeptBack' = [id \in Ids |-> 0]
    BY <1>4 DEF Shown, KeptBack
  <1>. QED BY <1>1, <1>2, <1>5 DEF Log!Next, Log!Reopen, Log!None, Shown, KeptBack

\* Initial states of the store are initial states of ColdLog.
LEMMA ColdLogStarts ==
  ASSUME Init
  PROVE  Log!Init
  <1>1. Buffered = <<>>
    BY StoreInit DEF StoreInv, ManagerShape, Init
  <1>2. \A x \in Ids : Visible(x) = 0 /\ Hidden(x) = 0
    BY DEF Init, ColdInit, Visible, Hidden, ColdContains, Loaded
  <1>3. Shown = [id \in Ids |-> 0] /\ KeptBack = [id \in Ids |-> 0]
    BY <1>2 DEF Shown, KeptBack
  <1>. QED BY <1>1, <1>3 DEF Log!Init, Log!None, Shown, KeptBack

\* Every step of the store is a step of ColdLog or a stutter.
LEMMA LogStep ==
  ASSUME StoreInv, [Next]_vars
  PROVE  [Log!Next]_(Log!vars)
  <1>1. ASSUME UNCHANGED coldVars
        PROVE  UNCHANGED Log!vars
    <2>1. UNCHANGED <<storage, written>> /\ Buffered' = Buffered
      BY <1>1, ColdUnchanged DEF StoreInv
    <2>. QED BY <2>1, LogStutter
  <1>2. ASSUME NEW id \in Ids, Add(id) \/ EvictFails(id) \/ FlushFails(id) \/ Remove(id)
        PROVE  UNCHANGED coldVars
    BY <1>2 DEF Add, EvictFails, FlushFails, Remove
  <1>3. ASSUME FlushBegins \/ UNCHANGED vars
        PROVE  UNCHANGED coldVars
    BY <1>3 DEF FlushBegins, vars
  <1>4. ASSUME NEW id \in Ids, Evict(id) \/ FlushDirty(id)
        PROVE  [Log!Next]_(Log!vars)
    <2>1. id \in hot /\ Persist(id)
      BY <1>4 DEF Evict, FlushDirty, StoreInv, ManagerShape
    <2>. QED BY <2>1, LogStore
  <1>5. ASSUME FlushEnds \/ \E id \in Ids : Load(id)
        PROVE  Log!Next
    BY <1>5, LogFlushes DEF FlushEnds, Load
  <1>6. ASSUME Compact
        PROVE  Log!Next
    BY <1>6, LogRemoves DEF Compact, StoreInv, ManagerShape
  <1>7. ASSUME Crash
        PROVE  Log!Next
    <2>1. PICK n : Cut(n)
      BY <1>7 DEF Crash
    <2>. QED BY <2>1, CutStep, LogStops DEF StoreInv
  <1>8. ASSUME Drop \/ \E id \in Ids : DropFails(id)
        PROVE  Log!Next
    BY <1>8, DropStep, LogStops DEF Drop, DropFails, StoreInv
  <1>9. ASSUME Recover
        PROVE  Log!Next
    BY <1>9, LogReopens
  <1>. QED BY <1>1, <1>2, <1>3, <1>4, <1>5, <1>6, <1>7, <1>8, <1>9 DEF Next

\* Every cold tier, whatever it buffers, delivers in the order of store(), skips
\* nothing and repeats nothing; a crash loses the latest.
THEOREM LogRefined == Spec => ImplementsLog
  BY ColdLogStarts, LogStep, StoreInvHolds, PTL DEF Spec, ImplementsLog, Log!Spec
==============================================================================
