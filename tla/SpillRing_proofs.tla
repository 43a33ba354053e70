---------------------------- MODULE SpillRing_proofs ----------------------------
(***************************************************************************)
(* Proofs about SpillRing for every capacity, index width and number of    *)
(* items.  The invariant is TypeOK and WindowInOrder together: the types of *)
(* what is sent or returned depend on the window holding items, and the     *)
(* window stays in order because an arrival is younger than all of it.      *)
(* Then the ring as a queue: what each operation does to the sequence of    *)
(* items held, and from that, that items leave in order and are conserved,  *)
(* and that the ring implements SpillQueue.                                 *)
(***************************************************************************)
EXTENDS SpillRing, DataFacts

IInv == TypeOK /\ WindowInOrder

-------------------------------------------------------------------------------
(* Wrapping indices *)

\* The sizes as numbers.
LEMMA Sizes ==
  /\ N \in Nat \ {0} /\ Modulus \in Nat \ {0} /\ N < Modulus /\ Modulus % N = 0
  /\ MaxItems \in Nat /\ Uninit \notin Nat
  BY CapacityAssumption

\* Advancing twice is advancing by the sum, and masking undoes the wrapping.
LEMMA Advance ==
  ASSUME NEW p \in Int, NEW k \in Int, NEW i \in Int
  PROVE  /\ WAdd(p, k) \in 0 .. Modulus - 1
         /\ WAdd(WAdd(p, k), i) = WAdd(p, k + i)
         /\ Index(WAdd(p, i)) = (p + i) % N
  <1>1. p + k \in Int /\ p + i \in Int
    OBVIOUS
  <1>2. WAdd(p, k) \in 0 .. Modulus - 1
    BY <1>1, Sizes, ModRange, Zenon DEF WAdd
  <1>3. WAdd(WAdd(p, k), i) = WAdd(p, k + i)
    <2>1. (((p + k) % Modulus) + i) % Modulus = ((p + k) + i) % Modulus
      BY <1>1, Sizes, ModAdd, Zenon
    <2>2. (p + k) + i = p + (k + i)
      OBVIOUS
    <2>. QED BY <2>1, <2>2, Zenon DEF WAdd
  <1>4. Index(WAdd(p, i)) = (p + i) % N
    BY <1>1, Sizes, ModOfMod, Zenon DEF WAdd, Index
  <1>. QED BY <1>2, <1>3, <1>4

\* An index in the range does not move when advanced by 0.
LEMMA StandStill ==
  ASSUME NEW p \in 0 .. Modulus - 1
  PROVE  WAdd(p, 0) = p
  <1>1. p + 0 = p
    BY Sizes
  <1>. QED BY <1>1, Sizes, ModSmall, Zenon DEF WAdd

\* The number of live slots between two indices, also when they have wrapped.
LEMMA CountIs ==
  ASSUME head \in 0 .. Modulus - 1, tail \in 0 .. Modulus - 1
  PROVE  /\ Count \in 0 .. Modulus - 1
         /\ WAdd(head, Count) = tail
         /\ Index(tail) = (head + Count) % N
         /\ Count = 0 <=> head = tail
  <1>0. tail - head \in Int /\ head \in Int
    BY Sizes
  <1>1. Count \in 0 .. Modulus - 1
    BY <1>0, Sizes, ModRange, Zenon DEF Count, WSub
  <1>2. WAdd(head, Count) = tail
    <2>1. (((tail - head) % Modulus) + head) % Modulus = ((tail - head) + head) % Modulus
      BY <1>0, Sizes, ModAdd, Zenon
    <2>2. (tail - head) + head = tail
      BY Sizes
    <2>3. head + Count = Count + head
      BY <1>0, <1>1, Sizes
    <2>4. tail % Modulus = tail
      BY Sizes, ModSmall, Zenon
    <2>5. Count = (tail - head) % Modulus
      BY DEF Count, WSub
    <2>. QED BY <2>1, <2>2, <2>3, <2>4, <2>5, Zenon DEF WAdd
  <1>3. Index(tail) = (head + Count) % N
    <2>1. Count \in Int
      BY <1>1, Sizes
    <2>. QED BY <1>0, <2>1, <1>2, Advance, Zenon
  <1>4. head = tail => Count = 0
    <2>1. head - head = 0 /\ 0 \in 0 .. Modulus - 1
      BY Sizes
    <2>. QED BY <2>1, Sizes, ModSmall, Zenon DEF Count, WSub
  <1>5. Count = 0 => head = tail
    BY <1>2, StandStill, Zenon
  <1>. QED BY <1>1, <1>2, <1>3, <1>4, <1>5, Zenon

\* The count after k items have left and n have come.
LEMMA CountStep ==
  ASSUME head \in 0 .. Modulus - 1, tail \in 0 .. Modulus - 1,
         NEW k \in Nat, NEW n \in Nat,
         Count - k + n \in 0 .. N
  PROVE  WSub(WAdd(tail, n), WAdd(head, k)) = Count - k + n
  <1> DEFINE a == tail + n
             b == head + k
             c == tail - head
             d == n - k
             am == a % Modulus
  <1>1. a \in Int /\ b \in Int /\ c \in Int /\ d \in Int /\ -b \in Int
    BY Sizes
  <1>2. am \in Int
    <2>1. am \in 0 .. Modulus - 1
      BY <1>1, Sizes, ModRange, Zenon
    <2>. QED BY <2>1, Sizes
  <1>3. (am - (b % Modulus)) % Modulus = (am - b) % Modulus
    <2> HIDE DEF a, b, am
    <2>. QED BY <1>1, <1>2, Sizes, ModSub, Zenon
  <1>4. ((a % Modulus) + (-b)) % Modulus = (a + (-b)) % Modulus
    <2> HIDE DEF a, b, am
    <2>. QED BY <1>1, Sizes, ModAdd, Zenon
  <1>5. ((c % Modulus) + d) % Modulus = (c + d) % Modulus
    <2> HIDE DEF c, d
    <2>. QED BY <1>1, Sizes, ModAdd, Zenon
  <1>6. am + (-b) = am - b
    <2> HIDE DEF am, b
    <2>. QED BY <1>1, <1>2
  <1>7. a + (-b) = c + d
    BY Sizes
  <1>8. Count = c % Modulus /\ Count \in Int
    BY CountIs, Sizes DEF Count, WSub
  <1>9. Count + d = Count - k + n
    BY <1>8
  <1>10. (Count - k + n) % Modulus = Count - k + n
    <2>1. Count - k + n \in 0 .. Modulus - 1
      BY Sizes
    <2>. QED BY <2>1, Sizes, ModSmall, Zenon
  <1>11. WSub(WAdd(tail, n), WAdd(head, k)) = (am - (b % Modulus)) % Modulus
    BY DEF WSub, WAdd
  <1>. HIDE DEF a, b, c, d
  <1>. QED BY <1>3, <1>4, <1>5, <1>6, <1>7, <1>8, <1>9, <1>10, <1>11, Zenon

\* Positions less than a buffer's length apart are different slots.
LEMMA PositionsDiffer ==
  ASSUME NEW p \in Int, NEW i \in Int, NEW j \in Int,
         i < j, j - i < N
  PROVE  (p + i) % N # (p + j) % N
  <1> DEFINE x == p + i
             y == p + j
             z == -x
  <1>1. x \in Int /\ y \in Int /\ z \in Int
    OBVIOUS
  <1>2. ((x % N) + z) % N = (x + z) % N /\ ((y % N) + z) % N = (y + z) % N
    <2> HIDE DEF x, y, z
    <2>. QED BY <1>1, Sizes, ModAdd, Zenon
  <1>3. x + z = 0 /\ y + z = j - i
    OBVIOUS
  <1>4. 0 \in 0 .. N - 1 /\ j - i \in 0 .. N - 1
    BY Sizes
  <1>5. 0 % N = 0 /\ (j - i) % N = j - i
    BY <1>4, Sizes, ModSmall, Zenon
  <1>6. 0 # j - i
    OBVIOUS
  <1>. QED BY <1>2, <1>3, <1>5, <1>6, Zenon

\* A position is found by adding to the remainder and stepping back, or forward,
\* by a buffer's length if that leaves the buffer: the two segments of a copy.
LEMMA Segments ==
  ASSUME NEW p \in Int, NEW j \in Int, -N <= j, j < N,
         NEW at, at = p % N
  PROVE  /\ at \in 0 .. N - 1
         /\ at + j >= N => (p + j) % N = at + j - N
         /\ at + j < 0 => (p + j) % N = at + j + N
         /\ at + j \in 0 .. N - 1 => (p + j) % N = at + j
  <1>1. at \in 0 .. N - 1
    BY Sizes, ModRange, Zenon
  <1>2. at + j \in Int
    BY <1>1, Sizes
  <1>3. (at + j) % N = (p + j) % N
    BY Sizes, ModAdd, Zenon
  <1>4. ASSUME at + j >= N
        PROVE  (at + j) % N = at + j - N
    <2> DEFINE x == at + j
               r == at + j - N
    <2>1. x = N * 1 + r /\ r \in 0 .. N - 1 /\ x \in Int
      BY <1>2, <1>1, <1>4, Sizes
    <2>2. 1 \in Int
      OBVIOUS
    <2> HIDE DEF x, r
    <2>3. x % N = r
      BY <2>1, <2>2, Sizes, ModIs, Zenon
    <2>. QED BY <2>3, Zenon DEF x, r
  <1>5. ASSUME at + j < 0
        PROVE  (at + j) % N = at + j + N
    <2> DEFINE x == at + j
               r == at + j + N
    <2>1. x = N * (-1) + r /\ r \in 0 .. N - 1 /\ x \in Int
      BY <1>2, <1>1, <1>5, Sizes
    <2>2. -1 \in Int
      OBVIOUS
    <2> HIDE DEF x, r
    <2>3. x % N = r
      BY <2>1, <2>2, Sizes, ModIs, Zenon
    <2>. QED BY <2>3, Zenon DEF x, r
  <1>6. ASSUME at + j \in 0 .. N - 1
        PROVE  (at + j) % N = at + j
    BY <1>6, Sizes, ModSmall, Zenon
  <1>. QED BY <1>1, <1>3, <1>4, <1>5, <1>6

-------------------------------------------------------------------------------
(* How the window moves *)

\* Element i of the window is i slots after its first, modulo the buffer.
LEMMA ElementSlot ==
  ASSUME head \in 0 .. Modulus - 1, NEW i \in Int
  PROVE  At(i) = slots[(head + i) % N]
  <1>1. head \in Int
    BY Sizes
  <1>. QED BY <1>1, Advance, Zenon DEF At

\* k items leave the window and n enter it: where the others are found then.
LEMMA WindowMove ==
  ASSUME IInv, NEW k \in 0 .. Count, NEW n \in 0 .. N, Count - k + n <= N,
         head' = WAdd(head, k), tail' = WAdd(tail, n),
         \A i \in k .. Count - 1 :
           slots'[(head + i) % N] = slots[(head + i) % N],
         \A j \in 0 .. n - 1 :
           slots'[(head + (Count + j)) % N] = offered' - n + 1 + j
  PROVE  /\ Count' = Count - k + n
         /\ \A i \in 0 .. Count' - 1 :
              /\ i < Count - k => At(i)' = At(k + i)
              /\ ~(i < Count - k) => At(i)' = offered' - n + 1 + (i - (Count - k))
  <1>1. /\ head \in 0 .. Modulus - 1 /\ tail \in 0 .. Modulus - 1
        /\ head \in Int /\ tail \in Int
        /\ Count \in Nat /\ Count <= N /\ k \in Nat /\ n \in Nat
    BY CountIs, Sizes DEF IInv, TypeOK, WindowInOrder
  <1>2. Count' = Count - k + n
    <2>1. Count - k + n \in 0 .. N
      BY <1>1, Sizes
    <2>. QED BY <1>1, <2>1, CountStep, Zenon DEF Count
  <1>3. ASSUME NEW i \in Int
        PROVE  At(i)' = slots'[(head + (k + i)) % N]
    <2>1. head \in Int /\ k \in Int /\ k + i \in Int
      BY <1>1
    <2>2. At(i)' = slots'[Index(WAdd(WAdd(head, k), i))]
      BY DEF At
    <2>3. WAdd(WAdd(head, k), i) = WAdd(head, k + i)
      BY <2>1, Advance, Zenon
    <2>4. Index(WAdd(head, k + i)) = (head + (k + i)) % N
      BY <2>1, Advance, Zenon
    <2>. QED BY <2>2, <2>3, <2>4, Zenon
  <1>4. ASSUME NEW i \in 0 .. Count' - 1, i < Count - k
        PROVE  At(i)' = At(k + i)
    <2>1. i \in Int /\ k + i \in Int /\ k + i \in k .. Count - 1
      BY <1>1, <1>2, <1>4
    <2>. QED BY <2>1, <1>1, <1>3, ElementSlot, Zenon
  <1>5. ASSUME NEW i \in 0 .. Count' - 1, ~(i < Count - k)
        PROVE  At(i)' = offered' - n + 1 + (i - (Count - k))
    <2>1. /\ i \in Int /\ i - (Count - k) \in 0 .. n - 1
          /\ k + i = Count + (i - (Count - k))
      BY <1>1, <1>2, <1>5
    <2>. QED BY <2>1, <1>3, Zenon
  <1>. QED BY <1>2, <1>4, <1>5

\* k items leave the window and the last n of the items handed over enter it:
\* whatever else the operation does, the window stays in order.
LEMMA WindowStep ==
  ASSUME IInv, NEW k \in 0 .. Count, NEW n \in 0 .. N, Count - k + n <= N,
         head' = WAdd(head, k), tail' = WAdd(tail, n),
         offered' \in Nat, offered + n <= offered',
         \A i \in k .. Count - 1 :
           slots'[(head + i) % N] = slots[(head + i) % N],
         \A j \in 0 .. n - 1 :
           slots'[(head + (Count + j)) % N] = offered' - n + 1 + j
  PROVE  WindowInOrder'
  <1>1. /\ offered \in Nat
        /\ Count \in Nat /\ Count <= N /\ k \in Nat /\ n \in Nat
    BY CountIs, Sizes DEF IInv, TypeOK, WindowInOrder
  <1>2. Count' = Count - k + n
    BY WindowMove, Zenon
  <1>3. \A i \in 0 .. Count' - 1 :
          /\ i < Count - k => At(i)' = At(k + i)
          /\ ~(i < Count - k) => At(i)' = offered' - n + 1 + (i - (Count - k))
    BY WindowMove, Zenon
  <1>4. ASSUME NEW i \in 0 .. Count' - 1, i < Count - k
        PROVE  At(i)' = At(k + i)
    BY <1>3, <1>4, Zenon
  <1>5. ASSUME NEW i \in 0 .. Count' - 1, ~(i < Count - k)
        PROVE  At(i)' = offered' - n + 1 + (i - (Count - k))
    BY <1>3, <1>5, Zenon
  <1>6. (Count <= N)'
    BY <1>1, <1>2
  <1>7. ASSUME NEW i \in 0 .. Count' - 1
        PROVE  At(i)' \in 1 .. offered'
    <2>1. CASE i < Count - k
      <3>1. k + i \in 0 .. Count - 1
        BY <1>1, <1>2, <2>1
      <3>2. At(k + i) \in 1 .. offered
        BY <3>1 DEF IInv, WindowInOrder
      <3>. QED BY <1>1, <1>4, <2>1, <3>2
    <2>2. CASE ~(i < Count - k)
      BY <1>1, <1>2, <1>5, <2>2
    <2>. QED BY <2>1, <2>2
  <1>8. ASSUME NEW i \in 0 .. Count' - 1, NEW j \in 0 .. Count' - 1, i < j
        PROVE  At(i)' < At(j)'
    <2>1. CASE j < Count - k
      <3>1. /\ k + i \in 0 .. Count - 1 /\ k + j \in 0 .. Count - 1
            /\ k + i < k + j /\ i < Count - k
        BY <1>1, <1>2, <1>8, <2>1
      <3>2. At(k + i) < At(k + j)
        BY <3>1 DEF IInv, WindowInOrder
      <3>3. At(i)' = At(k + i) /\ At(j)' = At(k + j)
        BY <1>4, <2>1, <3>1
      <3>. QED BY <3>2, <3>3, Zenon
    <2>2. CASE i < Count - k /\ ~(j < Count - k)
      <3>1. k + i \in 0 .. Count - 1
        BY <1>1, <1>2, <2>2
      <3>2. At(k + i) \in 1 .. offered
        BY <3>1 DEF IInv, WindowInOrder
      <3>3. At(i)' = At(k + i) /\ At(j)' = offered' - n + 1 + (j - (Count - k))
        BY <1>4, <1>5, <2>2
      <3>. QED BY <1>1, <1>2, <2>2, <3>2, <3>3
    <2>3. CASE ~(i < Count - k)
      <3>1. ~(j < Count - k)
        BY <1>1, <1>2, <1>8, <2>3
      <3>2. /\ At(i)' = offered' - n + 1 + (i - (Count - k))
            /\ At(j)' = offered' - n + 1 + (j - (Count - k))
        BY <1>5, <2>3, <3>1
      <3>3. offered' - n + 1 + (i - (Count - k)) < offered' - n + 1 + (j - (Count - k))
        <4> DEFINE a == offered' - n + 1
                   b == Count - k
        <4>1. a \in Int /\ b \in Int /\ i \in Int /\ j \in Int /\ i < j
          BY <1>1, <1>2, <1>8
        <4> HIDE DEF a, b
        <4>2. a + (i - b) < a + (j - b)
          BY <4>1
        <4>. QED BY <4>2 DEF a, b
      <3>. QED BY <3>2, <3>3, Zenon
    <2>. QED BY <2>1, <2>2, <2>3
  <1>. QED BY <1>6, <1>7, <1>8 DEF WindowInOrder

\* Some of the oldest items leave the window, nothing is stored.
LEMMA LeaveStep ==
  ASSUME IInv, NEW k \in 0 .. Count, head' = WAdd(head, k),
         tail' = tail, slots' = slots, offered' \in Nat, offered <= offered'
  PROVE  WindowInOrder' /\ head' \in 0 .. Modulus - 1
  <1>1. /\ head \in 0 .. Modulus - 1 /\ tail \in 0 .. Modulus - 1
        /\ Count \in Nat /\ Count <= N /\ offered \in Nat
    BY CountIs, Sizes DEF IInv, TypeOK, WindowInOrder
  <1>2. tail' = WAdd(tail, 0)
    BY <1>1, StandStill, Zenon
  <1>3. 0 \in 0 .. N /\ Count - k + 0 <= N /\ offered + 0 <= offered'
    BY <1>1, Sizes
  <1>4. \A i \in k .. Count - 1 :
          slots'[(head + i) % N] = slots[(head + i) % N]
    OBVIOUS
  <1>5. \A j \in 0 .. 0 - 1 :
          slots'[(head + (Count + j)) % N] = offered' - 0 + 1 + j
    OBVIOUS
  <1>6. WindowInOrder'
    BY <1>2, <1>3, <1>4, <1>5, WindowStep, Zenon
  <1>7. head \in Int /\ k \in Int
    BY <1>1, Sizes
  <1>. QED BY <1>6, <1>7, Advance, Zenon

\* Storing one item writes the slot after the window and no slot of the window.
LEMMA StoredSlots ==
  ASSUME IInv, NEW k \in 0 .. Count, Count - k + 1 <= N, Store(offered + 1)
  PROVE  /\ slots' = [slots EXCEPT ![(head + Count) % N] = offered + 1]
         /\ (head + Count) % N \in Slot
         /\ \A i \in k .. Count - 1 :
              slots'[(head + i) % N] = slots[(head + i) % N]
         /\ \A j \in 0 .. 1 - 1 :
              slots'[(head + (Count + j)) % N] = offered' - 1 + 1 + j
  <1>1. /\ head \in 0 .. Modulus - 1 /\ tail \in 0 .. Modulus - 1
        /\ Count \in Nat /\ Count <= N /\ offered \in Nat
        /\ slots \in [Slot -> Item \union {Uninit}]
        /\ head \in Int /\ tail \in Int /\ k \in Int /\ 1 \in Int
    BY CountIs, Sizes DEF IInv, TypeOK, WindowInOrder
  <1>2. Index(tail) = (head + Count) % N /\ (head + Count) % N \in Slot
    <2>1. head + Count \in Int
      BY <1>1
    <2>. QED BY <1>1, <2>1, CountIs, ModRange, Sizes, Zenon DEF Slot
  <1>3. slots' = [slots EXCEPT ![(head + Count) % N] = offered + 1]
    BY <1>2 DEF Store
  <1>4. offered' = offered + 1
    BY DEF Store
  <1>5. ASSUME NEW i \in k .. Count - 1
        PROVE  slots'[(head + i) % N] = slots[(head + i) % N]
    <2>1. i \in Int /\ i < Count /\ Count - i < N /\ Count \in Int /\ head + i \in Int
      BY <1>1, Sizes
    <2>2. (head + i) % N # (head + Count) % N
      BY <1>1, <2>1, PositionsDiffer, Zenon
    <2>3. (head + i) % N \in Slot
      BY <2>1, ModRange, Sizes, Zenon DEF Slot
    <2>. QED BY <1>1, <1>3, <2>2, <2>3, Zenon
  <1>6. ASSUME NEW j \in 0 .. 1 - 1
        PROVE  slots'[(head + (Count + j)) % N] = offered' - 1 + 1 + j
    <2>1. j = 0 /\ Count + j = Count /\ offered' - 1 + 1 + j = offered + 1
      BY <1>1, <1>4
    <2>2. slots'[(head + Count) % N] = offered + 1
      BY <1>1, <1>2, <1>3, Zenon
    <2>. QED BY <2>1, <2>2, Zenon
  <1>. QED BY <1>2, <1>3, <1>5, <1>6

\* One item is stored, after k of the oldest have made room.
LEMMA StoreStep ==
  ASSUME IInv, NEW k \in 0 .. Count, Count - k + 1 <= N, head' = WAdd(head, k),
         Store(offered + 1), offered < MaxItems
  PROVE  /\ WindowInOrder'
         /\ head' \in 0 .. Modulus - 1
         /\ tail' \in 0 .. Modulus - 1
         /\ slots' \in [Slot -> Item \union {Uninit}]
         /\ offered' \in 0 .. MaxItems
  <1>1. /\ head \in 0 .. Modulus - 1 /\ tail \in 0 .. Modulus - 1
        /\ Count \in Nat /\ Count <= N /\ offered \in Nat
        /\ slots \in [Slot -> Item \union {Uninit}]
        /\ head \in Int /\ tail \in Int /\ k \in Int /\ 1 \in Int
    BY CountIs, Sizes DEF IInv, TypeOK, WindowInOrder
  <1>2. offered' = offered + 1 /\ offered + 1 \in Item
    BY <1>1, Sizes DEF Store, Item
  <1>3. 1 \in 0 .. N /\ offered' \in Nat /\ offered + 1 <= offered'
    BY <1>1, <1>2, Sizes
  <1>4. WindowInOrder'
    <2>1. tail' = WAdd(tail, 1)
      BY DEF Store
    <2>. QED BY <1>3, <2>1, StoredSlots, WindowStep, Zenon
  <1>5. head' \in 0 .. Modulus - 1 /\ tail' \in 0 .. Modulus - 1
    BY <1>1, Advance, Zenon DEF Store
  <1>6. slots' \in [Slot -> Item \union {Uninit}]
    BY <1>1, <1>2, StoredSlots, Zenon
  <1>. QED BY <1>1, <1>2, <1>4, <1>5, <1>6, Sizes

\* The two segments of push_slice's copy: item j of those kept goes to the slot
\* j places after tail, and the items that stay in the window are untouched.
LEMMA Copy ==
  ASSUME IInv, NEW c \in 0 .. N, NEW first \in Int, NEW k \in 0 .. Count,
         Count - k + c <= N
  PROVE  /\ \A j \in 0 .. c - 1 :
              CopyIn(c, first)[(head + (Count + j)) % N] = first + j
         /\ \A i \in k .. Count - 1 :
              CopyIn(c, first)[(head + i) % N] = slots[(head + i) % N]
  <1> DEFINE at == Index(tail)
  <1>1. /\ head \in 0 .. Modulus - 1 /\ tail \in 0 .. Modulus - 1
        /\ Count \in Nat /\ Count <= N /\ head + Count \in Int /\ head \in Int
    BY CountIs, Sizes DEF IInv, TypeOK, WindowInOrder
  <1>2. at = (head + Count) % N
    BY <1>1, CountIs, Zenon
  <1>3. at \in 0 .. N - 1
    BY <1>1, <1>2, Sizes, ModRange, Zenon
  <1>4. ASSUME NEW d \in Int, -N <= d, d < N
        PROVE  /\ at + d >= N => ((head + Count) + d) % N = at + d - N
               /\ at + d < 0 => ((head + Count) + d) % N = at + d + N
               /\ at + d \in 0 .. N - 1 => ((head + Count) + d) % N = at + d
    <2> DEFINE p == head + Count
    <2>1. p \in Int /\ at = p % N
      BY <1>1, <1>2
    <2> HIDE DEF at, p
    <2>2. d \in Int /\ -N <= d /\ d < N
      BY <1>4
    <2>3. at + d >= N => (p + d) % N = at + d - N
      BY ONLY <2>1, <2>2, Segments, ZenonT(30)
    <2>4. at + d < 0 => (p + d) % N = at + d + N
      BY ONLY <2>1, <2>2, Segments, ZenonT(30)
    <2>5. at + d \in 0 .. N - 1 => (p + d) % N = at + d
      BY ONLY <2>1, <2>2, Segments, ZenonT(30)
    <2>. QED BY <2>3, <2>4, <2>5, Zenon DEF p
  <1>5. ASSUME NEW s \in Slot
        PROVE  CopyIn(c, first)[s] =
                 CASE s >= at /\ s < at + c -> first + (s - at)
                   [] s < c - (N - at)      -> first + (N - at) + s
                   [] OTHER                 -> slots[s]
    BY DEF CopyIn
  <1> HIDE DEF at
  <1>6. ASSUME NEW j \in 0 .. c - 1
        PROVE  CopyIn(c, first)[(head + (Count + j)) % N] = first + j
    <2>1. head + (Count + j) = (head + Count) + j /\ j \in Int /\ -N <= j /\ j < N
      BY <1>1, Sizes
    <2>2. CASE at + j >= N
      <3>1. ((head + Count) + j) % N = at + j - N
        BY <1>4, <2>1, <2>2
      <3>2. at + j - N \in Slot
        BY <1>3, <2>1, <2>2, Sizes DEF Slot
      <3>3. CopyIn(c, first)[at + j - N] = first + j
        BY <1>3, <1>5, <2>1, <2>2, <3>2, Sizes
      <3>. QED BY <2>1, <3>1, <3>3, Zenon
    <2>3. CASE at + j < N
      <3>1. at + j \in Slot
        BY <1>3, <2>1, <2>3, Sizes DEF Slot
      <3>2. ((head + Count) + j) % N = at + j
        BY <1>4, <2>1, <3>1 DEF Slot
      <3>3. CopyIn(c, first)[at + j] = first + j
        BY <1>3, <1>5, <2>1, <2>3, <3>1, Sizes
      <3>. QED BY <2>1, <3>2, <3>3, Zenon
    <2>. QED BY <1>3, <2>1, <2>2, <2>3, Sizes
  <1>7. ASSUME NEW i \in k .. Count - 1
        PROVE  CopyIn(c, first)[(head + i) % N] = slots[(head + i) % N]
    <2> DEFINE d == i - Count
    <2>1. /\ head + i = (head + Count) + d /\ d \in Int /\ -N <= d /\ d < N
          /\ d < 0 /\ d >= c - N
      BY <1>1, Sizes
    <2> HIDE DEF d
    <2>2. CASE at + d < 0
      <3>1. ((head + Count) + d) % N = at + d + N
        BY <1>4, <2>1, <2>2
      <3>2. at + d + N \in Slot
        BY <1>3, <2>1, <2>2, Sizes DEF Slot
      <3>3. CopyIn(c, first)[at + d + N] = slots[at + d + N]
        BY <1>3, <1>5, <2>1, <2>2, <3>2, Sizes
      <3>. QED BY <2>1, <3>1, <3>3, Zenon
    <2>3. CASE at + d >= 0
      <3>1. at + d \in Slot
        BY <1>3, <2>1, <2>3, Sizes DEF Slot
      <3>2. ((head + Count) + d) % N = at + d
        BY <1>4, <2>1, <3>1 DEF Slot
      <3>3. CopyIn(c, first)[at + d] = slots[at + d]
        BY <1>3, <1>5, <2>1, <2>3, <3>1, Sizes
      <3>. QED BY <2>1, <3>2, <3>3, Zenon
    <2>. QED BY <1>3, <2>1, <2>2, <2>3, Sizes
  <1>. QED BY <1>6, <1>7

\* The k oldest items are items, so sending them keeps the spout's record typed.
LEMMA OldestType ==
  ASSUME IInv, NEW k \in 0 .. Count
  PROVE  Oldest(k) \in Seq(Item)
  <1>1. Count \in Nat /\ offered \in 0 .. MaxItems
    BY CountIs, Sizes DEF IInv, TypeOK
  <1>2. ASSUME NEW i \in 1 .. k
        PROVE  At(i - 1) \in Item
    <2>1. i - 1 \in 0 .. Count - 1
      BY <1>1
    <2>2. At(i - 1) \in 1 .. offered
      BY <2>1 DEF IInv, WindowInOrder
    <2>. QED BY <1>1, <2>2, Sizes DEF Item
  <1>3. k \in Nat
    BY <1>1
  <1>4. Oldest(k) \in [1 .. k -> Item]
    BY <1>2 DEF Oldest
  <1>. QED BY <1>3, <1>4

\* What pop_slice reads in two segments is the oldest items in order.
LEMMA PopSliceReads ==
  ASSUME IInv, NEW c \in 0 .. Count
  PROVE  [i \in 1 .. c |->
            IF i <= N - Index(head) THEN slots[Index(head) + i - 1]
                                    ELSE slots[i - (N - Index(head)) - 1]]
           = Oldest(c)
  <1> DEFINE at == Index(head)
  <1>1. /\ head \in 0 .. Modulus - 1 /\ head \in Int
        /\ Count \in Nat /\ Count <= N
    BY CountIs, Sizes DEF IInv, TypeOK, WindowInOrder
  <1>2. at = head % N /\ at \in 0 .. N - 1
    BY <1>1, Sizes, ModRange, Zenon DEF Index
  <1>3. ASSUME NEW i \in 1 .. c
        PROVE  (IF i <= N - at THEN slots[at + i - 1] ELSE slots[i - (N - at) - 1])
                 = At(i - 1)
    <2> DEFINE j == i - 1
    <2>1. j \in Int /\ -N <= j /\ j < N /\ 0 <= j
      BY <1>1, Sizes
    <2>2. At(j) = slots[(head + j) % N]
      BY <1>1, <2>1, ElementSlot, Zenon
    <2>3. /\ at + j >= N => (head + j) % N = at + j - N
          /\ at + j \in 0 .. N - 1 => (head + j) % N = at + j
      <3> HIDE DEF at, j
      <3>. QED BY <1>1, <1>2, <2>1, Segments, Zenon
    <2> HIDE DEF at
    <2>4. CASE i <= N - at
      <3>1. at + j \in 0 .. N - 1 /\ at + i - 1 = at + j
        BY <1>2, <2>1, <2>4, Sizes
      <3>. QED BY <2>2, <2>3, <2>4, <3>1, Zenon
    <2>5. CASE ~(i <= N - at)
      <3>1. at + j >= N /\ i - (N - at) - 1 = at + j - N
        BY <1>2, <2>1, <2>5, Sizes
      <3>. QED BY <2>2, <2>3, <2>5, <3>1, Zenon
    <2>. QED BY <2>4, <2>5
  <1>. QED BY <1>3, Zenon DEF Oldest

\* What push_slice keeps and what it displaces fit together.
LEMMA SliceSizes ==
  ASSUME IInv, NEW n \in Nat
  PROVE  /\ Keep(n) \in 0 .. N
         /\ Excess(n) \in 0 .. n
         /\ Keep(n) + Excess(n) = n
         /\ Displaced(n) \in 0 .. Count
         /\ Count - Displaced(n) + Keep(n) <= N
  <1>1. Count \in Nat /\ Count <= N
    BY CountIs, Sizes DEF IInv, TypeOK, WindowInOrder
  <1>. QED BY <1>1, Sizes DEF Keep, Excess, Displaced, Room

\* After push_slice the kept items follow what stays of the window.
LEMMA SliceSlots ==
  ASSUME IInv, NEW n \in Nat, PushSlice(n)
  PROVE  /\ \A j \in 0 .. Keep(n) - 1 :
              slots'[(head + (Count + j)) % N] = offered' - Keep(n) + 1 + j
         /\ \A i \in Displaced(n) .. Count - 1 :
              slots'[(head + i) % N] = slots[(head + i) % N]
  <1> DEFINE c == Keep(n)
             k == Displaced(n)
             e == Excess(n)
             first == offered + e + 1
  <1>1. /\ c \in 0 .. N /\ e \in 0 .. n /\ c + e = n
        /\ k \in 0 .. Count /\ Count - k + c <= N
    BY SliceSizes, Zenon
  <1>2. slots' = CopyIn(c, first) /\ offered' = offered + n
    BY DEF PushSlice
  <1>3. first \in Int /\ \A j \in 0 .. c - 1 : first + j = offered' - c + 1 + j
    <2>1. offered \in Nat /\ c \in Nat /\ e \in Nat
      BY <1>1, Sizes DEF IInv, TypeOK
    <2> HIDE DEF c, e
    <2>. QED BY <1>1, <1>2, <2>1
  <1>. HIDE DEF c, k, first
  <1>4. /\ \A j \in 0 .. c - 1 : slots'[(head + (Count + j)) % N] = first + j
        /\ \A i \in k .. Count - 1 : slots'[(head + i) % N] = slots[(head + i) % N]
    BY <1>1, <1>2, <1>3, Copy, Zenon
  <1>. QED BY <1>3, <1>4, Zenon DEF c, k

\* What push_slice sends is items, too.
LEMMA SentType ==
  ASSUME IInv, NEW n \in Nat, offered + n <= MaxItems
  PROVE  SentBySlice(n) \in Seq(Item)
  <1>1. Oldest(Displaced(n)) \in Seq(Item)
    BY SliceSizes, OldestType, Zenon
  <1>2. offered \in Nat /\ Excess(n) \in 0 .. n
    <2>1. offered \in Nat
      BY Sizes DEF IInv, TypeOK
    <2>. QED BY <2>1, SliceSizes, Zenon
  <1>3. ExcessItems(n) \in [1 .. Excess(n) -> Item]
    BY <1>2, Sizes DEF ExcessItems, Item
  <1>4. ExcessItems(n) \in Seq(Item)
    BY <1>2, <1>3
  <1>. QED BY <1>1, <1>4 DEF SentBySlice

-------------------------------------------------------------------------------
(* The invariant *)

\* The empty ring of cold() satisfies the invariant.
LEMMA InitInv == Init => IInv
  <1> SUFFICES ASSUME Init
               PROVE  IInv
    OBVIOUS
  <1>1. head = 0 /\ tail = 0 /\ 0 \in 0 .. Modulus - 1
    BY Sizes DEF Init
  <1>2. Count = 0
    BY <1>1, CountIs, Zenon
  <1>3. TypeOK
    BY <1>1, Sizes DEF Init, TypeOK
  <1>4. WindowInOrder
    BY <1>2, Sizes DEF WindowInOrder
  <1>. QED BY <1>3, <1>4 DEF IInv

\* Every operation preserves it: each moves the window by a step of WindowMove.
LEMMA NextInv == IInv /\ [Next]_vars => IInv'
  <1> SUFFICES ASSUME IInv, [Next]_vars
               PROVE  IInv'
    OBVIOUS
  <1>1. /\ head \in 0 .. Modulus - 1 /\ tail \in 0 .. Modulus - 1
        /\ slots \in [Slot -> Item \union {Uninit}]
        /\ alive \in BOOLEAN /\ offered \in 0 .. MaxItems
        /\ spilled \in Seq(Item) /\ taken \in Seq(Item)
        /\ lost \in SUBSET Item /\ replayable \in SUBSET Item
        /\ Count \in Nat /\ Count <= N /\ offered \in Nat
    BY CountIs, Sizes DEF IInv, TypeOK, WindowInOrder
  <1>2. head = WAdd(head, 0)
    BY <1>1, StandStill, Zenon
  <1>3. ASSUME NEW k \in 0 .. Count
        PROVE  spilled \o Oldest(k) \in Seq(Item)
    BY <1>1, OldestType
  <1>4. \A i \in 0 .. Count - 1 : At(i) \in Item
    BY <1>1, Sizes DEF IInv, WindowInOrder, Item
  <1>5. CASE PushRoom
    <2>1. 0 \in 0 .. Count /\ Count - 0 + 1 <= N
      BY <1>1, <1>5, Sizes DEF PushRoom
    <2>2. head' = WAdd(head, 0) /\ Store(offered + 1) /\ offered < MaxItems
      BY <1>2, <1>5 DEF PushRoom
    <2>3. /\ WindowInOrder' /\ head' \in 0 .. Modulus - 1
          /\ tail' \in 0 .. Modulus - 1
          /\ slots' \in [Slot -> Item \union {Uninit}] /\ offered' \in 0 .. MaxItems
      BY <2>1, <2>2, StoreStep, Zenon
    <2>. QED BY <1>1, <1>5, <2>3 DEF PushRoom, history, IInv, TypeOK
  <1>6. CASE PushEvict
    <2>1. 1 \in 0 .. Count /\ Count - 1 + 1 <= N
      BY <1>1, <1>6, Sizes DEF PushEvict
    <2>2. head' = WAdd(head, 1) /\ Store(offered + 1) /\ offered < MaxItems
      BY <1>6 DEF PushEvict, Evict
    <2>3. /\ WindowInOrder' /\ head' \in 0 .. Modulus - 1
          /\ tail' \in 0 .. Modulus - 1
          /\ slots' \in [Slot -> Item \union {Uninit}] /\ offered' \in 0 .. MaxItems
      BY <2>1, <2>2, StoreStep, Zenon
    <2>4. spilled' \in Seq(Item)
      BY <1>3, <1>6, <2>1 DEF PushEvict, Evict
    <2>. QED BY <1>1, <1>6, <2>3, <2>4 DEF PushEvict, history, IInv, TypeOK
  <1>7. CASE PushPanic
    <2>1. 1 \in 0 .. Count /\ offered' \in Nat /\ offered <= offered'
          /\ offered' \in 0 .. MaxItems /\ offered + 1 \in Item
      BY <1>1, <1>7, Sizes DEF PushPanic, Item
    <2>2. head' = WAdd(head, 1) /\ tail' = tail /\ slots' = slots
      BY <1>7 DEF PushPanic, Evict
    <2>3. WindowInOrder' /\ head' \in 0 .. Modulus - 1
      BY <2>1, <2>2, LeaveStep, Zenon
    <2>4. spilled' \in Seq(Item)
      BY <1>3, <1>7, <2>1 DEF PushPanic, Evict
    <2>5. lost' \in SUBSET Item
      BY <1>1, <1>7, <2>1 DEF PushPanic
    <2>. QED BY <1>1, <1>7, <2>1, <2>2, <2>3, <2>4, <2>5 DEF PushPanic, IInv, TypeOK
  <1>8. CASE TryPush
    <2>1. 0 \in 0 .. Count /\ Count - 0 + 1 <= N
      BY <1>1, <1>8, Sizes DEF TryPush
    <2>2. head' = WAdd(head, 0) /\ Store(offered + 1) /\ offered < MaxItems
      BY <1>2, <1>8 DEF TryPush
    <2>3. /\ WindowInOrder' /\ head' \in 0 .. Modulus - 1
          /\ tail' \in 0 .. Modulus - 1
          /\ slots' \in [Slot -> Item \union {Uninit}] /\ offered' \in 0 .. MaxItems
      BY <2>1, <2>2, StoreStep, Zenon
    <2>. QED BY <1>1, <1>8, <2>3 DEF TryPush, history, IInv, TypeOK
  <1>9. ASSUME NEW n \in 1 .. MaxItems, PushSlice(n)
        PROVE  IInv'
    <2> DEFINE c == Keep(n)
               k == Displaced(n)
               first == offered + Excess(n) + 1
    <2>1. n \in Nat
      OBVIOUS
    <2>2. /\ c \in 0 .. N /\ Excess(n) \in 0 .. n /\ c + Excess(n) = n
          /\ k \in 0 .. Count /\ Count - k + c <= N
      BY <2>1, SliceSizes, Zenon
    <2>3. /\ slots' = CopyIn(c, first) /\ head' = WAdd(head, k)
          /\ tail' = WAdd(tail, c) /\ offered' = offered + n /\ offered + n <= MaxItems
          /\ spilled' = spilled \o SentBySlice(n)
          /\ UNCHANGED <<alive, taken, lost, replayable>>
      BY <1>9 DEF PushSlice, history
    <2> HIDE DEF c, k
    <2>4. offered' \in Nat /\ offered + c <= offered' /\ offered' \in 0 .. MaxItems
      <3> DEFINE e == Excess(n)
      <3>1. e \in 0 .. n /\ c + e = n /\ c \in Nat
        BY <2>2, Sizes
      <3>2. offered' = offered + n /\ offered + n <= MaxItems
        BY <2>3
      <3> HIDE DEF e
      <3>. QED BY <1>1, <2>1, <3>1, <3>2, Sizes
    <2> HIDE DEF first
    <2>5. \A i \in k .. Count - 1 : slots'[(head + i) % N] = slots[(head + i) % N]
      BY <1>9, <2>1, SliceSlots, Zenon DEF k
    <2>6. \A j \in 0 .. c - 1 :
            slots'[(head + (Count + j)) % N] = offered' - c + 1 + j
      BY <1>9, <2>1, SliceSlots, Zenon DEF c
    <2>7. WindowInOrder'
      BY <2>2, <2>3, <2>4, <2>5, <2>6, WindowStep, Zenon
    <2>8. head' \in 0 .. Modulus - 1 /\ tail' \in 0 .. Modulus - 1
      <3>1. head \in Int /\ tail \in Int /\ k \in Int /\ c \in Int
        BY <1>1, <2>2, Sizes
      <3>. QED BY <2>3, <3>1, Advance, Zenon
    <2>9. slots' \in [Slot -> Item \union {Uninit}]
      <3>1. Index(tail) \in 0 .. N - 1
        <4>1. tail \in Int
          BY <1>1, Sizes
        <4>. QED BY <4>1, ModRange, Sizes, Zenon DEF Index
      <3> DEFINE at == Index(tail)
      <3>2. ASSUME NEW s \in Slot
            PROVE  CopyIn(c, first)[s] \in Item \union {Uninit}
        <4>1. CopyIn(c, first)[s] =
                 CASE s >= at /\ s < at + c -> first + (s - at)
                   [] s < c - (N - at)      -> first + (N - at) + s
                   [] OTHER                 -> slots[s]
          BY DEF CopyIn
        <4> HIDE DEF at
        <4>2. s \in 0 .. N - 1
          BY DEF Slot
        <4>3. at \in 0 .. N - 1
          BY <3>1 DEF at
        <4>4. first = offered + Excess(n) + 1 /\ first + c - 1 <= MaxItems
          BY <1>1, <2>1, <2>2, <2>3, Sizes DEF first
        <4>5. first \in 1 .. MaxItems + 1 /\ first + c - 1 <= MaxItems
          <5> DEFINE e == Excess(n)
          <5>1. /\ e \in 0 .. n /\ n \in Nat /\ offered \in Nat /\ MaxItems \in Nat
                /\ first = offered + e + 1 /\ first + c - 1 <= MaxItems
                /\ offered + n <= MaxItems
            BY <1>1, <2>1, <2>2, <2>3, <4>4, Sizes
          <5> HIDE DEF e
          <5>. QED BY ONLY <5>1
        <4>6. CASE s >= at /\ s < at + c
          <5>1. first + (s - at) \in Item
            <6>1. /\ first \in Int /\ first >= 1 /\ first + c - 1 <= MaxItems
                  /\ s \in Int /\ at \in Int /\ c \in Int /\ MaxItems \in Int
              BY <2>2, <4>2, <4>3, <4>5, Sizes
            <6>. QED BY ONLY <4>6, <6>1 DEF Item
          <5>2. CopyIn(c, first)[s] = first + (s - at)
            BY <2>2, <4>1, <4>2, <4>3, <4>5, <4>6, Sizes
          <5>. QED BY <5>1, <5>2, Zenon
        <4>7. CASE ~(s >= at /\ s < at + c) /\ s < c - (N - at)
          <5>1. first + (N - at) + s \in Item
            BY <2>2, <4>2, <4>3, <4>5, <4>7, Sizes DEF Item
          <5>. QED BY <4>1, <4>7, <5>1, Zenon
        <4>8. CASE ~(s >= at /\ s < at + c) /\ ~(s < c - (N - at))
          <5>1. slots[s] \in Item \union {Uninit}
            BY <1>1
          <5>2. CopyIn(c, first)[s] = slots[s]
            BY <4>1, <4>8, Zenon
          <5>. QED BY <5>1, <5>2, Zenon
        <4>. QED BY <4>6, <4>7, <4>8
      <3>3. slots' = [s \in Slot |-> CopyIn(c, first)[s]]
        BY <2>3 DEF CopyIn
      <3>. QED BY <3>2, <3>3, Zenon
    <2>10. spilled' \in Seq(Item)
      <3>1. SentBySlice(n) \in Seq(Item)
        BY <2>1, <2>3, SentType, Zenon
      <3>. QED BY <1>1, <2>3, <3>1
    <2>. QED BY <1>1, <2>3, <2>4, <2>7, <2>8, <2>9, <2>10 DEF IInv, TypeOK
  <1>10. ASSUME NEW n \in 1 .. MaxItems, NEW k \in 1 .. N + n, PushSlicePanic(n, k)
         PROVE  IInv'
    <2>1. /\ n \in Nat /\ 0 \in 0 .. Count /\ offered' \in Nat /\ offered <= offered'
          /\ offered + n <= MaxItems /\ offered' \in 0 .. MaxItems
      BY <1>1, <1>10, Sizes DEF PushSlicePanic
    <2>2. head' = WAdd(head, 0) /\ tail' = tail /\ slots' = slots
      BY <1>2, <1>10 DEF PushSlicePanic
    <2>3. WindowInOrder' /\ head' \in 0 .. Modulus - 1
      BY <2>1, <2>2, LeaveStep, Zenon
    <2>4. spilled' \in Seq(Item)
      <3> DEFINE sent == SentBySlice(n)
      <3>1. sent \in Seq(Item)
        BY <2>1, SentType, Zenon
      <3>2. k <= Len(sent) /\ spilled' = spilled \o SubSeq(sent, 1, k)
        BY <1>10 DEF PushSlicePanic
      <3> HIDE DEF sent
      <3>3. SubSeq(sent, 1, k) \in Seq(Item)
        BY <2>1, <3>1, <3>2, Sizes
      <3>. QED BY <1>1, <3>2, <3>3
    <2>5. lost' \in SUBSET Item
      <3>1. \A j \in 1 .. n : offered + j \in Item
        BY <1>1, <2>1, Sizes DEF Item
      <3>. QED BY <1>1, <1>10, <3>1, Zenon DEF PushSlicePanic
    <2>6. replayable' \in SUBSET Item
      <3>1. Displaced(n) \in 0 .. Count
        BY <2>1, SliceSizes, Zenon
      <3>2. \A j \in 0 .. Displaced(n) - 1 : j \in 0 .. Count - 1
        BY <1>1, <3>1
      <3>. QED BY <1>1, <1>4, <1>10, <3>2, Zenon DEF PushSlicePanic
    <2>. QED BY <1>1, <1>10, <2>1, <2>2, <2>3, <2>4, <2>5, <2>6
         DEF PushSlicePanic, IInv, TypeOK
  <1>11. CASE Pop
    <2>1. Count # 0
      BY <1>1, <1>11, CountIs, Zenon DEF Pop
    <2>2. /\ 1 \in 0 .. Count /\ 0 \in 0 .. Count - 1
          /\ offered' \in Nat /\ offered <= offered' /\ offered' = offered
      BY <1>1, <1>11, <2>1 DEF Pop
    <2>3. head' = WAdd(head, 1) /\ tail' = tail /\ slots' = slots
      BY <1>11 DEF Pop
    <2>4. WindowInOrder' /\ head' \in 0 .. Modulus - 1
      BY <2>2, <2>3, LeaveStep, Zenon
    <2>5. taken' \in Seq(Item)
      <3>1. At(0) \in Item
        BY <1>4, <2>2
      <3>2. taken' = Append(taken, At(0))
        BY <1>11 DEF Pop
      <3> DEFINE x == At(0)
      <3> HIDE DEF x
      <3>3. Append(taken, x) \in Seq(Item)
        BY <1>1, <3>1 DEF x
      <3>. QED BY <3>2, <3>3 DEF x
    <2>. QED BY <1>1, <1>11, <2>2, <2>3, <2>4, <2>5 DEF Pop, IInv, TypeOK
  <1>12. ASSUME NEW m \in 1 .. N + 1, PopSlice(m)
         PROVE  IInv'
    <2> DEFINE c == IF m < Count THEN m ELSE Count
    <2>1. /\ c \in 0 .. Count /\ offered' \in Nat /\ offered <= offered'
          /\ offered' = offered
      BY <1>1, <1>12, Sizes DEF PopSlice
    <2>2. /\ head' = WAdd(head, c) /\ tail' = tail /\ slots' = slots
          /\ taken' = taken \o [i \in 1 .. c |->
                                 IF i <= N - Index(head) THEN slots[Index(head) + i - 1]
                                 ELSE slots[i - (N - Index(head)) - 1]]
          /\ UNCHANGED <<alive, spilled, lost, replayable>>
      BY <1>12 DEF PopSlice
    <2> HIDE DEF c
    <2>3. WindowInOrder' /\ head' \in 0 .. Modulus - 1
      BY <2>1, <2>2, LeaveStep, Zenon
    <2>4. taken' = taken \o Oldest(c)
      BY <2>1, <2>2, PopSliceReads, Zenon
    <2>5. taken' \in Seq(Item)
      BY <1>1, <2>1, <2>4, OldestType
    <2>. QED BY <1>1, <2>1, <2>2, <2>3, <2>5 DEF IInv, TypeOK
  <1>13. ASSUME NEW k \in 0 .. Count, Evict(k), tail' = tail, slots' = slots,
                offered' = offered
         PROVE  WindowInOrder' /\ head' \in 0 .. Modulus - 1 /\ spilled' \in Seq(Item)
    <2>1. offered' \in Nat /\ offered <= offered' /\ head' = WAdd(head, k)
      BY <1>1, <1>13 DEF Evict
    <2>2. WindowInOrder' /\ head' \in 0 .. Modulus - 1
      BY <1>13, <2>1, LeaveStep, Zenon
    <2>. QED BY <1>3, <1>13, <2>2 DEF Evict
  <1>14. CASE Flush
    <2>1. /\ Count \in 0 .. Count /\ Evict(Count) /\ tail' = tail /\ slots' = slots
          /\ offered' = offered
      BY <1>1, <1>14 DEF Flush
    <2>2. WindowInOrder' /\ head' \in 0 .. Modulus - 1 /\ spilled' \in Seq(Item)
      BY <1>13, <2>1, Zenon
    <2>. QED BY <1>1, <1>14, <2>1, <2>2 DEF Flush, history, IInv, TypeOK
  <1>15. ASSUME NEW k \in 1 .. N, FlushPanic(k)
         PROVE  IInv'
    <2>1. /\ k \in 0 .. Count /\ Evict(k) /\ tail' = tail /\ slots' = slots
          /\ offered' = offered
      BY <1>1, <1>15, Sizes DEF FlushPanic
    <2>2. WindowInOrder' /\ head' \in 0 .. Modulus - 1 /\ spilled' \in Seq(Item)
      BY <1>13, <2>1, Zenon
    <2>. QED BY <1>1, <1>15, <2>1, <2>2 DEF FlushPanic, history, IInv, TypeOK
  <1>16. CASE PushAndFlush
    <2>1. offered + 1 \in Item /\ offered' = offered + 1 /\ offered' \in 0 .. MaxItems
      BY <1>1, <1>16, Sizes DEF PushAndFlush, Store, Item
    <2>2. tail' \in 0 .. Modulus - 1 /\ head' = tail'
      <3>1. tail \in Int /\ 1 \in Int
        BY <1>1, Sizes
      <3>. QED BY <1>16, <3>1, Advance, Zenon DEF PushAndFlush, Store
    <2>3. Count' = 0
      <3>1. tail' - tail' = 0 /\ 0 \in 0 .. Modulus - 1
        <4> DEFINE t == tail'
        <4>1. t \in Int
          BY <2>2, Sizes
        <4> HIDE DEF t
        <4>2. t - t = 0
          BY <4>1
        <4>. QED BY <4>2, Sizes DEF t
      <3>2. Count' = (tail' - tail') % Modulus
        BY <2>2 DEF Count, WSub
      <3>. QED BY <3>1, <3>2, ModSmall, Sizes, Zenon
    <2>4. WindowInOrder'
      BY <2>3, Sizes DEF WindowInOrder
    <2>5. slots' \in [Slot -> Item \union {Uninit}]
      BY <1>1, <1>16, <2>1, Zenon DEF PushAndFlush, Store
    <2>6. spilled' \in Seq(Item)
      <3>1. Window \in Seq(Item)
        <4>1. Count \in 0 .. Count
          BY <1>1
        <4>. QED BY <4>1, OldestType, Zenon DEF Window
      <3>2. <<offered + 1>> \in Seq(Item)
        BY <2>1
      <3>. QED BY <1>1, <1>16, <3>1, <3>2 DEF PushAndFlush
    <2>. QED BY <1>1, <1>16, <2>1, <2>2, <2>4, <2>5, <2>6
         DEF PushAndFlush, history, IInv, TypeOK
  <1>17. CASE Drop
    <2>1. /\ Count \in 0 .. Count /\ Evict(Count) /\ tail' = tail /\ slots' = slots
          /\ offered' = offered
      BY <1>1, <1>17 DEF Drop
    <2>2. WindowInOrder' /\ head' \in 0 .. Modulus - 1 /\ spilled' \in Seq(Item)
      BY <1>13, <2>1, Zenon
    <2>. QED BY <1>1, <1>17, <2>1, <2>2 DEF Drop, history, IInv, TypeOK
  <1>18. ASSUME NEW k \in 1 .. N, DropPanic(k)
         PROVE  IInv'
    <2>1. /\ k \in 0 .. Count /\ Evict(k) /\ tail' = tail /\ slots' = slots
          /\ offered' = offered
      BY <1>1, <1>18, Sizes DEF DropPanic
    <2>2. WindowInOrder' /\ head' \in 0 .. Modulus - 1 /\ spilled' \in Seq(Item)
      BY <1>13, <2>1, Zenon
    <2>3. lost' \in SUBSET Item
      <3>1. \A i \in k .. Count - 1 : i \in 0 .. Count - 1
        BY <1>1
      <3>. QED BY <1>1, <1>4, <1>18, <3>1, Zenon DEF DropPanic
    <2>. QED BY <1>1, <1>18, <2>1, <2>2, <2>3 DEF DropPanic, IInv, TypeOK
  <1>19. CASE UNCHANGED vars
    <2>1. Count' = Count /\ \A i : At(i)' = At(i)
      BY <1>19 DEF vars, Count, At
    <2>. QED BY <1>19, <2>1 DEF vars, history, IInv, TypeOK, WindowInOrder
  <1>. QED BY <1>5, <1>6, <1>7, <1>8, <1>9, <1>10, <1>11, <1>12, <1>14, <1>15,
              <1>16, <1>17, <1>18, <1>19 DEF Next

\* Every index stays a machine word and every record holds items only.
THEOREM TypesHold == Spec => []TypeOK
  BY InitInv, NextInv, PTL DEF Spec, IInv

\* The window holds at most N initialised items, in the order they were handed
\* over, however often the indices wrap and wherever the spout panics.
THEOREM WindowHolds == Spec => []WindowInOrder
  BY InitInv, NextInv, PTL DEF Spec, IInv

-------------------------------------------------------------------------------
(* The ring as a queue *)

\* The queue of the refinement.
Held == IF alive THEN Window ELSE <<>>

\* The items grow, and are all among the first a handed over.
Ascends(s)   == \A i, j \in 1 .. Len(s) : i < j => s[i] < s[j]
Within(s, a) == \A i \in 1 .. Len(s) : s[i] \in 1 .. a

\* The n numbers after a.
Fresh(a, n) == [i \in 1 .. n |-> a + i]

-------------------------------------------------------------------------------
(* Sequences *)

\* Length, items and content of a run of consecutive numbers.
LEMMA FreshIs ==
  ASSUME NEW a \in Nat, NEW n \in Nat
  PROVE  /\ Fresh(a, n) \in Seq(Nat)
         /\ Len(Fresh(a, n)) = n
         /\ \A i \in 1 .. n : Fresh(a, n)[i] = a + i
         /\ Elements(Fresh(a, n)) = a + 1 .. a + n
  <1>1. Fresh(a, n) \in [1 .. n -> Nat]
    BY DEF Fresh
  <1>2. /\ Fresh(a, n) \in Seq(Nat) /\ Len(Fresh(a, n)) = n
        /\ DOMAIN Fresh(a, n) = 1 .. n
    BY <1>1
  <1>3. \A i \in 1 .. n : Fresh(a, n)[i] = a + i
    BY DEF Fresh
  <1>4. ASSUME NEW x \in a + 1 .. a + n
        PROVE  x \in Elements(Fresh(a, n))
    <2>1. x - a \in 1 .. n /\ a + (x - a) = x
      OBVIOUS
    <2>. QED BY <1>2, <1>3, <2>1 DEF Elements
  <1>5. Elements(Fresh(a, n)) \subseteq a + 1 .. a + n
    BY <1>2, <1>3 DEF Elements
  <1>. QED BY <1>2, <1>3, <1>4, <1>5

\* The elements of a sequence of numbers, by position.
LEMMA ElementsAre ==
  ASSUME NEW s \in Seq(Nat)
  PROVE  /\ DOMAIN s = 1 .. Len(s)
         /\ \A x : x \in Elements(s) <=> \E i \in 1 .. Len(s) : s[i] = x
  <1>1. DOMAIN s = 1 .. Len(s)
    OBVIOUS
  <1>. QED BY <1>1, Zenon DEF Elements

\* Concatenation adds no element and loses none.
LEMMA ElementsOfConcat ==
  ASSUME NEW s \in Seq(Nat), NEW t \in Seq(Nat)
  PROVE  Elements(s \o t) = Elements(s) \union Elements(t)
  <1> DEFINE u == s \o t
  <1>1. /\ u \in Seq(Nat) /\ Len(u) = Len(s) + Len(t)
        /\ \A i \in 1 .. Len(s) : u[i] = s[i]
        /\ \A i \in 1 .. Len(t) : u[Len(s) + i] = t[i]
        /\ Len(s) \in Nat /\ Len(t) \in Nat
    OBVIOUS
  <1>. HIDE DEF u
  <1>2. ASSUME NEW i \in 1 .. Len(u)
        PROVE  u[i] \in Elements(s) \union Elements(t)
    <2>1. CASE i <= Len(s)
      <3>1. i \in 1 .. Len(s)
        BY <1>1, <2>1
      <3>. QED BY <1>1, <3>1, ElementsAre, Zenon
    <2>2. CASE i > Len(s)
      <3>1. i - Len(s) \in 1 .. Len(t) /\ Len(s) + (i - Len(s)) = i
        BY <1>1, <2>2
      <3>2. t[i - Len(s)] = u[i]
        BY <1>1, <3>1, Zenon
      <3>. QED BY <3>1, <3>2, ElementsAre, Zenon
    <2>. QED BY <1>1, <2>1, <2>2
  <1>3. ASSUME NEW i \in 1 .. Len(t)
        PROVE  t[i] \in Elements(u)
    <2>1. Len(s) + i \in 1 .. Len(u)
      BY <1>1
    <2>. QED BY <1>1, <2>1, ElementsAre, Zenon
  <1>4. ASSUME NEW i \in 1 .. Len(s)
        PROVE  s[i] \in Elements(u)
    <2>1. i \in 1 .. Len(u)
      BY <1>1
    <2>. QED BY <1>1, <2>1, ElementsAre, Zenon
  <1>5. ASSUME NEW x \in Elements(u)
        PROVE  x \in Elements(s) \union Elements(t)
    <2>1. PICK i \in 1 .. Len(u) : u[i] = x
      BY <1>1, <1>5, ElementsAre, Zenon
    <2>. QED BY <1>2, <2>1, Zenon
  <1>6. ASSUME NEW x \in Elements(s)
        PROVE  x \in Elements(u)
    <2>1. PICK i \in 1 .. Len(s) : s[i] = x
      BY <1>6, ElementsAre, Zenon
    <2>. QED BY <1>4, <2>1, Zenon
  <1>7. ASSUME NEW x \in Elements(t)
        PROVE  x \in Elements(u)
    <2>1. PICK i \in 1 .. Len(t) : t[i] = x
      BY <1>7, ElementsAre, Zenon
    <2>. QED BY <1>3, <2>1, Zenon
  <1>8. Elements(u) = Elements(s) \union Elements(t)
    BY ONLY <1>5, <1>6, <1>7, SMT
  <1>. QED BY <1>8 DEF u

\* The first k items of a sequence and the others.
LEMMA FirstAndRest ==
  ASSUME NEW s \in Seq(Nat), NEW k \in 0 .. Len(s)
  PROVE  /\ SubSeq(s, 1, k) \in Seq(Nat) /\ Len(SubSeq(s, 1, k)) = k
         /\ \A i \in 1 .. k : SubSeq(s, 1, k)[i] = s[i]
         /\ Elements(SubSeq(s, 1, k)) = {s[i] : i \in 1 .. k}
         /\ SubSeq(s, k + 1, Len(s)) \in Seq(Nat)
         /\ Len(SubSeq(s, k + 1, Len(s))) = Len(s) - k
         /\ \A i \in 1 .. Len(s) - k : SubSeq(s, k + 1, Len(s))[i] = s[k + i]
         /\ Elements(SubSeq(s, k + 1, Len(s))) = {s[i] : i \in k + 1 .. Len(s)}
  <1> DEFINE a == SubSeq(s, 1, k)
             b == SubSeq(s, k + 1, Len(s))
  <1>1. a \in Seq(Nat) /\ Len(a) = k /\ \A i \in 1 .. k : a[i] = s[i]
    OBVIOUS
  <1>2. /\ b \in Seq(Nat) /\ Len(b) = Len(s) - k
        /\ \A i \in 1 .. Len(s) - k : b[i] = s[k + i]
    OBVIOUS
  <1>. HIDE DEF a, b
  <1>3. \A x : x \in Elements(a) <=> x \in {s[i] : i \in 1 .. k}
    <2>1. \A x : x \in Elements(a) <=> \E i \in 1 .. k : a[i] = x
      BY <1>1, ElementsAre, Zenon
    <2>2. \A x : (\E i \in 1 .. k : a[i] = x) <=> \E i \in 1 .. k : s[i] = x
      BY <1>1, Zenon
    <2>. QED BY ONLY <2>1, <2>2, Zenon
  <1>4. ASSUME NEW i \in k + 1 .. Len(s)
        PROVE  s[i] \in Elements(b)
    <2>1. i - k \in 1 .. Len(s) - k /\ k + (i - k) = i
      OBVIOUS
    <2>2. b[i - k] = s[i]
      BY <1>2, <2>1, Zenon
    <2>. QED BY <1>2, <2>1, <2>2, ElementsAre, Zenon
  <1>5. ASSUME NEW i \in 1 .. Len(b)
        PROVE  b[i] \in {s[j] : j \in k + 1 .. Len(s)}
    <2>1. k + i \in k + 1 .. Len(s) /\ i \in 1 .. Len(s) - k
      BY <1>2
    <2>. QED BY <1>2, <2>1, Zenon
  <1>6. \A x : x \in Elements(b) <=> x \in {s[i] : i \in k + 1 .. Len(s)}
    <2>1. \A x : x \in Elements(b) <=> \E i \in 1 .. Len(b) : b[i] = x
      BY <1>2, ElementsAre, Zenon
    <2>2. ASSUME NEW x, x \in Elements(b)
          PROVE  x \in {s[i] : i \in k + 1 .. Len(s)}
      BY <1>5, <2>1, <2>2, Zenon
    <2>3. ASSUME NEW x, x \in {s[i] : i \in k + 1 .. Len(s)}
          PROVE  x \in Elements(b)
      BY <1>4, <2>3, Zenon
    <2>. QED BY <2>2, <2>3, Zenon
  <1>7. /\ Elements(a) = {s[i] : i \in 1 .. k}
        /\ Elements(b) = {s[i] : i \in k + 1 .. Len(s)}
    BY ONLY <1>3, <1>6, SMT
  <1>. QED BY <1>1, <1>2, <1>7, Zenon DEF a, b
\* A sequence is determined by its length and its items.
LEMMA SameSequence ==
  ASSUME NEW s \in Seq(Nat), NEW t \in Seq(Nat), Len(s) = Len(t),
         \A i \in 1 .. Len(s) : s[i] = t[i]
  PROVE  s = t
  OBVIOUS

\* The items of a concatenation.
LEMMA ConcatIs ==
  ASSUME NEW s \in Seq(Nat), NEW t \in Seq(Nat)
  PROVE  /\ s \o t \in Seq(Nat)
         /\ Len(s) \in Nat /\ Len(t) \in Nat /\ Len(s \o t) = Len(s) + Len(t)
         /\ \A i \in 1 .. Len(s) + Len(t) :
              /\ i <= Len(s) => i \in 1 .. Len(s) /\ (s \o t)[i] = s[i]
              /\ i > Len(s) => /\ i - Len(s) \in 1 .. Len(t)
                               /\ (s \o t)[i] = t[i - Len(s)]
  OBVIOUS

\* Nothing is added by no number.
LEMMA FreshNone ==
  ASSUME NEW s \in Seq(Nat), NEW a \in Nat
  PROVE  /\ s \o Fresh(a, 0) = s
         /\ Fresh(a, 0) = <<>>
         /\ SubSeq(s, Len(s) + 1, Len(s)) = <<>>
         /\ SubSeq(s, 1, Len(s)) = s
         /\ SubSeq(s, 1, 0) = <<>>
         /\ s \o <<>> = s
         /\ <<>> \o s = s
  <1>1. Fresh(a, 0) = <<>>
    BY DEF Fresh
  <1>2. s \o <<>> = s /\ <<>> \o s = s
    OBVIOUS
  <1>3. SubSeq(s, 1, Len(s)) = s
    OBVIOUS
  <1>4. SubSeq(s, Len(s) + 1, Len(s)) = <<>>
    <2> DEFINE t == SubSeq(s, Len(s) + 1, Len(s))
    <2>1. t \in Seq(Nat) /\ Len(t) = 0
      OBVIOUS
    <2> HIDE DEF t
    <2>2. t = <<>>
      BY <2>1
    <2>. QED BY <2>2 DEF t
  <1>5. SubSeq(s, 1, 0) = <<>>
    <2> DEFINE t == SubSeq(s, 1, 0)
    <2>1. t \in Seq(Nat) /\ Len(t) = 0
      OBVIOUS
    <2> HIDE DEF t
    <2>2. t = <<>>
      BY <2>1
    <2>. QED BY <2>2 DEF t
  <1>. QED BY <1>1, <1>2, <1>3, <1>4, <1>5, Zenon

\* Where a concatenation is cut: in its first part or in its second.
LEMMA CutConcat ==
  ASSUME NEW s \in Seq(Nat), NEW t \in Seq(Nat), NEW m \in 0 .. Len(s) + Len(t)
  PROVE  /\ m <= Len(s) =>
              /\ SubSeq(s \o t, 1, m) = SubSeq(s, 1, m)
              /\ SubSeq(s \o t, m + 1, Len(s \o t)) = SubSeq(s, m + 1, Len(s)) \o t
         /\ m >= Len(s) =>
              /\ SubSeq(s \o t, 1, m) = s \o SubSeq(t, 1, m - Len(s))
              /\ SubSeq(s \o t, m + 1, Len(s \o t)) =
                   SubSeq(t, (m - Len(s)) + 1, Len(t))
  <1> DEFINE u == s \o t
             l == Len(s)
             r == Len(t)
  <1>1. /\ u \in Seq(Nat) /\ l \in Nat /\ r \in Nat /\ Len(u) = l + r /\ m \in 0 .. Len(u)
        /\ \A i \in 1 .. l + r : i <= l => u[i] = s[i]
        /\ \A i \in 1 .. l + r : i > l => u[i] = t[i - l]
    BY ConcatIs
  <1>. HIDE DEF u
  <1>2. /\ SubSeq(u, 1, m) \in Seq(Nat) /\ Len(SubSeq(u, 1, m)) = m
        /\ \A i \in 1 .. m : SubSeq(u, 1, m)[i] = u[i]
        /\ SubSeq(u, m + 1, Len(u)) \in Seq(Nat)
        /\ Len(SubSeq(u, m + 1, Len(u))) = Len(u) - m
        /\ \A i \in 1 .. Len(u) - m : SubSeq(u, m + 1, Len(u))[i] = u[m + i]
    BY <1>1, FirstAndRest, Zenon
  <1>3. ASSUME m <= l
        PROVE  /\ SubSeq(u, 1, m) = SubSeq(s, 1, m)
               /\ SubSeq(u, m + 1, Len(u)) = SubSeq(s, m + 1, Len(s)) \o t
    <2>1. m \in 0 .. Len(s)
      BY <1>1, <1>3
    <2>2. /\ SubSeq(s, 1, m) \in Seq(Nat) /\ Len(SubSeq(s, 1, m)) = m
          /\ \A i \in 1 .. m : SubSeq(s, 1, m)[i] = s[i]
          /\ SubSeq(s, m + 1, Len(s)) \in Seq(Nat)
          /\ Len(SubSeq(s, m + 1, Len(s))) = Len(s) - m
          /\ \A i \in 1 .. Len(s) - m : SubSeq(s, m + 1, Len(s))[i] = s[m + i]
      BY <2>1, FirstAndRest, Zenon
    <2>3. SubSeq(u, 1, m) = SubSeq(s, 1, m)
      <3>1. \A i \in 1 .. m : i \in 1 .. l + r /\ i <= l
        BY <1>1, <1>3
      <3>2. \A i \in 1 .. m : SubSeq(u, 1, m)[i] = SubSeq(s, 1, m)[i]
        BY <1>1, <1>2, <2>2, <3>1, Zenon
      <3>. QED BY <1>2, <2>2, <3>2, SameSequence, Zenon
    <2>4. SubSeq(u, m + 1, Len(u)) = SubSeq(s, m + 1, Len(s)) \o t
      <3> DEFINE a == SubSeq(u, m + 1, Len(u))
                 b == SubSeq(s, m + 1, Len(s))
                 c == b \o t
      <3>1. a \in Seq(Nat) /\ Len(a) = (l - m) + r
        BY <1>1, <1>2
      <3>2. b \in Seq(Nat) /\ Len(b) = l - m
        BY <2>2
      <3>3. /\ \A i \in 1 .. Len(u) - m : a[i] = u[m + i]
            /\ \A i \in 1 .. l - m : b[i] = s[m + i]
        BY <1>2, <2>2
      <3> HIDE DEF a, b
      <3>4. /\ c \in Seq(Nat) /\ Len(c) = (l - m) + r
            /\ \A i \in 1 .. (l - m) + r :
                 /\ i <= l - m => c[i] = b[i]
                 /\ i > l - m => c[i] = t[i - (l - m)]
        <4>1. /\ c \in Seq(Nat) /\ Len(c) = Len(b) + Len(t)
              /\ \A i \in 1 .. Len(b) + Len(t) :
                   /\ i <= Len(b) => c[i] = b[i]
                   /\ i > Len(b) => c[i] = t[i - Len(b)]
          BY <3>2, ConcatIs, Zenon
        <4> HIDE DEF c
        <4>. QED BY ONLY <3>2, <4>1, Zenon
      <3> HIDE DEF c
      <3>5. ASSUME NEW i \in 1 .. (l - m) + r
            PROVE  a[i] = c[i]
        <4>1. m + i \in 1 .. l + r /\ i \in 1 .. Len(u) - m /\ m \in Int /\ i \in Int
          BY <1>1
        <4>2. CASE i <= l - m
          <5>1. m + i <= l /\ i \in 1 .. l - m
            BY <1>1, <4>1, <4>2
          <5>. QED BY ONLY <1>1, <3>3, <3>4, <4>1, <4>2, <5>1, Zenon
        <4>3. CASE i > l - m
          <5>1. m + i > l /\ (m + i) - l = i - (l - m)
            BY <1>1, <4>1, <4>3
          <5>2. a[i] = t[(m + i) - l]
            BY ONLY <1>1, <3>3, <4>1, <5>1, Zenon
          <5>. QED BY ONLY <3>4, <4>3, <5>1, <5>2, Zenon
        <4>. QED BY <1>1, <4>1, <4>2, <4>3
      <3>6. a = c
        BY <3>1, <3>4, <3>5, SameSequence, Zenon
      <3>. QED BY <3>6 DEF a, b, c
    <2>. QED BY <2>3, <2>4
  <1>4. ASSUME m >= l
        PROVE  /\ SubSeq(u, 1, m) = s \o SubSeq(t, 1, m - l)
               /\ SubSeq(u, m + 1, Len(u)) = SubSeq(t, (m - l) + 1, Len(t))
    <2> DEFINE k == m - l
    <2>1. k \in 0 .. Len(t) /\ k \in Nat /\ m = l + k
      BY <1>1, <1>4
    <2>. HIDE DEF k
    <2>2. /\ SubSeq(t, 1, k) \in Seq(Nat) /\ Len(SubSeq(t, 1, k)) = k
          /\ \A i \in 1 .. k : SubSeq(t, 1, k)[i] = t[i]
          /\ SubSeq(t, k + 1, Len(t)) \in Seq(Nat)
          /\ Len(SubSeq(t, k + 1, Len(t))) = Len(t) - k
          /\ \A i \in 1 .. Len(t) - k : SubSeq(t, k + 1, Len(t))[i] = t[k + i]
      BY <2>1, FirstAndRest, Zenon
    <2>3. SubSeq(u, 1, m) = s \o SubSeq(t, 1, k)
      <3> DEFINE a == SubSeq(u, 1, m)
                 b == SubSeq(t, 1, k)
                 c == s \o b
      <3>1. /\ a \in Seq(Nat) /\ Len(a) = l + k /\ \A i \in 1 .. m : a[i] = u[i]
        BY <1>2, <2>1
      <3>2. b \in Seq(Nat) /\ Len(b) = k /\ \A i \in 1 .. k : b[i] = t[i]
        BY <2>2
      <3> HIDE DEF a, b
      <3>4. /\ c \in Seq(Nat) /\ Len(c) = l + k
            /\ \A i \in 1 .. l + k :
                 /\ i <= l => c[i] = s[i]
                 /\ i > l => i - l \in 1 .. k /\ c[i] = b[i - l]
        <4>1. /\ c \in Seq(Nat) /\ Len(c) = Len(s) + Len(b)
              /\ \A i \in 1 .. Len(s) + Len(b) :
                   /\ i <= Len(s) => c[i] = s[i]
                   /\ i > Len(s) => i - Len(s) \in 1 .. Len(b) /\ c[i] = b[i - Len(s)]
          BY <3>2, ConcatIs, Zenon
        <4> HIDE DEF c
        <4>. QED BY ONLY <3>2, <4>1, Zenon
      <3> HIDE DEF c
      <3>5. ASSUME NEW i \in 1 .. l + k
            PROVE  a[i] = c[i]
        <4>1. i \in 1 .. l + r /\ i \in 1 .. m /\ (i <= l \/ i > l)
          <5>1. l \in Nat /\ r \in Nat /\ k \in 0 .. r /\ m = l + k
            BY <1>1, <2>1, Zenon
          <5> HIDE DEF l, r
          <5>. QED BY ONLY <5>1
        <4>2. CASE i <= l
          BY ONLY <1>1, <3>1, <3>4, <4>1, <4>2, Zenon
        <4>3. CASE i > l
          BY ONLY <1>1, <3>1, <3>2, <3>4, <4>1, <4>3, Zenon
        <4>. QED BY <4>1, <4>2, <4>3, Zenon
      <3>6. a = c
        BY <3>1, <3>4, <3>5, SameSequence, Zenon
      <3>. QED BY <3>6 DEF a, b, c
    <2>4. SubSeq(u, m + 1, Len(u)) = SubSeq(t, k + 1, Len(t))
      <3> DEFINE a == SubSeq(u, m + 1, Len(u))
                 b == SubSeq(t, k + 1, Len(t))
      <3>1. a \in Seq(Nat) /\ Len(a) = r - k
        BY <1>1, <1>2, <2>1
      <3>2. /\ b \in Seq(Nat) /\ Len(b) = r - k
            /\ \A i \in 1 .. r - k : b[i] = t[k + i]
            /\ \A i \in 1 .. Len(u) - m : a[i] = u[m + i]
        BY <1>2, <2>2
      <3> HIDE DEF a, b
      <3>3. ASSUME NEW i \in 1 .. r - k
            PROVE  a[i] = b[i]
        <4>1. /\ i \in 1 .. Len(u) - m /\ m + i \in 1 .. l + r /\ m + i > l
              /\ (m + i) - l = k + i
          BY <1>1, <2>1
        <4>. QED BY ONLY <1>1, <3>2, <4>1, Zenon
      <3>4. a = b
        BY <3>1, <3>2, <3>3, SameSequence, Zenon
      <3>. QED BY <3>4 DEF a, b
    <2>. QED BY <2>3, <2>4 DEF k
  <1>. QED BY <1>3, <1>4 DEF u

\* A part of a run of consecutive numbers is one.
LEMMA CutFresh ==
  ASSUME NEW a \in Nat, NEW n \in Nat, NEW m \in 0 .. n
  PROVE  /\ SubSeq(Fresh(a, n), 1, m) = Fresh(a, m)
         /\ SubSeq(Fresh(a, n), m + 1, n) = Fresh(a + m, n - m)
  <1>1. /\ Fresh(a, n) \in Seq(Nat) /\ Len(Fresh(a, n)) = n
        /\ \A i \in 1 .. n : Fresh(a, n)[i] = a + i
    BY FreshIs, Zenon
  <1>2. m \in Nat /\ a + m \in Nat /\ n - m \in Nat
    OBVIOUS
  <1>3. /\ Fresh(a, m) \in Seq(Nat) /\ Len(Fresh(a, m)) = m
        /\ \A i \in 1 .. m : Fresh(a, m)[i] = a + i
        /\ Fresh(a + m, n - m) \in Seq(Nat) /\ Len(Fresh(a + m, n - m)) = n - m
        /\ \A i \in 1 .. n - m : Fresh(a + m, n - m)[i] = (a + m) + i
    BY <1>2, FreshIs, Zenon
  <1> DEFINE f == Fresh(a, n)
             g == Fresh(a, m)
             h == Fresh(a + m, n - m)
  <1>4. /\ f \in Seq(Nat) /\ Len(f) = n /\ g \in Seq(Nat) /\ Len(g) = m
        /\ h \in Seq(Nat) /\ Len(h) = n - m
        /\ \A i \in 1 .. m : f[i] = g[i]
        /\ \A i \in 1 .. n - m : f[m + i] = h[i]
    <2>1. ASSUME NEW i \in 1 .. m
          PROVE  f[i] = g[i]
      <3>1. i \in 1 .. n
        BY <1>2
      <3>. QED BY <1>1, <1>3, <3>1, Zenon
    <2>2. ASSUME NEW i \in 1 .. n - m
          PROVE  f[m + i] = h[i]
      <3>1. m + i \in 1 .. n /\ a + (m + i) = (a + m) + i
        BY <1>2
      <3>. QED BY <1>1, <1>3, <3>1, Zenon
    <2>. QED BY <1>1, <1>3, <2>1, <2>2, Zenon
  <1>. HIDE DEF f, g, h
  <1>5. /\ SubSeq(f, 1, m) \in Seq(Nat) /\ Len(SubSeq(f, 1, m)) = m
        /\ \A i \in 1 .. m : SubSeq(f, 1, m)[i] = f[i]
        /\ SubSeq(f, m + 1, n) \in Seq(Nat) /\ Len(SubSeq(f, m + 1, n)) = n - m
        /\ \A i \in 1 .. n - m : SubSeq(f, m + 1, n)[i] = f[m + i]
    <2>1. m \in 0 .. Len(f)
      BY <1>4, Zenon
    <2>2. /\ SubSeq(f, 1, m) \in Seq(Nat) /\ Len(SubSeq(f, 1, m)) = m
          /\ \A i \in 1 .. m : SubSeq(f, 1, m)[i] = f[i]
          /\ SubSeq(f, m + 1, Len(f)) \in Seq(Nat)
          /\ Len(SubSeq(f, m + 1, Len(f))) = Len(f) - m
          /\ \A i \in 1 .. Len(f) - m : SubSeq(f, m + 1, Len(f))[i] = f[m + i]
      BY ONLY <1>4, <2>1, FirstAndRest, Zenon
    <2>3. Len(f) = n
      BY <1>4
    <2>. QED BY ONLY <2>2, <2>3, Zenon
  <1>6. SubSeq(f, 1, m) = g
    <2> DEFINE r == SubSeq(f, 1, m)
    <2>1. /\ r \in Seq(Nat) /\ Len(r) = Len(g)
          /\ \A i \in 1 .. Len(r) : r[i] = g[i]
      BY <1>4, <1>5, Zenon
    <2> HIDE DEF r
    <2>2. r = g
      BY ONLY <1>4, <2>1, SameSequence, Zenon
    <2>. QED BY <2>2 DEF r
  <1>7. SubSeq(f, m + 1, n) = h
    <2> DEFINE r == SubSeq(f, m + 1, n)
    <2>1. /\ r \in Seq(Nat) /\ Len(r) = Len(h)
          /\ \A i \in 1 .. Len(r) : r[i] = h[i]
      BY <1>4, <1>5, Zenon
    <2> HIDE DEF r
    <2>2. r = h
      BY ONLY <1>4, <2>1, SameSequence, Zenon
    <2>. QED BY <2>2 DEF r
  <1>. QED BY <1>6, <1>7 DEF f, g, h

-------------------------------------------------------------------------------
(* The items held *)

\* What the ring holds is an ascending sequence of at most N items handed over.
LEMMA HeldIs ==
  ASSUME IInv
  PROVE  /\ Held \in Seq(Nat) /\ Len(Held) \in Nat /\ Len(Held) <= N
         /\ \A i \in 1 .. Len(Held) : Held[i] \in 1 .. offered
         /\ \A i, j \in 1 .. Len(Held) : i < j => Held[i] < Held[j]
         /\ Live = Elements(Held)
         /\ Live \subseteq 1 .. offered
  <1>1. /\ Count \in Nat /\ Count <= N /\ offered \in Nat /\ alive \in BOOLEAN
        /\ \A i \in 0 .. Count - 1 : At(i) \in 1 .. offered
        /\ \A i, j \in 0 .. Count - 1 : i < j => At(i) < At(j)
    BY CountIs, Sizes DEF IInv, TypeOK, WindowInOrder
  <1>2. CASE ~alive
    <2>1. Held = <<>> /\ Live = {}
      BY <1>2 DEF Held, Live
    <2>. QED BY <2>1, Sizes DEF Elements
  <1>3. CASE alive
    <2>1. /\ Held = [i \in 1 .. Count |-> At(i - 1)]
          /\ Live = {At(i) : i \in 0 .. Count - 1}
      BY <1>3 DEF Held, Live, Window, Oldest
    <2>2. ASSUME NEW i \in 1 .. Count
          PROVE  i - 1 \in 0 .. Count - 1 /\ At(i - 1) \in 1 .. offered
      <3>1. i - 1 \in 0 .. Count - 1
        BY <1>1
      <3>. QED BY <1>1, <3>1, Zenon
    <2>3. Held \in [1 .. Count -> Nat]
      <3>1. ASSUME NEW i \in 1 .. Count
            PROVE  At(i - 1) \in Nat
        BY <1>1, <2>2
      <3>. QED BY <2>1, <3>1, Zenon
    <2>4. Held \in Seq(Nat) /\ Len(Held) = Count
      BY <1>1, <2>3
    <2>5. \A i \in 1 .. Count : Held[i] = At(i - 1)
      BY <2>1, Zenon
    <2>6. \A i \in 1 .. Len(Held) : Held[i] \in 1 .. offered
      BY <2>2, <2>4, <2>5, Zenon
    <2>7. ASSUME NEW i \in 1 .. Count, NEW j \in 1 .. Count, i < j
          PROVE  Held[i] < Held[j]
      <3>1. i - 1 \in 0 .. Count - 1 /\ j - 1 \in 0 .. Count - 1 /\ i - 1 < j - 1
        BY <1>1, <2>7
      <3>2. At(i - 1) < At(j - 1)
        BY <1>1, <3>1, Zenon
      <3>. QED BY <2>5, <3>2, Zenon
    <2>8. \A x : x \in Elements(Held) <=> x \in Live
      <3>1. ASSUME NEW i \in 1 .. Count
            PROVE  Held[i] \in Live
        BY <2>1, <2>2, <2>5, Zenon
      <3>2. ASSUME NEW i \in 0 .. Count - 1
            PROVE  At(i) \in Elements(Held)
        <4>1. i + 1 \in 1 .. Count /\ (i + 1) - 1 = i
          BY <1>1
        <4>2. Held[i + 1] = At(i)
          BY <2>5, <4>1, Zenon
        <4>. QED BY <2>4, <4>1, <4>2, ElementsAre, Zenon
      <3>3. \A x : x \in Elements(Held) <=> \E i \in 1 .. Count : Held[i] = x
        BY <2>4, ElementsAre, Zenon
      <3>4. \A x : x \in Live <=> \E i \in 0 .. Count - 1 : x = At(i)
        BY <2>1, Zenon
      <3>. QED BY ONLY <3>1, <3>2, <3>3, <3>4, Zenon
    <2>9. Live = Elements(Held)
      BY ONLY <2>8, SMT
    <2>10. Live \subseteq 1 .. offered
      BY <1>1, <2>1, Zenon
    <2>. QED BY <1>1, <2>4, <2>6, <2>7, <2>9, <2>10
  <1>. QED BY <1>1, <1>2, <1>3

\* The k oldest items, as a part of what is held.
LEMMA OldestHeld ==
  ASSUME IInv, alive, NEW k \in 0 .. Count
  PROVE  /\ Len(Held) = Count
         /\ Oldest(k) = SubSeq(Held, 1, k)
         /\ \A i \in 1 .. Count : Held[i] = At(i - 1)
  <1>1. Count \in Nat
    BY CountIs DEF IInv, TypeOK
  <1>2. Held \in Seq(Nat) /\ Held = [i \in 1 .. Count |-> At(i - 1)]
    BY HeldIs DEF Held, Window, Oldest
  <1>3. Len(Held) = Count /\ \A i \in 1 .. Count : Held[i] = At(i - 1)
    BY <1>1, <1>2
  <1>4. SubSeq(Held, 1, k) = [i \in 1 .. k |-> Held[i]]
    BY <1>1, <1>2, <1>3
  <1>5. \A i \in 1 .. k : Held[i] = At(i - 1)
    BY <1>1, <1>3
  <1>. QED BY <1>3, <1>4, <1>5 DEF Oldest

\* WindowMove, as what happens to the sequence held.
LEMMA HeldMoves ==
  ASSUME IInv, alive, alive', NEW k \in 0 .. Count, NEW n \in 0 .. N,
         Count - k + n <= N, head' = WAdd(head, k), tail' = WAdd(tail, n),
         NEW a \in Nat, offered' = a + n,
         \A i \in k .. Count - 1 :
           slots'[(head + i) % N] = slots[(head + i) % N],
         \A j \in 0 .. n - 1 :
           slots'[(head + (Count + j)) % N] = offered' - n + 1 + j
  PROVE  Held' = SubSeq(Held, k + 1, Len(Held)) \o Fresh(a, n)
  <1> DEFINE r == SubSeq(Held, k + 1, Len(Held))
             u == r \o Fresh(a, n)
  <1>1. Count \in Nat /\ k \in Nat /\ n \in Nat /\ k <= Count
    BY CountIs, Sizes DEF IInv, TypeOK
  <1>2. /\ Held \in Seq(Nat) /\ Len(Held) = Count
        /\ \A i \in 1 .. Count : Held[i] = At(i - 1)
    <2>1. Count \in 0 .. Count
      BY <1>1
    <2>. QED BY <2>1, HeldIs, OldestHeld, Zenon
  <1>3. /\ Count' = Count - k + n
        /\ \A i \in 0 .. Count' - 1 :
              /\ i < Count - k => At(i)' = At(k + i)
              /\ ~(i < Count - k) => At(i)' = offered' - n + 1 + (i - (Count - k))
    BY WindowMove, Zenon
  <1>4. /\ r \in Seq(Nat) /\ Len(r) = Count - k
        /\ \A i \in 1 .. Count - k : r[i] = Held[k + i]
    <2>1. k \in 0 .. Len(Held)
      BY <1>2
    <2>. QED BY <1>2, <2>1, FirstAndRest, Zenon
  <1>5. /\ Fresh(a, n) \in Seq(Nat) /\ Len(Fresh(a, n)) = n
        /\ \A i \in 1 .. n : Fresh(a, n)[i] = a + i
    BY <1>1, FreshIs, Zenon
  <1>. HIDE DEF r
  <1>6. /\ u \in Seq(Nat) /\ Len(u) = Count'
        /\ \A i \in 1 .. Count' :
             /\ i <= Count - k => i \in 1 .. Count - k /\ u[i] = r[i]
             /\ i > Count - k => i - (Count - k) \in 1 .. n
                                  /\ u[i] = Fresh(a, n)[i - (Count - k)]
    <2> DEFINE f == Fresh(a, n)
    <2>1. f \in Seq(Nat) /\ Len(f) = n
      BY <1>5
    <2> HIDE DEF f
    <2>2. /\ u \in Seq(Nat) /\ Len(u) = (Count - k) + n
          /\ \A i \in 1 .. (Count - k) + n :
               /\ i <= Count - k => i \in 1 .. Count - k /\ u[i] = r[i]
               /\ i > Count - k => i - (Count - k) \in 1 .. n
                                    /\ u[i] = f[i - (Count - k)]
      <3>1. u = r \o f
        BY DEF f
      <3>2. /\ r \o f \in Seq(Nat) /\ Len(r) = Count - k /\ Len(f) = n
            /\ Len(r \o f) = Len(r) + Len(f)
            /\ \A i \in 1 .. Len(r) + Len(f) :
                 /\ i <= Len(r) => i \in 1 .. Len(r) /\ (r \o f)[i] = r[i]
                 /\ i > Len(r) => /\ i - Len(r) \in 1 .. Len(f)
                                  /\ (r \o f)[i] = f[i - Len(r)]
        BY ONLY <1>4, <2>1, ConcatIs, Zenon
      <3> HIDE DEF u
      <3>. QED BY ONLY <3>1, <3>2, Zenon
    <2>. QED BY ONLY <1>3, <2>2, Zenon DEF f
  <1>7. ASSUME NEW i \in 1 .. Count'
        PROVE  At(i - 1)' = u[i]
    <2> DEFINE j == i - 1
    <2>1. j \in 0 .. Count' - 1 /\ j \in Int /\ i = j + 1 /\ i \in Int
      BY <1>1, <1>3
    <2>2. CASE i <= Count - k
      <3>1. j < Count - k /\ k + i \in 1 .. Count /\ (k + i) - 1 = k + j
        BY <1>1, <1>3, <2>1, <2>2
      <3> HIDE DEF j
      <3>2. At(j)' = At(k + j)
        BY <1>3, <2>1, <3>1, Zenon
      <3>3. Held[k + i] = At(k + j)
        BY <1>2, <3>1, Zenon
      <3>4. u[i] = Held[k + i]
        BY <1>4, <1>6, <2>2, Zenon
      <3>. QED BY <3>2, <3>3, <3>4, Zenon DEF j
    <2>3. CASE i > Count - k
      <3>1. /\ ~(j < Count - k)
            /\ offered' - n + 1 + (j - (Count - k)) = a + (i - (Count - k))
        BY <1>1, <1>3, <2>1, <2>3
      <3> HIDE DEF j
      <3>2. At(j)' = offered' - n + 1 + (j - (Count - k))
        BY <1>3, <2>1, <3>1, Zenon
      <3>3. u[i] = a + (i - (Count - k))
        BY <1>5, <1>6, <2>3, Zenon
      <3>. QED BY <3>1, <3>2, <3>3, Zenon DEF j
    <2>4. i <= Count - k \/ i > Count - k
      BY <1>1, <2>1
    <2>. QED BY <2>2, <2>3, <2>4, Zenon
  <1>8. Held' = [i \in 1 .. Count' |-> At(i - 1)']
    BY DEF Held, Window, Oldest
  <1>. HIDE DEF u
  <1>9. u = [i \in 1 .. Count' |-> u[i]]
    BY <1>6
  <1>10. Held' = u
    BY <1>7, <1>8, <1>9, Zenon
  <1>. QED BY <1>10 DEF u, r
-------------------------------------------------------------------------------
(* Where the items are *)

HInv == FirstInFirstOut /\ SpilledOnceInOrder /\ Conservation

\* FirstInFirstOut and Conservation in terms of the sets of items sent and taken.
OlderLeft ==
  \A x \in Live \ replayable :
    /\ \A y \in Elements(spilled) : y < x
    /\ \A y \in Elements(taken) : y < x

Everywhere ==
  1 .. offered = Live \union Elements(spilled) \union Elements(taken) \union lost

OnePlace(x) ==
  /\ x \in Live => x \notin Elements(spilled) \union Elements(taken) \union lost
  /\ x \in Elements(spilled) => x \notin Elements(taken) \union lost
  /\ x \in Elements(taken) => x \notin lost

\* The two properties of what has left the ring, about sets instead of positions.
LEMMA HistoryIs ==
  /\ FirstInFirstOut <=> OlderLeft
  /\ Conservation <=> Everywhere /\ \A x \in 1 .. offered : x \in replayable \/ OnePlace(x)
  <1>1. ASSUME NEW x
        PROVE  /\ (\A i \in DOMAIN spilled : spilled[i] < x)
                    <=> \A y \in Elements(spilled) : y < x
               /\ (\A i \in DOMAIN taken : taken[i] < x)
                    <=> \A y \in Elements(taken) : y < x
    BY Zenon DEF Elements
  <1>2. FirstInFirstOut <=> OlderLeft
    BY <1>1, Zenon DEF FirstInFirstOut, OlderLeft
  <1>. QED BY <1>2, Zenon DEF Conservation, Elements, Everywhere, OnePlace

\* An operation sends S to the spout, returns T and destroys Lo, and says where
\* everything it had is afterwards.
LEMMA HistoryStep ==
  ASSUME IInv, IInv', HInv, NEW S \in Seq(Nat), NEW T \in Seq(Nat), NEW Lo,
         offered <= offered', replayable \subseteq replayable',
         spilled' = spilled \o S, taken' = taken \o T, lost' = lost \union Lo,
         Ascends(S),
         \A x \in Live' \ replayable' :
           /\ \A y \in Elements(S) : y < x
           /\ \A y \in Elements(T) : y < x,
         Live \union (offered + 1 .. offered') =
           Live' \union Elements(S) \union Elements(T) \union Lo,
         \A x \in Lo \ replayable' :
           x \notin Live' \union Elements(S) \union Elements(T),
         \A x \in Elements(S) : x \notin Elements(T)
  PROVE  HInv'
  <1> DEFINE gone == Elements(spilled)
             back == Elements(taken)
             s == Elements(S)
             t == Elements(T)
             arrivals == offered + 1 .. offered'
  <1>1. /\ spilled \in Seq(Nat) /\ taken \in Seq(Nat)
        /\ spilled' \in Seq(Nat) /\ taken' \in Seq(Nat)
        /\ offered \in Nat /\ offered' \in Nat
    BY Sizes DEF IInv, TypeOK, Item
  <1>2. Elements(spilled') = gone \union s /\ Elements(taken') = back \union t
    BY <1>1, ElementsOfConcat, Zenon
  <1>3. /\ \A x \in Live \ replayable : \A y \in gone \union back : y < x
        /\ 1 .. offered = Live \union gone \union back \union lost
        /\ \A x \in 1 .. offered :
             \/ x \in replayable
             \/ /\ x \in Live => x \notin gone \union back \union lost
                /\ x \in gone => x \notin back \union lost
                /\ x \in back => x \notin lost
    BY HistoryIs, Zenon DEF HInv, OlderLeft, Everywhere, OnePlace
  <1>4. Live \union arrivals = Live' \union s \union t \union Lo
    OBVIOUS
  <1>5. \A x \in Nat : x \in arrivals => x \notin 1 .. offered
    BY <1>1
  <1>0. \A y \in 1 .. offered, x \in arrivals : y < x
    BY ONLY <1>1
  <1>6. 1 .. offered' = (1 .. offered) \union arrivals
    BY <1>1
  <1>7. \A x \in gone \union s : x \in Nat
    <2>1. \A x \in gone \union s : x \in 1 .. offered'
      BY <1>3, <1>4, <1>6, Zenon
    <2>. QED BY <1>1, <2>1
  <1>8. \A x \in Live' \ replayable' :
          /\ \A y \in s : y < x
          /\ \A y \in t : y < x
    OBVIOUS
  <1>9. ASSUME NEW x \in Live' \ replayable', NEW y \in gone \union back
        PROVE  y < x
    <2>1. x \in Live \/ x \in arrivals
      BY <1>4, Zenon
    <2>2. CASE x \in Live
      BY <1>3, <2>2, Zenon
    <2>3. CASE x \in arrivals
      <3>1. y \in 1 .. offered
        BY <1>3, Zenon
      <3>. QED BY <1>1, <2>3, <3>1
    <2>. QED BY <2>1, <2>2, <2>3
  <1>10. /\ \A x \in Lo \ replayable' : x \notin Live' \union s \union t
         /\ \A x \in s : x \notin t
    OBVIOUS
  <1>11. \A x, y \in Nat : x < y => x # y
    OBVIOUS
  <1>. HIDE DEF gone, back, s, t, arrivals
  <1>12. FirstInFirstOut'
    <2>1. \A x \in Live' \ replayable' :
            /\ \A y \in gone \union s : y < x
            /\ \A y \in back \union t : y < x
      BY <1>8, <1>9, Zenon
    <2>2. \A x \in Live' \ replayable' :
            /\ \A y \in Elements(spilled') : y < x
            /\ \A y \in Elements(taken') : y < x
      BY <1>2, <2>1, Zenon
    <2>3. OlderLeft'
      BY <2>2, Zenon DEF OlderLeft
    <2>. QED BY <2>3, HistoryIs, PTL
  <1>13. SpilledOnceInOrder'
    <2>1. /\ Len(spilled) \in Nat /\ Len(S) \in Nat
          /\ Len(spilled') = Len(spilled) + Len(S)
          /\ DOMAIN spilled' = 1 .. Len(spilled')
          /\ \A i \in 1 .. Len(spilled) + Len(S) :
               /\ i <= Len(spilled) => i \in 1 .. Len(spilled) /\ spilled'[i] = spilled[i]
               /\ i > Len(spilled) => /\ i - Len(spilled) \in 1 .. Len(S)
                                      /\ spilled'[i] = S[i - Len(spilled)]
      <3>1. DOMAIN spilled' = 1 .. Len(spilled')
        BY <1>1, ElementsAre, Zenon
      <3> DEFINE u == spilled \o S
      <3>2. /\ Len(spilled) \in Nat /\ Len(S) \in Nat
            /\ Len(u) = Len(spilled) + Len(S)
            /\ \A i \in 1 .. Len(spilled) + Len(S) :
                 /\ i <= Len(spilled) => i \in 1 .. Len(spilled) /\ u[i] = spilled[i]
                 /\ i > Len(spilled) => /\ i - Len(spilled) \in 1 .. Len(S)
                                        /\ u[i] = S[i - Len(spilled)]
        BY ONLY <1>1, S \in Seq(Nat), ConcatIs, Zenon
      <3>3. spilled' = u
        OBVIOUS
      <3> HIDE DEF u
      <3>. QED BY ONLY <3>1, <3>2, <3>3, Zenon
    <2>2. ASSUME NEW i \in 1 .. Len(spilled'), NEW j \in 1 .. Len(spilled'), i < j
          PROVE  spilled'[i] < spilled'[j] \/ spilled'[j] \in replayable'
      <3> DEFINE l == Len(spilled)
      <3>0. i \in Int /\ j \in Int /\ l \in Int
        BY ONLY <2>1
      <3>1. CASE j <= l
        <4>1. i <= l
          BY ONLY <2>2, <3>0, <3>1
        <4>2. /\ i \in DOMAIN spilled /\ j \in DOMAIN spilled
              /\ spilled'[i] = spilled[i] /\ spilled'[j] = spilled[j]
          <5>1. /\ i \in 1 .. Len(spilled) /\ j \in 1 .. Len(spilled)
                /\ spilled'[i] = spilled[i] /\ spilled'[j] = spilled[j]
            BY ONLY <2>1, <3>1, <4>1, Zenon
          <5>2. DOMAIN spilled = 1 .. Len(spilled)
            BY <1>1, ElementsAre, Zenon
          <5>. QED BY ONLY <5>1, <5>2, Zenon
        <4>3. spilled[i] < spilled[j] \/ spilled[j] \in replayable
          BY <2>2, <4>2, Zenon DEF HInv, SpilledOnceInOrder
        <4>. QED BY <4>2, <4>3
      <3>2. CASE i <= l /\ j > l
        <4>1. /\ i \in 1 .. l /\ spilled'[i] = spilled[i]
              /\ j - l \in 1 .. Len(S) /\ spilled'[j] = S[j - l]
          BY <2>1, <3>2, Zenon
        <4>2. spilled[i] \in gone
          BY <1>1, <4>1, ElementsAre, Zenon DEF gone
        <4>3. S[j - l] \in s
          BY <4>1, ElementsAre, Zenon DEF s
        <4>4. S[j - l] \in Live \/ S[j - l] \in arrivals
          BY <1>4, <4>3, Zenon
        <4>5. CASE S[j - l] \in Live
          <5>1. S[j - l] \in replayable \/ spilled[i] < S[j - l]
            BY <1>3, <4>2, <4>5, Zenon
          <5>. QED BY <4>1, <5>1
        <4>6. CASE S[j - l] \in arrivals
          <5>1. spilled[i] \in 1 .. offered
            BY <1>3, <4>2, Zenon
          <5>2. spilled[i] < S[j - l]
            BY <1>0, <4>6, <5>1, Zenon
          <5>. QED BY <4>1, <5>2, Zenon
        <4>. QED BY <4>4, <4>5, <4>6
      <3>3. CASE i > l
        <4>1. j > l /\ i - l < j - l
          BY ONLY <2>2, <3>0, <3>3
        <4>2. /\ i - l \in 1 .. Len(S) /\ spilled'[i] = S[i - l]
              /\ j - l \in 1 .. Len(S) /\ spilled'[j] = S[j - l]
          BY <2>1, <3>3, <4>1, Zenon
        <4>3. S[i - l] < S[j - l]
          BY <4>1, <4>2, Zenon DEF Ascends
        <4>. QED BY <4>2, <4>3, Zenon
      <3>4. j <= l \/ (i <= l /\ j > l) \/ i > l
        BY ONLY <2>2, <3>0
      <3>. QED BY <3>1, <3>2, <3>3, <3>4, Zenon
    <2>. QED BY <2>1, <2>2, Zenon DEF SpilledOnceInOrder
  <1>14. Conservation'
    <2>1. 1 .. offered' = Live' \union (gone \union s) \union (back \union t) \union lost'
      <3>1. lost' = lost \union Lo
        OBVIOUS
      <3>. QED BY ONLY <1>3, <1>4, <1>6, <3>1, SMT
    <2>2. ASSUME NEW x \in 1 .. offered', x \notin replayable'
          PROVE  /\ x \in Live' => x \notin gone \union s \union back \union t \union lost'
                 /\ x \in gone \union s => x \notin back \union t \union lost'
                 /\ x \in back \union t => x \notin lost'
      <3>1. lost' = lost \union Lo /\ x \notin replayable
        BY <2>2
      <3>2. x \in Nat /\ ~(x < x)
        BY <1>1
      <3>3. x \in arrivals => x \notin gone \union back \union lost \union Live
        BY <1>3, <1>5, <3>2, Zenon
      <3>4. x \in Live => x \notin gone \union back \union lost
        BY <1>3, <3>1, <3>3, <1>6, Zenon
      <3>5. /\ x \in gone => x \notin back \union lost
            /\ x \in back => x \notin lost
        BY <1>3, <3>1, <3>3, <1>6, Zenon
      <3>6. x \in Live' \union s \union t \union Lo => x \in Live \/ x \in arrivals
        BY <1>4, Zenon
      <3>7. x \in Live' => x \notin s \union t
        BY <1>8, <2>2, <3>2, Zenon
      <3>8. x \in Lo => x \notin Live' \union s \union t
        BY <1>10, <2>2, Zenon
      <3>9. x \in s => x \notin t
        BY <1>10
      <3>. QED BY ONLY <3>1, <3>3, <3>4, <3>5, <3>6, <3>7, <3>8, <3>9, SMT
    <2>3. 1 .. offered' =
            Live' \union Elements(spilled') \union Elements(taken') \union lost'
      BY <1>2, <2>1, Zenon
    <2>4. ASSUME NEW x \in 1 .. offered', x \notin replayable'
          PROVE  /\ x \in Live' =>
                       x \notin Elements(spilled') \union Elements(taken') \union lost'
                 /\ x \in Elements(spilled') => x \notin Elements(taken') \union lost'
                 /\ x \in Elements(taken') => x \notin lost'
      BY <1>2, <2>2, <2>4, Zenon
    <2>5. (Everywhere /\ \A x \in 1 .. offered : x \in replayable \/ OnePlace(x))'
      BY <2>3, <2>4, Zenon DEF Everywhere, OnePlace
    <2>. QED BY <2>5, HistoryIs, PTL
  <1>. QED BY <1>12, <1>13, <1>14 DEF HInv
\* The oldest k of an ascending sequence, then e newer ones: still ascending.
LEMMA SentOrder ==
  ASSUME NEW h \in Seq(Nat), NEW k \in 0 .. Len(h), NEW a \in Nat, NEW e \in Nat,
         Within(h, a), Ascends(h), NEW S, S = SubSeq(h, 1, k) \o Fresh(a, e)
  PROVE  /\ S \in Seq(Nat)
         /\ Ascends(S)
  <1> DEFINE f == SubSeq(h, 1, k)
             g == Fresh(a, e)
  <1>0. S = f \o g
    OBVIOUS
  <1>1. /\ f \in Seq(Nat) /\ Len(f) = k /\ \A i \in 1 .. k : f[i] = h[i]
        /\ k \in Nat /\ Len(h) \in Nat
    <2>1. f \in Seq(Nat) /\ Len(f) = k /\ \A i \in 1 .. k : f[i] = h[i]
      BY FirstAndRest, Zenon
    <2>. QED BY <2>1
  <1>2. /\ g \in Seq(Nat) /\ Len(g) = e /\ \A i \in 1 .. e : g[i] = a + i
    BY FreshIs, Zenon
  <1>. HIDE DEF f, g
  <1>4. /\ S \in Seq(Nat) /\ Len(S) = Len(f) + Len(g)
        /\ \A i \in 1 .. Len(f) + Len(g) :
             /\ i <= Len(f) => i \in 1 .. Len(f) /\ S[i] = f[i]
             /\ i > Len(f) => i - Len(f) \in 1 .. Len(g) /\ S[i] = g[i - Len(f)]
    <2>1. /\ f \o g \in Seq(Nat) /\ Len(f \o g) = Len(f) + Len(g)
          /\ \A i \in 1 .. Len(f) + Len(g) :
               /\ i <= Len(f) => i \in 1 .. Len(f) /\ (f \o g)[i] = f[i]
               /\ i > Len(f) => i - Len(f) \in 1 .. Len(g) /\ (f \o g)[i] = g[i - Len(f)]
      BY <1>1, <1>2, ConcatIs, Zenon
    <2>. QED BY ONLY <1>0, <2>1, Zenon
  <1>5. ASSUME NEW i \in 1 .. Len(S), NEW j \in 1 .. Len(S), i < j
        PROVE  S[i] < S[j]
    <2>1. /\ i \in 1 .. Len(f) + Len(g) /\ j \in 1 .. Len(f) + Len(g)
          /\ i \in Int /\ j \in Int /\ i < j /\ Len(f) = k /\ Len(g) = e
      BY <1>1, <1>2, <1>4, <1>5
    <2>2. CASE j <= k
      <3>1. i <= k /\ i \in 1 .. Len(h) /\ j \in 1 .. Len(h)
        BY <1>1, <2>1, <2>2
      <3>2. S[i] = h[i] /\ S[j] = h[j]
        BY <1>1, <1>4, <2>1, <2>2, <3>1, Zenon
      <3>. QED BY <1>5, <3>1, <3>2, Zenon DEF Ascends
    <2>3. CASE i <= k /\ j > k
      <3>1. /\ i \in 1 .. k /\ S[i] = h[i] /\ j - k \in 1 .. e /\ S[j] = a + (j - k)
        BY <1>1, <1>2, <1>4, <2>1, <2>3, Zenon
      <3>2. i \in 1 .. Len(h)
        BY <1>1, <3>1
      <3>3. h[i] \in 1 .. a
        BY <3>2, Zenon DEF Within
      <3>. QED BY ONLY <3>1, <3>3, a \in Nat
    <2>4. CASE i > k
      <3>1. j > k
        BY <1>1, <2>1, <2>4
      <3>2. /\ i - k \in 1 .. e /\ S[i] = a + (i - k)
            /\ j - k \in 1 .. e /\ S[j] = a + (j - k)
        BY <1>1, <1>2, <1>4, <2>1, <2>4, <3>1, Zenon
      <3>. QED BY ONLY <1>1, <2>1, <3>2, a \in Nat
    <2>5. j <= k \/ (i <= k /\ j > k) \/ i > k
      BY ONLY <1>1, <2>1
    <2>. QED BY <2>2, <2>3, <2>4, <2>5, Zenon
  <1>. QED BY <1>4, <1>5, Zenon DEF Ascends

\* HeldIs as one formula, for the state after a step.
LEMMA HeldThen ==
  IInv =>
    /\ Held \in Seq(Nat) /\ Len(Held) \in Nat /\ Len(Held) <= N
    /\ Live = Elements(Held)
  BY HeldIs, Zenon

\* The same of the next state.
LEMMA HeldNext ==
  IInv' =>
    /\ Held' \in Seq(Nat) /\ Len(Held)' \in Nat /\ Len(Held)' <= N
    /\ Live' = Elements(Held')
  <1>1. IInv' =>
          (/\ Held \in Seq(Nat) /\ Len(Held) \in Nat /\ Len(Held) <= N
           /\ Live = Elements(Held))'
    BY HeldThen, PTL
  <1>. QED BY <1>1 DEF Elements

\* The k oldest items go to the spout and e arrivals after them, n more arrivals
\* are kept.
Flow(k, e, n) ==
  /\ e > 0 => k = Len(Held)
  /\ offered' = offered + (e + n)
  /\ Held' = SubSeq(Held, k + 1, Len(Held)) \o Fresh(offered + e, n)
  /\ spilled' = spilled \o (SubSeq(Held, 1, k) \o Fresh(offered, e))
  /\ UNCHANGED <<taken, lost, replayable>>

\* The parts of what is held: all items are in the first k or in the others, and
\* those are younger.
LEMMA WindowParts ==
  ASSUME IInv, NEW k \in 0 .. Len(Held)
  PROVE  LET out  == {Held[i] : i \in 1 .. k}
             kept == {Held[i] : i \in k + 1 .. Len(Held)}
         IN  /\ Live = out \union kept
             /\ Live \subseteq 1 .. offered
             /\ \A x \in kept, y \in out : y < x
             /\ k = Len(Held) => kept = {}
             /\ offered \in Nat
  <1> DEFINE out  == {Held[i] : i \in 1 .. k}
             kept == {Held[i] : i \in k + 1 .. Len(Held)}
             l    == Len(Held)
  <1>1. /\ Held \in Seq(Nat) /\ l \in Nat /\ offered \in Nat
        /\ \A i, j \in 1 .. l : i < j => Held[i] < Held[j]
        /\ Live = Elements(Held) /\ Live \subseteq 1 .. offered
    BY HeldIs, Sizes DEF IInv, TypeOK
  <1>2. \A x : x \in Live <=> \E i \in 1 .. l : Held[i] = x
    BY <1>1, ElementsAre, Zenon
  <1>3. \A i : i \in 1 .. l <=> i \in 1 .. k \/ i \in k + 1 .. l
    BY <1>1
  <1>4. \A x : x \in Live <=> x \in out \/ x \in kept
    BY <1>2, <1>3, Zenon
  <1>5. ASSUME NEW i \in 1 .. k, NEW j \in k + 1 .. l
        PROVE  Held[i] < Held[j]
    <2>1. i \in 1 .. l /\ j \in 1 .. l /\ i < j
      BY <1>1
    <2>. QED BY <1>1, <2>1, Zenon
  <1>6. \A x \in kept, y \in out : y < x
    BY <1>5, Zenon
  <1>7. k = Len(Held) => kept = {}
    BY <1>1
  <1>. HIDE DEF out, kept
  <1>8. Live = out \union kept
    BY ONLY <1>4, SMT
  <1>. QED BY <1>1, <1>6, <1>7, <1>8, Zenon DEF out, kept

\* Such a step keeps order and loses nothing.
LEMMA FlowHistory ==
  ASSUME IInv, IInv', HInv, NEW k \in 0 .. Len(Held), NEW e \in Nat, NEW n \in Nat,
         Flow(k, e, n)
  PROVE  HInv'
  <1> DEFINE S    == SubSeq(Held, 1, k) \o Fresh(offered, e)
             out  == {Held[i] : i \in 1 .. k}
             kept == {Held[i] : i \in k + 1 .. Len(Held)}
  <1>1. /\ Live = out \union kept /\ Live \subseteq 1 .. offered /\ offered \in Nat
        /\ \A x \in kept, y \in out : y < x
        /\ e > 0 => kept = {}
    BY WindowParts, Zenon DEF Flow
  <1>2. /\ Held \in Seq(Nat) /\ Len(Held) \in Nat
        /\ Within(Held, offered) /\ Ascends(Held)
    BY HeldIs, Zenon DEF Within, Ascends
  <1>3. /\ S \in Seq(Nat)
        /\ Ascends(S)
        /\ Elements(S) = out \union (offered + 1 .. offered + e)
    <2>1. k \in 0 .. Len(Held) /\ offered \in Nat /\ e \in Nat
      BY <1>1
    <2>2. S = SubSeq(Held, 1, k) \o Fresh(offered, e)
      OBVIOUS
    <2> HIDE DEF S
    <2>3. S \in Seq(Nat)
      BY ONLY <1>2, <2>1, <2>2, SentOrder, Zenon
    <2>4. Ascends(S)
      BY ONLY <1>2, <2>1, <2>2, SentOrder, Zenon
    <2>5. Elements(S) = out \union (offered + 1 .. offered + e)
      <3> DEFINE f == SubSeq(Held, 1, k)
                 g == Fresh(offered, e)
      <3>1. f \in Seq(Nat) /\ Elements(f) = out
        BY <1>2, <2>1, FirstAndRest, Zenon
      <3>2. g \in Seq(Nat) /\ Elements(g) = offered + 1 .. offered + e
        BY <2>1, FreshIs, Zenon
      <3>3. S = f \o g
        BY <2>2
      <3> HIDE DEF f, g, out
      <3>4. Elements(f \o g) = Elements(f) \union Elements(g)
        BY ONLY <3>1, <3>2, ElementsOfConcat, Zenon
      <3>. QED BY ONLY <3>1, <3>2, <3>3, <3>4, Zenon
    <2>. QED BY <2>3, <2>4, <2>5, Zenon
  <1>4. Live' = kept \union (offered + e + 1 .. offered + e + n)
    <2> DEFINE r == SubSeq(Held, k + 1, Len(Held))
               f == Fresh(offered + e, n)
    <2>1. r \in Seq(Nat) /\ Elements(r) = kept
      BY <1>2, FirstAndRest, Zenon
    <2>2. /\ f \in Seq(Nat) /\ Elements(f) = offered + e + 1 .. offered + e + n
      <3>1. offered + e \in Nat
        BY <1>1
      <3>. QED BY <3>1, FreshIs, Zenon
    <2>3. Held' = r \o f
      BY DEF Flow
    <2> HIDE DEF r, f, kept
    <2>4. Elements(r \o f) = Elements(r) \union Elements(f)
      BY <2>1, <2>2, ElementsOfConcat, Zenon
    <2>5. Live' = Elements(Held')
      BY HeldNext, Zenon
    <2>. QED BY <2>1, <2>2, <2>3, <2>4, <2>5, Zenon
  <1>. HIDE DEF out, kept, S
  <1>5. /\ <<>> \in Seq(Nat) /\ Elements(<<>>) = {} /\ taken' = taken \o <<>>
        /\ lost' = lost \union {}
        /\ replayable \subseteq replayable' /\ spilled' = spilled \o S
        /\ offered' = offered + (e + n) /\ offered <= offered'
    <2>1. taken \o <<>> = taken
      BY DEF IInv, TypeOK
    <2>. QED BY <1>1, <2>1 DEF Flow, S, Elements
  <1>6. ASSUME NEW x \in Live' \ replayable', NEW y \in Elements(S)
        PROVE  y < x
    <2>1. x \in Live' /\ (y \in out \/ y \in offered + 1 .. offered + e)
      BY <1>3, Zenon
    <2>2. CASE x \in kept /\ y \in out
      BY <1>1, <2>2, Zenon
    <2>3. CASE x \in kept /\ y \in offered + 1 .. offered + e
      BY <1>1, <2>3
    <2>4. CASE x \in offered + e + 1 .. offered + e + n
      <3>1. y \in 1 .. offered + e
        BY <1>1, <2>1
      <3>. QED BY <1>1, <2>4, <3>1
    <2>. QED BY <1>4, <2>1, <2>2, <2>3, <2>4, Zenon
  <1>7. Live \union (offered + 1 .. offered') =
          Live' \union Elements(S) \union Elements(<<>>) \union {}
    <2>1. offered + 1 .. offered' =
            (offered + 1 .. offered + e) \union (offered + e + 1 .. offered + e + n)
      BY <1>1, <1>5
    <2>. QED BY ONLY <1>1, <1>3, <1>4, <1>5, <2>1, SMT
  <1>. QED BY <1>3, <1>5, <1>6, <1>7, HistoryStep, Zenon
-------------------------------------------------------------------------------
(* What each operation does to the queue *)

\* An operation that moves the window and sends what leaves it is a flow.
LEMMA MoveFlow ==
  ASSUME IInv, alive, alive', NEW k \in 0 .. Count, NEW e \in Nat, NEW n \in 0 .. N,
         Count - k + n <= N, e > 0 => k = Count,
         head' = WAdd(head, k), tail' = WAdd(tail, n), offered' = offered + (e + n),
         spilled' = spilled \o (Oldest(k) \o Fresh(offered, e)),
         UNCHANGED <<taken, lost, replayable>>,
         \A i \in k .. Count - 1 :
           slots'[(head + i) % N] = slots[(head + i) % N],
         \A j \in 0 .. n - 1 :
           slots'[(head + (Count + j)) % N] = offered' - n + 1 + j
  PROVE  Flow(k, e, n) /\ k \in 0 .. Len(Held)
  <1>1. Len(Held) = Count /\ Oldest(k) = SubSeq(Held, 1, k)
    BY OldestHeld, Zenon
  <1>2. offered + e \in Nat /\ offered' = (offered + e) + n
    BY Sizes DEF IInv, TypeOK
  <1>3. Held' = SubSeq(Held, k + 1, Len(Held)) \o Fresh(offered + e, n)
    BY <1>2, HeldMoves, Zenon
  <1>. QED BY <1>1, <1>3, Zenon DEF Flow

\* Items leave and nothing is stored: the window shrinks to its younger items.
LEMMA Leaves ==
  ASSUME IInv, alive, alive', NEW k \in 0 .. Count,
         head' = WAdd(head, k), tail' = tail, slots' = slots, offered' \in Nat
  PROVE  /\ Held' = SubSeq(Held, k + 1, Len(Held))
         /\ Oldest(k) = SubSeq(Held, 1, k)
         /\ Len(Held) = Count /\ Count \in Nat
  <1>1. /\ head \in 0 .. Modulus - 1 /\ tail \in 0 .. Modulus - 1
        /\ Count \in Nat /\ Count <= N
    BY CountIs, Sizes DEF IInv, TypeOK, WindowInOrder
  <1>2. tail' = WAdd(tail, 0)
    BY <1>1, StandStill, Zenon
  <1>3. /\ 0 \in 0 .. N /\ Count - k + 0 <= N /\ offered' = offered' + 0
        /\ \A j \in 0 .. 0 - 1 :
             slots'[(head + (Count + j)) % N] = offered' - 0 + 1 + j
    <2> DEFINE a == offered'
    <2>1. a \in Nat
      OBVIOUS
    <2> HIDE DEF a
    <2>2. a = a + 0
      BY ONLY <2>1
    <2>3. \A j : j \notin 0 .. 0 - 1
      OBVIOUS
    <2>4. 0 \in 0 .. N /\ Count - k + 0 <= N
      BY ONLY <1>1, Sizes, k \in 0 .. Count
    <2>. QED BY <2>2, <2>3, <2>4, Zenon DEF a
  <1>4. \A i \in k .. Count - 1 : slots'[(head + i) % N] = slots[(head + i) % N]
    OBVIOUS
  <1>5. Held' = SubSeq(Held, k + 1, Len(Held)) \o Fresh(offered', 0)
    BY <1>1, <1>2, <1>3, <1>4, HeldMoves, Zenon
  <1>6. Len(Held) = Count /\ Oldest(k) = SubSeq(Held, 1, k)
    BY OldestHeld, Zenon
  <1>7. SubSeq(Held, k + 1, Len(Held)) \in Seq(Nat)
    <2>1. k \in 0 .. Len(Held) /\ Held \in Seq(Nat)
      BY <1>6, HeldIs
    <2>. QED BY <2>1, FirstAndRest, Zenon
  <1>8. Held' = SubSeq(Held, k + 1, Len(Held))
    BY <1>1, <1>5, <1>7, FreshNone, Zenon
  <1>. QED BY <1>1, <1>6, <1>8, Zenon

\* push with room, and try_push: nothing leaves.
LEMMA PushRoomFlow ==
  ASSUME IInv, PushRoom \/ TryPush
  PROVE  Flow(0, 0, 1) /\ 0 \in 0 .. Len(Held) /\ Count < N /\ alive
  <1>1. /\ alive /\ alive' = alive /\ Count < N /\ Store(offered + 1)
        /\ head' = head /\ spilled' = spilled
        /\ UNCHANGED <<taken, lost, replayable>>
        /\ offered' = offered + 1 /\ tail' = WAdd(tail, 1)
    <2>1. CASE PushRoom
      BY <2>1 DEF PushRoom, history, Store
    <2>2. CASE TryPush
      <3>1. Count \in Nat
        BY CountIs DEF IInv, TypeOK
      <3>. QED BY <2>2, <3>1, Sizes DEF TryPush, history, Store
    <2>. QED BY <2>1, <2>2
  <1>2. /\ head \in 0 .. Modulus - 1 /\ Count \in Nat /\ offered \in Nat
        /\ spilled \in Seq(Nat)
    BY CountIs, Sizes DEF IInv, TypeOK, Item
  <1>3. /\ 0 \in 0 .. Count /\ 0 \in Nat /\ 1 \in 0 .. N /\ Count - 0 + 1 <= N
        /\ offered' = offered + (0 + 1) /\ ~(0 > 0)
    BY <1>1, <1>2, Sizes
  <1>4. head' = WAdd(head, 0)
    BY <1>1, <1>2, StandStill, Zenon
  <1>5. /\ \A i \in 0 .. Count - 1 : slots'[(head + i) % N] = slots[(head + i) % N]
        /\ \A j \in 0 .. 1 - 1 :
             slots'[(head + (Count + j)) % N] = offered' - 1 + 1 + j
    BY <1>1, <1>3, StoredSlots, Zenon
  <1>6. spilled' = spilled \o (Oldest(0) \o Fresh(offered, 0))
    <2>1. Oldest(0) = <<>> /\ Fresh(offered, 0) = <<>>
      BY DEF Oldest, Fresh
    <2>. QED BY <1>1, <1>2, <2>1
  <1>. QED BY <1>1, <1>3, <1>4, <1>5, <1>6, MoveFlow, Zenon

\* push into a full ring: the oldest item leaves.
LEMMA PushEvictFlow ==
  ASSUME IInv, PushEvict
  PROVE  Flow(1, 0, 1) /\ 1 \in 0 .. Len(Held) /\ Count = N /\ alive
  <1>1. /\ alive /\ alive' = alive /\ Count >= N /\ Store(offered + 1)
        /\ head' = WAdd(head, 1) /\ spilled' = spilled \o Oldest(1)
        /\ UNCHANGED <<taken, lost, replayable>>
        /\ offered' = offered + 1 /\ tail' = WAdd(tail, 1)
    BY DEF PushEvict, Evict, history, Store
  <1>2. Count \in Nat /\ Count <= N /\ offered \in Nat
    BY CountIs, Sizes DEF IInv, TypeOK, WindowInOrder
  <1>3. /\ 1 \in 0 .. Count /\ 0 \in Nat /\ 1 \in 0 .. N /\ Count - 1 + 1 <= N
        /\ offered' = offered + (0 + 1) /\ ~(0 > 0) /\ Count = N
    BY <1>1, <1>2, Sizes
  <1>5. /\ \A i \in 1 .. Count - 1 : slots'[(head + i) % N] = slots[(head + i) % N]
        /\ \A j \in 0 .. 1 - 1 :
             slots'[(head + (Count + j)) % N] = offered' - 1 + 1 + j
    BY <1>1, <1>3, StoredSlots, Zenon
  <1>6. spilled' = spilled \o (Oldest(1) \o Fresh(offered, 0))
    <2>1. Oldest(1) \in Seq(Item)
      BY <1>3, OldestType, Zenon
    <2>2. Oldest(1) \in Seq(Nat)
      BY <2>1, Sizes DEF Item
    <2>3. Oldest(1) \o Fresh(offered, 0) = Oldest(1)
      BY <1>2, <2>2, FreshNone, Zenon
    <2>. QED BY <1>1, <2>3, Zenon
  <1>. QED BY <1>1, <1>3, <1>5, <1>6, MoveFlow, Zenon

\* push_slice: the ring's items leave first, then what does not fit of the slice.
LEMMA PushSliceFlow ==
  ASSUME IInv, NEW n \in Nat, PushSlice(n)
  PROVE  /\ Flow(Displaced(n), Excess(n), Keep(n))
         /\ Displaced(n) \in 0 .. Len(Held) /\ alive /\ Len(Held) = Count
  <1> DEFINE c == Keep(n)
             k == Displaced(n)
             e == Excess(n)
  <1>1. /\ c \in 0 .. N /\ e \in 0 .. n /\ c + e = n
        /\ k \in 0 .. Count /\ Count - k + c <= N
    BY SliceSizes, Zenon
  <1>2. /\ alive /\ alive' = alive /\ head' = WAdd(head, k) /\ tail' = WAdd(tail, c)
        /\ offered' = offered + n /\ spilled' = spilled \o SentBySlice(n)
        /\ UNCHANGED <<taken, lost, replayable>>
    BY DEF PushSlice, history
  <1>3. SentBySlice(n) = Oldest(k) \o Fresh(offered, e)
    BY Zenon DEF SentBySlice, ExcessItems, Fresh
  <1>4. e > 0 => k = Count
    BY Sizes DEF Excess, Keep, Displaced
  <1>5. /\ \A i \in k .. Count - 1 : slots'[(head + i) % N] = slots[(head + i) % N]
        /\ \A j \in 0 .. c - 1 :
             slots'[(head + (Count + j)) % N] = offered' - c + 1 + j
    BY SliceSlots, Zenon
  <1>. HIDE DEF c, k, e
  <1>6. e \in Nat /\ offered' = offered + (e + c)
    <2>1. c \in Nat /\ e \in Nat /\ e + c = n
      BY ONLY <1>1, Sizes, n \in Nat
    <2>. QED BY <1>2, <2>1, Zenon
  <1>7. spilled' = spilled \o (Oldest(k) \o Fresh(offered, e))
    BY <1>2, <1>3, Zenon
  <1>8. Flow(k, e, c) /\ k \in 0 .. Len(Held)
    BY <1>1, <1>2, <1>4, <1>5, <1>6, <1>7, MoveFlow, Zenon
  <1>9. Len(Held) = Count
    BY <1>1, <1>2, OldestHeld, Zenon
  <1>. QED BY <1>2, <1>8, <1>9, Zenon DEF c, k, e
\* Items the spout gets from flush, or before a panic cuts flush short.
LEMMA FlushFlow ==
  ASSUME IInv, alive, alive', NEW k \in 0 .. Count, Evict(k), tail' = tail,
         slots' = slots, offered' = offered, UNCHANGED <<taken, lost, replayable>>
  PROVE  Flow(k, 0, 0) /\ k \in 0 .. Len(Held)
  <1>1. head' = WAdd(head, k) /\ spilled' = spilled \o Oldest(k)
    BY DEF Evict
  <1>2. /\ Held' = SubSeq(Held, k + 1, Len(Held)) /\ Oldest(k) = SubSeq(Held, 1, k)
        /\ Len(Held) = Count
    <2>1. offered' \in Nat
      BY Sizes DEF IInv, TypeOK
    <2>. QED BY <1>1, <2>1, Leaves, Zenon
  <1>3. /\ Held \in Seq(Nat) /\ k \in 0 .. Len(Held) /\ offered \in Nat
    BY <1>2, HeldIs, Sizes DEF IInv, TypeOK
  <1>4. SubSeq(Held, k + 1, Len(Held)) \in Seq(Nat) /\ SubSeq(Held, 1, k) \in Seq(Nat)
    BY <1>3, FirstAndRest, Zenon
  <1>5. /\ offered + 0 = offered /\ 0 + 0 = 0 /\ ~(0 > 0)
    BY <1>3
  <1>6. /\ SubSeq(Held, k + 1, Len(Held)) \o Fresh(offered, 0) = Held'
        /\ SubSeq(Held, 1, k) \o Fresh(offered, 0) = Oldest(k)
    BY <1>2, <1>3, <1>4, FreshNone, Zenon
  <1>. QED BY <1>1, <1>3, <1>5, <1>6, Zenon DEF Flow

\* Dropping the ring sends everything, like flush.
LEMMA DropFlow ==
  ASSUME IInv, Drop
  PROVE  Flow(Len(Held), 0, 0) /\ Len(Held) \in 0 .. Len(Held) /\ Held' = <<>>
  <1>1. /\ alive /\ ~alive' /\ spilled' = spilled \o Oldest(Count)
        /\ offered' = offered /\ UNCHANGED <<taken, lost, replayable>>
    BY DEF Drop, Evict, history
  <1>2. Count \in Nat /\ Count \in 0 .. Count /\ offered \in Nat
    BY CountIs, Sizes DEF IInv, TypeOK
  <1>3. Len(Held) = Count /\ Oldest(Count) = SubSeq(Held, 1, Count) /\ Held \in Seq(Nat)
    BY <1>1, <1>2, OldestHeld, HeldIs, Zenon
  <1>4. Held' = <<>>
    BY <1>1 DEF Held
  <1>5. /\ SubSeq(Held, Len(Held) + 1, Len(Held)) = <<>>
        /\ SubSeq(Held, 1, Len(Held)) = Held
        /\ Held \o Fresh(offered, 0) = Held
        /\ <<>> \o Fresh(offered, 0) = <<>>
    <2>1. <<>> \in Seq(Nat)
      OBVIOUS
    <2>. QED BY <1>2, <1>3, <2>1, FreshNone, Zenon
  <1>6. offered + 0 = offered /\ 0 + 0 = 0 /\ ~(0 > 0)
    BY <1>2
  <1>. QED BY <1>1, <1>2, <1>3, <1>4, <1>5, <1>6, Zenon DEF Flow

\* push_and_flush: everything held leaves, then the item pushed.
LEMMA PushAndFlushFlow ==
  ASSUME IInv, PushAndFlush
  PROVE  Flow(Len(Held), 1, 0) /\ Len(Held) \in 0 .. Len(Held) /\ Held' = <<>> /\ alive
  <1>1. /\ alive /\ alive' = alive /\ head' = tail' /\ tail' = WAdd(tail, 1)
        /\ spilled' = spilled \o Window \o <<offered + 1>>
        /\ offered' = offered + 1 /\ UNCHANGED <<taken, lost, replayable>>
    BY DEF PushAndFlush, Store, history
  <1>2. /\ Count \in Nat /\ Count \in 0 .. Count /\ offered \in Nat /\ tail \in Int
        /\ spilled \in Seq(Nat)
    BY CountIs, Sizes DEF IInv, TypeOK, Item
  <1>3. Held = Window /\ Held \in Seq(Nat)
    BY <1>1, HeldIs DEF Held
  <1>4. Held' = <<>>
    <2>1. tail' \in 0 .. Modulus - 1
      <3>1. 1 \in Int
        OBVIOUS
      <3>. QED BY <1>1, <1>2, <3>1, Advance, Zenon
    <2>2. Count' = 0
      <3> DEFINE t == tail'
      <3>1. t - t = 0 /\ 0 \in 0 .. Modulus - 1
        <4>1. t \in Int
          BY <2>1, Sizes
        <4> HIDE DEF t
        <4>. QED BY <4>1, Sizes
      <3>2. Count' = (t - t) % Modulus
        BY <1>1 DEF Count, WSub
      <3>. QED BY <3>1, <3>2, ModSmall, Sizes, Zenon
    <2>3. Held' = [i \in 1 .. 0 |-> At(i - 1)']
      BY <1>1, <2>2 DEF Held, Window, Oldest
    <2>. QED BY <2>3
  <1>5. /\ SubSeq(Held, Len(Held) + 1, Len(Held)) = <<>>
        /\ SubSeq(Held, 1, Len(Held)) = Held
        /\ <<>> \o Fresh(offered + 1, 0) = <<>>
    <2>1. <<>> \in Seq(Nat) /\ offered + 1 \in Nat
      BY <1>2
    <2>. QED BY <1>2, <1>3, <2>1, FreshNone, Zenon
  <1>6. Fresh(offered, 1) = <<offered + 1>>
    BY <1>2 DEF Fresh
  <1>7. spilled' = spilled \o (Held \o Fresh(offered, 1))
    <2>1. <<offered + 1>> \in Seq(Nat)
      BY <1>2
    <2> DEFINE f == <<offered + 1>>
    <2>2. f \in Seq(Nat)
      BY <2>1
    <2> HIDE DEF f
    <2>3. (spilled \o Held) \o f = spilled \o (Held \o f)
      BY <1>2, <1>3, <2>2
    <2>. QED BY <1>1, <1>3, <1>6, <2>3, Zenon DEF f
  <1>8. /\ offered' = offered + (1 + 0) /\ Len(Held) \in 0 .. Len(Held)
    BY <1>1, <1>2, <1>3
  <1>. QED BY <1>1, <1>4, <1>5, <1>7, <1>8, Zenon DEF Flow

\* The user takes the k oldest items.
Taking(k) ==
  /\ Held' = SubSeq(Held, k + 1, Len(Held))
  /\ taken' = taken \o SubSeq(Held, 1, k)
  /\ UNCHANGED <<offered, spilled, lost, replayable>>

\* pop takes the oldest item.
LEMMA PopTaking ==
  ASSUME IInv, Pop
  PROVE  Taking(1) /\ 1 \in 0 .. Len(Held) /\ alive
  <1>1. /\ alive /\ alive' = alive /\ head # tail /\ taken' = Append(taken, At(0))
        /\ head' = WAdd(head, 1) /\ tail' = tail /\ slots' = slots
        /\ UNCHANGED <<offered, spilled, lost, replayable>>
    BY DEF Pop
  <1>2. head \in 0 .. Modulus - 1 /\ tail \in 0 .. Modulus - 1 /\ taken \in Seq(Nat)
    BY Sizes DEF IInv, TypeOK, Item
  <1>3. 1 \in 0 .. Count
    <2>1. Count # 0 /\ Count \in 0 .. Modulus - 1
      BY <1>1, <1>2, CountIs, Zenon
    <2>. QED BY <2>1, Sizes
  <1>4. /\ Held' = SubSeq(Held, 1 + 1, Len(Held)) /\ Oldest(1) = SubSeq(Held, 1, 1)
        /\ Len(Held) = Count
    <2>1. offered' \in Nat
      BY <1>1, Sizes DEF IInv, TypeOK
    <2>. QED BY <1>1, <1>3, <2>1, Leaves, Zenon
  <1>5. taken' = taken \o Oldest(1)
    <2> DEFINE x == At(0)
    <2>1. Oldest(1) = <<x>>
      BY DEF Oldest
    <2>2. taken' = Append(taken, x)
      BY <1>1
    <2> HIDE DEF x
    <2>3. x \in Nat
      <3>1. Oldest(1) \in Seq(Item)
        BY <1>3, OldestType, Zenon
      <3>2. <<x>> \in Seq(Item)
        BY <2>1, <3>1, Zenon
      <3>. QED BY ONLY <3>2, Sizes DEF Item
    <2>4. Append(taken, x) = taken \o <<x>>
      BY ONLY <1>2, <2>3
    <2>. QED BY <2>1, <2>2, <2>4, Zenon
  <1>. QED BY <1>1, <1>3, <1>4, <1>5, Zenon DEF Taking

\* pop_slice takes as many as there are or as fit; its two segments of the buffer
\* are the front of what is held.
LEMMA PopSliceTaking ==
  ASSUME IInv, NEW m \in Nat, PopSlice(m)
  PROVE  \E c \in 1 .. Count : Taking(c) /\ c \in 0 .. Len(Held) /\ alive /\ Count <= N
  <1> DEFINE c == IF m < Count THEN m ELSE Count
  <1>1. /\ alive /\ alive' = alive /\ c > 0
        /\ head' = WAdd(head, c) /\ tail' = tail /\ slots' = slots
        /\ taken' = taken \o [i \in 1 .. c |->
                                 IF i <= N - Index(head) THEN slots[Index(head) + i - 1]
                                 ELSE slots[i - (N - Index(head)) - 1]]
        /\ UNCHANGED <<offered, spilled, lost, replayable>>
    BY DEF PopSlice
  <1>2. Count \in Nat /\ Count <= N
    BY CountIs, Sizes DEF IInv, TypeOK, WindowInOrder
  <1>3. c \in 0 .. Count /\ c \in 1 .. Count
    BY <1>1, <1>2
  <1>. HIDE DEF c
  <1>4. /\ Held' = SubSeq(Held, c + 1, Len(Held)) /\ Oldest(c) = SubSeq(Held, 1, c)
        /\ Len(Held) = Count
    <2>1. offered' \in Nat
      BY <1>1, Sizes DEF IInv, TypeOK
    <2>. QED BY <1>1, <1>3, <2>1, Leaves, Zenon
  <1>5. taken' = taken \o Oldest(c)
    BY <1>1, <1>3, PopSliceReads, Zenon
  <1>6. Taking(c)
    BY <1>1, <1>4, <1>5, Zenon DEF Taking
  <1>. QED BY <1>1, <1>2, <1>3, <1>4, <1>6, Zenon
-------------------------------------------------------------------------------
(* Nothing is lost and nothing overtakes *)

\* The first k items held, as a sequence, and the others, as sets.
LEMMA FirstOrder ==
  ASSUME IInv, NEW k \in 0 .. Len(Held)
  PROVE  /\ SubSeq(Held, 1, k) \in Seq(Nat) /\ Ascends(SubSeq(Held, 1, k))
         /\ Elements(SubSeq(Held, 1, k)) = {Held[i] : i \in 1 .. k}
         /\ Elements(SubSeq(Held, k + 1, Len(Held))) =
              {Held[i] : i \in k + 1 .. Len(Held)}
  <1> DEFINE f == SubSeq(Held, 1, k)
  <1>1. /\ Held \in Seq(Nat) /\ Len(Held) \in Nat /\ offered \in Nat /\ 0 \in Nat
        /\ Within(Held, offered) /\ Ascends(Held)
    BY HeldIs, Sizes DEF IInv, TypeOK, Within, Ascends
  <1>2. /\ f \in Seq(Nat) /\ Elements(f) = {Held[i] : i \in 1 .. k}
        /\ Elements(SubSeq(Held, k + 1, Len(Held))) =
             {Held[i] : i \in k + 1 .. Len(Held)}
    BY <1>1, FirstAndRest, Zenon
  <1>3. Ascends(f \o Fresh(offered, 0))
    BY ONLY <1>1, SentOrder, k \in 0 .. Len(Held), Zenon DEF f
  <1>. HIDE DEF f
  <1>4. f \o Fresh(offered, 0) = f
    BY <1>1, <1>2, FreshNone, Zenon
  <1>. QED BY <1>2, <1>3, <1>4, Zenon DEF f

\* pop and pop_slice.
LEMMA TakingHistory ==
  ASSUME IInv, IInv', HInv, NEW k \in 0 .. Len(Held), Taking(k)
  PROVE  HInv'
  <1> DEFINE T    == SubSeq(Held, 1, k)
             out  == {Held[i] : i \in 1 .. k}
             kept == {Held[i] : i \in k + 1 .. Len(Held)}
  <1>1. /\ Live = out \union kept /\ offered \in Nat
        /\ \A x \in kept, y \in out : y < x
    BY WindowParts, Zenon
  <1>2. T \in Seq(Nat) /\ Elements(T) = out
    BY FirstOrder, Zenon
  <1>3. Live' = kept
    <2>1. Live' = Elements(Held')
      BY HeldNext, Zenon
    <2>. QED BY <2>1, FirstOrder, Zenon DEF Taking
  <1>4. /\ taken' = taken \o T /\ offered' = offered
        /\ UNCHANGED <<spilled, lost, replayable>>
    BY DEF Taking
  <1>. HIDE DEF T, out, kept
  <1>5. /\ <<>> \in Seq(Nat) /\ Elements(<<>>) = {} /\ spilled' = spilled \o <<>>
        /\ Ascends(<<>>) /\ lost' = lost \union {} /\ replayable \subseteq replayable'
        /\ offered <= offered' /\ offered + 1 .. offered' = {}
    <2>1. spilled \o <<>> = spilled
      BY DEF IInv, TypeOK
    <2>. QED BY <1>1, <1>4, <2>1 DEF Elements, Ascends
  <1>6. \A x \in Live' \ replayable' : \A y \in Elements(T) : y < x
    BY <1>1, <1>2, <1>3, Zenon
  <1>7. Live \union (offered + 1 .. offered') =
          Live' \union Elements(<<>>) \union Elements(T) \union {}
    BY ONLY <1>1, <1>2, <1>3, <1>5, SMT
  <1>. QED BY <1>2, <1>4, <1>5, <1>6, <1>7, HistoryStep, Zenon

\* push into a full ring whose spout panics: the oldest item has been sent, the
\* pushed one is lost.
LEMMA PushPanicHistory ==
  ASSUME IInv, IInv', HInv, PushPanic
  PROVE  HInv'
  <1> DEFINE S    == SubSeq(Held, 1, 1)
             out  == {Held[i] : i \in 1 .. 1}
             kept == {Held[i] : i \in 1 + 1 .. Len(Held)}
             Lo   == {offered + 1}
  <1>1. /\ alive /\ alive' = alive /\ Count >= N /\ head' = WAdd(head, 1)
        /\ tail' = tail /\ slots' = slots /\ spilled' = spilled \o Oldest(1)
        /\ offered' = offered + 1 /\ lost' = lost \union Lo
        /\ UNCHANGED <<taken, replayable>>
    BY DEF PushPanic, Evict
  <1>2. /\ 1 \in 0 .. Count /\ offered \in Nat /\ offered' \in Nat /\ offered <= offered'
        /\ offered + 1 .. offered' = Lo
    <2>1. Count \in Nat /\ offered \in Nat
      BY CountIs, Sizes DEF IInv, TypeOK
    <2>. QED BY <1>1, <2>1, Sizes
  <1>3. /\ Held' = SubSeq(Held, 1 + 1, Len(Held)) /\ Oldest(1) = S
        /\ Len(Held) = Count
    BY <1>1, <1>2, Leaves, Zenon
  <1>4. 1 \in 0 .. Len(Held)
    BY <1>2, <1>3, Zenon
  <1>5. /\ Live = out \union kept /\ Live \subseteq 1 .. offered
        /\ \A x \in kept, y \in out : y < x
    BY <1>4, WindowParts, Zenon
  <1>6. S \in Seq(Nat) /\ Elements(S) = out /\ Ascends(S)
    BY <1>4, FirstOrder, Zenon
  <1>7. Live' = kept
    <2>1. Live' = Elements(Held')
      BY HeldNext, Zenon
    <2>2. Elements(SubSeq(Held, 1 + 1, Len(Held))) = kept
      BY <1>4, FirstOrder, Zenon
    <2>. QED BY <1>3, <2>1, <2>2, Zenon
  <1>8. spilled' = spilled \o S
    BY <1>1, <1>3, Zenon
  <1>9. \A x \in 1 .. offered : x \notin Lo
    BY <1>2
  <1>. HIDE DEF S, out, kept, Lo
  <1>10. /\ <<>> \in Seq(Nat) /\ Elements(<<>>) = {} /\ taken' = taken \o <<>>
         /\ replayable \subseteq replayable'
    <2>1. taken \o <<>> = taken
      BY DEF IInv, TypeOK
    <2>. QED BY <1>1, <2>1 DEF Elements
  <1>11. \A x \in Live' \ replayable' : \A y \in Elements(S) : y < x
    BY <1>5, <1>6, <1>7, Zenon
  <1>12. Live \union (offered + 1 .. offered') =
           Live' \union Elements(S) \union Elements(<<>>) \union Lo
    BY ONLY <1>2, <1>5, <1>6, <1>7, <1>10, SMT
  <1>13. \A x \in Lo \ replayable' :
           x \notin Live' \union Elements(S) \union Elements(<<>>)
    BY ONLY <1>5, <1>6, <1>7, <1>9, <1>10, SMT
  <1>. QED BY <1>1, <1>2, <1>6, <1>8, <1>10, <1>11, <1>12, <1>13, HistoryStep, Zenon

\* A panic while dropping: what was not sent leaks.
LEMMA DropPanicHistory ==
  ASSUME IInv, IInv', HInv, NEW k \in Nat, DropPanic(k)
  PROVE  HInv'
  <1> DEFINE S    == SubSeq(Held, 1, k)
             out  == {Held[i] : i \in 1 .. k}
             kept == {Held[i] : i \in k + 1 .. Len(Held)}
             Lo   == {At(i) : i \in k .. Count - 1}
  <1>1. /\ alive /\ alive' = FALSE /\ k <= Count /\ spilled' = spilled \o Oldest(k)
        /\ offered' = offered /\ lost' = lost \union Lo
        /\ UNCHANGED <<taken, replayable>>
    BY DEF DropPanic, Evict
  <1>2. /\ k \in 0 .. Count /\ Count \in Nat /\ offered \in Nat /\ offered <= offered'
        /\ offered + 1 .. offered' = {}
    <2>1. Count \in Nat /\ offered \in Nat
      BY CountIs, Sizes DEF IInv, TypeOK
    <2>. QED BY <1>1, <2>1
  <1>3. /\ Oldest(k) = S /\ Len(Held) = Count /\ \A i \in 1 .. Count : Held[i] = At(i - 1)
    BY <1>1, <1>2, OldestHeld, Zenon
  <1>4. k \in 0 .. Len(Held)
    BY <1>2, <1>3, Zenon
  <1>5. /\ Live = out \union kept
        /\ \A x \in kept, y \in out : y < x
        /\ Live \subseteq 1 .. offered
    BY <1>4, WindowParts, Zenon
  <1>6. S \in Seq(Nat) /\ Elements(S) = out /\ Ascends(S)
    BY <1>4, FirstOrder, Zenon
  <1>7. Live' = {}
    BY <1>1 DEF Live
  <1>8. spilled' = spilled \o S
    BY <1>1, <1>3, Zenon
  <1>9. Lo = kept
    <2>1. ASSUME NEW i \in k .. Count - 1
          PROVE  At(i) \in kept
      <3>1. i + 1 \in k + 1 .. Count /\ i + 1 \in 1 .. Count /\ (i + 1) - 1 = i
        BY <1>2
      <3>2. At(i) = Held[i + 1]
        BY <1>3, <3>1, Zenon
      <3>. QED BY <1>3, <3>1, <3>2, Zenon
    <2>2. ASSUME NEW i \in k + 1 .. Len(Held)
          PROVE  Held[i] \in Lo
      <3>1. i - 1 \in k .. Count - 1 /\ i \in 1 .. Count
        BY <1>2, <1>3
      <3>. QED BY <1>3, <3>1, Zenon
    <2>3. \A x : x \in Lo <=> x \in kept
      BY <2>1, <2>2, Zenon
    <2> HIDE DEF Lo, kept
    <2>. QED BY ONLY <2>3, SMT
  <1>. HIDE DEF S, out, kept, Lo
  <1>10. /\ <<>> \in Seq(Nat) /\ Elements(<<>>) = {} /\ taken' = taken \o <<>>
         /\ replayable \subseteq replayable'
    <2>1. taken \o <<>> = taken
      BY DEF IInv, TypeOK
    <2>. QED BY <1>1, <2>1 DEF Elements
  <1>11. Live \union (offered + 1 .. offered') =
           Live' \union Elements(S) \union Elements(<<>>) \union Lo
    BY ONLY <1>2, <1>5, <1>6, <1>7, <1>9, <1>10, SMT
  <1>12. ASSUME NEW x \in Lo
         PROVE  x \notin Live' \union Elements(S) \union Elements(<<>>)
    <2>1. x \in Nat /\ ~(x < x)
      <3>1. x \in 1 .. offered
        BY <1>5, <1>9, Zenon
      <3>. QED BY ONLY <1>2, <3>1
    <2>2. x \notin out
      BY <1>5, <1>9, <2>1, Zenon
    <2>. QED BY ONLY <1>6, <1>7, <1>10, <2>2, SMT
  <1>. QED BY <1>1, <1>2, <1>6, <1>7, <1>8, <1>10, <1>11, <1>12, HistoryStep, Zenon
\* What has been sent when the m-th send of push_slice panics: p items of the
\* ring and q of the slice.
LEMMA SentUntilPanic ==
  ASSUME IInv, alive, NEW n \in Nat, NEW m \in Nat, m <= Len(SentBySlice(n)),
         NEW p, p = (IF m <= Displaced(n) THEN m ELSE Displaced(n))
  PROVE  /\ p \in 0 .. Displaced(n) /\ m - p \in 0 .. Excess(n)
         /\ SubSeq(SentBySlice(n), 1, m) = SubSeq(Held, 1, p) \o Fresh(offered, m - p)
         /\ m - p > 0 => p = Len(Held)
         /\ Displaced(n) \in 0 .. Len(Held) /\ Len(Held) = Count
  <1> DEFINE d == Displaced(n)
             e == Excess(n)
             s == SubSeq(Held, 1, d)
             f == Fresh(offered, e)
  <1>1. /\ d \in 0 .. Count /\ e \in 0 .. n /\ Count \in Nat /\ offered \in Nat
        /\ d \in Nat /\ e \in Nat
    <2>1. d \in 0 .. Count /\ e \in 0 .. n
      BY SliceSizes, Zenon
    <2>2. Count \in Nat /\ offered \in Nat
      BY CountIs, Sizes DEF IInv, TypeOK
    <2> HIDE DEF d, e
    <2>. QED BY <2>1, <2>2
  <1>2. e > 0 => d = Count
    BY Sizes DEF Excess, Keep, Displaced
  <1>3. Oldest(d) = s /\ Len(Held) = Count /\ Held \in Seq(Nat)
    BY <1>1, OldestHeld, HeldIs, Zenon
  <1>4. SentBySlice(n) = s \o f
    BY <1>3, Zenon DEF SentBySlice, ExcessItems, Fresh
  <1>5. d \in 0 .. Len(Held)
    BY <1>1, <1>3, Zenon
  <1>6. p = (IF m <= d THEN m ELSE d)
    BY Zenon
  <1>. HIDE DEF d, e
  <1>7. s \in Seq(Nat) /\ Len(s) = d /\ \A i \in 1 .. d : s[i] = Held[i]
    BY <1>3, <1>5, FirstAndRest, Zenon
  <1>8. f \in Seq(Nat) /\ Len(f) = e
    BY <1>1, FreshIs, Zenon
  <1>. HIDE DEF s, f
  <1>9. Len(s \o f) = d + e
    BY <1>7, <1>8, ConcatIs, Zenon
  <1>10. m <= d + e
    BY <1>4, <1>9, Zenon
  <1>11. /\ p \in 0 .. d /\ m - p \in 0 .. e /\ m \in 0 .. d + e /\ m - p \in Nat
         /\ m - p > 0 => p = d /\ d = Count
    BY ONLY <1>1, <1>2, <1>6, <1>10, m \in Nat
  <1>12. SubSeq(s \o f, 1, m) = SubSeq(Held, 1, p) \o Fresh(offered, m - p)
    <2>0. m \in 0 .. Len(s) + Len(f)
      BY <1>7, <1>8, <1>11, Zenon
    <2>1. CASE m <= d
      <3>1. p = m /\ m - p = 0 /\ m \in 0 .. Len(Held)
        BY ONLY <1>1, <1>3, <1>6, <2>1, m \in Nat
      <3>2. SubSeq(s \o f, 1, m) = SubSeq(s, 1, m)
        BY <1>7, <1>8, <2>0, <2>1, CutConcat, Zenon
      <3>3. SubSeq(s, 1, m) = SubSeq(Held, 1, m)
        <4> DEFINE a == SubSeq(s, 1, m)
                   b == SubSeq(Held, 1, m)
        <4>1. m \in 0 .. Len(s)
          BY ONLY <1>7, <2>1, m \in Nat
        <4>2. a \in Seq(Nat) /\ Len(a) = m /\ \A i \in 1 .. m : a[i] = s[i]
          BY <1>7, <4>1, FirstAndRest, Zenon
        <4>3. b \in Seq(Nat) /\ Len(b) = m /\ \A i \in 1 .. m : b[i] = Held[i]
          BY <1>3, <3>1, FirstAndRest, Zenon
        <4> HIDE DEF a, b
        <4>4. \A i \in 1 .. m : i \in 1 .. d
          BY ONLY <1>1, <2>1, m \in Nat
        <4>5. \A i \in 1 .. m : a[i] = b[i]
          BY <1>7, <4>2, <4>3, <4>4, Zenon
        <4>6. a = b
          BY ONLY <4>2, <4>3, <4>5, SameSequence, Zenon
        <4>. QED BY <4>6 DEF a, b
      <3>4. SubSeq(Held, 1, m) \in Seq(Nat)
        BY <1>3, <3>1, FirstAndRest, Zenon
      <3>5. SubSeq(Held, 1, m) \o Fresh(offered, 0) = SubSeq(Held, 1, m)
        BY <1>1, <3>4, FreshNone, Zenon
      <3>. QED BY <3>1, <3>2, <3>3, <3>5, Zenon
    <2>2. CASE ~(m <= d)
      <3>1. p = d /\ m >= d /\ m - d \in 0 .. e
        BY ONLY <1>1, <1>6, <1>11, <2>2, m \in Nat
      <3>2. SubSeq(s \o f, 1, m) = s \o SubSeq(f, 1, m - d)
        BY <1>7, <1>8, <2>0, <3>1, CutConcat, Zenon
      <3>3. SubSeq(f, 1, m - d) = Fresh(offered, m - d)
        BY <1>1, <3>1, CutFresh, Zenon DEF f
      <3>. QED BY <3>1, <3>2, <3>3, Zenon DEF s
    <2>. QED BY <2>1, <2>2
  <1>. QED BY <1>3, <1>4, <1>5, <1>11, <1>12, Zenon DEF d, e

\* A panic in push_slice: nothing leaves the window, so what was sent of it is
\* there to be sent again, and the slice is lost but for what was sent.
LEMMA PushSlicePanicHistory ==
  ASSUME IInv, IInv', HInv, NEW n \in Nat, NEW m \in Nat, PushSlicePanic(n, m)
  PROVE  HInv'
  <1> DEFINE d    == Displaced(n)
             p    == IF m <= d THEN m ELSE d
             q    == m - p
             S    == SubSeq(SentBySlice(n), 1, m)
             out  == {Held[i] : i \in 1 .. p}
             kept == {Held[i] : i \in p + 1 .. Len(Held)}
             sent == offered + 1 .. offered + q
             Lo   == {offered + i : i \in {j \in 1 .. n : j > m - d}}
             R    == {At(i) : i \in {j \in 0 .. d - 1 : j < m}}
  <1>1. /\ alive /\ m <= Len(SentBySlice(n)) /\ spilled' = spilled \o S
        /\ offered' = offered + n /\ lost' = lost \union Lo
        /\ replayable' = replayable \union R
        /\ UNCHANGED <<head, tail, slots, alive, taken>>
    BY DEF PushSlicePanic
  <1>2. /\ p \in 0 .. d /\ q \in 0 .. Excess(n)
        /\ S = SubSeq(Held, 1, p) \o Fresh(offered, q)
        /\ q > 0 => p = Len(Held)
        /\ d \in 0 .. Len(Held) /\ Len(Held) = Count
    BY <1>1, SentUntilPanic, Zenon
  <1>3. /\ offered \in Nat /\ Count \in Nat /\ Excess(n) \in 0 .. n
        /\ Held \in Seq(Nat) /\ Within(Held, offered) /\ Ascends(Held)
    <2>1. offered \in Nat /\ Count \in Nat
      BY CountIs, Sizes DEF IInv, TypeOK
    <2>. QED BY <2>1, SliceSizes, HeldIs, Zenon DEF Within, Ascends
  <1>. HIDE DEF d
  <1>4. /\ p \in 0 .. Len(Held) /\ q \in Nat /\ q \in 0 .. n /\ d \in Nat
        /\ p = (IF m <= d THEN m ELSE d) /\ q = m - p
    <2>1. p = (IF m <= d THEN m ELSE d) /\ q = m - p
      OBVIOUS
    <2> HIDE DEF p, q
    <2>. QED BY <1>2, <1>3, <2>1
  <1>5. R = out
    <2>1. \A i \in 1 .. Count : Held[i] = At(i - 1)
      <3>1. 0 \in 0 .. Count
        BY <1>3
      <3>. QED BY <1>1, <3>1, OldestHeld, Zenon
    <2> HIDE DEF p, q
    <2>2. ASSUME NEW i \in 0 .. d - 1, i < m
          PROVE  At(i) \in out
      <3>1. i + 1 \in 1 .. p /\ i + 1 \in 1 .. Count /\ (i + 1) - 1 = i
        BY <1>2, <1>3, <1>4, <2>2
      <3>2. At(i) = Held[i + 1]
        BY <2>1, <3>1, Zenon
      <3>. QED BY <3>1, <3>2, Zenon
    <2>3. ASSUME NEW i \in 1 .. p
          PROVE  Held[i] \in R
      <3>1. i - 1 \in 0 .. d - 1 /\ i - 1 < m /\ i \in 1 .. Count
        BY <1>2, <1>3, <1>4
      <3>2. At(i - 1) \in R
        BY <3>1, Zenon
      <3>. QED BY <2>1, <3>1, <3>2, Zenon
    <2>4. \A x : x \in R <=> x \in out
      BY <2>2, <2>3, Zenon
    <2> HIDE DEF R, out
    <2>. QED BY ONLY <2>4, SMT
  <1>6. Lo = offered + q + 1 .. offered + n
    <2> HIDE DEF p, q
    <2>1. ASSUME NEW i \in 1 .. n, i > m - d
          PROVE  offered + i \in offered + q + 1 .. offered + n
      BY <1>3, <1>4, <2>1
    <2>2. ASSUME NEW x \in offered + q + 1 .. offered + n
          PROVE  x \in Lo
      <3>1. x - offered \in 1 .. n /\ x - offered > m - d /\ offered + (x - offered) = x
        BY <1>3, <1>4
      <3>. QED BY <3>1, Zenon
    <2> DEFINE B == offered + q + 1 .. offered + n
    <2>3. \A x : x \in Lo <=> x \in B
      BY <2>1, <2>2, Zenon
    <2> HIDE DEF Lo, B
    <2>4. Lo = B
      BY ONLY <2>3, SMT
    <2>. QED BY <2>4 DEF B
  <1>. HIDE DEF p, q
  <1>7. /\ Live = out \union kept /\ Live \subseteq 1 .. offered
        /\ \A x \in kept, y \in out : y < x
        /\ q > 0 => kept = {}
    BY <1>2, <1>4, WindowParts, Zenon
  <1>8. S \in Seq(Nat) /\ Ascends(S) /\ Elements(S) = out \union sent
    <2> DEFINE f == SubSeq(Held, 1, p)
               g == Fresh(offered, q)
    <2>1. f \in Seq(Nat) /\ Elements(f) = out
      BY <1>4, FirstOrder, Zenon
    <2>2. g \in Seq(Nat) /\ Elements(g) = sent
      BY <1>3, <1>4, FreshIs, Zenon
    <2>3. S = f \o g
      BY <1>2
    <2> HIDE DEF S
    <2>4. S \in Seq(Nat)
      BY ONLY <1>3, <1>4, <2>3, SentOrder, Zenon DEF f, g
    <2>5. Ascends(S)
      BY ONLY <1>3, <1>4, <2>3, SentOrder, Zenon DEF f, g
    <2> HIDE DEF f, g, out, sent
    <2>6. Elements(f \o g) = Elements(f) \union Elements(g)
      BY ONLY <2>1, <2>2, ElementsOfConcat, Zenon
    <2>. QED BY ONLY <2>1, <2>2, <2>3, <2>4, <2>5, <2>6, Zenon
  <1>9. Live' = Live
    BY <1>1 DEF Live, Count, At
  <1>. HIDE DEF S, out, kept, Lo, R
  <1>10. /\ <<>> \in Seq(Nat) /\ Elements(<<>>) = {} /\ taken' = taken \o <<>>
         /\ replayable \subseteq replayable' /\ offered <= offered'
    <2>1. taken \o <<>> = taken
      BY DEF IInv, TypeOK
    <2>. QED BY <1>1, <1>3, <2>1 DEF Elements
  <1>11. ASSUME NEW x \in Live' \ replayable', NEW y \in Elements(S)
         PROVE  y < x
    <2>1. x \in kept
      BY <1>1, <1>5, <1>7, <1>9, Zenon
    <2>2. CASE y \in out
      BY <1>7, <2>1, <2>2, Zenon
    <2>3. CASE y \in sent
      <3>1. q > 0
        BY ONLY <1>3, <1>4, <2>3 DEF sent
      <3>. QED BY <1>7, <2>1, <3>1, Zenon
    <2>. QED BY <1>8, <2>2, <2>3, Zenon
  <1>12. Live \union (offered + 1 .. offered') =
           Live' \union Elements(S) \union Elements(<<>>) \union Lo
    <2>1. offered + 1 .. offered' = sent \union (offered + q + 1 .. offered + n)
      <3>1. offered' = offered + n
        BY <1>1
      <3>. QED BY ONLY <1>3, <1>4, <3>1, n \in Nat DEF sent
    <2> HIDE DEF sent
    <2>. QED BY ONLY <1>6, <1>7, <1>8, <1>9, <1>10, <2>1, SMT
  <1>13. ASSUME NEW x \in Lo
         PROVE  x \notin Live' \union Elements(S) \union Elements(<<>>)
    <2>1. x \notin 1 .. offered /\ x \notin sent
      <3>1. x \in offered + q + 1 .. offered + n
        BY <1>6
      <3>. QED BY ONLY <1>3, <1>4, <3>1, n \in Nat DEF sent
    <2> HIDE DEF sent
    <2>. QED BY ONLY <1>7, <1>8, <1>9, <1>10, <2>1, SMT
  <1>. QED BY <1>1, <1>8, <1>10, <1>11, <1>12, <1>13, HistoryStep, Zenon
LEMMA InitHistory == Init => HInv
  <1> SUFFICES ASSUME Init
               PROVE  HInv
    OBVIOUS
  <1>1. /\ offered = 0 /\ spilled = <<>> /\ taken = <<>> /\ lost = {} /\ replayable = {}
        /\ head = 0 /\ tail = 0
    BY DEF Init
  <1>2. Count = 0
    <2>1. 0 \in 0 .. Modulus - 1
      BY Sizes
    <2>. QED BY <1>1, <2>1, CountIs, Zenon
  <1>3. Live = {}
    BY <1>2 DEF Live
  <1>4. DOMAIN spilled = {} /\ DOMAIN taken = {}
    BY <1>1
  <1>5. 1 .. offered = {}
    BY <1>1
  <1>. QED BY <1>1, <1>3, <1>4, <1>5
       DEF HInv, FirstInFirstOut, SpilledOnceInOrder, Conservation

\* Every operation, whole or cut short by a panic, keeps the order and loses nothing.
LEMMA NextHistory == IInv /\ IInv' /\ HInv /\ [Next]_vars => HInv'
  <1> SUFFICES ASSUME IInv, IInv', HInv, [Next]_vars
               PROVE  HInv'
    OBVIOUS
  <1>0. 0 \in Nat /\ 1 \in Nat /\ Count \in Nat /\ Count \in 0 .. Count
    BY CountIs DEF IInv, TypeOK
  <1>1. CASE PushRoom \/ TryPush
    BY <1>0, <1>1, PushRoomFlow, FlowHistory, Zenon
  <1>2. CASE PushEvict
    BY <1>0, <1>2, PushEvictFlow, FlowHistory, Zenon
  <1>3. CASE PushPanic
    BY <1>3, PushPanicHistory, Zenon
  <1>4. ASSUME NEW n \in 1 .. MaxItems, PushSlice(n)
        PROVE  HInv'
    <2>1. n \in Nat /\ Excess(n) \in Nat /\ Keep(n) \in Nat
      <3>1. n \in Nat
        OBVIOUS
      <3>2. Excess(n) \in 0 .. n /\ Keep(n) \in 0 .. N
        BY <3>1, SliceSizes, Zenon
      <3>. QED BY <3>1, <3>2, Sizes
    <2>. QED BY <1>4, <2>1, PushSliceFlow, FlowHistory, Zenon
  <1>5. ASSUME NEW n \in 1 .. MaxItems, NEW m \in 1 .. N + n, PushSlicePanic(n, m)
        PROVE  HInv'
    <2>1. n \in Nat /\ m \in Nat
      OBVIOUS
    <2>. QED BY <1>5, <2>1, PushSlicePanicHistory, Zenon
  <1>6. CASE Pop
    BY <1>6, PopTaking, TakingHistory, Zenon
  <1>7. ASSUME NEW m \in 1 .. N + 1, PopSlice(m)
        PROVE  HInv'
    <2>1. m \in Nat
      OBVIOUS
    <2>2. PICK c \in 1 .. Count : Taking(c) /\ c \in 0 .. Len(Held)
      BY <1>7, <2>1, PopSliceTaking, Zenon
    <2>. QED BY <2>2, TakingHistory, Zenon
  <1>8. CASE Flush
    <2>1. /\ alive /\ alive' /\ Evict(Count) /\ tail' = tail /\ slots' = slots
          /\ offered' = offered /\ UNCHANGED <<taken, lost, replayable>>
      BY <1>8 DEF Flush, history
    <2>2. Flow(Count, 0, 0) /\ Count \in 0 .. Len(Held)
      BY <1>0, <2>1, FlushFlow, Zenon
    <2>. QED BY <1>0, <2>2, FlowHistory, Zenon
  <1>9. ASSUME NEW k \in 1 .. N, FlushPanic(k)
        PROVE  HInv'
    <2>1. /\ alive /\ alive' /\ Evict(k) /\ tail' = tail /\ slots' = slots
          /\ offered' = offered /\ UNCHANGED <<taken, lost, replayable>>
          /\ k <= Count
      BY <1>9 DEF FlushPanic, history
    <2>2. k \in 0 .. Count
      BY <1>0, <2>1
    <2>3. Flow(k, 0, 0) /\ k \in 0 .. Len(Held)
      BY <2>1, <2>2, FlushFlow, Zenon
    <2>. QED BY <1>0, <2>3, FlowHistory, Zenon
  <1>10. CASE PushAndFlush
    BY <1>0, <1>10, PushAndFlushFlow, FlowHistory, Zenon
  <1>11. CASE Drop
    BY <1>0, <1>11, DropFlow, FlowHistory, Zenon
  <1>12. ASSUME NEW k \in 1 .. N, DropPanic(k)
         PROVE  HInv'
    <2>1. k \in Nat
      OBVIOUS
    <2>. QED BY <1>12, <2>1, DropPanicHistory, Zenon
  <1>13. CASE UNCHANGED vars
    <2>1. Live' = Live
      BY <1>13 DEF vars, history, Live, Count, At
    <2>. QED BY <1>13, <2>1
         DEF vars, history, HInv, FirstInFirstOut, SpilledOnceInOrder, Conservation
  <1>. QED BY <1>1, <1>2, <1>3, <1>4, <1>5, <1>6, <1>7, <1>8, <1>9, <1>10, <1>11, <1>12,
              <1>13 DEF Next

\* The observers read the two ends of the window.
LEMMA PeeksHold == IInv => PeeksAreEnds
  <1> SUFFICES ASSUME IInv, alive, Count > 0
               PROVE  /\ Peek = Get(0) /\ PeekBack = Get(Count - 1)
                      /\ \A x \in Live : Peek <= x /\ x <= PeekBack
    BY DEF PeeksAreEnds
  <1>1. /\ head \in 0 .. Modulus - 1 /\ tail \in 0 .. Modulus - 1
        /\ head \in Int /\ tail \in Int /\ Count \in Nat /\ Count \in Int
        /\ offered \in Nat
        /\ \A i \in 0 .. Count - 1 : At(i) \in 1 .. offered
        /\ \A i, j \in 0 .. Count - 1 : i < j => At(i) < At(j)
    BY CountIs, Sizes DEF IInv, TypeOK, WindowInOrder
  <1>2. Peek = At(0) /\ Get(0) = At(0)
    BY <1>1, StandStill, Zenon DEF Peek, Get, At
  <1>3. PeekBack = At(Count - 1) /\ Get(Count - 1) = At(Count - 1)
    <2>1. PICK m \in Int : /\ Count + m = Count - 1 /\ tail + m = tail - 1
      BY <1>1
    <2>2. WAdd(WAdd(head, Count), m) = WAdd(head, Count + m)
      BY <1>1, <2>1, Advance, Zenon
    <2>3. WSub(tail, 1) = WAdd(tail, m) /\ WAdd(head, Count) = tail
      BY <1>1, <2>1, CountIs, Zenon DEF WSub, WAdd
    <2>. QED BY <2>1, <2>2, <2>3, Zenon DEF PeekBack, Get, At
  <1>4. ASSUME NEW x \in Live
        PROVE  At(0) <= x /\ x <= At(Count - 1)
    <2>1. PICK i \in 0 .. Count - 1 : x = At(i)
      BY DEF Live
    <2>2. /\ 0 \in 0 .. Count - 1 /\ Count - 1 \in 0 .. Count - 1
          /\ i = 0 \/ 0 < i
          /\ i = Count - 1 \/ i < Count - 1
      BY <1>1
    <2>3. At(0) \in 1 .. offered /\ At(i) \in 1 .. offered /\ At(Count - 1) \in 1 .. offered
      BY <1>1, <2>2, Zenon
    <2>4. i = 0 \/ At(0) < At(i)
      BY <1>1, <2>2, Zenon
    <2>5. i = Count - 1 \/ At(i) < At(Count - 1)
      <3>1. i = Count - 1 \/ i < Count - 1
        BY <1>1
      <3>. QED BY <1>1, <2>2, <3>1, Zenon
    <2> DEFINE a == At(0)
               b == At(Count - 1)
    <2>6. /\ a \in Nat /\ b \in Nat /\ x \in Nat
      BY <1>1, <2>1, <2>3
    <2>7. (x = a \/ a < x) /\ (x = b \/ x < b)
      BY <2>1, <2>4, <2>5, Zenon
    <2> HIDE DEF a, b
    <2>8. a <= x /\ x <= b
      BY ONLY <2>6, <2>7
    <2>. QED BY <2>8 DEF a, b
  <1>. QED BY <1>2, <1>3, <1>4, Zenon

\* What leaves the ring keeps the order of arrival, and peek, peek_back and get
\* see the ends of the window, however often the indices wrap and wherever the
\* spout panics.
THEOREM OrderHolds == Spec => []OrderKept
  <1>1. Init => IInv /\ HInv
    BY InitInv, InitHistory
  <1>2. (IInv /\ HInv) /\ [Next]_vars => (IInv /\ HInv)'
    BY NextInv, NextHistory
  <1>3. IInv /\ HInv => OrderKept
    BY PeeksHold DEF HInv, OrderKept
  <1>. QED BY <1>1, <1>2, <1>3, PTL DEF Spec

\* Every item handed over is in exactly one place: in the ring, with the spout,
\* with the user, or destroyed by an unwinding panic.
THEOREM ItemsConserved == Spec => []Conservation
  <1>1. Init => IInv /\ HInv
    BY InitInv, InitHistory
  <1>2. (IInv /\ HInv) /\ [Next]_vars => (IInv /\ HInv)'
    BY NextInv, NextHistory
  <1>3. IInv /\ HInv => Conservation
    BY DEF HInv
  <1>. QED BY <1>1, <1>2, <1>3, PTL DEF Spec

-------------------------------------------------------------------------------
(* The ring implements the queue. *)

\* A flow that keeps as many items as fit is a push of SpillQueue, whose cut goes
\* through the sequence of held and arriving items.
LEMMA FlowIsPush ==
  ASSUME IInv, NEW k \in 0 .. Len(Held), NEW e \in Nat, NEW n \in Nat, Flow(k, e, n),
         offered + (e + n) <= MaxItems,
         k + e = IF Len(Held) + (e + n) > N THEN Len(Held) + (e + n) - N ELSE 0
  PROVE  Queue!Push(e + n)
  <1> DEFINE m   == e + n
             g   == Fresh(offered, m)
             all == Held \o g
             x   == k + e
             l   == Len(Held)
  <1>0. /\ x = IF l + m > N THEN l + m - N ELSE 0
        /\ l + m \in Nat /\ Len(all) \in Nat
        /\ offered + m <= MaxItems
    <2>1. /\ Held \in Seq(Nat) /\ l \in Nat /\ m \in Nat /\ offered \in Nat
      BY HeldIs, Sizes DEF IInv, TypeOK
    <2>2. Len(all) = l + m
      <3>1. g \in Seq(Nat) /\ Len(g) = m
        BY <2>1, FreshIs, Zenon
      <3>. QED BY <2>1, <3>1, ConcatIs, Zenon
    <2>3. l + m \in Nat
      BY ONLY <2>1
    <2>. QED BY <2>2, <2>3, Zenon
  <1>1. /\ Held \in Seq(Nat) /\ l \in Nat /\ offered \in Nat /\ m \in Nat /\ k \in Nat
        /\ e \in 0 .. m /\ m - e = n /\ e \in Nat /\ n \in Nat
    BY HeldIs, Sizes DEF IInv, TypeOK
  <1>2. g \in Seq(Nat) /\ Len(g) = m
    BY <1>1, FreshIs, Zenon
  <1>3. Len(all) = l + m /\ x \in 0 .. l + m
    <2>1. Len(all) = l + m
      BY <1>1, <1>2, ConcatIs, Zenon
    <2>. QED BY <1>1, <2>1
  <1>4. /\ SubSeq(all, 1, x) = SubSeq(Held, 1, k) \o Fresh(offered, e)
        /\ SubSeq(all, x + 1, Len(all)) =
             SubSeq(Held, k + 1, Len(Held)) \o Fresh(offered + e, n)
    <2>0. x \in 0 .. Len(Held) + Len(g)
      BY <1>2, <1>3
    <2>1. CASE e = 0
      <3>1. x = k /\ x <= Len(Held) /\ offered + e = offered /\ m = n
        BY <1>1, <2>1
      <3>2. /\ SubSeq(all, 1, x) = SubSeq(Held, 1, x)
            /\ SubSeq(all, x + 1, Len(all)) = SubSeq(Held, x + 1, Len(Held)) \o g
        BY <1>1, <1>2, <2>0, <3>1, CutConcat, Zenon
      <3>3. SubSeq(Held, 1, k) \o Fresh(offered, 0) = SubSeq(Held, 1, k)
        BY <1>1, FirstAndRest, FreshNone, Zenon
      <3>. QED BY <2>1, <3>1, <3>2, <3>3, Zenon
    <2>2. CASE e > 0
      <3>1. k = Len(Held)
        BY <2>2, Zenon DEF Flow
      <3>2. x >= Len(Held) /\ x - Len(Held) = e
        BY <1>1, <3>1
      <3>3. /\ SubSeq(all, 1, x) = Held \o SubSeq(g, 1, x - Len(Held))
            /\ SubSeq(all, x + 1, Len(all)) = SubSeq(g, (x - Len(Held)) + 1, Len(g))
        BY <1>1, <1>2, <2>0, <3>2, CutConcat, Zenon
      <3>4. SubSeq(g, 1, e) = Fresh(offered, e) /\ SubSeq(g, e + 1, m) = Fresh(offered + e, n)
        <4>1. SubSeq(g, e + 1, m) = Fresh(offered + e, m - e)
          BY <1>1, CutFresh, Zenon
        <4>2. m - e = n
          BY <1>1
        <4>. QED BY <1>1, <4>1, <4>2, CutFresh, Zenon
      <3>5. /\ SubSeq(Held, 1, Len(Held)) = Held
            /\ SubSeq(Held, Len(Held) + 1, Len(Held)) = <<>>
        BY <1>1, FreshNone, Zenon
      <3>6. <<>> \o Fresh(offered + e, n) = Fresh(offered + e, n)
        <4>1. offered + e \in Nat
          BY <1>1
        <4>. QED BY <1>1, <4>1, FreshIs, FreshNone, Zenon
      <3>7. SubSeq(all, 1, x) = SubSeq(Held, 1, k) \o Fresh(offered, e)
        BY <3>1, <3>2, <3>3, <3>4, <3>5, Zenon
      <3>8. SubSeq(all, x + 1, Len(all)) = Fresh(offered + e, n)
        BY <1>2, <3>2, <3>3, <3>4, Zenon
      <3>. QED BY <3>1, <3>5, <3>6, <3>7, <3>8, Zenon
    <2>3. e = 0 \/ e > 0
      BY <1>1
    <2>. QED BY <2>1, <2>2, <2>3, Zenon
  <1>5. x = IF Len(all) > N THEN Len(all) - N ELSE 0
    <2> HIDE DEF m, g, all, x, l
    <2>. QED BY ONLY <1>0, <1>1, <1>3, Sizes
  <1>6. /\ offered' = offered + m /\ spilled' = spilled \o SubSeq(all, 1, x)
        /\ Held' = SubSeq(all, x + 1, Len(all)) /\ taken' = taken
    BY <1>4, Zenon DEF Flow
  <1>. QED BY <1>0, <1>5, <1>6, Zenon
       DEF Queue!Push, Queue!Arriving, Queue!First, Queue!Rest, Held, Fresh

\* A flow that sends all that is held is a Flush of SpillQueue, and nothing if
\* nothing was held.
LEMMA FlowIsFlush ==
  ASSUME IInv, Flow(Len(Held), 0, 0), Held' = <<>>
  PROVE  [Queue!Next]_(Queue!vars)
  <1>1. Held \in Seq(Nat) /\ offered \in Nat /\ spilled \in Seq(Nat)
    BY HeldIs, Sizes DEF IInv, TypeOK, Item
  <1>2. offered' = offered /\ taken' = taken /\ spilled' = spilled \o Held
    <2>1. /\ SubSeq(Held, 1, Len(Held)) \o Fresh(offered, 0) = Held
      BY <1>1, FreshNone, Zenon
    <2>2. offered + (0 + 0) = offered
      BY <1>1
    <2>. QED BY <2>1, <2>2, Zenon DEF Flow
  <1>3. CASE Held = <<>>
    <2>1. spilled' = spilled
      BY <1>1, <1>2, <1>3, FreshNone, Zenon
    <2>. QED BY <1>2, <1>3, <2>1, Zenon DEF Queue!vars, Held
  <1>4. CASE Held # <<>>
    <2>1. Queue!Flush
      BY <1>2, <1>4, Zenon DEF Queue!Flush, Held
    <2>. QED BY <2>1, Zenon DEF Queue!Next
  <1>. QED BY <1>3, <1>4, Zenon

\* Taking the k oldest items is Take of SpillQueue.
LEMMA TakingIsTake ==
  ASSUME IInv, NEW k \in 1 .. N, k \in 0 .. Len(Held), Taking(k)
  PROVE  Queue!Next
  <1>1. k <= Len(Held)
    BY HeldIs
  <1>2. Queue!Take(k)
    BY <1>1, Zenon DEF Taking, Queue!Take, Queue!First, Queue!Rest, Held
  <1>. QED BY <1>2, Zenon DEF Queue!Next

\* push, push_mut and try_push hand over one item.
LEMMA PushIsPush ==
  ASSUME IInv, PushRoom \/ PushEvict \/ TryPush
  PROVE  Queue!Next
  <1>1. /\ offered \in Nat /\ MaxItems \in Nat /\ N \in Nat /\ Count \in Nat
        /\ Len(Held) \in Nat
    BY HeldIs, CountIs, Sizes DEF IInv, TypeOK
  <1>2. offered < MaxItems
    BY Zenon DEF PushRoom, PushEvict, TryPush
  <1>3. offered + (0 + 1) <= MaxItems /\ 0 + 1 \in 1 .. MaxItems
    BY ONLY <1>1, <1>2
  <1>4. ASSUME alive
        PROVE  Len(Held) = Count
    <2>1. 0 \in 0 .. Count
      BY ONLY <1>1
    <2>. QED BY <1>4, <2>1, OldestHeld, Zenon
  <1>5. Queue!Push(0 + 1)
    <2>1. CASE PushRoom \/ TryPush
      <3>1. Flow(0, 0, 1) /\ 0 \in 0 .. Len(Held) /\ Count < N /\ Len(Held) = Count
        BY <1>4, <2>1, PushRoomFlow, Zenon
      <3>2. 0 + 0 = IF Len(Held) + (0 + 1) > N THEN Len(Held) + (0 + 1) - N ELSE 0
        BY ONLY <1>1, <3>1
      <3>3. 0 \in Nat /\ 1 \in Nat
        OBVIOUS
      <3>. QED BY <1>3, <3>1, <3>2, <3>3, FlowIsPush, Zenon
    <2>2. CASE PushEvict
      <3>1. Flow(1, 0, 1) /\ 1 \in 0 .. Len(Held) /\ Count = N /\ Len(Held) = Count
        BY <1>4, <2>2, PushEvictFlow, Zenon
      <3>2. 1 + 0 = IF Len(Held) + (0 + 1) > N THEN Len(Held) + (0 + 1) - N ELSE 0
        BY ONLY <1>1, <3>1
      <3>3. 0 \in Nat /\ 1 \in Nat
        OBVIOUS
      <3>. QED BY <1>3, <3>1, <3>2, <3>3, FlowIsPush, Zenon
    <2>. QED BY <2>1, <2>2, Zenon
  <1>. QED BY <1>3, <1>5, Zenon DEF Queue!Next

\* push_slice hands over n items and displaces exactly what does not fit.
LEMMA PushSliceIsPush ==
  ASSUME IInv, NEW n \in 1 .. MaxItems, PushSlice(n)
  PROVE  Queue!Next
  <1> DEFINE k == Displaced(n)
             e == Excess(n)
             c == Keep(n)
             l == Len(Held)
  <1>0. n \in Nat
    BY Sizes
  <1>1. Flow(k, e, c) /\ k \in 0 .. l /\ l = Count
    BY <1>0, PushSliceFlow, Zenon
  <1>2. /\ offered \in Nat /\ MaxItems \in Nat /\ N \in Nat /\ Count \in Nat /\ Count <= N
        /\ offered + n <= MaxItems
    BY CountIs, Sizes DEF IInv, TypeOK, WindowInOrder, PushSlice
  <1>3. e \in Nat /\ c \in Nat /\ e + c = n
    <2>1. c \in 0 .. N /\ e \in 0 .. n /\ c + e = n
      BY <1>0, SliceSizes, Zenon
    <2>. QED BY <1>0, <1>2, <2>1
  <1>4. k + e = IF Count + n > N THEN Count + n - N ELSE 0
    BY <1>0, <1>2 DEF Displaced, Excess, Keep, Room
  <1> HIDE DEF k, e, c
  <1>5. Queue!Push(e + c)
    BY <1>1, <1>2, <1>3, <1>4, FlowIsPush, Zenon
  <1>. QED BY <1>3, <1>5, Zenon DEF Queue!Next

\* push_and_flush empties the ring and sends the new item last.
LEMMA PushAndFlushIs ==
  ASSUME IInv, PushAndFlush
  PROVE  Queue!Next
  <1>1. Held' = <<>> /\ alive
    BY PushAndFlushFlow, Zenon
  <1>2. /\ offered < MaxItems /\ offered' = offered + 1 /\ taken' = taken
        /\ spilled' = spilled \o Window \o <<offered + 1>>
    BY DEF PushAndFlush, Store, history
  <1>3. Queue!Arriving(1) = <<offered + 1>>
    <2>1. offered \in Nat
      BY DEF IInv, TypeOK
    <2>. QED BY <2>1 DEF Queue!Arriving
  <1>4. Queue!PushAndFlush
    BY <1>1, <1>2, <1>3, Zenon DEF Queue!PushAndFlush, Held
  <1>. QED BY <1>4, Zenon DEF Queue!Next

\* The ring starts as the empty queue.
LEMMA InitQueue == Init => Queue!Init
  <1> SUFFICES ASSUME Init
               PROVE  Queue!Init
    OBVIOUS
  <1>1. head = 0 /\ tail = 0 /\ alive /\ offered = 0 /\ spilled = <<>> /\ taken = <<>>
    BY DEF Init
  <1>2. Count = 0
    <2>1. head \in 0 .. Modulus - 1 /\ tail \in 0 .. Modulus - 1
      BY <1>1, Sizes
    <2>. QED BY <1>1, <2>1, CountIs, Zenon
  <1>3. Window = <<>>
    BY <1>2 DEF Window, Oldest
  <1>. QED BY <1>1, <1>3, Zenon DEF Queue!Init

\* Every step of the ring is a panic, a step of the queue or nothing to it.
LEMMA NextQueue ==
  IInv /\ [Next]_vars => [Panics \/ [Queue!Next]_(Queue!vars)]_vars
  <1> SUFFICES ASSUME IInv, [Next]_vars
               PROVE  Panics \/ [Queue!Next]_(Queue!vars)  \/ UNCHANGED vars
    BY Zenon
  <1>0. Count \in Nat /\ Count <= N /\ N \in Nat
    BY CountIs, Sizes DEF IInv, TypeOK, WindowInOrder
  <1>1. CASE PushRoom \/ PushEvict \/ TryPush
    BY <1>1, PushIsPush, Zenon
  <1>2. ASSUME NEW n \in 1 .. MaxItems, PushSlice(n)
        PROVE  Queue!Next
    BY <1>2, PushSliceIsPush, Zenon
  <1>3. CASE Pop
    <2>1. Taking(1) /\ 1 \in 0 .. Len(Held)
      BY <1>3, PopTaking, Zenon
    <2>2. 1 \in 1 .. N
      BY Sizes
    <2>. QED BY <2>1, <2>2, TakingIsTake, Zenon
  <1>4. ASSUME NEW m \in 1 .. N + 1, PopSlice(m)
        PROVE  Queue!Next
    <2>1. m \in Nat
      OBVIOUS
    <2>2. PICK c \in 1 .. Count : Taking(c) /\ c \in 0 .. Len(Held)
      BY <1>4, <2>1, PopSliceTaking, Zenon
    <2>3. c \in 1 .. N
      BY <1>0
    <2>. QED BY <2>2, <2>3, TakingIsTake, Zenon
  <1>5. CASE Flush
    <2>1. /\ alive /\ alive' /\ Evict(Count) /\ tail' = tail /\ slots' = slots
          /\ offered' = offered /\ UNCHANGED <<taken, lost, replayable>>
          /\ head' = WAdd(head, Count)
      BY <1>5 DEF Flush, history, Evict
    <2>2. Count \in 0 .. Count /\ offered \in Nat
      BY <1>0 DEF IInv, TypeOK
    <2>3. Len(Held) = Count /\ Flow(Len(Held), 0, 0)
      BY <2>1, <2>2, OldestHeld, FlushFlow, Zenon
    <2>4. Held' = SubSeq(Held, Len(Held) + 1, Len(Held)) /\ Held \in Seq(Nat)
      BY <2>1, <2>2, <2>3, Leaves, HeldIs, Zenon
    <2>5. Held' = <<>>
      BY <2>2, <2>4, FreshNone, Zenon
    <2>. QED BY <2>3, <2>5, FlowIsFlush, Zenon
  <1>6. CASE PushAndFlush
    BY <1>6, PushAndFlushIs, Zenon
  <1>7. CASE Drop
    BY <1>7, DropFlow, FlowIsFlush, Zenon
  <1>8. CASE \/ PushPanic
             \/ \E n \in 1 .. MaxItems : \E k \in 1 .. N + n : PushSlicePanic(n, k)
             \/ \E k \in 1 .. N : FlushPanic(k)
             \/ \E k \in 1 .. N : DropPanic(k)
    BY <1>8, Zenon DEF Panics
  <1>. QED BY <1>1, <1>2, <1>3, <1>4, <1>5, <1>6, <1>7, <1>8, Zenon DEF Next

\* Leaving the panics aside, a ring of any capacity, with indices of any width,
\* is the bounded FIFO of SpillQueue: each operation does to the items held what
\* the operation of the queue does, also after a panic has cut one short.
THEOREM QueueRefined == Spec => ImplementsQueue
  <1>1. Init => Queue!Init
    BY InitQueue
  <1>2. Init => IInv
    BY InitInv
  <1>3. IInv /\ [Next]_vars => IInv'
    BY NextInv
  <1>4. IInv /\ [Next]_vars => [Panics \/ [Queue!Next]_(Queue!vars)]_vars
    BY NextQueue
  <1>. QED BY <1>1, <1>2, <1>3, <1>4, PTL DEF Spec, ImplementsQueue
===============================================================================
