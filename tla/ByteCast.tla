------------------------------- MODULE ByteCast -------------------------------
(***************************************************************************)
(* bytecast and the derive macros of abmac-macros: how values become bytes  *)
(* and bytes become values.  A type is a record; its kind says which impl   *)
(* of ToBytes and FromBytes it has:                                         *)
(*   "int"      a primitive of .width bytes, little-endian                  *)
(*   "checked"  bool, char, NonZero*, usize: written as .of, refused on     *)
(*              reading unless it is in .valid                              *)
(*   "prod"     struct, tuple, array, Range: the fields .of one by one      *)
(*   "skip"     a field with #[bytecast(skip)], PhantomData: .default       *)
(*   "enum"     a tag of .width bytes and the fields of the arm; Option and *)
(*              Result too, of which Option has no byte_len of its own      *)
(*   "str"      String, Cow<str>                                            *)
(*   "vec"      Vec, VecDeque, Cow<[T]>                                     *)
(*   "set"      BTreeSet, HashSet     "map"  BTreeMap, HashMap              *)
(*                                                                         *)
(* The code has Radix = 2^7, MaxVarInt = 5, LastByte = 15, U32Width = 4,    *)
(* UsizeWidth = 8 and Hint = 256.                                           *)
(***************************************************************************)
EXTENDS Integers, Sequences, FiniteSets
LOCAL INSTANCE SequencesExt

CONSTANTS
  Radix,       \* a byte of a var_int carries a digit of this base
  MaxVarInt,   \* bytes of the longest var_int
  LastByte,    \* greatest byte that may end one of that length
  U32Width, UsizeWidth,   \* bytes of these primitives
  Hint         \* first buffer for a value whose size is not known

ASSUME ByteAssumption ==
  /\ Radix \in Nat \ {0, 1} /\ MaxVarInt \in Nat \ {0} /\ LastByte \in 0 .. Radix - 1
  /\ U32Width \in Nat \ {0} /\ UsizeWidth \in Nat \ {0} /\ Hint \in Nat
  \* A var_int spans the u32: 8 * U32Width bits, 7 in each byte but the last.
  /\ (2 * Radix) ^ U32Width = Radix ^ (MaxVarInt - 1) * (LastByte + 1)

Byte == 0 .. 2 * Radix - 1

Prim(w)        == [kind |-> "int", width |-> w]
Checked(T, S) == [kind |-> "checked", of |-> T, valid |-> S]
Prod(Ts)      == [kind |-> "prod", of |-> Ts]
Skip(d)       == [kind |-> "skip", default |-> d]
Enum(w, arms) == [kind |-> "enum", width |-> w, arms |-> arms, sized |-> TRUE]
Arm(tag, Ts)  == [tag |-> tag, of |-> Ts]
Str           == [kind |-> "str"]
Vec(T)        == [kind |-> "vec", of |-> T]
SetOf(T)      == [kind |-> "set", of |-> T]
MapOf(K, V)   == [kind |-> "map", key |-> K, of |-> V]
Option(T)     == [kind |-> "enum", width |-> 1, sized |-> FALSE,
                  arms |-> <<Arm(0, <<>>), Arm(1, <<T>>)>>]
Outcome(T, E) == Enum(1, <<Arm(0, <<T>>), Arm(1, <<E>>)>>)
Bool          == Checked(Prim(1), {0, 1})
NonZero(w)    == Checked(Prim(w), 1 .. (2 * Radix) ^ w - 1)
U32           == Prim(U32Width)
Usize         == Prim(UsizeWidth)

Auto == -1
\* resolve_discriminants: a variant without a literal takes the next number.
Discriminants(given) ==
  LET d[i \in DOMAIN given] ==
        IF given[i] # Auto THEN given[i] ELSE IF i = 1 THEN 0 ELSE d[i - 1] + 1
  IN  d

\* The variant i of an enum with the fields vs.
Variant(i, vs) == [arm |-> i, fields |-> vs]

-------------------------------------------------------------------------------
(* ToBytes *)

LittleEndian(n, w) ==
  [i \in 1 .. w |-> (n \div (2 * Radix) ^ (i - 1)) % (2 * Radix)]

\* var_int::encode
RECURSIVE VarInt(_)
VarInt(n) ==
  IF n < Radix THEN <<n>> ELSE <<(n % Radix) + Radix>> \o VarInt(n \div Radix)

\* var_int::len
VarIntLen(n) ==
  CHOOSE k \in 1 .. MaxVarInt :
    (k = MaxVarInt \/ n < Radix ^ k) /\ \A j \in 1 .. k - 1 : n >= Radix ^ j

Sorted(S) == SetToSortSeq(S, LAMBDA x, y : x < y)

\* The pairs of a map, in the order of their keys.
Pairs(f) ==
  [i \in 1 .. Cardinality(DOMAIN f) |-> <<Sorted(DOMAIN f)[i], f[Sorted(DOMAIN f)[i]]>>]

\* What is written as a count and so many items.
Counted(T) == T.kind \in {"vec", "set", "map"}

ItemType(T) == IF T.kind = "map" THEN Prod(<<T.key, T.of>>) ELSE T.of

Items(T, v) ==
  CASE T.kind = "set" -> Sorted(v)
    [] T.kind = "map" -> Pairs(v)
    [] OTHER          -> v

\* The values of which v consists, each with its type, in the order of writing.
Parts(T, v) ==
  CASE T.kind = "checked" -> <<<<T.of, v>>>>
    [] T.kind = "prod"    -> Zip(T.of, v)
    [] T.kind = "enum"    -> Zip(T.arms[v.arm].of, v.fields)
    [] Counted(T)         -> LET T1 == ItemType(T)
                                 vs == Items(T, v)
                             IN  [i \in DOMAIN vs |-> <<T1, vs[i]>>]
    [] OTHER              -> <<>>

\* What comes before them.
Opening(T, v) ==
  CASE T.kind = "int"  -> LittleEndian(v, T.width)
    [] T.kind = "enum" -> LittleEndian(T.arms[v.arm].tag, T.width)
    [] T.kind = "str"  -> VarInt(Len(v)) \o v
    [] Counted(T)      -> VarInt(Len(Items(T, v)))
    [] OTHER           -> <<>>

RECURSIVE Encode(_, _)
Encode(T, v) ==
  LET parts == Parts(T, v)
  IN  Opening(T, v) \o FlattenSeq([i \in DOMAIN parts |-> Encode(parts[i][1], parts[i][2])])

Unknown == -1
\* Lengths add up if they are all known.
Total(ls) == IF Unknown \in ToSet(ls) THEN Unknown ELSE FoldSeq(+, 0, ls)
Longest(ls) ==
  IF Unknown \in ls THEN Unknown ELSE CHOOSE m \in ls : \A l \in ls : l <= m

\* The sequences of fields a value can have.
Shapes(T) ==
  CASE T.kind = "checked" -> {<<T.of>>}
    [] T.kind = "prod"    -> {T.of}
    [] T.kind = "enum"    -> {T.arms[i].of : i \in DOMAIN T.arms}
    [] OTHER              -> {<<>>}
Width(T) == IF T.kind \in {"int", "enum"} THEN T.width ELSE 0

\* MAX_SIZE
RECURSIVE MaxSize(_)
MaxSize(T) ==
  IF Counted(T) \/ T.kind = "str" THEN Unknown
  ELSE Longest({Total(<<Width(T)>> \o [i \in DOMAIN Ts |-> MaxSize(Ts[i])]) : Ts \in Shapes(T)})

\* Which types have a byte_len() of their own, and what precedes the parts.
HasLen(T) ==
  \/ T.kind \in {"prod", "str"} \/ Counted(T)
  \/ T.kind = "enum" /\ T.sized
OpeningLen(T, v) ==
  CASE T.kind = "str" -> VarIntLen(Len(v)) + Len(v)
    [] Counted(T)     -> VarIntLen(Len(Items(T, v)))
    [] OTHER          -> Width(T)

\* byte_len(); otherwise it is MAX_SIZE.
RECURSIVE ByteLen(_, _)
ByteLen(T, v) ==
  LET parts == Parts(T, v)
  IN  IF HasLen(T)
      THEN Total(<<OpeningLen(T, v)>> \o [i \in DOMAIN parts |-> ByteLen(parts[i][1], parts[i][2])])
      ELSE MaxSize(T)

SizeHint(T, v) ==
  IF ByteLen(T, v) # Unknown THEN ByteLen(T, v)
  ELSE IF MaxSize(T) # Unknown THEN MaxSize(T) ELSE Hint

\* serialize_to_vec: the buffer is enlarged once.  over is what the caller puts in
\* front of the value.
Fits(T, v, over) ==
  LET size == Len(Encode(T, v))
  IN  \/ size <= SizeHint(T, v)
      \/ size <= IF ByteLen(T, v) # Unknown THEN ByteLen(T, v)
                                            ELSE 2 * (over + SizeHint(T, v))

-------------------------------------------------------------------------------
(* FromBytes *)

Read(v, n) == [ok |-> TRUE, val |-> v, used |-> n]
Refused    == [ok |-> FALSE]
Drop(b, n) == SubSeq(b, n + 1, Len(b))

\* The value of the digits, the last one first.
FromDigits(ds, base) == FoldRight(LAMBDA d, rest : d + base * rest, ds, 0)

\* var_int::decode: the shortest form only.
DecodeVarInt(b) ==
  LET n == CHOOSE i \in 1 .. Len(b) + 1 :
             /\ i <= Len(b) => b[i] < Radix
             /\ \A j \in 1 .. i - 1 : b[j] >= Radix
      v == FromDigits([i \in 1 .. n |-> b[i] % Radix], Radix)
  IN  IF n > Len(b) \/ n > MaxVarInt THEN Refused
      ELSE IF n = MaxVarInt /\ b[n] > LastByte THEN Refused
      ELSE IF n # VarIntLen(v) THEN Refused
      ELSE Read(v, n)

\* Multi-byte characters stand for those that are not valid UTF-8.
Utf8(s) == \A i \in DOMAIN s : s[i] < Radix

DecodeInt(w, b) ==
  IF Len(b) < w THEN Refused ELSE Read(FromDigits(SubSeq(b, 1, w), 2 * Radix), w)

DecodeStr(b, count) ==
  IF ~count.ok THEN Refused
  ELSE LET s == SubSeq(b, count.used + 1, count.used + count.val)
       IN  IF count.val > Len(b) - count.used \/ ~Utf8(s) THEN Refused
           ELSE Read(s, count.used + count.val)

\* The fields that follow what an impl reads first, the variant they belong to and
\* the bytes that takes.
Follow(i, Ts, n) == [ok |-> TRUE, arm |-> i, of |-> Ts, val |-> <<>>, used |-> n]

FollowTag(T, tag) ==
  LET arms == {i \in DOMAIN T.arms : tag.ok /\ T.arms[i].tag = tag.val}
  IN  IF arms = {} THEN Refused
      ELSE LET i == CHOOSE i \in arms : TRUE IN Follow(i, T.arms[i].of, T.width)

\* More items than bytes are refused at once.
FollowCount(T, count, room) ==
  IF ~count.ok THEN Refused
  ELSE IF count.val > room - count.used THEN Refused
  ELSE Follow(1, [i \in 1 .. count.val |-> T], count.used)

Opened(T, b) ==
  CASE T.kind = "checked" -> Follow(1, <<T.of>>, 0)
    [] T.kind = "prod"    -> Follow(1, T.of, 0)
    [] T.kind = "skip"    -> Follow(1, <<>>, 0)
    [] T.kind = "enum"    -> FollowTag(T, DecodeInt(T.width, b))
    [] Counted(T)         -> FollowCount(ItemType(T), DecodeVarInt(b), Len(b))

\* One more field.
Joined(r, field) ==
  IF ~field.ok THEN Refused
  ELSE [r EXCEPT !.val = Append(@, field.val), !.used = @ + field.used]

\* The last of two pairs with the same key replaces the first.
MapFrom(pairs) ==
  [k \in {pairs[i][1] : i \in DOMAIN pairs} |->
     pairs[CHOOSE i \in DOMAIN pairs :
             /\ pairs[i][1] = k
             /\ \A j \in i + 1 .. Len(pairs) : pairs[j][1] # k][2]]

\* The value of the fields vs.
Made(T, arm, vs) ==
  CASE T.kind = "checked" -> vs[1]
    [] T.kind = "skip"    -> T.default
    [] T.kind = "enum"    -> Variant(arm, vs)
    [] T.kind = "set"     -> ToSet(vs)
    [] T.kind = "map"     -> MapFrom(vs)
    [] OTHER              -> vs

Closed(T, r) ==
  IF ~r.ok THEN Refused
  ELSE IF T.kind = "checked" /\ r.val[1] \notin T.valid THEN Refused
  ELSE Read(Made(T, r.arm, r.val), r.used)

RECURSIVE Decode(_, _)

\* The fields that follow, from consecutive bytes.
DecodeFields(open, b) ==
  IF ~open.ok THEN Refused
  ELSE FoldLeft(LAMBDA r, F : IF r.ok THEN Joined(r, Decode(F, Drop(b, r.used))) ELSE r,
                open, open.of)

Decode(T, b) ==
  CASE T.kind = "int" -> DecodeInt(T.width, b)
    [] T.kind = "str" -> DecodeStr(b, DecodeVarInt(b))
    [] OTHER          -> Closed(T, DecodeFields(Opened(T, b), b))

\* from_bytes_exact
AllUsed(r, n) == IF r.ok /\ r.used = n THEN r ELSE Refused
DecodeExact(T, b) == AllUsed(Decode(T, b), Len(b))
===============================================================================
