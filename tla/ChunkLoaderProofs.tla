-------------------------- MODULE ChunkLoaderProofs --------------------------
(***************************************************************************)
(* Theorems about the reads and the loader, for every input and all        *)
(* limits: no read that succeeds passes the end of the input, no length or *)
(* count is negative, the reader's path follows the activations, and what  *)
(* was charged is within bounds.                                           *)
(***************************************************************************)
EXTENDS ChunkLoader, SequenceTheorems, TLAPS

-----------------------------------------------------------------------------
(* Where the reads of ChunkReads end *)

LEMMA UnitsEnd ==
    ASSUME data \in Seq(Int), NEW at \in 0..Len(data), NEW n \in Nat,
           Units(at, n).code = "none"
    PROVE  /\ Units(at, n).next = at + n
           /\ Units(at, n).next \in 0..Len(data)
           /\ Units(at, n).value = SubSeq(data, at + 1, at + n)
BY DEF Units, Got, Failed

LEMMA FirstUnit ==
    ASSUME data \in Seq(Int), NEW at \in Nat, NEW n \in Nat \ {0}, at + n <= Len(data)
    PROVE  SubSeq(data, at + 1, at + n)[1] = data[at + 1] /\ data[at + 1] \in Int
OBVIOUS

LEMMA UnitEnds ==
    ASSUME data \in Seq(Int), NEW at \in 0..Len(data), Unit(at).code = "none"
    PROVE  Unit(at).next \in 0..Len(data) /\ Unit(at).value \in Int
<1>1. Units(at, 1).code = "none"
  BY DEF Unit, Then
<1>2. at + 1 <= Len(data)
  BY <1>1 DEF Units, Failed
<1>3. Unit(at) = Got(at + 1, SubSeq(data, at + 1, at + 1)[1])
  BY <1>1, <1>2 DEF Unit, Units, Got, Then
<1>4. SubSeq(data, at + 1, at + 1)[1] = data[at + 1]
  BY <1>2
<1>5. Unit(at).next = at + 1 /\ Unit(at).value = data[at + 1]
  BY <1>3, <1>4 DEF Got
<1>6. Len(data) \in Nat /\ at + 1 \in 1..Len(data)
  BY <1>2
<1> QED BY <1>5, <1>6

LEMMA VarintEnds ==
    ASSUME data \in Seq(Int), NEW at \in 0..Len(data),
           NEW lasts \in SUBSET (1..Len(data)), NEW limit \in Int,
           Varint(at, lasts, limit).code = "none"
    PROVE  /\ Varint(at, lasts, limit).next \in 0..Len(data)
           /\ Varint(at, lasts, limit).value \in Nat
<1> DEFINE end == VarintEnd(at, lasts)
           high == Digits(at, end - 1)
<1>1. /\ high \in 0..(limit - 1) /\ end \in lasts
      /\ Varint(at, lasts, limit) = Got(end, ((high * Base) + (data[end] % Base)) % Word)
  BY DEF Varint, Failed
<1> HIDE DEF high, end
<1>2. end \in 1..Len(data) /\ data[end] \in Int
  BY <1>1
<1>3. high \in Nat
  BY <1>1
<1>4. ((high * 4) + (data[end] % 4)) % 64 \in Nat
  BY <1>2, <1>3
<1>5. Base = 4 /\ Word = 64
  BY DEF Base, Word
<1> QED BY <1>1, <1>2, <1>4, <1>5 DEF Got

LEMMA Varint54Ends ==
    ASSUME data \in Seq(Int), NEW at \in 0..Len(data), Varint54(at).code = "none"
    PROVE  Varint54(at).next \in 0..Len(data) /\ Varint54(at).value \in Nat
<1>1. Marked \in SUBSET (1..Len(data)) /\ Word \div Base - 1 \in Int
  BY DEF Marked, Word, Base
<1> QED BY <1>1, VarintEnds DEF Varint54

LEMMA Varint55Ends ==
    ASSUME data \in Seq(Int), NEW at \in 0..Len(data), Varint55(at).code = "none"
    PROVE  Varint55(at).next \in 0..Len(data) /\ Varint55(at).value \in Nat
<1>1. Unmarked \in SUBSET (1..Len(data)) /\ Word \div Base \in Int
  BY DEF Unmarked, Word, Base
<1> QED BY <1>1, VarintEnds DEF Varint55

LEMMA Signed32Ends ==
    ASSUME data \in Seq(Int), Huge \in Nat, NEW at \in 0..Len(data),
           Signed32(at).code = "none"
    PROVE  Signed32(at).next \in 0..Len(data) /\ Signed32(at).value \in Nat
<1>1. Unit(at).code = "none"
  BY DEF Signed32, Then
<1>2. Signed32(at) = Got(Unit(at).next, AsUsize(Unit(at).value))
  BY <1>1 DEF Signed32, Then
<1>3. AsUsize(Unit(at).value) \in Nat
  BY <1>1, UnitEnds DEF AsUsize
<1> QED BY <1>1, <1>2, <1>3, UnitEnds DEF Got

LEMMA IntegerEnds ==
    ASSUME data \in Seq(Int), Huge \in Nat, NEW at \in 0..Len(data),
           Integer(at).code = "none"
    PROVE  Integer(at).next \in 0..Len(data) /\ Integer(at).value \in Nat
BY Varint54Ends, Varint55Ends, Signed32Ends DEF Integer

LEMMA AlignedEnds ==
    ASSUME data \in Seq(Int), NEW at \in 0..Len(data), Aligned(at).code = "none"
    PROVE  Aligned(at).next \in 0..Len(data)
<1>1. (Alignment - (at % Alignment)) % Alignment \in Nat
  BY DEF Alignment
<1> QED BY <1>1, UnitsEnd DEF Aligned

LEMMA SizeTEnds ==
    ASSUME data \in Seq(Int), Huge \in Nat, NEW at \in 0..Len(data),
           SizeT(at).code = "none"
    PROVE  SizeT(at).next \in 0..Len(data) /\ SizeT(at).value \in Nat
<1> DEFINE width == IF data[SizeTField] = 4 THEN 1 ELSE 2
           word == Units(at, width)
           size == IF width = 2 /\ word.value[2] # 0 THEN Huge ELSE AsUsize(word.value[1])
<1>1. width \in {1, 2}
  OBVIOUS
<1>2. word.code = "none" /\ SizeT(at) = Got(word.next, size)
  BY DEF SizeT, Then
<1> HIDE DEF width
<1>3. width \in Nat
  BY <1>1
<1>4. /\ word.next \in 0..Len(data) /\ word.next = at + width
      /\ word.value = SubSeq(data, at + 1, at + width)
  BY <1>2, <1>3, UnitsEnd
<1>5. at + width <= Len(data)
  BY <1>4
<1>6. word.value[1] \in Int
  BY <1>1, <1>4, <1>5, FirstUnit
<1> HIDE DEF word
<1>7. size \in Nat
  BY <1>6 DEF AsUsize
<1> HIDE DEF size
<1> QED BY <1>2, <1>4, <1>7 DEF Got

-----------------------------------------------------------------------------
(* Strings *)

LEMMA String51Ends ==
    ASSUME data \in Seq(Int), Huge \in Nat, NEW at \in 0..Len(data),
           String51(at).code = "none"
    PROVE  String51(at).next \in 0..Len(data)
<1>1. SizeT(at).code = "none"
  BY DEF String51, Then
<1>2. SizeT(at).next \in 0..Len(data) /\ SizeT(at).value \in Nat
  BY <1>1, SizeTEnds
<1>3. CASE SizeT(at).value = 0
  BY <1>1, <1>2, <1>3 DEF String51, Then, Got
<1>4. CASE SizeT(at).value # 0
  <2>1. /\ Units(SizeT(at).next, SizeT(at).value).code = "none"
        /\ String51(at).next = Units(SizeT(at).next, SizeT(at).value).next
    BY <1>1, <1>4 DEF String51, Then, Payload, Failed, Got
  <2> QED BY <1>2, <2>1, UnitsEnd
<1> QED BY <1>3, <1>4

LEMMA String52Ends ==
    ASSUME data \in Seq(Int), Huge \in Nat, NEW at \in 0..Len(data),
           String52(at).code = "none"
    PROVE  String52(at).next \in 0..Len(data)
BY String51Ends DEF String51, String52

LEMMA String53Ends ==
    ASSUME data \in Seq(Int), Huge \in Nat, NEW at \in 0..Len(data),
           String53(at).code = "none"
    PROVE  String53(at).next \in 0..Len(data)
<1> DEFINE byte == Unit(at)
           length == Then(byte, LAMBDA next, b :
                         IF b = LongMark THEN SizeT(next) ELSE Got(next, AsUsize(b)))
<1>1. length.code = "none"
  BY DEF String53, Then
<1>2. byte.code = "none"
  BY <1>1 DEF Then
<1>3. length = IF byte.value = LongMark THEN SizeT(byte.next)
               ELSE Got(byte.next, AsUsize(byte.value))
  BY <1>2 DEF Then
<1>4. String53(at) = IF length.value = 0 THEN Got(length.next, NoString)
                     ELSE IF TooLong(length.value) THEN Failed("STR-001")
                     ELSE Payload(length.next, length.value - 1, LAMBDA bytes : bytes)
  BY <1>1 DEF String53, Then
<1> HIDE DEF length
<1>5. length.next \in 0..Len(data) /\ length.value \in Nat
  <2>1. CASE byte.value = LongMark
    BY <1>1, <1>2, <1>3, <2>1, UnitEnds, SizeTEnds
  <2>2. CASE byte.value # LongMark
    <3>1. length = Got(byte.next, AsUsize(byte.value))
      BY <1>3, <2>2
    <3>2. AsUsize(byte.value) \in Nat
      BY <1>2, UnitEnds DEF AsUsize
    <3>3. length.next = byte.next /\ length.value = AsUsize(byte.value)
      BY <3>1 DEF Got
    <3> QED BY <1>2, <3>2, <3>3, UnitEnds
  <2> QED BY <2>1, <2>2
<1>6. CASE length.value = 0
  BY <1>4, <1>6, <1>5 DEF Got
<1>7. CASE length.value # 0
  <2>1. length.value - 1 \in Nat
    BY <1>7, <1>5
  <2>2. /\ Units(length.next, length.value - 1).code = "none"
        /\ String53(at).next = Units(length.next, length.value - 1).next
    BY <1>4, <1>7 DEF Then, Payload, Failed, Got
  <2> QED BY <1>5, <2>1, <2>2, UnitsEnd
<1> QED BY <1>6, <1>7

LEMMA String54Ends ==
    ASSUME data \in Seq(Int), NEW at \in 0..Len(data), String54(at).code = "none"
    PROVE  String54(at).next \in 0..Len(data)
<1>1. Varint54(at).code = "none"
  BY DEF String54, Then
<1>2. Varint54(at).next \in 0..Len(data) /\ Varint54(at).value \in Nat
  BY <1>1, Varint54Ends
<1>3. CASE Varint54(at).value = 0
  BY <1>1, <1>2, <1>3 DEF String54, Then, Got
<1>4. CASE Varint54(at).value # 0
  <2>1. Varint54(at).value - 1 \in Nat
    BY <1>2, <1>4
  <2>2. /\ Units(Varint54(at).next, Varint54(at).value - 1).code = "none"
        /\ String54(at).next = Units(Varint54(at).next, Varint54(at).value - 1).next
    BY <1>1, <1>4 DEF String54, Then, Payload, Failed, Got
  <2> QED BY <1>2, <2>1, <2>2, UnitsEnd
<1> QED BY <1>3, <1>4

LEMMA String55Ends ==
    ASSUME data \in Seq(Int), NEW at \in 0..Len(data), String55(at).code = "none"
    PROVE  String55(at).next \in 0..Len(data)
<1> DEFINE size == Varint55(at)
<1>1. size.code = "none"
  BY DEF String55, Then
<1>2. size.next \in 0..Len(data) /\ size.value \in Nat
  BY <1>1, Varint55Ends
<1>3. CASE size.value = 0
  <2> DEFINE index == Varint55(size.next)
  <2>1. String55(at) = IF index.code = "none" THEN Reused(index.next, index.value) ELSE index
    BY <1>1, <1>3 DEF String55, Then
  <2>2. index.code = "none"
    BY <2>1
  <2>3. String55(at).next = index.next
    BY <2>1, <2>2 DEF Reused, Got, Failed
  <2> QED BY <1>2, <2>2, <2>3, Varint55Ends
<1>4. CASE size.value # 0
  <2> DEFINE bytes == Units(size.next, size.value)
             string == Payload(size.next, size.value, Front)
  <2>1. String55(at) = IF string.code = "none" THEN [string EXCEPT !.saved = <<string.value>>]
                       ELSE string
    BY <1>1, <1>4 DEF String55, Then, Failed
  <2>2. string.code = "none"
    BY <2>1
  <2>3. bytes.code = "none" /\ string = Got(bytes.next, Front(bytes.value))
    BY <2>2 DEF Payload, Then
  <2>4. String55(at).next = bytes.next
    BY <2>1, <2>2, <2>3 DEF Got
  <2> QED BY <1>2, <2>3, <2>4, UnitsEnd
<1> QED BY <1>3, <1>4

LEMMA LuaStringEnds ==
    ASSUME data \in Seq(Int), Huge \in Nat, NEW at \in 0..Len(data),
           LuaString(at).code = "none"
    PROVE  LuaString(at).next \in 0..Len(data)
BY String51Ends, String52Ends, String53Ends, String54Ends, String55Ends DEF LuaString

-----------------------------------------------------------------------------
(* Elements *)

LEMMA ConstantEnds ==
    ASSUME data \in Seq(Int), Huge \in Nat, NEW at \in 0..Len(data),
           ConstantAt(at).code = "none"
    PROVE  ConstantAt(at).next \in 0..Len(data)
<1> DEFINE tag == Unit(at)
           scalar == Unit(tag.next)
           zigzag == Varint55(tag.next)
           string == LuaString(tag.next)
<1>1. tag.code = "none"
  BY DEF ConstantAt, Then
<1>2. tag.next \in 0..Len(data)
  BY <1>1, UnitEnds
<1>3. CASE tag.value \in Tags.alone
  BY <1>1, <1>2, <1>3 DEF ConstantAt, Then, Got
<1>4. CASE /\ tag.value \notin Tags.alone
           /\ tag.value \in Tags.boolean \cup Tags.number \cup Tags.integer
  <2>1. scalar.code = "none" /\ ConstantAt(at).next = scalar.next
    BY <1>1, <1>4 DEF ConstantAt, Then, Got
  <2> QED BY <1>2, <2>1, UnitEnds
<1>5. CASE /\ tag.value \notin Tags.alone \cup Tags.boolean \cup Tags.number \cup Tags.integer
           /\ tag.value \in Tags.zigzag
  <2>1. zigzag.code = "none" /\ ConstantAt(at).next = zigzag.next
    BY <1>1, <1>5 DEF ConstantAt, Then, Got
  <2> QED BY <1>2, <2>1, Varint55Ends
<1>6. CASE tag.value \notin Tags.alone \cup Tags.boolean \cup Tags.number \cup Tags.integer
                             \cup Tags.zigzag
  <2>1. ConstantAt(at) =
          IF tag.value \in Tags.short \cup Tags.long
          THEN IF string.code = "none"
               THEN [string EXCEPT !.value = StringValue(tag.value, string.value)]
               ELSE string
          ELSE Failed(BadTag)
    BY <1>1, <1>6 DEF ConstantAt, Then
  <2>2. string.code = "none" /\ ConstantAt(at).next = string.next
    <3>1. Failed(BadTag).code # "none"
      BY DEF Failed, BadTag
    <3>2. ConstantAt(at) = IF string.code = "none"
                           THEN [string EXCEPT !.value = StringValue(tag.value, string.value)]
                           ELSE string
      BY <2>1, <3>1
    <3>3. string.code = "none"
      BY <3>2
    <3>4. ConstantAt(at) = [string EXCEPT !.value = StringValue(tag.value, string.value)]
      BY <3>2, <3>3
    <3> HIDE DEF string
    <3> QED BY <3>3, <3>4
  <2> QED BY <1>2, <2>2, LuaStringEnds
<1> QED BY <1>3, <1>4, <1>5, <1>6

LEMMA IntegersEnd ==
    ASSUME data \in Seq(Int), Huge \in Nat, NEW at \in 0..Len(data),
           PairAt(at, Integer).code = "none"
    PROVE  PairAt(at, Integer).next \in 0..Len(data)
<1>1. Integer(at).code = "none"
  BY DEF PairAt, Then
<1>2. Integer(at).next \in 0..Len(data)
  BY <1>1, IntegerEnds
<1>3. /\ Integer(Integer(at).next).code = "none"
      /\ PairAt(at, Integer).next = Integer(Integer(at).next).next
  BY <1>1 DEF PairAt, Then, Got
<1> QED BY <1>2, <1>3, IntegerEnds

LEMMA AbsoluteLineEnds ==
    ASSUME data \in Seq(Int), Huge \in Nat, NEW at \in 0..Len(data),
           AbsoluteLineAt(at).code = "none"
    PROVE  AbsoluteLineAt(at).next \in 0..Len(data)
<1>1. CASE dialect = "lua5.5"
  <2>1. Signed32(at).code = "none"
    BY <1>1 DEF AbsoluteLineAt, PairAt, Then
  <2>2. Signed32(at).next \in 0..Len(data)
    BY <2>1, Signed32Ends
  <2>3. /\ Signed32(Signed32(at).next).code = "none"
        /\ AbsoluteLineAt(at).next = Signed32(Signed32(at).next).next
    BY <1>1, <2>1 DEF AbsoluteLineAt, PairAt, Then, Got
  <2> QED BY <2>2, <2>3, Signed32Ends
<1>2. CASE dialect # "lua5.5"
  BY <1>2, IntegersEnd DEF AbsoluteLineAt
<1> QED BY <1>1, <1>2

LEMMA FrameEnds ==
    ASSUME data \in Seq(Int), Huge \in Nat, NEW at \in 0..Len(data),
           FrameAt(at).code = "none"
    PROVE  FrameAt(at).next \in 0..Len(data)
<1> DEFINE lines == PairAt(at, Integer)
           fields == Unit(lines.next)
<1>1. lines.code = "none"
  BY DEF FrameAt, Then
<1>2. fields.code = "none" /\ FrameAt(at).next = fields.next
  BY <1>1 DEF FrameAt, Then, Got
<1> QED BY <1>1, <1>2, IntegersEnd, UnitEnds

LEMMA UpvalueEnds ==
    ASSUME data \in Seq(Int), NEW at \in 0..Len(data), UpvalueAt(at).code = "none"
    PROVE  UpvalueAt(at).next \in 0..Len(data)
BY UnitsEnd DEF UpvalueAt

LEMMA LocalEnds ==
    ASSUME data \in Seq(Int), Huge \in Nat, NEW at \in 0..Len(data),
           LocalAt(at).code = "none"
    PROVE  LocalAt(at).next \in 0..Len(data)
<1> DEFINE name == LuaString(at)
           scope == PairAt(name.next, Integer)
           value == <<IF name.value = NoString THEN Unnamed ELSE name.value>> \o scope.value
<1>1. LocalAt(at) = IF name.code # "none" THEN name
                    ELSE IF scope.code # "none" THEN scope
                    ELSE [Got(scope.next, value) EXCEPT !.saved = name.saved]
  BY DEF LocalAt, Then
<1>2. name.code = "none" /\ scope.code = "none"
  BY <1>1
<1>3. name.next \in 0..Len(data)
  BY <1>2, LuaStringEnds
<1>4. scope.next \in 0..Len(data)
  BY <1>2, <1>3, IntegersEnd
<1>5. LocalAt(at) = [Got(scope.next, value) EXCEPT !.saved = name.saved]
  BY <1>1, <1>2
<1> HIDE DEF name, scope, value
<1>6. LocalAt(at).next = scope.next
  BY <1>5 DEF Got
<1> QED BY <1>4, <1>6

LEMMA HeaderEnds ==
    ASSUME data \in Seq(Int), HeaderAt(0).code = "none"
    PROVE  HeaderAt(0).next \in 0..Len(data)
<1>1. HeaderLength \in Nat
  BY DEF HeaderLength, Header, Header51, Header52, Header53, Header54, Header55
<1>2. /\ Units(0, HeaderLength).code = "none"
      /\ HeaderAt(0).next = Units(0, HeaderLength).next
  BY DEF HeaderAt, Failed
<1>3. 0 \in 0..Len(data)
  OBVIOUS
<1> QED BY <1>1, <1>2, <1>3, UnitsEnd

-----------------------------------------------------------------------------
(* The activations of the loader *)

Fields == {"path", "previous", "start", "stage", "read", "left", "source", "frame",
           "lists"}

IsFrame(f) ==
    /\ DOMAIN f = Fields
    /\ f.path \in Seq(Nat)
    /\ f.read \in Nat
    /\ f.left \in Nat \cup {Uncounted}

(* What the elements are does not matter here. *)
IsStack(s) ==
    /\ \E S : s \in Seq(S)
    /\ \A i \in 1..Len(s) : IsFrame(s[i])

(* Each activation is for a prototype one level below the one before it, whose
   path its guard restores and which waits for it. *)
Guarded(s) ==
    /\ s # <<>> => s[1].path = Root
    /\ \A i \in 1..Len(s) : Len(s[i].path) = i
    /\ \A i \in 2..Len(s) : s[i].previous = s[i - 1].path
    /\ \A i \in 1..(Len(s) - 1) : s[i].left > 0

TypeInv ==
    /\ TypeOK
    /\ data \in Seq(Int)
    /\ override \in Dialects \cup {AutoDetect}
    /\ IsStack(stack)
    /\ phase \in {"select", "header"} => stack = <<>> /\ cursor = 0 /\ protos = 0 /\ insts = 0
    /\ phase \in {"trailing", "done"} => stack = <<>>

IInv == TypeInv /\ Guarded(stack) /\ PathIsInnermost /\ LimitsHold

-----------------------------------------------------------------------------
(* Reads *)

LEMMA HugeIsNatural == Huge \in Nat
BY LimitsAssumption

LEMMA ElementEnds ==
    ASSUME data \in Seq(Int), cursor \in 0..Len(data), NEW list,
           Element(list).code = "none"
    PROVE  Element(list).next \in 0..Len(data)
BY HugeIsNatural, ConstantEnds, UpvalueEnds, AbsoluteLineEnds, LocalEnds, LuaStringEnds, UnitEnds
   DEF Element

LEMMA FirstElementEnds ==
    ASSUME data \in Seq(Int), NEW list, NEW n \in Nat, NEW at \in 0..Len(data),
           FirstElement(list, n, at).code = "none"
    PROVE  FirstElement(list, n, at).next \in 0..Len(data)
BY AlignedEnds DEF FirstElement, Got

-----------------------------------------------------------------------------
(* Activations and the stack *)

LEMMA CountingKeepsPaths ==
    ASSUME NEW f, IsFrame(f), NEW n \in Nat
    PROVE  /\ IsFrame(Counting(f, n))
           /\ Counting(f, n).path = f.path
           /\ Counting(f, n).previous = f.previous
BY DEF Counting, IsFrame, Fields, Uncounted

LEMMA WithElementKeepsPaths ==
    ASSUME NEW f, IsFrame(f), f.left > 0, NEW v
    PROVE  /\ IsFrame(WithElement(f, v))
           /\ WithElement(f, v).path = f.path
           /\ WithElement(f, v).previous = f.previous
<1> DEFINE g == [f EXCEPT !.lists[f.stage] = Append(@, v), !.read = @ + 1]
<1>1. IsFrame(g) /\ g.path = f.path /\ g.previous = f.previous
  BY DEF IsFrame, Fields
<1>2. f.left - 1 \in Nat
  BY DEF IsFrame, Uncounted
<1> QED BY <1>1, <1>2, CountingKeepsPaths DEF WithElement

LEMMA FrontIsStack ==
    ASSUME NEW s, IsStack(s), s # <<>>
    PROVE  /\ Len(s) \in Nat \ {0} /\ Len(Front(s)) = Len(s) - 1
           /\ \A i \in 1..(Len(s) - 1) : Front(s)[i] = s[i]
           /\ IsStack(Front(s)) /\ IsFrame(Last(s))
<1>1. PICK S : s \in Seq(S)
  BY DEF IsStack
<1>2. Len(s) \in Nat \ {0}
  BY <1>1
<1>3. \A i \in 1..(Len(s) - 1) : s[i] \in S
  BY <1>1, <1>2
<1>4. /\ SubSeq(s, 1, Len(s) - 1) \in Seq(S)
      /\ Len(SubSeq(s, 1, Len(s) - 1)) = Len(s) - 1
      /\ \A i \in 1..(Len(s) - 1) : SubSeq(s, 1, Len(s) - 1)[i] = s[i]
  <2>1. 1 \in Int /\ Len(s) - 1 \in Int
    BY <1>2
  <2>2. /\ SubSeq(s, 1, Len(s) - 1) \in Seq(S)
        /\ Len(SubSeq(s, 1, Len(s) - 1)) =
             IF 1 <= Len(s) - 1 THEN Len(s) - 1 - 1 + 1 ELSE 0
        /\ \A i \in 1..(Len(s) - 1 - 1 + 1) :
              SubSeq(s, 1, Len(s) - 1)[i] = s[1 + i - 1]
    BY ONLY <1>3, <2>1, SubSeqProperties
  <2>3. Len(s) - 1 - 1 + 1 = Len(s) - 1
    BY <1>2
  <2>4. \A i \in 1..(Len(s) - 1) : 1 + i - 1 = i
    OBVIOUS
  <2> QED BY <1>2, <2>2, <2>3, <2>4
<1>5. IsStack(Front(s))
  <2>1. \A i \in 1..(Len(s) - 1) : IsFrame(s[i])
    BY <1>2 DEF IsStack
  <2>2. \A i \in 1..Len(Front(s)) : IsFrame(Front(s)[i])
    BY <1>4, <2>1 DEF Front
  <2> QED BY <1>4, <2>2 DEF Front, IsStack
<1>6. IsFrame(Last(s))
  BY <1>2 DEF IsStack, Last
<1> QED BY <1>2, <1>4, <1>5, <1>6 DEF Front

LEMMA FrontIsGuarded ==
    ASSUME NEW s, IsStack(s), Guarded(s), s # <<>>
    PROVE  /\ Guarded(Front(s))
           /\ Len(s) > 1 => /\ Front(s) # <<>>
                            /\ Last(s).previous = Last(Front(s)).path
                            /\ Last(Front(s)).left > 0
<1>1. /\ Len(s) \in Nat \ {0} /\ Len(Front(s)) = Len(s) - 1
      /\ \A i \in 1..(Len(s) - 1) : Front(s)[i] = s[i]
  BY FrontIsStack
<1>2. Front(s) # <<>> => Len(s) > 1
  BY <1>1
<1>3. Front(s) # <<>> => Front(s)[1].path = Root
  BY <1>1, <1>2 DEF Guarded
<1>4. \A i \in 1..Len(Front(s)) : Len(Front(s)[i].path) = i
  BY <1>1 DEF Guarded
<1>5. \A i \in 2..Len(Front(s)) : Front(s)[i].previous = Front(s)[i - 1].path
  BY <1>1 DEF Guarded
<1>6. \A i \in 1..(Len(Front(s)) - 1) : Front(s)[i].left > 0
  <2> SUFFICES ASSUME NEW i \in 1..(Len(Front(s)) - 1)
               PROVE  Front(s)[i].left > 0
    OBVIOUS
  <2>1. i \in 1..(Len(s) - 1) /\ Front(s)[i] = s[i]
    BY <1>1
  <2>2. s[i].left > 0
    BY <2>1 DEF Guarded
  <2> QED BY <2>1, <2>2
<1>7. Guarded(Front(s))
  BY <1>3, <1>4, <1>5, <1>6 DEF Guarded
<1>8. ASSUME Len(s) > 1
      PROVE  /\ Front(s) # <<>>
             /\ Last(s).previous = Last(Front(s)).path
             /\ Last(Front(s)).left > 0
  BY <1>1, <1>8 DEF Guarded, Last
<1> QED BY <1>7, <1>8

(* The activation on top is replaced by one for the same prototype. *)
LEMMA SetTopKeepsGuards ==
    ASSUME NEW s, IsStack(s), Guarded(s), s # <<>>,
           NEW f, IsFrame(f), f.path = Last(s).path, f.previous = Last(s).previous
    PROVE  LET t == Append(Front(s), f)
           IN  /\ IsStack(t) /\ Guarded(t)
               /\ Len(t) = Len(s) /\ t # <<>> /\ Last(t) = f
<1> DEFINE t == Append(Front(s), f)
<1>1. /\ Len(s) \in Nat \ {0} /\ Len(Front(s)) = Len(s) - 1
      /\ \A i \in 1..(Len(s) - 1) : Front(s)[i] = s[i]
      /\ IsStack(Front(s))
  BY FrontIsStack
<1>2. PICK S : Front(s) \in Seq(S)
  BY <1>1 DEF IsStack
<1>4. /\ t \in Seq(S \cup {f}) /\ Len(t) = Len(s)
      /\ \A i \in 1..(Len(s) - 1) : t[i] = s[i]
      /\ t[Len(s)] = f
  BY <1>1, <1>2
<1>5. IsStack(t)
  BY <1>1, <1>4 DEF IsStack
<1>6. Guarded(t)
  <2>1. f.path = s[Len(s)].path /\ f.previous = s[Len(s)].previous
    BY DEF Last
  <2>2. \A i \in 1..Len(s) : t[i].path = s[i].path /\ t[i].previous = s[i].previous
    BY <1>1, <1>4, <2>1
  <2>3. t[1].path = Root
    BY <1>1, <2>2 DEF Guarded
  <2>4. \A i \in 1..Len(t) : Len(t[i].path) = i
    BY <1>4, <2>2 DEF Guarded
  <2>5. \A i \in 2..Len(t) : t[i].previous = t[i - 1].path
    BY <1>1, <1>4, <2>2 DEF Guarded
  <2>6. \A i \in 1..(Len(t) - 1) : t[i].left > 0
    BY <1>1, <1>4 DEF Guarded
  <2> QED BY <2>3, <2>4, <2>5, <2>6 DEF Guarded
<1> QED BY <1>1, <1>4, <1>5, <1>6 DEF Last

(* An activation for a child is put on top. *)
LEMMA PushKeepsGuards ==
    ASSUME NEW s, IsStack(s), Guarded(s), s # <<>>,
           NEW f, IsFrame(f), NEW i \in Nat,
           f.path = Append(Last(s).path, i), f.previous = Last(s).path,
           Last(s).left > 0
    PROVE  LET t == Append(s, f)
           IN  /\ IsStack(t) /\ Guarded(t)
               /\ Len(t) = Len(s) + 1 /\ t # <<>> /\ Last(t) = f
               /\ Len(f.path) = Len(s) + 1
<1> DEFINE t == Append(s, f)
<1>1. PICK S : s \in Seq(S)
  BY DEF IsStack
<1>2. Len(s) \in Nat \ {0}
  BY <1>1
<1>3. /\ t \in Seq(S \cup {f}) /\ Len(t) = Len(s) + 1
      /\ \A j \in 1..Len(s) : t[j] = s[j]
      /\ t[Len(s) + 1] = f
  BY <1>1, <1>2
<1>4. Len(f.path) = Len(s) + 1
  <2>1. Last(s).path \in Seq(Nat) /\ Len(Last(s).path) = Len(s)
    BY <1>2 DEF IsStack, IsFrame, Guarded, Last
  <2> QED BY <2>1
<1>5. IsStack(t)
  BY <1>2, <1>3 DEF IsStack
<1>6. Guarded(t)
  <2>1. t[1].path = Root
    BY <1>2, <1>3 DEF Guarded
  <2>2. \A j \in 1..Len(t) : Len(t[j].path) = j
    BY <1>2, <1>3, <1>4 DEF Guarded
  <2>3. \A j \in 2..Len(t) : t[j].previous = t[j - 1].path
    BY <1>2, <1>3 DEF Guarded, Last
  <2>4. \A j \in 1..(Len(t) - 1) : t[j].left > 0
    BY <1>2, <1>3 DEF Guarded, Last
  <2> QED BY <2>1, <2>2, <2>3, <2>4 DEF Guarded
<1> QED BY <1>2, <1>3, <1>4, <1>5, <1>6 DEF Last

-----------------------------------------------------------------------------
(* Steps *)

LEMMA InitIInv == Init => IInv
<1> SUFFICES ASSUME Init PROVE IInv
  OBVIOUS
<1>1. stack \in Seq({}) /\ Len(stack) = 0
  BY DEF Init
<1>2. IsStack(stack) /\ Guarded(stack)
  BY <1>1 DEF IsStack, Guarded
<1>3. data \in Seq(Int) /\ override \in Dialects \cup {AutoDetect}
  BY ChunksAssumption, OverridesAssumption DEF Init
<1>4. TypeOK
  <2>1. Len(data) \in Nat
    BY <1>3
  <2> QED BY <2>1 DEF Init, TypeOK, Root
<1>5. PathIsInnermost /\ LimitsHold
  BY DEF Init, PathIsInnermost, LimitsHold
<1> QED BY <1>2, <1>3, <1>4, <1>5 DEF Init, IInv, TypeInv

(* An error leaves the activations to be unwound. *)
LEMMA FailKeepsIInv ==
    ASSUME IInv, fixed' = fixed, protos' \in Nat, insts' \in Nat,
           NEW code, NEW target, Fail(code, target)
    PROVE  IInv'
<1>1. /\ phase' = "unwind" /\ cursor' = cursor /\ path' = path /\ stack' = stack
      /\ data' = data /\ override' = override /\ dialect' = dialect
  BY DEF Fail, fixed
<1>2. TypeInv'
  BY <1>1 DEF IInv, TypeInv, TypeOK
<1>3. PathIsInnermost'
  BY <1>1 DEF IInv, PathIsInnermost, Top
<1>4. LimitsHold'
  BY <1>1 DEF LimitsHold
<1>5. Guarded(stack')
  BY <1>1 DEF IInv
<1> QED BY <1>2, <1>3, <1>4, <1>5 DEF IInv

(* A step that replaces the activation on top *)
LEMMA TopStepKeepsIInv ==
    ASSUME IInv, phase = "load", fixed' = fixed, NEW read, read.next \in 0..Len(data),
           protos' \in Nat, protos' <= MaxTotalPrototypes,
           insts' \in Nat, insts' <= MaxTotalInstructions,
           NEW f, IsFrame(f), f.path = Top.path, f.previous = Top.previous,
           Advance(read, f)
    PROVE  IInv'
<1>1. /\ phase' = "load" /\ data' = data /\ override' = override /\ dialect' = dialect
      /\ path' = path /\ cursor' \in 0..Len(data) /\ stack' = SetTop(f)
  BY DEF Advance, fixed
<1>2. stack # <<>> /\ IsStack(stack) /\ Guarded(stack)
  BY DEF IInv, TypeInv, TypeOK
<1>3. /\ IsStack(stack') /\ Guarded(stack')
      /\ Len(stack') = Len(stack) /\ stack' # <<>> /\ Last(stack') = f
  BY <1>1, <1>2, SetTopKeepsGuards DEF SetTop, Top
<1>4. PathIsInnermost'
  BY <1>1, <1>2, <1>3 DEF IInv, PathIsInnermost, Top
<1>5. LimitsHold'
  BY <1>1, <1>3 DEF IInv, LimitsHold
<1>6. TypeInv'
  BY <1>1, <1>3 DEF IInv, TypeInv, TypeOK
<1> QED BY <1>3, <1>4, <1>5, <1>6 DEF IInv

LEMMA LoadingFacts ==
    ASSUME IInv, phase = "load"
    PROVE  /\ data \in Seq(Int) /\ cursor \in 0..Len(data)
           /\ protos \in Nat /\ protos <= MaxTotalPrototypes
           /\ insts \in Nat /\ insts <= MaxTotalInstructions
           /\ stack # <<>> /\ IsStack(stack) /\ Guarded(stack) /\ IsFrame(Top)
           /\ path = Top.path
BY FrontIsStack DEF IInv, TypeInv, TypeOK, LimitsHold, PathIsInnermost, Top

LEMMA SelectDialectKeepsIInv == IInv /\ SelectDialect => IInv'
<1> SUFFICES ASSUME IInv, SelectDialect PROVE IInv'
  OBVIOUS
<1> DEFINE chosen == IF override # AutoDetect THEN override ELSE Detected
<1>1. /\ fixed' = fixed /\ protos' = 0 /\ insts' = 0
      /\ protos = 0 /\ insts = 0
  BY DEF SelectDialect, IInv, TypeInv, TypeOK
<1>2. CASE \E code, target : Fail(code, target)
  BY <1>1, <1>2, FailKeepsIInv
<1>3. CASE /\ chosen # AutoDetect /\ phase' = "header" /\ dialect' = chosen
           /\ UNCHANGED <<strings, cursor, path, stack, error, result>>
  <2>1. Detected \in Dialects \cup {AutoDetect}
    BY DEF Detected, Dialects, AutoDetect, Lnum32
  <2>2. chosen \in Dialects \cup {AutoDetect}
    BY <2>1 DEF IInv, TypeInv
  <2> HIDE DEF chosen
  <2>3. data' = data /\ override' = override /\ phase = "select"
    BY <1>1 DEF fixed, SelectDialect
  <2>4. TypeInv'
    BY <1>1, <1>3, <2>2, <2>3 DEF IInv, TypeInv, TypeOK
  <2>5. PathIsInnermost' /\ Guarded(stack')
    BY <1>3 DEF IInv, PathIsInnermost, Top
  <2>6. LimitsHold'
    BY <1>3 DEF LimitsHold
  <2> QED BY <2>4, <2>5, <2>6 DEF IInv
<1> QED BY <1>2, <1>3 DEF SelectDialect

LEMMA ReadHeaderKeepsIInv == IInv /\ ReadHeader => IInv'
<1> SUFFICES ASSUME IInv, ReadHeader PROVE IInv'
  OBVIOUS
<1> DEFINE header == HeaderAt(0)
           frame == Activation(Root, Root, NoString, header.next)
<1>1. /\ fixed' = fixed /\ protos' = 0 /\ insts' = 0
      /\ protos = 0 /\ insts = 0 /\ data \in Seq(Int) /\ phase = "header"
  BY DEF ReadHeader, IInv, TypeInv, TypeOK
<1>2. CASE \E code, target : Fail(code, target)
  BY <1>1, <1>2, FailKeepsIInv
<1>3. CASE /\ header.code = "none" /\ phase' = "load" /\ cursor' = header.next
           /\ stack' = <<frame>> /\ path' = path /\ dialect' = dialect
  <2>1. cursor' \in 0..Len(data)
    BY <1>1, <1>3, HeaderEnds
  <2>2. IsFrame(frame) /\ frame.path = Root
    BY DEF Activation, IsFrame, Fields, Root
  <2> HIDE DEF frame
  <2>3. stack' \in Seq({frame}) /\ Len(stack') = 1 /\ stack'[1] = frame
    BY <1>3
  <2>4. IsStack(stack')
    <3>1. \A i \in 1..Len(stack') : IsFrame(stack'[i])
      BY <2>2, <2>3
    <3> QED BY <2>3, <3>1 DEF IsStack
  <2>5. Guarded(stack')
    BY <2>2, <2>3 DEF Guarded, Root
  <2>6. path = Root
    BY <1>1 DEF IInv, TypeInv, PathIsInnermost
  <2>7. stack' # <<>>
    BY <2>3
  <2>8. PathIsInnermost'
    BY <1>3, <2>2, <2>3, <2>6, <2>7 DEF PathIsInnermost, Top, Last
  <2>9. LimitsHold'
    <3>1. /\ MaxTotalInstructions \in Nat /\ MaxTotalPrototypes \in Nat
          /\ MaxNestingDepth \in Nat
      BY LimitsAssumption DEF Limits
    <3> QED BY <1>1, <2>3, <3>1 DEF LimitsHold
  <2>10. TypeInv'
    <3>1. path' \in Seq(Nat) /\ data' = data /\ override' = override
      BY <1>1, <1>3 DEF IInv, TypeInv, TypeOK, fixed
    <3>2. dialect' # AutoDetect /\ dialect' \in Dialects \cup {AutoDetect}
      BY <1>1, <1>3 DEF IInv, TypeInv, TypeOK
    <3> QED BY <1>1, <1>3, <2>1, <2>4, <2>7, <3>1, <3>2 DEF IInv, TypeInv, TypeOK
  <2> QED BY <2>5, <2>8, <2>9, <2>10 DEF IInv
<1> QED BY <1>2, <1>3 DEF ReadHeader

LEMMA ReadSourceKeepsIInv == IInv /\ ReadSource => IInv'
<1> SUFFICES ASSUME IInv, ReadSource PROVE IInv'
  OBVIOUS
<1> DEFINE name == LuaString(cursor)
           source == IF name.value = NoString THEN Top.source ELSE name.value
           frame == [Top EXCEPT !.stage = NextStage("source"), !.source = source]
<1>1. /\ phase = "load" /\ fixed' = fixed /\ protos' = protos /\ insts' = insts
  BY DEF ReadSource
<1>2. CASE \E code, target : Fail(code, target)
  BY <1>1, <1>2, LoadingFacts, FailKeepsIInv
<1>3. CASE name.code = "none" /\ Advance(name, frame)
  <2>1. name.next \in 0..Len(data)
    BY <1>1, <1>3, LoadingFacts, HugeIsNatural, LuaStringEnds
  <2>2. IsFrame(frame) /\ frame.path = Top.path /\ frame.previous = Top.previous
    BY <1>1, LoadingFacts DEF IsFrame, Fields
  <2> HIDE DEF frame, name
  <2> QED BY <1>1, <1>3, <2>1, <2>2, LoadingFacts, TopStepKeepsIInv
<1> QED BY <1>2, <1>3 DEF ReadSource

LEMMA ReadFrameKeepsIInv == IInv /\ ReadFrame => IInv'
<1> SUFFICES ASSUME IInv, ReadFrame PROVE IInv'
  OBVIOUS
<1> DEFINE fields == FrameAt(cursor)
           frame == [Top EXCEPT !.stage = NextStage("frame"), !.frame = fields.value]
<1>1. /\ phase = "load" /\ fixed' = fixed /\ protos' = protos /\ insts' = insts
  BY DEF ReadFrame
<1>2. CASE \E code, target : Fail(code, target)
  BY <1>1, <1>2, LoadingFacts, FailKeepsIInv
<1>3. CASE fields.code = "none" /\ Advance(fields, frame)
  <2>1. fields.next \in 0..Len(data)
    BY <1>1, <1>3, LoadingFacts, HugeIsNatural, FrameEnds
  <2>2. IsFrame(frame) /\ frame.path = Top.path /\ frame.previous = Top.previous
    BY <1>1, LoadingFacts DEF IsFrame, Fields
  <2> HIDE DEF frame, fields
  <2> QED BY <1>1, <1>3, <2>1, <2>2, LoadingFacts, TopStepKeepsIInv
<1> QED BY <1>2, <1>3 DEF ReadFrame

LEMMA ReadCountKeepsIInv == IInv /\ ReadCount => IInv'
<1> SUFFICES ASSUME IInv, ReadCount PROVE IInv'
  OBVIOUS
<1> DEFINE count == Integer(cursor)
           n == count.value
           first == FirstElement(Top.stage, n, count.next)
<1>1. /\ phase = "load" /\ fixed' = fixed /\ protos' = protos
  BY DEF ReadCount
<1>2. CASE count.code # "none"
  <2>1. insts' = insts /\ \E code, target : Fail(code, target)
    BY <1>2 DEF ReadCount
  <2> QED BY <1>1, <2>1, LoadingFacts, FailKeepsIInv
<1>3. CASE count.code = "none" /\ n > ListLimit(Top.stage)
  <2>1. insts' = insts /\ \E code, target : Fail(code, target)
    BY <1>3 DEF ReadCount
  <2> QED BY <1>1, <2>1, LoadingFacts, FailKeepsIInv
<1>4. CASE count.code = "none" /\ ~(n > ListLimit(Top.stage))
  <2>1. count.next \in 0..Len(data) /\ n \in Nat
    BY <1>1, <1>4, LoadingFacts, HugeIsNatural, IntegerEnds
  <2>2. insts' = Charged(Top.stage, n)
    BY <1>4 DEF ReadCount
  <2>3. insts' \in Nat
    BY <1>1, <2>1, <2>2, LoadingFacts DEF Charged
  <2>4. CASE insts' > MaxTotalInstructions \/ first.code # "none"
    <3>1. \E code, target : Fail(code, target)
      BY <1>4, <2>4 DEF ReadCount
    <3> QED BY <1>1, <2>3, <3>1, LoadingFacts, FailKeepsIInv
  <2>5. CASE ~(insts' > MaxTotalInstructions) /\ first.code = "none"
    <3>1. Advance(first, Counting(Top, n))
      BY <1>4, <2>5 DEF ReadCount
    <3>2. insts' <= MaxTotalInstructions
      <4>1. MaxTotalInstructions \in Nat
        BY LimitsAssumption DEF Limits
      <4> QED BY <2>3, <2>5, <4>1
    <3>3. /\ IsFrame(Counting(Top, n)) /\ Counting(Top, n).path = Top.path
          /\ Counting(Top, n).previous = Top.previous
      BY <1>1, <2>1, LoadingFacts, CountingKeepsPaths
    <3>4. first.next \in 0..Len(data)
      BY <1>1, <2>1, <2>5, LoadingFacts, FirstElementEnds
    <3> HIDE DEF count, n, first
    <3> QED BY <1>1, <2>3, <3>1, <3>2, <3>3, <3>4, LoadingFacts, TopStepKeepsIInv
  <2> QED BY <2>4, <2>5
<1> QED BY <1>2, <1>3, <1>4

LEMMA ReadElementKeepsIInv == IInv /\ ReadElement => IInv'
<1> SUFFICES ASSUME IInv, ReadElement PROVE IInv'
  OBVIOUS
<1> DEFINE element == Element(Top.stage)
           frame == WithElement(Top, element.value)
<1>1. /\ phase = "load" /\ fixed' = fixed /\ protos' = protos /\ insts' = insts
      /\ Top.left > 0
  BY DEF ReadElement
<1>2. CASE \E code, target : Fail(code, target)
  BY <1>1, <1>2, LoadingFacts, FailKeepsIInv
<1>3. CASE element.code = "none" /\ Advance(element, frame)
  <2>1. element.next \in 0..Len(data)
    BY <1>1, <1>3, LoadingFacts, ElementEnds
  <2>2. IsFrame(frame) /\ frame.path = Top.path /\ frame.previous = Top.previous
    BY <1>1, LoadingFacts, WithElementKeepsPaths
  <2> HIDE DEF frame, element
  <2> QED BY <1>1, <1>3, <2>1, <2>2, LoadingFacts, TopStepKeepsIInv
<1> QED BY <1>2, <1>3 DEF ReadElement

LEMMA EnterChildKeepsIInv == IInv /\ EnterChild => IInv'
<1> SUFFICES ASSUME IInv, EnterChild PROVE IInv'
  OBVIOUS
<1> DEFINE child == Append(path, Top.read)
           frame == Activation(Append(Top.path, Top.read), path, Top.source, cursor)
<1>1. /\ phase = "load" /\ fixed' = fixed /\ insts' = insts /\ Top.left > 0
  BY DEF EnterChild
<1>2. protos' \in Nat
  BY <1>1, LoadingFacts DEF EnterChild
<1>3. CASE \E code, target : Fail(code, target)
  BY <1>1, <1>2, <1>3, LoadingFacts, FailKeepsIInv
<1>4. CASE /\ ~(Depth(child) > MaxNestingDepth) /\ ~(protos' > MaxTotalPrototypes)
           /\ path' = child /\ stack' = Append(stack, frame)
           /\ phase' = phase /\ cursor' = cursor /\ dialect' = dialect
  <2>1. Top.read \in Nat /\ Top.path \in Seq(Nat)
    BY <1>1, LoadingFacts DEF IsFrame
  <2>2. path = Top.path /\ child \in Seq(Nat)
    BY <1>1, <2>1, LoadingFacts
  <2>3. /\ IsFrame(frame) /\ frame.path = child
        /\ frame.path = Append(Top.path, Top.read) /\ frame.previous = Top.path
    BY <2>2 DEF Activation, IsFrame, Fields, Uncounted
  <2> HIDE DEF frame
  <2>4. /\ IsStack(stack') /\ Guarded(stack')
        /\ Len(stack') = Len(stack) + 1 /\ stack' # <<>> /\ Last(stack') = frame
        /\ Len(child) = Len(stack) + 1
    BY <1>1, <1>4, <2>1, <2>3, LoadingFacts, PushKeepsGuards DEF Top
  <2>5. PathIsInnermost'
    BY <1>4, <2>3, <2>4 DEF PathIsInnermost, Top
  <2>6. LimitsHold'
    <3>1. MaxTotalPrototypes \in Nat /\ MaxNestingDepth \in Nat
      BY LimitsAssumption DEF Limits
    <3>2. Len(child) \in Nat
      BY <2>2
    <3> QED BY <1>1, <1>2, <1>4, <2>4, <3>1, <3>2, LoadingFacts DEF LimitsHold, Depth
  <2>7. TypeInv'
    BY <1>1, <1>2, <1>4, <2>2, <2>4, LoadingFacts DEF IInv, TypeInv, TypeOK, fixed
  <2> QED BY <2>4, <2>5, <2>6, <2>7 DEF IInv
<1> QED BY <1>3, <1>4 DEF EnterChild

LEMMA FinishChildKeepsIInv == IInv /\ FinishChild => IInv'
<1> SUFFICES ASSUME IInv, FinishChild PROVE IInv'
  OBVIOUS
<1> DEFINE outer == Front(stack)
           frame == WithElement(Last(outer), Prototype(Top))
<1>1. /\ phase = "load" /\ phase' = "load" /\ fixed' = fixed /\ cursor' = cursor
      /\ dialect' = dialect
      /\ protos' = protos /\ insts' = insts /\ Len(stack) > 1
      /\ path' = Top.previous /\ stack' = Append(Front(outer), frame)
  BY DEF FinishChild
<1>2. /\ Len(stack) \in Nat /\ Len(outer) = Len(stack) - 1
      /\ IsStack(outer) /\ Guarded(outer) /\ outer # <<>>
      /\ Top.previous = Last(outer).path /\ Last(outer).left > 0
  BY <1>1, LoadingFacts, FrontIsStack, FrontIsGuarded DEF Top
<1>3. IsFrame(Last(outer))
  BY <1>2, FrontIsStack
<1> HIDE DEF outer
<1>4. IsFrame(frame) /\ frame.path = Last(outer).path /\ frame.previous = Last(outer).previous
  BY <1>2, <1>3, WithElementKeepsPaths
<1> HIDE DEF frame
<1>5. /\ IsStack(stack') /\ Guarded(stack')
      /\ Len(stack') = Len(stack) - 1 /\ stack' # <<>> /\ Last(stack') = frame
  BY <1>1, <1>2, <1>4, SetTopKeepsGuards
<1>6. PathIsInnermost'
  BY <1>1, <1>2, <1>4, <1>5 DEF PathIsInnermost, Top
<1>7. LimitsHold'
  <2>1. MaxNestingDepth \in Nat /\ Len(stack) <= MaxNestingDepth + 1
    BY <1>1, LimitsAssumption DEF Limits, IInv, LimitsHold
  <2> QED BY <1>1, <1>2, <1>5, <2>1, LoadingFacts DEF LimitsHold
<1>8. TypeInv'
  <2>1. path' \in Seq(Nat)
    BY <1>1, <1>2, <1>3 DEF IsFrame
  <2> QED BY <1>1, <1>5, <2>1, LoadingFacts DEF IInv, TypeInv, TypeOK, fixed
<1> QED BY <1>5, <1>6, <1>7, <1>8 DEF IInv

(* Once no activation is left the path is the root's. *)
LEMMA EmptiedStack ==
    ASSUME IInv, fixed' = fixed, dialect' = dialect, cursor' \in 0..Len(data), path' = path, stack' = <<>>,
           protos' = protos, insts' = insts, stack # <<>> => Len(stack) = 1,
           phase' \in {"trailing", "done", "failed"},
           phase' # "failed" => phase \in {"load", "trailing"}
    PROVE  IInv'
<1>1. stack' \in Seq({}) /\ Len(stack') = 0
  OBVIOUS
<1>2. IsStack(stack') /\ Guarded(stack')
  BY <1>1 DEF IsStack, Guarded
<1>3. path = Root
  <2>1. CASE stack = <<>>
    BY <2>1 DEF IInv, PathIsInnermost
  <2>2. CASE stack # <<>>
    BY <2>2 DEF IInv, PathIsInnermost, Top, Last, Guarded
  <2> QED BY <2>1, <2>2
<1>4. PathIsInnermost'
  BY <1>3 DEF PathIsInnermost
<1>5. LimitsHold'
  <2>1. MaxNestingDepth \in Nat
    BY LimitsAssumption DEF Limits
  <2> QED BY <1>1, <2>1 DEF IInv, LimitsHold
<1>6. TypeInv'
  BY <1>2 DEF IInv, TypeInv, TypeOK, fixed
<1> QED BY <1>2, <1>4, <1>5, <1>6 DEF IInv

LEMMA FinishMainKeepsIInv == IInv /\ FinishMain => IInv'
<1> SUFFICES ASSUME IInv, FinishMain PROVE IInv'
  OBVIOUS
<1>1. cursor \in 0..Len(data)
  BY DEF IInv, TypeInv, TypeOK
<1> QED BY <1>1, EmptiedStack DEF FinishMain

LEMMA ReadTrailingKeepsIInv == IInv /\ ReadTrailing => IInv'
<1> SUFFICES ASSUME IInv, ReadTrailing, stack = <<>> PROVE IInv'
  BY DEF IInv, TypeInv, ReadTrailing
<1>1. cursor' \in 0..Len(data)
  <2>1. Len(data) \in 0..Len(data)
    BY DEF IInv, TypeInv
  <2> QED BY <2>1 DEF IInv, TypeInv, TypeOK, ReadTrailing
<1> QED BY <1>1, EmptiedStack DEF ReadTrailing

LEMMA UnwindKeepsIInv == IInv /\ Unwind => IInv'
<1> SUFFICES ASSUME IInv, Unwind PROVE IInv'
  OBVIOUS
<1>1. /\ phase = "unwind" /\ fixed' = fixed /\ cursor' = cursor /\ dialect' = dialect
      /\ protos' = protos /\ insts' = insts /\ IsStack(stack) /\ Guarded(stack)
      /\ TypeInv
  BY DEF Unwind, IInv, TypeInv
<1>2. CASE Len(stack) > 1
  <2>1. stack' = Front(stack) /\ path' = Top.previous /\ phase' = "unwind"
    BY <1>1, <1>2 DEF Unwind
  <2>2. stack # <<>>
    <3>1. stack = <<>> => Len(stack) = 0
      OBVIOUS
    <3> QED BY <1>2, <3>1
  <2>3. /\ IsStack(stack') /\ Guarded(stack') /\ stack' # <<>>
        /\ path' = Last(stack').path
    BY <1>1, <1>2, <2>1, <2>2, FrontIsStack, FrontIsGuarded DEF Top
  <2>4. PathIsInnermost'
    BY <2>3 DEF PathIsInnermost, Top
  <2>5. LimitsHold'
    BY <2>1 DEF LimitsHold
  <2>6. TypeInv'
    <3>1. path' \in Seq(Nat)
      BY <2>3, FrontIsStack DEF IsFrame
    <3> QED BY <1>1, <2>1, <2>3, <3>1 DEF TypeInv, TypeOK, fixed
  <2> QED BY <2>3, <2>4, <2>5, <2>6 DEF IInv
<1>3. CASE ~(Len(stack) > 1)
  <2>1. stack' = <<>> /\ phase' = "failed" /\ path' = path
    BY <1>1, <1>3 DEF Unwind
  <2>2. ASSUME stack # <<>>
        PROVE  Len(stack) = 1
    <3>1. PICK n \in Nat \ {0} : n = Len(stack)
      BY <1>1, <2>2, FrontIsStack
    <3> QED BY <1>3, <3>1
  <2>3. cursor \in 0..Len(data)
    BY <1>1 DEF TypeInv, TypeOK
  <2> QED BY <1>1, <2>1, <2>2, <2>3, EmptiedStack
<1> QED BY <1>2, <1>3

LEMMA NextKeepsIInv == IInv /\ [Next]_vars => IInv'
<1> SUFFICES ASSUME IInv, [Next]_vars PROVE IInv'
  OBVIOUS
<1>1. CASE UNCHANGED vars
  BY <1>1 DEF vars, IInv, TypeInv, TypeOK, PathIsInnermost, LimitsHold, Top
<1> QED BY <1>1, SelectDialectKeepsIInv, ReadHeaderKeepsIInv, ReadSourceKeepsIInv, ReadFrameKeepsIInv,
           ReadCountKeepsIInv, ReadElementKeepsIInv, EnterChildKeepsIInv,
           FinishChildKeepsIInv, FinishMainKeepsIInv, ReadTrailingKeepsIInv,
           UnwindKeepsIInv DEF Next

LEMMA InductiveInvariant == Spec => []IInv
<1>1. Init => IInv
  BY InitIInv
<1>2. IInv /\ [Next]_vars => IInv'
  BY NextKeepsIInv
<1> QED BY <1>1, <1>2, PTL DEF Spec

-----------------------------------------------------------------------------
(* Theorems *)

(* The cursor of the reader stays inside the input, whatever is read. *)
THEOREM TypeCorrect == Spec => []TypeOK
<1>1. IInv => TypeOK
  BY DEF IInv, TypeInv
<1> QED BY <1>1, InductiveInvariant, PTL

(* current_proto_path names the prototype being loaded at every step, and is
   the root again after the last return or error. *)
THEOREM PathFollowsDescent == Spec => []PathIsInnermost
<1>1. IInv => PathIsInnermost
  BY DEF IInv
<1> QED BY <1>1, InductiveInvariant, PTL

(* A loader that goes on was charged no more than the limits, and is no deeper
   than they allow. *)
THEOREM WithinLimits == Spec => []LimitsHold
<1>1. IInv => LimitsHold
  BY DEF IInv
<1> QED BY <1>1, InductiveInvariant, PTL
=============================================================================
