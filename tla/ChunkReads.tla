----------------------------- MODULE ChunkReads -----------------------------
(***************************************************************************)
(* The reads of the chunk loaders over the bounded reader (reader.rs of    *)
(* luad-core), for the five dialects and the LNUM profile of the first:    *)
(* what a field, a string, a constant or a header is, where a read ends,   *)
(* and how it fails.                                                       *)
(*                                                                         *)
(* The input is a sequence of units. A byte, an instruction word, a number *)
(* or a four byte integer is one unit, an eight byte size_t is two with    *)
(* the low one first, and a group of seven bits of a variable-length       *)
(* integer is one. The one byte fields of a prototype are one unit         *)
(* together. A read cut inside a field fails like one that finds nothing,  *)
(* and two reads in a row that fail alike are one read.                    *)
(***************************************************************************)
EXTENDS Integers, Sequences, SequencesExt

CONSTANTS
    MaxStringBytes,   \* max_string_bytes
    Huge              \* what a negative count is as a usize

VARIABLES
    data,     \* the input, fixed
    dialect,  \* the dialect the input is read as, or AutoDetect before it is chosen
    strings   \* the strings a Lua 5.5 chunk may refer to again

AutoDetect == "auto"
Lnum32 == "lua5.1-lnum32"
Dialects == {"lua5.1", Lnum32, "lua5.2", "lua5.3", "lua5.4", "lua5.5"}

Lua51 == dialect \in {"lua5.1", Lnum32}
HasVarints == dialect \in {"lua5.4", "lua5.5"}

NoString == <<-1>>

(* i32 as usize, and u32 as usize *)
AsUsize(n) == IF n < 0 THEN Huge ELSE n

-----------------------------------------------------------------------------
(* A read is [code, next, value, saved]: the code of the error it ends in or *)
(* "none", the position after it, what it read, and the strings it adds to  *)
(* the table of the chunk.                                                  *)

Failed(code) == [code |-> code, next |-> 0, value |-> 0, saved |-> <<>>]
Got(next, value) == [code |-> "none", next |-> next, value |-> value, saved |-> <<>>]

(* One read after another: the `?` of the code *)
Then(r, Rest(_, _)) == IF r.code = "none" THEN Rest(r.next, r.value) ELSE r

(* Mutant: only the start of a read is checked, and a missing unit is 0. *)
UnitsPadded(at, n) ==
    IF at >= Len(data) THEN Failed("CORE-TRUNC-001")
    ELSE Got(at + n, [i \in 1..n |-> IF at + i <= Len(data) THEN data[at + i] ELSE 0])

(* read_exact *)
Units(at, n) ==
    IF at + n > Len(data) THEN Failed("CORE-TRUNC-001")
    ELSE Got(at + n, SubSeq(data, at + 1, at + n))

Unit(at) == Then(Units(at, 1), LAMBDA next, u : Got(next, u[1]))

(* Seven bits are Base values here, and 64 bits Word: a unit of a varint holds
   a digit below Base, and Base more when the high bit is set. *)
Base == 4
Word == Base * Base * Base

(* Where the varint at a position ends, given the units that may end one: the
   first of them, or the end of the input *)
VarintEnd(at, lasts) ==
    IF \E i \in lasts : i > at
    THEN CHOOSE i \in lasts : i > at /\ \A j \in lasts : j > at => i <= j
    ELSE Len(data)

(* The digits between two positions *)
Digits(at, end) == FoldLeft(LAMBDA v, d : (v * Base) + (d % Base), 0, SubSeq(data, at + 1, end))

(* The value before the last digit has to be below the limit, so that the
   shift loses no bit; a varint whose last digit is missing is cut short. *)
Varint(at, lasts, limit) ==
    LET end == VarintEnd(at, lasts)
        high == Digits(at, end - 1)
    IN  IF at >= Len(data) THEN Failed("CORE-TRUNC-001")
        ELSE IF high \notin 0..(limit - 1) THEN Failed("VARINT-001")
        ELSE IF end \notin lasts THEN Failed("CORE-TRUNC-001")
        ELSE Got(end, ((high * Base) + (data[end] % Base)) % Word)

(* The units with and without the high bit *)
Marked == {i \in 1..Len(data) : data[i] >= Base}
Unmarked == {i \in 1..Len(data) : data[i] < Base}

(* read_varint_lua54: the high bit marks the last byte. *)
Varint54(at) == Varint(at, Marked, Word \div Base - 1)

(* read_varint_lua55: the high bit marks every byte but the last. *)
Varint55(at) == Varint(at, Unmarked, Word \div Base)

(* read_i32_le, and its use as a count or a position *)
Signed32(at) == Then(Unit(at), LAMBDA next, n : Got(next, AsUsize(n)))

(* An integer of a prototype: an i32, or a varint *)
Integer(at) ==
    IF dialect = "lua5.4" THEN Varint54(at)
    ELSE IF dialect = "lua5.5" THEN Varint55(at)
    ELSE Signed32(at)

(* Four bytes are Alignment units here. *)
Alignment == 2

(* align_to: the padding is read and not looked at. *)
Aligned(at) == Units(at, (Alignment - (at % Alignment)) % Alignment)

-----------------------------------------------------------------------------
(* Strings *)

(* Mutant: the terminator counts. *)
TooLongWithTerminator(size) == size > MaxStringBytes

(* check_string_limit *)
TooLong(size) == size - 1 > MaxStringBytes

(* The place of sizeof(size_t) in the header, up to Lua 5.3 *)
SizeTField == 6
SizeT(at) ==
    LET width == IF data[SizeTField] = 4 THEN 1 ELSE 2
    IN  Then(Units(at, width), LAMBDA next, u :
            Got(next, IF width = 2 /\ u[2] # 0 THEN Huge ELSE AsUsize(u[1])))

(* A payload of the given number of units; the string is all of it, or all but
   its terminator. *)
Payload(at, size, Content(_)) ==
    Then(Units(at, size), LAMBDA next, bytes : Got(next, Content(bytes)))

(* load_string_51: a size_t that counts the terminator, then the payload. *)
String51(at) ==
    Then(SizeT(at), LAMBDA next, size :
        IF size = 0 THEN Got(next, NoString)
        ELSE IF TooLong(size) THEN Failed("STR-001")
        ELSE Payload(next, size, Front))

(* load_string_52 *)
String52(at) ==
    Then(SizeT(at), LAMBDA next, size :
        IF size = 0 THEN Got(next, NoString)
        ELSE IF TooLong(size) THEN Failed("STR-001")
        ELSE Payload(next, size, Front))

(* 0xFF, in a byte that may be the size of a Lua 5.3 string *)
LongMark == 3

(* load_string_53: the size counts a terminator that is not written. *)
String53(at) ==
    LET length == Then(Unit(at), LAMBDA next, byte :
                      IF byte = LongMark THEN SizeT(next) ELSE Got(next, AsUsize(byte)))
    IN  Then(length, LAMBDA next, size :
            IF size = 0 THEN Got(next, NoString)
            ELSE IF TooLong(size) THEN Failed("STR-001")
            ELSE Payload(next, size - 1, LAMBDA bytes : bytes))

(* read_string_lua54 *)
String54(at) ==
    Then(Varint54(at), LAMBDA next, size :
        IF size = 0 THEN Got(next, NoString)
        ELSE IF TooLong(size) THEN Failed("STR-001")
        ELSE Payload(next, size - 1, LAMBDA bytes : bytes))

(* Mutant: the table counts from 0. *)
ReusedFromZero(next, index) ==
    IF index = 0 THEN Got(next, NoString)
    ELSE IF index >= Len(strings) THEN Failed("STR-001")
    ELSE Got(next, strings[index + 1])

(* StringReuseTable: 0 is no string, the others count from 1. *)
Reused(next, index) ==
    IF index = 0 THEN Got(next, NoString)
    ELSE IF index > Len(strings) THEN Failed("STR-001")
    ELSE Got(next, strings[index])

(* load_string_55: a size of 0 refers to the table, and any other string is
   added to it. *)
String55(at) ==
    Then(Varint55(at), LAMBDA next, size :
        IF size = 0 THEN Then(Varint55(next), Reused)
        ELSE IF TooLong(size) THEN Failed("STR-002")
        ELSE LET string == Payload(next, size, Front)
             IN  Then(string, LAMBDA after, s : [string EXCEPT !.saved = <<s>>]))

LuaString(at) ==
    IF Lua51 THEN String51(at)
    ELSE IF dialect = "lua5.2" THEN String52(at)
    ELSE IF dialect = "lua5.3" THEN String53(at)
    ELSE IF dialect = "lua5.4" THEN String54(at)
    ELSE String55(at)

-----------------------------------------------------------------------------
(* Constants *)

(* The tags of the constants of a dialect: alone is a constant that has no
   payload, zigzag an integer that is a varint. *)
Tags51 == [alone |-> {0}, boolean |-> {1}, number |-> {3}, zigzag |-> {},
           integer |-> IF dialect = Lnum32 THEN {9} ELSE {}, short |-> {4}, long |-> {}]
Tags52 == [alone |-> {0}, boolean |-> {1}, number |-> {3}, zigzag |-> {},
           integer |-> {}, short |-> {4}, long |-> {}]
Tags53 == [alone |-> {0}, boolean |-> {1}, number |-> {3}, zigzag |-> {},
           integer |-> {19}, short |-> {4}, long |-> {20}]
Tags54 == [alone |-> {0, 1, 17}, boolean |-> {}, number |-> {19}, zigzag |-> {},
           integer |-> {3}, short |-> {4}, long |-> {20}]
Tags55 == [alone |-> {0, 1, 17}, boolean |-> {}, number |-> {19}, zigzag |-> {3},
           integer |-> {}, short |-> {4}, long |-> {20}]

Tags == IF Lua51 THEN Tags51
        ELSE IF dialect = "lua5.2" THEN Tags52
        ELSE IF dialect = "lua5.3" THEN Tags53
        ELSE IF dialect = "lua5.4" THEN Tags54
        ELSE Tags55

(* Values: nil is NoString, a short string is itself. *)
Boolean(b) == <<-2, IF b THEN 1 ELSE 0>>
Number(n) == <<-3, n>>
IntegerValue(n) == <<-4, n>>
LongString(s) == <<-5>> \o s

(* The constants that are a tag alone *)
Alone(tag) == IF tag = 0 THEN NoString ELSE Boolean(tag = 17)

(* The integer of a Lua 5.5 constant: its sign is in the low bit. *)
Signed(n) == IF n % 2 = 1 THEN -(n \div 2) - 1 ELSE n \div 2

(* A string constant that is missing is nil, but in Lua 5.4 empty. *)
StringConstant(s, Kind(_)) ==
    IF s # NoString THEN Kind(s)
    ELSE IF dialect = "lua5.4" THEN Kind(<<>>)
    ELSE NoString

StringValue(tag, s) ==
    IF tag \in Tags.long THEN StringConstant(s, LongString)
    ELSE StringConstant(s, LAMBDA c : c)

BadTag == "CONST-TAG"

(* One constant: a tag, then its value. *)
ConstantAt(at) ==
    Then(Unit(at), LAMBDA next, tag :
        IF tag \in Tags.alone THEN Got(next, Alone(tag))
        ELSE IF tag \in Tags.boolean
        THEN Then(Unit(next), LAMBDA after, b : Got(after, Boolean(b # 0)))
        ELSE IF tag \in Tags.number
        THEN Then(Unit(next), LAMBDA after, n : Got(after, Number(n)))
        ELSE IF tag \in Tags.integer
        THEN Then(Unit(next), LAMBDA after, n : Got(after, IntegerValue(n)))
        ELSE IF tag \in Tags.zigzag
        THEN Then(Varint55(next), LAMBDA after, n : Got(after, IntegerValue(Signed(n))))
        ELSE IF tag \in Tags.short \cup Tags.long
        THEN LET string == LuaString(next)
             IN  Then(string, LAMBDA after, s :
                     [string EXCEPT !.value = StringValue(tag, s)])
        ELSE Failed(BadTag))

-----------------------------------------------------------------------------
(* The other elements of a prototype *)

(* Two integers *)
PairAt(at, Read(_)) ==
    Then(Read(at), LAMBDA mid, first :
        Then(Read(mid), LAMBDA next, second : Got(next, <<first, second>>)))

(* The first and the last line, and the one byte fields *)
FrameAt(at) ==
    Then(PairAt(at, Integer), LAMBDA mid, lines :
        Then(Unit(mid), LAMBDA next, fields : Got(next, Append(lines, fields))))

(* Whether it is in the stack of the parent, its index, and from Lua 5.4 on
   its kind *)
UpvalueAt(at) == Units(at, IF HasVarints THEN 3 ELSE 2)

(* Lua 5.5 writes the absolute line information as two i32. *)
AbsoluteLineAt(at) ==
    IF dialect = "lua5.5" THEN PairAt(at, Signed32) ELSE PairAt(at, Integer)

Unnamed == <<63>>

(* A local variable: its name, or "?", and the two ends of its scope *)
LocalAt(at) ==
    LET name == LuaString(at)
    IN  Then(name, LAMBDA mid, s :
            Then(PairAt(mid, Integer), LAMBDA next, scope :
                [Got(next, <<IF s = NoString THEN Unnamed ELSE s>> \o scope)
                   EXCEPT !.saved = name.saved]))

-----------------------------------------------------------------------------
(* Headers: the values each field may have. Signature, LuacData and Check stand  *)
(* for the byte strings and numbers every chunk of the dialect has.         *)

Signature == 27
LuacData == 25
Check == 22136

(* The format is not looked at, and the integral flag is the width of an
   integer in the LNUM profile. *)
Header51 == <<{Signature}, {51}, Int, {1}, {4, 8}, {4, 8}, {4}, {4, 8},
              IF dialect = Lnum32 THEN {4} ELSE {0, 1}>>
Header52 == <<{Signature}, {52}, {0}, {1}, {4}, {4, 8}, {4}, {8}, {0}, {LuacData}>>
Header53 == <<{Signature}, {53}, {0}, {LuacData}, {4}, {4, 8}, {4}, {8}, {8}, {Check}, {Check}>>
(* Another format is only warned about. *)
Header54 == <<{Signature}, {54}, Int, {LuacData}, {4}, {8}, {8}, {Check}, {Check}>>
Header55 == <<{Signature}, {55}, {0}, {LuacData}, {4}, {-Check}, {4}, {Check}, {8}, {-Check},
              {8}, {-Check}>>

Header ==
    IF Lua51 THEN Header51
    ELSE IF dialect = "lua5.2" THEN Header52
    ELSE IF dialect = "lua5.3" THEN Header53
    ELSE IF dialect = "lua5.4" THEN Header54
    ELSE Header55

(* From Lua 5.3 on the number of upvalues of the main closure follows. *)
HeaderLength == Len(Header) + IF Lua51 \/ dialect = "lua5.2" THEN 0 ELSE 1

(* The fields are judged as they are read, but in Lua 5.1 all after the
   version only once the last one is there. *)
HeaderAt(at) ==
    LET refused == {i \in 1..Len(Header) : i <= Len(data) /\ data[i] \notin Header[i]}
        judged == IF Lua51 /\ Len(data) < Len(Header) THEN 1..2 ELSE 1..Len(Header)
    IN  IF refused \cap judged # {} THEN Failed("HEADER")
        ELSE Units(at, HeaderLength)

(* What the signature and the version tell, and for Lua 5.1 the place of the
   integral flag: detect_lua51 to detect_lua55 in the order they are asked. *)
Detected ==
    IF Len(data) < 2 \/ data[1] # Signature THEN AutoDetect
    ELSE IF data[2] = 55 THEN "lua5.5"
    ELSE IF data[2] = 54 THEN "lua5.4"
    ELSE IF data[2] = 53 THEN "lua5.3"
    ELSE IF data[2] = 52 THEN "lua5.2"
    ELSE IF data[2] # 51 THEN AutoDetect
    ELSE IF Len(data) >= 9 /\ data[9] = 4 THEN Lnum32
    ELSE "lua5.1"
=============================================================================
