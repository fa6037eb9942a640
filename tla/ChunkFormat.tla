----------------------------- MODULE ChunkFormat -----------------------------
(***************************************************************************)
(* The loaders against the formats: what ldump.c of each Lua (not in the   *)
(* repository) writes for a program, and what a reader of it has to get    *)
(* back.                                                                   *)
(*                                                                         *)
(* A program is [dialect, sizet, tree], dumped with ints of four bytes and *)
(* a size_t of the width given: the loader of Lua 5.1 reads no other ints, *)
(* whatever the header declares (header.rs:60). A tree is [source, frame,  *)
(* code, constants, children, upvalues, lines, abslines, locals, names]:   *)
(* strings are sequences of units or                                       *)
(* NoString, children are trees.                                           *)
(***************************************************************************)
EXTENDS ChunkLoader

CONSTANT Programs    \* the programs that are dumped

(* A dump in the making is [p, out, table]: the program, the units written so
   far, and the strings written so far. *)
Put(d, units) == [d EXCEPT !.out = @ \o units]

Is51(d) == d.p.dialect \in {"lua5.1", Lnum32}

(* dumpVarint: the high digits first, the last one or the others marked. *)
VarintDigits(n) ==
    LET top == IF n < Base THEN 0 ELSE IF n < Base * Base THEN 1 ELSE 2
        power == [i \in 0..2 |-> IF i = 0 THEN 1 ELSE IF i = 1 THEN Base ELSE Base * Base]
    IN  [i \in 1..(top + 1) |-> (n \div power[top + 1 - i]) % Base]

PutVarint(d, n) ==
    LET digits == VarintDigits(n)
        marked(i) == IF d.p.dialect = "lua5.4" THEN i = Len(digits) ELSE i < Len(digits)
    IN  Put(d, [i \in 1..Len(digits) |-> digits[i] + IF marked(i) THEN Base ELSE 0])

(* DumpInt *)
PutInt(d, n) ==
    IF d.p.dialect \in {"lua5.4", "lua5.5"} THEN PutVarint(d, n) ELSE Put(d, <<n>>)

(* A size_t of eight bytes is two units, the low one first. *)
PutSizeT(d, n) == Put(d, IF d.p.sizet = 8 THEN <<n, 0>> ELSE <<n>>)

Align(d) == Put(d, [i \in 1..(Len(d.out) % Alignment) |-> 0])

(* DumpString of Lua 5.5: a string that was written is referred to. *)
PutString55(d, s) ==
    IF s = NoString THEN PutVarint(PutVarint(d, 0), 0)
    ELSE IF \E i \in 1..Len(d.table) : d.table[i] = s
    THEN PutVarint(PutVarint(d, 0), CHOOSE i \in 1..Len(d.table) : d.table[i] = s)
    ELSE [Put(PutVarint(d, Len(s) + 1), s \o <<0>>) EXCEPT !.table = Append(@, s)]

(* DumpString of the others *)
PutString(d, s) ==
    LET size == IF s = NoString THEN 0 ELSE Len(s) + 1
        text == IF s = NoString THEN <<>> ELSE s
        ended == IF s = NoString THEN <<>> ELSE s \o <<0>>
    IN  IF d.p.dialect = "lua5.5" THEN PutString55(d, s)
        ELSE IF d.p.dialect = "lua5.4" THEN Put(PutVarint(d, size), text)
        ELSE IF d.p.dialect # "lua5.3" THEN Put(PutSizeT(d, size), ended)
        ELSE IF size >= LongMark THEN Put(PutSizeT(Put(d, <<LongMark>>), size), text)
        ELSE Put(Put(d, <<size>>), text)

(* DumpConstants: kind is the mark of the value. *)
Kind(c) == IF Len(c) > 0 /\ c[1] < 0 THEN c[1] ELSE 0
PutConstant(d, c) ==
    LET modern == d.p.dialect \in {"lua5.4", "lua5.5"}
        zigzag == IF c[2] >= 0 THEN 2 * c[2] ELSE 2 * (-c[2] - 1) + 1
    IN  IF c = NoString THEN Put(d, <<0>>)
        ELSE IF Kind(c) = -2 THEN Put(d, IF ~modern THEN <<1, c[2]>>
                                         ELSE IF c[2] = 1 THEN <<17>> ELSE <<1>>)
        ELSE IF Kind(c) = -3 THEN Put(d, <<IF modern THEN 19 ELSE 3, c[2]>>)
        ELSE IF Kind(c) = -4
        THEN IF d.p.dialect = "lua5.5" THEN PutVarint(Put(d, <<3>>), zigzag)
             ELSE Put(d, <<IF Is51(d) THEN 9 ELSE IF modern THEN 3 ELSE 19, c[2]>>)
        ELSE IF Kind(c) = -5 THEN PutString(Put(d, <<20>>), Tail(c))
        ELSE PutString(Put(d, <<4>>), c)

PutLocal(d, l) == PutInt(PutInt(PutString(d, l[1]), l[2]), l[3])

PutAbsoluteLine(d, l) ==
    IF d.p.dialect = "lua5.5" THEN Put(d, l) ELSE PutInt(PutInt(d, l[1]), l[2])

PutList(d, s, PutEach(_, _)) == FoldLeft(PutEach, PutInt(d, Len(s)), s)

(* DumpFunction: one stage after the other *)
StagesOf(name) ==
    IF name \in {"lua5.1", Lnum32} THEN Stages51
    ELSE IF name = "lua5.2" THEN Stages52
    ELSE IF name = "lua5.3" THEN Stages53
    ELSE IF name = "lua5.4" THEN Stages54
    ELSE Stages55

RECURSIVE PutTree(_, _)
PutTree(d, t) ==
    LET aligned(list) == IF d.p.dialect # "lua5.5" THEN list
                         ELSE [list EXCEPT !.out = Align(list).out]
        stage(e, name) ==
            IF name = "source" THEN PutString(e, t.source)
            ELSE IF name = "frame" THEN Put(PutInt(PutInt(e, t.frame[1]), t.frame[2]), <<t.frame[3]>>)
            ELSE IF name = "code" THEN Put(aligned(PutInt(e, Len(t.code))), t.code)
            ELSE IF name = "constants" THEN PutList(e, t.constants, PutConstant)
            ELSE IF name = "children" THEN PutList(e, t.children, PutTree)
            ELSE IF name = "upvalues" THEN PutList(e, t.upvalues, Put)
            ELSE IF name = "lines"
            THEN IF d.p.dialect \in {"lua5.4", "lua5.5"}
                 THEN Put(PutInt(e, Len(t.lines)), t.lines)
                 ELSE PutList(e, t.lines, PutInt)
            ELSE IF name = "locals" THEN PutList(e, t.locals, PutLocal)
            ELSE IF name = "names" THEN PutList(e, t.names, PutString)
            ELSE IF t.abslines = <<>> THEN PutInt(e, 0)
            ELSE FoldLeft(PutAbsoluteLine, aligned(PutInt(e, Len(t.abslines))), t.abslines)
    IN  FoldLeft(stage, d, StagesOf(d.p.dialect))

(* DumpHeader *)
HeaderOf(p) ==
    IF p.dialect = "lua5.1" THEN <<Signature, 51, 0, 1, 4, p.sizet, 4, 8, 0>>
    ELSE IF p.dialect = Lnum32 THEN <<Signature, 51, 0, 1, 4, p.sizet, 4, 8, 4>>
    ELSE IF p.dialect = "lua5.2" THEN <<Signature, 52, 0, 1, 4, p.sizet, 4, 8, 0, LuacData>>
    ELSE IF p.dialect = "lua5.3"
    THEN <<Signature, 53, 0, LuacData, 4, p.sizet, 4, 8, 8, Check, Check, Len(p.tree.upvalues)>>
    ELSE IF p.dialect = "lua5.4"
    THEN <<Signature, 54, 0, LuacData, 4, 8, 8, Check, Check, Len(p.tree.upvalues)>>
    ELSE <<Signature, 55, 0, LuacData, 4, -Check, 4, Check, 8, -Check, 8, -Check,
           Len(p.tree.upvalues)>>

Dump(p) == PutTree([p |-> p, out |-> HeaderOf(p), table |-> <<>>], p.tree).out
Dumps == [p \in Programs |-> Dump(p)]

-----------------------------------------------------------------------------

(* A loaded prototype against the tree it came from. Where the source name is
   read first, a child without one has its parent's. *)
Inherits(name) == Head(StagesOf(name)) = "source"

RECURSIVE SameTree(_, _, _, _)
SameTree(proto, name, t, inherited) ==
    LET source == IF t.source = NoString /\ Inherits(name) THEN inherited ELSE t.source
        kids == proto.lists["children"]
        lists == (ListNames \cap ToSet(StagesOf(name))) \ {"children"}
    IN  /\ proto.source = source
        /\ proto.frame = t.frame
        /\ \A l \in lists : proto.lists[l] = t[l]
        /\ Len(kids) = Len(t.children)
        /\ \A i \in 1..Len(kids) : SameTree(kids[i], name, t.children[i], source)

SameProgram(proto, p) == SameTree(proto, p.dialect, p.tree, NoString)

(* All prototypes in a loaded one *)
RECURSIVE Within(_)
Within(proto) ==
    {proto} \cup UNION {Within(proto.lists["children"][i]) :
                          i \in 1..Len(proto.lists["children"])}

(* Sizes of trees: prototypes, instructions, depth *)
RECURSIVE Size(_)
Size(t) == FoldLeft(LAMBDA n, c : n + Size(c), 1, t.children)
RECURSIVE CodeSize(_)
CodeSize(t) == FoldLeft(LAMBDA n, c : n + CodeSize(c), Len(t.code), t.children)
RECURSIVE Height(_)
Height(t) == FoldLeft(LAMBDA n, c : IF Height(c) >= n THEN Height(c) + 1 ELSE n, 0, t.children)

LongestString(t) ==
    LET length(c) == IF Kind(c) = 0 THEN Len(c) ELSE IF Kind(c) = -5 THEN Len(c) - 1 ELSE 0
    IN  FoldLeft(LAMBDA n, s : IF length(s) > n THEN length(s) ELSE n, 0,
                 <<t.source>> \o t.constants \o t.names
                   \o [i \in 1..Len(t.locals) |-> t.locals[i][1]])

(* No limit stands in the way of the tree. The main prototype is not counted
   against the limit on prototypes. *)
RECURSIVE WithinPerProto(_)
WithinPerProto(t) ==
    /\ Len(t.code) <= MaxInstructionsPerProto
    /\ Len(t.constants) <= MaxConstantsPerProto
    /\ Len(t.upvalues) <= MaxUpvaluesPerProto
    /\ LongestString(t) <= MaxStringBytes
    /\ \A i \in 1..Len(t.children) : WithinPerProto(t.children[i])

WithinLimits(p) ==
    /\ Len(Dumps[p]) <= MaxInputBytes
    /\ WithinPerProto(p.tree)
    /\ Height(p.tree) <= MaxNestingDepth
    /\ CodeSize(p.tree) <= MaxTotalInstructions
    /\ Size(p.tree) - 1 <= MaxTotalPrototypes

LoaderHasEnded == phase \in {"done", "failed"}

(* A program is found out or asked for. *)
ReadAs(p) == override \in {AutoDetect, p.dialect}

(* The loader accepts a dump of four byte ints exactly when the program is
   within the limits, and then it has the program that was dumped: whatever
   the dialect, asked for or detected, with strings written once and referred
   to later, padding before the code, and names that are inherited. A dump
   that is cut short is never accepted. *)
DumpsAreLoaded ==
    LoaderHasEnded =>
        \A p \in Programs :
            /\ (ReadAs(p) /\ data = Dumps[p]) =>
                  IF WithinLimits(p)
                  THEN phase = "done" /\ SameProgram(result, p)
                  ELSE phase = "failed"
            /\ IsStrictPrefix(data, Dumps[p]) => phase # "done"

RangesNest(proto) ==
    LET kids == proto.lists["children"]
    IN  /\ 0 < proto.start /\ proto.start < proto.end /\ proto.end <= cursor
        /\ \A i \in 1..Len(kids) : proto.start < kids[i].start /\ kids[i].end < proto.end
        /\ \A i \in 1..(Len(kids) - 1) : kids[i].end = kids[i + 1].start

RECURSIVE CodeWithin(_)
CodeWithin(proto) ==
    FoldLeft(LAMBDA n, c : n + CodeWithin(c), Len(proto.lists["code"]), proto.lists["children"])

(* Provenance: the bytes of a prototype are inside its parent's, after those
   of its elder siblings, and no two prototypes share any but by nesting.
   What was charged is what was loaded: every instruction of every prototype,
   and every prototype but the main one. *)
LoadedTreeIsAccounted ==
    phase \in {"trailing", "done"} =>
        /\ \A p \in Within(result) : RangesNest(p)
        /\ insts = CodeWithin(result)
        /\ protos = Cardinality(Within(result)) - 1

-----------------------------------------------------------------------------
(* encode_chunk_lua54, the one encoder *)

(* write_string_lua54, encode_proto_lua54: a source name is written for the
   main prototype only. *)
RECURSIVE EncodeProto(_, _, _)
EncodeProto(d, proto, depth) ==
    LET tree == [l \in ListNames |-> proto.lists[l]]
        source == PutString(d, IF depth = 0 THEN proto.source ELSE NoString)
        frame == Put(PutInt(PutInt(source, proto.frame[1]), proto.frame[2]), <<proto.frame[3]>>)
        code == Put(PutInt(frame, Len(tree["code"])), tree["code"])
        upvalues == PutList(PutList(code, tree["constants"], PutConstant), tree["upvalues"], Put)
        children == PutList(upvalues, tree["children"],
                            LAMBDA e, c : EncodeProto(e, c, depth + 1))
        lines == Put(PutInt(children, Len(tree["lines"])), tree["lines"])
        abslines == PutList(lines, tree["abslines"], PutAbsoluteLine)
    IN  PutList(PutList(abslines, tree["locals"], PutLocal), tree["names"], PutString)

EncodedHeader(proto) ==
    <<Signature, 54, 0, LuacData, 4, 8, 8, Check, Check, Len(proto.lists["upvalues"])>>

(* Mutant: what follows the main prototype is not kept. *)
EncodeProtosOnly(proto) ==
    EncodeProto([p |-> [dialect |-> "lua5.4"], out |-> EncodedHeader(proto), table |-> <<>>],
                proto, 0).out

EncodeChunk(proto) ==
    EncodeProto([p |-> [dialect |-> "lua5.4"], out |-> EncodedHeader(proto), table |-> <<>>],
                proto, 0).out \o SubSeq(data, cursor + 1, Len(data))

(* "Valid chunks must pass byte-exact decode/encode round trips where the
   format permits" (PRD.md:913): a dump of Lua 5.4 is encoded as it was read,
   with what follows it, if all its prototypes come from one source. A child
   with a name of its own loses it. *)
RoundTripsKeepBytes ==
    (phase = "done" /\ dialect = "lua5.4") =>
        \A p \in Programs :
            (/\ IsPrefix(Dumps[p], data)
             /\ \A q \in Within(result) : q.source = result.source)
                => EncodeChunk(result) = data
=============================================================================
