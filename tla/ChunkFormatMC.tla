---------------------------- MODULE ChunkFormatMC ----------------------------
(***************************************************************************)
(* Small programs of every dialect for ChunkFormat, dumped whole, cut      *)
(* short and changed.                                                      *)
(***************************************************************************)
EXTENDS ChunkFormat

Tree(source, code, constants, children) ==
    [source |-> source, frame |-> <<1, 5, 2>>, code |-> code, constants |-> constants,
     children |-> children, upvalues |-> <<>>, lines |-> code, abslines |-> <<>>,
     locals |-> <<>>, names |-> <<>>]

Name == <<7, 8>>
Other == <<8, 7>>
Empty == Tree(NoString, <<>>, <<>>, <<>>)
Leaf == Tree(<<8>>, <<5>>, <<>>, <<>>)

(* A tree with debug data of every kind, whose names come back *)
Debug(t, upvalue) ==
    [t EXCEPT !.upvalues = <<upvalue>>, !.abslines = <<<<1, 6>>>>,
              !.locals = <<<<<<7>>, 0, 1>>>>, !.names = <<NoString, <<7>>>>]

Codes == {<<>>, <<5>>, <<5, 6>>, <<5, 6, 5>>}
ConstantLists(name) ==
    {<<>>, <<Name>>, <<Name, NoString, <<7>>>>, <<Number(5), Boolean(TRUE)>>,
     <<<<7, 7, 7>>>>, <<Name, Name>>}
    \cup (IF name \in {"lua5.1", "lua5.2"} THEN {} ELSE {<<IntegerValue(-3), IntegerValue(2)>>})
    \cup (IF name \in {"lua5.1", Lnum32, "lua5.2"} THEN {} ELSE {<<LongString(Name), Name>>})

(* Children and grandchildren, a chain of four, and five in all; a child has the
   source name of its parent, or one of its own as in a chunk of several files. *)
Families ==
    {<<>>, <<Leaf>>, <<Leaf, Empty>>, <<Tree(Other, <<>>, <<>>, <<Leaf>>)>>,
     <<Empty, Tree(Other, <<5>>, <<>>, <<Empty>>)>>, <<Empty, Empty, Empty>>,
     <<Tree(Other, <<>>, <<>>, <<Empty, Empty>>), Empty>>,
     <<Tree(Other, <<>>, <<>>, <<Tree(<<7>>, <<>>, <<>>, <<Empty>>)>>)>>}

Width(name) == IF name \in {"lua5.4", "lua5.5"} THEN <<1, 0, 0>> ELSE <<1, 0>>
(* Eight byte lengths of strings *)
WideTree(name) == Debug(Tree(Name, <<>>, <<Name>>, <<Leaf, Leaf>>), Width(name))

TreesOf(name) ==
    {Tree(Name, c, <<>>, <<>>) : c \in Codes} \cup {Tree(Name, <<5>>, <<>>, f) : f \in Families}
    \cup {Debug(Tree(NoString, <<5>>, k, <<>>), Width(name)) : k \in ConstantLists(name)}
    \cup {WideTree(name)}

Program(name, sizet, t) == [dialect |-> name, sizet |-> sizet, tree |-> t]

MCPrograms == UNION {{Program(name, 4, t) : t \in TreesOf(name)} : name \in Dialects}
              \cup {Program(name, 8, WideTree(name)) :
                      name \in {"lua5.1", Lnum32, "lua5.2", "lua5.3"}}

(* A dump, every cut of it, and every change of one unit of it; a negative
   count is only there where counts are not varints. *)
Changes == {0, 4}
Variants(d) ==
    {d} \cup {SubSeq(d, 1, n) : n \in 0..(Len(d) - 1)}
        \cup {[d EXCEPT ![i] = v] : i \in 1..Len(d), v \in Changes}
        \cup {d \o <<3, 3>>}

MCChunks == UNION {Variants(Dump(p)) : p \in MCPrograms}
            \cup {[Dump(p) EXCEPT ![i] = -1] : i \in 10..20,
                     p \in {q \in MCPrograms : q.dialect \notin {"lua5.4", "lua5.5"} /\ q.sizet = 8}}
MCOverrides == {AutoDetect, "lua5.1"}
=============================================================================
