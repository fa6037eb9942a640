------------------------------ MODULE OriginsMC ------------------------------
(***************************************************************************)
(* Small chunks for OriginsSoundness: a main prototype with one function   *)
(* of one parameter, whose code is one of a few control shapes with slots  *)
(* that hold any instruction of an alphabet. The function has two child    *)
(* prototypes, of which the first reads its upvalue and the second writes  *)
(* it.                                                                     *)
(***************************************************************************)
EXTENDS OriginsSoundness

MCStrings == {"f", "k", "mod"}

Goto(target) == Jump("JMP", 0, target)
Return == Plain("RETURN", 0, 1, 0)
Test == Plain("TEST", 1, 0, 0)
Load(a, index) == Word("LOADK", a, 0, 0, index, NoConst)
GetGlobalOf(a, index) == Word("GETGLOBAL", a, 0, 0, index, NoConst)
SetGlobalOf(a, index) == Word("SETGLOBAL", a, 0, 0, index, NoConst)

(* Constants as operands of B and C *)
F == 256
K == 257

(* Register 0 is the parameter, 2 and 3 are the arguments of the final call
   of register 1. *)
TableSlots ==
    {Plain("NEWTABLE", 3, 0, 0), Plain("MOVE", 3, 2, 0), Plain("SETTABLE", 2, K, F),
     Plain("SETTABLE", 3, F, 0), Plain("SETTABLE", 2, 0, F), Plain("SETTABLE", 3, K, 2),
     Plain("SETLIST", 2, 1, 1), Plain("GETTABLE", 3, 2, K), Plain("CALL", 2, 2, 1),
     Plain("CALL", 1, 3, 1), SetGlobalOf(2, 0), Plain("TESTSET", 3, 2, 0)}

(* The same for a table in register 0, which outlives a call of register 2
   that is given it *)
PassSlots ==
    {Plain("MOVE", 3, 0, 0), Plain("SETTABLE", 0, K, F), Plain("SETTABLE", 3, F, F),
     Plain("SETTABLE", 0, K, 3), Plain("CALL", 2, 2, 1), SetGlobalOf(0, 0), GetGlobalOf(3, 0)}

(* For a second table behind the first, which the varargs overwrite *)
SpreadSlots ==
    {Plain("NEWTABLE", 3, 0, 0), Plain("MOVE", 3, 2, 0), Plain("MOVE", 2, 3, 0),
     Plain("SETTABLE", 2, K, F), Plain("SETTABLE", 3, F, F), Load(3, 1)}

ValueSlots ==
    {Load(2, 1), Plain("MOVE", 2, 0, 0), Plain("GETTABLE", 2, 2, K),
     Plain("SELF", 2, 0, F), Plain("GETTABLE", 3, 0, 2), Plain("GETUPVAL", 2, 0, 0),
     Plain("CONCAT", 2, 2, 3), Plain("LOADNIL", 2, 3, 0), Plain("TESTSET", 2, 0, 0)}

(* A closure over register 2 or over the upvalue takes two words. *)
CaptureSlots ==
    {<<ClosureOf(3, i), d>> : i \in 0..1,
        d \in {Plain("MOVE", 0, 2, 0), Plain("GETUPVAL", 0, 0, 0)}}
    \cup {<<Load(2, 1), Load(1, 0)>>, <<Load(2, 0), Plain("CALL", 3, 1, 1)>>,
          <<Plain("SETUPVAL", 0, 0, 0), Plain("GETUPVAL", 2, 0, 0)>>}

Ends == <<Plain("CALL", 1, 3, 1), Return>>

Straight(s) == <<Plain("NEWTABLE", 2, 0, 0), s[1], s[2], s[3]>> \o Ends

Passing(s) == <<Plain("NEWTABLE", 0, 0, 0), s[1], s[2], s[3], Plain("MOVE", 2, 0, 0)>> \o Ends

(* if cond then s1 else s2 end s3 *)
Diamond(s) == <<Test, Goto(4), s[1], Goto(5), s[2], s[3]>> \o Ends

(* s1 while cond do s2 s3 end *)
Loop(s) == <<s[1], Test, Goto(6), s[2], s[3], Goto(1)>> \o Ends

(* repeat s1 s2 until cond, and the block of the body follows itself *)
Repeat(s) == <<Load(2, 0), s[1], s[2], Test, Goto(1)>> \o Ends

(* The same at the very entry of the function *)
EntryRepeat(s) == <<s[1], s[2], Test, Goto(0)>> \o Ends

(* s1 while true do s2 s3 end, whose body is one block that follows itself *)
Forever(s) == <<s[1], s[2], s[3], Goto(1), Return>>

(* The two for loops, over registers 0 to 3 *)
Numeric(s) == <<Jump("FORPREP", 0, 3), s[1], s[2], Jump("FORLOOP", 0, 1)>> \o Ends
Generic(s) == <<Goto(3), s[1], s[2], Plain("TFORLOOP", 0, 0, 1), Goto(1)>> \o Ends

(* Results of one call, or the varargs, as arguments of the next *)
Open(s) == <<s[1], Plain("CALL", 3, 1, 0), Plain("CALL", 1, 0, 1), Return>>
Varargs(s) ==
    <<s[1], Plain("VARARG", 3, 2, 0), s[2], Plain("VARARG", 3, 0, 0), Plain("TAILCALL", 1, 0, 0),
      Return>>

(* A table, and then the varargs behind it: as arguments of one call, or as
   entries of the table *)
Followed(s) ==
    <<Plain("NEWTABLE", 2, 0, 0), s[1], s[2], Plain("VARARG", 3, 0, 0), Plain("CALL", 1, 0, 1),
      Return>>
Listed(s, spread) ==
    <<Plain("NEWTABLE", 2, 0, 0), s[1], s[2], spread, Plain("SETLIST", 2, 0, 1), s[3]>> \o Ends

(* if cond then s1 else s2 end s3, of two words each, and two calls *)
Closing(s) ==
    <<Load(2, 0), Test, Goto(6)>> \o s[1] \o <<Goto(8)>> \o s[2] \o s[3]
        \o <<Plain("CALL", 3, 1, 1)>> \o Ends

(* A block of the source ends, and its variable with it. *)
Scoped(s) ==
    <<Load(2, 0)>> \o s[1] \o <<Plain("CLOSE", 2, 0, 0)>> \o s[2] \o <<Plain("CALL", 3, 1, 1)>> \o Ends

(* The same with nothing after it that clobbers the variable, and with a
   table of the varargs in its place *)
Kept(s, word, between) ==
    <<Load(2, 0)>> \o s[1] \o <<word>> \o between \o s[2] \o <<Plain("CALL", 3, 1, 1), Return>>
Gathered == <<Plain("NEWTABLE", 1, 0, 0), Plain("VARARG", 2, 0, 0), Plain("SETLIST", 1, 0, 1)>>

Child(index, w) ==
    [dialect |-> "5.1", path |-> <<0, index>>, words |-> [pc \in 0..1 |-> <<w, Return>>[pc + 1]],
     params |-> 0, maxstack |-> 2, nups |-> 1, consts |-> 0, values |-> [i \in {} |-> ""],
     kids |-> [i \in {} |-> {}]]

MCValues == [i \in 0..2 |-> <<"f", "k", "mod">>[i + 1]]

Function(code) ==
    [dialect |-> "5.1", path |-> <<0>>, words |-> [pc \in 0..(Len(code) - 1) |-> code[pc + 1]],
     params |-> 1, maxstack |-> 4, nups |-> 1, consts |-> 3, values |-> MCValues,
     kids |-> [i \in 0..1 |-> Child(i, Plain(<<"GETUPVAL", "SETUPVAL">>[i + 1], 0, 0, 0))]]

Chunk(function) ==
    [dialect |-> "5.1", path |-> <<>>,
     words |-> [pc \in 0..3 |-> <<Load(0, 1), ClosureOf(1, 0), Plain("MOVE", 0, 0, 0), Return>>[pc + 1]],
     params |-> 0, maxstack |-> 2, nups |-> 0, consts |-> 3, values |-> MCValues,
     kids |-> [i \in {0} |-> function]]

(* What the analysis of the main prototype says of the upvalue *)
Captured(chunk) ==
    IF IsChildSlotMutated(Summary(chunk, MutationBudget), <<0>>, 0)
    THEN Unknown("MutableCapture", {})
    ELSE Literal("k", "constant", {<<<<>>, 0>>, <<<<>>, 1>>, <<<<>>, 2>>})

Input(code, budget) ==
    LET chunk == Chunk(Function(code))
    IN  [chunk |-> chunk, proto |-> chunk.kids[0], budget |-> budget,
         captures |-> [u \in {0} |-> Captured(chunk)]]

(* Enough steps for any of the shapes, and so few that loops run out *)
Ample == 800
Scarce == 16

Cases ==
    UNION {{<<Straight(s), Ample>>, <<Diamond(s), Ample>>} : s \in [1..3 -> TableSlots]}
    \cup UNION {{<<Passing(s), Ample>>, <<Loop(s), Ample>>} : s \in [1..3 -> PassSlots]}
    \cup UNION {{<<Diamond(s), Ample>>, <<Loop(s), Scarce>>} : s \in [1..3 -> ValueSlots]}
    \cup UNION {{<<Repeat(s), Ample>>, <<EntryRepeat(s), Ample>>, <<Open(s), Ample>>,
                 <<Numeric(s), Ample>>, <<Generic(s), Ample>>, <<Varargs(s), Ample>>,
                 <<Forever(s \o <<Plain("MOVE", 3, 2, 0)>>), Ample>>} : s \in [1..2 -> ValueSlots]}
    \cup {<<Closing(s), Ample>> : s \in [1..3 -> CaptureSlots]}
    \cup {<<Scoped(s), Ample>> : s \in [1..2 -> CaptureSlots]}
    \cup {<<Followed(s), Ample>> : s \in [1..2 -> TableSlots]}
    \cup {<<Listed(s \o <<Plain("MOVE", 3, 2, 0)>>, spread), Ample>> :
             s \in [1..2 -> TableSlots], spread \in {Plain("VARARG", 3, 0, 0), Plain("CALL", 3, 1, 0)}}
    \cup {<<Listed(s, Plain("VARARG", 3, 0, 0)), Ample>> : s \in [1..3 -> SpreadSlots]}
    \cup {<<Kept(s, word, between), Ample>> :
             s \in [1..2 -> CaptureSlots], between \in {<<>>, Gathered},
             word \in {Plain("CLOSE", 2, 0, 0), Load(1, 0)}}

MCInputs == {Input(c[1], c[2]) : c \in Cases}

-----------------------------------------------------------------------------
(* Inputs that single out what the analysis misses *)

(* local s = "f" while true do s = s.k end *)
WideningInputs ==
    {Input(Forever(<<Load(2, 0), w, Plain("MOVE", 3, 2, 0)>>), Ample) :
        w \in {Plain("GETTABLE", 2, 2, K), Plain("CONCAT", 2, 2, 3)}}

(* local v = "f"; a closure over v is called, and then v is an argument *)
CellInputs ==
    {Input(<<Load(2, 0), ClosureOf(3, i), Plain("MOVE", 0, 2, 0), Plain("CALL", 3, 1, 1)>>
             \o Ends, Ample) : i \in 0..1}

(* The shapes are prototypes the validator accepts. *)
ASSUME CasesAreAccepted ==
    \A i \in MCInputs : Accepted(i.proto) /\ Accepted(i.chunk)
=============================================================================
