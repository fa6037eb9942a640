-------------------------- MODULE CalleeSoundnessMC --------------------------
(***************************************************************************)
(* Small prototypes for CalleeSoundness: five control shapes whose slots  *)
(* hold any instruction of an alphabet.                                    *)
(***************************************************************************)
EXTENDS CalleeSoundness

MCStrings == {"f", "require", "mod"}
MCNaN == "NaN"
MCModuleSegments == [s \in MCStrings |-> <<s>>]

Goto(target) == Jump("JMP", 0, target)

(* What a slot may hold. Register 0 is the callee of the final call, register
   1 its argument or the receiver of a lookup. *)
Slots ==
    {Plain("MOVE", 0, 1, 0), Plain("MOVE", 1, 0, 0), Plain("LOADNIL", 0, 1, 0),
     Constant("LOADK", 1, 0, "mod"), Constant("GETGLOBAL", 0, 0, "require"),
     Constant("GETGLOBAL", 1, 0, "f"),
     Constant("GETTABLE", 0, 1, "f"), Constant("GETTABLE", 1, 1, "NaN"),
     Constant("SELF", 0, 1, "f"),
     Plain("CALL", 0, 2, 2), Plain("CALL", 1, 1, 0),
     ClosureOf(0, 0), Plain("GETUPVAL", 1, 0, 0)}

(* if cond then s1 else s2 end s3 *)
Diamond(s) == <<Plain("TEST", 2, 0, 0), Goto(4), s[1], Goto(5), s[2], s[3],
                Plain("CALL", 0, 2, 1), Plain("RETURN", 0, 1, 0)>>

(* s1 while cond do s2 s3 end *)
Loop(s) == <<s[1], Plain("TEST", 2, 0, 0), Goto(6), s[2], s[3], Goto(1),
             Plain("CALL", 0, 2, 1), Plain("RETURN", 0, 1, 0)>>

(* repeat s1 s2 until cond *)
Repeat(s) == <<s[1], s[2], Plain("TEST", 2, 0, 0), Goto(0),
               Plain("CALL", 0, 2, 1), Plain("RETURN", 0, 1, 0)>>

(* s1 for v in iterator do s2 s3 end, the iterator at register 0 *)
ForLoop(s) == <<s[1], Goto(4), s[2], s[3], Plain("TFORLOOP", 0, 0, 1), Goto(2),
                Plain("TAILCALL", 0, 2, 0), Plain("RETURN", 0, 1, 0)>>

(* repeat s1 if cond then f = r0 end s2 until cond s3 *)
Storing(s) == <<s[1], Plain("TEST", 2, 0, 0), Goto(4), Constant("SETGLOBAL", 0, 0, "f"), s[2],
                Plain("TEST", 2, 0, 0), Goto(0), s[3],
                Plain("CALL", 0, 2, 1), Plain("RETURN", 0, 1, 0)>>

StoringSlots ==
    {Plain("LOADNIL", 0, 0, 0), Plain("GETUPVAL", 0, 0, 0), Plain("CALL", 1, 1, 1),
     Constant("GETGLOBAL", 0, 0, "f"), Constant("GETGLOBAL", 0, 0, "mod"),
     Constant("SETGLOBAL", 0, 0, "f"), Constant("SETGLOBAL", 0, 0, "mod"), ClosureOf(0, 0)}

(* Two loops that keep passing different values round: the equations of the
   analysis are not monotone, and this prototype settles on no solution. *)
Ring ==
    <<Constant("GETTABLE", 0, 3, "mod"), Constant("GETGLOBAL", 1, 0, "f"),
      Plain("TEST", 2, 0, 0), Goto(7),
      Constant("GETTABLE", 0, 1, "mod"), Plain("MOVE", 1, 2, 0), Goto(2),
      Plain("TEST", 2, 0, 0), Goto(11), Goto(10), Goto(7),
      Plain("CALL", 0, 1, 1), Plain("RETURN", 0, 1, 0)>>

(* A child that stores nothing, one that stores its own child in f, and one
   that stores something there but whose analysis ran out of its budget *)
KidWith(values) ==
    [nups |-> 0, stores |-> {StoreFact("f", <<<<0, 0>>, 1>>, v) : v \in values}]
Kid == KidWith({})
StoringKid == KidWith({ClosureStored(<<0, 0, 0>>, {<<<<0, 0>>, 0>>, <<<<0, 0>>, 1>>})})
LimitKid == KidWith({UnknownStored("AnalysisLimit")})

Prototype(code, kid) ==
    [dialect |-> "5.1", words |-> [pc \in 0..(Len(code) - 1) |-> code[pc + 1]], path |-> <<0>>,
     maxstack |-> 4, nups |-> 1, consts |-> 1, kids |-> [i \in {0} |-> kid]]

NoCaptures == [u \in {} |-> Bottom]
OneCapture == [u \in {0} |-> Known(Path("global", <<"f">>), {<<<<>>, 0>>})]

Input(code, kid, captures, budget) ==
    [proto |-> Prototype(code, kid), captures |-> captures, budget |-> budget]

(* Enough steps for any of the shapes, and so few that loops run out. *)
Ample == 8 * (8 * 8 + 8)
Scarce == 14

Cases ==
    {<<Repeat(s), Kid, OneCapture, Ample>> : s \in [1..2 -> Slots]}
    \cup UNION {{<<Diamond(s), Kid, OneCapture, Ample>>, <<Loop(s), Kid, NoCaptures, Ample>>} :
                     s \in [1..3 -> Slots]}
    \cup {<<ForLoop(<<first, x, y>>), Kid, OneCapture, Ample>> :
             first \in {Constant("GETGLOBAL", 0, 0, "require"), ClosureOf(0, 0)},
             x \in Slots, y \in Slots}
    \cup {<<Loop(<<Constant("GETGLOBAL", 1, 0, "f"), x, y>>), Kid, OneCapture, Scarce>> :
             x \in Slots, y \in Slots}
    \cup {<<Storing(s), kid, OneCapture, Ample>> :
             s \in [1..3 -> StoringSlots], kid \in {Kid, StoringKid, LimitKid}}

MCInputs == {Input(c[1], c[2], c[3], c[4]) : c \in Cases} \cup {Input(Ring, Kid, NoCaptures, 60)}
=============================================================================
