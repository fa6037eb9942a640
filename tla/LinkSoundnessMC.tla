--------------------------- MODULE LinkSoundnessMC ---------------------------
(***************************************************************************)
(* Small corpora for LinkSoundness: roots of nine shapes whose slots hold   *)
(* any instruction of an alphabet, alone or beside another module.         *)
(***************************************************************************)
EXTENDS LinkSoundness

MCParts == [luci |-> <<"luci">>, m |-> <<"m">>, f |-> <<"f">>, g |-> <<"g">>,
            sub |-> <<"luci", "m">>, deep |-> <<"luci", "m", "n", "n">>,
            hole |-> <<"m", "">>, quoted |-> <<"quoted">>,
            module |-> <<"module">>, package |-> <<"package">>,
            seeall |-> <<"seeall">>, setfenv |-> <<"setfenv">>]
MCStrings == DOMAIN MCParts
MCSelectors == MCStrings \ {"quoted"}
MCModuleSegments == [s \in MCStrings |-> SelectSeq(MCParts[s], LAMBDA p : p # "")]
MCRank == [s \in MCStrings \cup {"n"} |->
             CHOOSE i \in 1..13 :
                <<"deep", "f", "g", "hole", "luci", "m", "module", "n", "package",
                  "quoted", "seeall", "setfenv", "sub">>[i] = s]

-----------------------------------------------------------------------------
(* Roots *)

Goto(target) == Jump("JMP", 0, target)
Global(a, name) == Constant("GETGLOBAL", a, 0, name)
SetGlobal(a, name) == Constant("SETGLOBAL", a, 0, name)
LoadK(a, k) == Constant("LOADK", a, 0, k)
Seeall(a) == <<Global(a, "package"), Constant("GETTABLE", a, a, "seeall")>>
Return == Plain("RETURN", 0, 1, 0)
Test == Plain("TEST", 3, 0, 0)

Declare(name) == <<Global(0, "module"), LoadK(1, name), Plain("CALL", 0, 2, 1)>>
DeclareSeeall(name) ==
    <<Global(0, "module"), LoadK(1, name)>> \o Seeall(2) \o <<Plain("CALL", 0, 3, 1)>>

Stores == {SetGlobal(0, "f"), SetGlobal(1, "f"), SetGlobal(0, "g")}
Slots == Stores \cup
    {ClosureOf(0, 0), ClosureOf(1, 1), Plain("MOVE", 0, 1, 0), Plain("LOADNIL", 0, 1, 0),
     LoadK(0, "f"), Global(0, "g")}
Calls == {Plain("CALL", 0, 1, 1), Plain("CALL", 0, 2, 2), Global(0, "setfenv"),
          Global(1, "module")}

Fillers == Slots \cup Calls
Shapes == {"straight", "around", "branch", "early", "choice", "loop", "rest", "listed", "spread"}
Others == {"same", "elsewhere", "script", "constant", "branch", "long"}

(* {...} in register a, and f(...) with the function in register 0 *)
Rest(a) == <<Plain("NEWTABLE", a, 0, 0), Plain("VARARG", a + 1, 0, 0), Plain("SETLIST", a, 0, 1)>>
Apply == <<Plain("VARARG", 1, 0, 0), Plain("CALL", 0, 0, 1)>>

(* s t u around or after a declaration, on a straight line and on others *)
Straight(name, s, t, u) == Declare(name) \o <<s, t, u, Return>>
RootOf(shape, s, t, u) ==
    CASE shape = "straight" -> Straight("sub", s, t, u)
      [] shape = "around" -> <<s>> \o DeclareSeeall("sub") \o <<t, u, Return>>
      [] shape = "branch" -> Declare("sub") \o <<Test, Goto(6), s, t, u, Return>>
      [] shape = "early" -> Declare("sub") \o <<Test, Goto(7), s, Return, t, u, Return>>
      [] shape = "choice" -> <<Test, Goto(3), s>> \o Declare("sub") \o <<t, u, Return>>
      [] shape = "pick" -> <<Global(0, "f"), Test, Goto(4), Global(0, "module"), LoadK(1, "sub"),
                             Plain("CALL", 0, 2, 1), s, t, u, Return>>
      [] shape = "loop" -> Declare("sub") \o <<Test, Goto(8), s, t, Goto(3), u, Return>>
      [] shape = "rest" -> <<s>> \o Rest(0) \o Declare("sub") \o <<t, u, Return>>
      [] shape = "listed" -> Declare("sub") \o <<s>> \o Rest(1) \o <<t, u, Return>>
      [] shape = "spread" -> <<Global(0, "module")>> \o Apply \o <<s, t, u, Return>>

Kid(i) == [dialect |-> "5.1", words |-> [pc \in {0} |-> Return], path |-> <<i>>,
           maxstack |-> 2, nups |-> IF i = 2 THEN 1 ELSE 0, consts |-> 1, kids |-> [k \in {} |-> 0]]

Chunk(dialect, code, calls) ==
    [dialect |-> dialect, words |-> [pc \in 0..(Len(code) - 1) |-> code[pc + 1]],
     path |-> <<>>, maxstack |-> 5, nups |-> 0, consts |-> 1,
     kids |-> [i \in 0..2 |-> Kid(i)], calls |-> calls]

-----------------------------------------------------------------------------
(* Corpora *)

Call(label) == [label |-> label, lookup |-> FALSE]
CallerCalls == <<Call(<<"luci", "m", "f">>), Call(<<"luci", "m", "g">>), Call(<<"m", "f">>),
                 Call(<<"f">>), [label |-> <<"f">>, lookup |-> TRUE], Call(<<"quoted", "f">>),
                 Call(<<"luci", "m", "f", "g">>)>>
Caller == Chunk("5.1", <<Return>>, CallerCalls)
ForeignCaller == Chunk("5.2", <<Return>>, CallerCalls)

Corpus(chunks, caller, convention, exports, max) ==
    [files |-> [i \in DOMAIN chunks |-> [path |-> i, content |-> i, chunk |-> chunks[i]]], caller |-> caller,
     convention |-> convention, maxExports |-> exports, maxLinks |-> max]

Of(code) == Chunk("5.1", code, <<>>)
Closed(selector) == Straight(selector, ClosureOf(0, 0), SetGlobal(0, "f"), SetGlobal(0, "g"))
Second(other) ==
    CASE other = "same" -> Closed("sub")
      [] other = "elsewhere" -> Closed("m")
      [] other = "script" -> <<Return>>
      [] other = "long" -> Declare("m") \o [i \in 1..10 |-> LoadK(0, "f")] \o <<Return>>
      [] other = "constant" ->
            Straight("sub", LoadK(0, "f"), SetGlobal(0, "f"), SetGlobal(0, "f"))
      [] other = "branch" -> RootOf("branch", ClosureOf(0, 0), SetGlobal(0, "f"), SetGlobal(0, "f"))

(* The names of the corpora: a root alone under each convention, other names
   of the module, a caller of another dialect, a child with an upvalue, and
   two modules, with and without room for all they export and for all the
   links. *)
Names ==
    {"alone"} \X {"straight", "around", "rest", "spread"} \X {Strict} \X Fillers \X Fillers \X Stores
      \cup {"alone"} \X Shapes \X {TrustedInit} \X Fillers \X Fillers \X Stores
      \cup {"named"} \X {"luci", "m", "deep", "hole", "quoted"}
      \cup {<<"foreign">>}
      \cup {"capture"} \X Stores
      \cup {"pair"} \X {"straight", "branch"} \X {Strict, TrustedInit}
              \X Slots \X Stores \X Others \X BOOLEAN

CorporaOf(names) ==
    [n \in names |->
       CASE n[1] = "alone" ->
              Corpus(<<Of(RootOf(n[2], n[4], n[5], n[6]))>>, Caller, n[3], 8, 8)
         [] n[1] = "named" -> Corpus(<<Of(Closed(n[2]))>>, Caller, Strict, 8, 8)
         [] n[1] = "foreign" -> Corpus(<<Of(Closed("sub"))>>, ForeignCaller, Strict, 8, 8)
         [] n[1] = "capture" ->
              Corpus(<<Of(Straight("sub", ClosureOf(0, 2), Plain("MOVE", 0, 2, 0), n[2]))>>,
                     Caller, Strict, 8, 8)
         [] n[1] = "pair" ->
              Corpus(<<Of(RootOf(n[2], n[4], ClosureOf(0, 0), n[5])), Of(Second(n[6]))>>,
                     Caller, n[3], IF n[7] THEN 1 ELSE 8, IF n[7] THEN 8 ELSE 1)]

MCCorpora == CorporaOf(Names)

(* Roots whose call is one of module on some paths only *)
MCPickingCorpora ==
    CorporaOf({"alone"} \X {"pick"} \X {TrustedInit} \X Fillers \X Fillers \X Stores)
=============================================================================
