----------------------------- MODULE CaptureMC -----------------------------
(***************************************************************************)
(* Small corpora for VerifiedCapture: two files of all kinds, one edit of  *)
(* each, of the list and of the executable.                                *)
(***************************************************************************)
EXTENDS VerifiedCapture

MCSelectors == {"luci", "a", "b"}

NoBytecode(is) == [is |-> is]
Declares(is) == [is |-> is]
DeclaresModule == [is |-> "literal", label |-> <<"luci", "a">>, proto |-> <<0>>]
Chunk(dialect, declares, calls, diagnostics) ==
    [is |-> "chunk", dialect |-> dialect, declares |-> declares, calls |-> calls,
     diagnostics |-> diagnostics,
     facts |-> <<"prototype", "instruction", "prototype", "callee", "origin",
                 "parameter_field">>]

Call(label) == [label |-> label, lookup |-> FALSE]
TwoCalls == <<Call(<<"luci", "a">>), Call(<<"luci", "b">>)>>

Content(kind) ==
    CASE kind = "module" -> Chunk("5.1", DeclaresModule, <<>>, <<>>)
      [] kind = "caller" -> Chunk("5.1", Declares("none"), TwoCalls, <<>>)
      [] kind = "both" -> Chunk("5.1", DeclaresModule, <<Call(<<"luci", "a">>)>>, <<>>)
      [] kind = "dynamic" -> Chunk("5.1", Declares("dynamic"), <<>>, <<>>)
      [] kind = "limited" -> Chunk("5.1", Declares("limited"), <<>>, <<"ANA-LIMIT-001">>)
      [] kind = "cut" -> Chunk("5.1", Declares("none"), <<>>, <<"CORE-LIMIT-001">>)
      [] kind = "5.4" -> Chunk("5.4", Declares("none"), <<>>, <<>>)
      [] kind = "5.2" -> Chunk("5.2", Declares("none"), <<>>, <<"CORE-LIMIT-001">>)
      [] OTHER -> NoBytecode(kind)

ListAt(kind) ==
    CASE kind = "swapped" -> <<2, 1>>
      [] kind = "shorter" -> <<1>>
      [] kind = "empty" -> <<>>
      [] kind = "doubled" -> <<1, 1>>
      [] kind = "same" -> <<1, 2>>

Args(linking, families, cap, strict) ==
    [linking |-> linking, explicit |-> families # "default", strict |-> strict, cap |-> cap,
     families |-> CASE families = "default" ->
                         {"prototype", "instruction", "constant", "upvalue", "xref", "callee",
                          "origin", "call_relation", "prototype_identity"}
                    [] families = "structure" -> {"prototype"}
                    [] families = "calls" -> {"prototype", "callee"},
     maxExports |-> 1, maxLinks |-> 1]

(* The name of a corpus: the kinds of the two files and of what they become,
   the list after its edit, what may change, and the arguments. *)
Kinds == {"module", "caller", "both", "dynamic", "limited", "cut", "5.4", "5.2",
          "unreadable", "source", "broken"}
Still ==
    Kinds \X Kinds \X {"unknown"} \X {"unknown"} \X {"same"} \X {{}}
      \X {TRUE} \X {"default", "calls"} \X {NoCap, 6} \X {TRUE}
Unlinked ==
    Kinds \X {"5.2", "source"} \X {"unknown"} \X {"unknown"} \X {"same", "doubled"} \X {{}}
      \X {FALSE} \X {"default", "structure"} \X {0} \X BOOLEAN
FilesChange ==
    {"caller", "unreadable"} \X {"module", "source"} \X {"both", "module"}
      \X {"dynamic", "unreadable"} \X {"same"} \X {{1, 2}}
      \X {TRUE} \X {"default"} \X {NoCap} \X {FALSE}
OthersChange ==
    {"caller"} \X {"module"} \X {"both"} \X {"dynamic"}
      \X {"swapped", "shorter", "empty", "doubled"} \X {{1, List}, {2, List}, {List, Binary}}
      \X BOOLEAN \X {"default"} \X {NoCap} \X {FALSE}
Names == Still \cup Unlinked \cup FilesChange \cup OthersChange

MCCorpora ==
    [n \in Names |->
        [contents |-> <<<<Content(n[1]), Content(n[3])>>, <<Content(n[2]), Content(n[4])>>>>,
         lists |-> <<<<1, 2>>, ListAt(n[5])>>,
         editable |-> n[6],
         args |-> Args(n[7], n[8], n[9], n[10])]]
=============================================================================
