----------------------------- MODULE ChunkLoader -----------------------------
(***************************************************************************)
(* The chunk loaders (chunk.rs of the five dialect crates) over the reads  *)
(* of ChunkReads: a recursive descent, written here with its stack of      *)
(* load_proto activations, that charges limits, keeps the path of the      *)
(* prototype it is in, and gives up on the first error.                    *)
(***************************************************************************)
EXTENDS ChunkReads

CONSTANTS
    Chunks,                   \* the inputs
    Overrides,                \* the dialects asked for, AutoDetect for none
    MaxInputBytes,            \* max_input_bytes
    MaxNestingDepth,          \* max_nesting_depth
    MaxTotalPrototypes,       \* max_total_prototypes
    MaxInstructionsPerProto,  \* max_instructions_per_proto
    MaxTotalInstructions,     \* max_total_instructions
    MaxConstantsPerProto,     \* max_constants_per_proto
    MaxUpvaluesPerProto       \* max_upvalues_per_proto

Limits == {MaxInputBytes, MaxNestingDepth, MaxTotalPrototypes, MaxInstructionsPerProto,
           MaxTotalInstructions, MaxConstantsPerProto, MaxUpvaluesPerProto, MaxStringBytes}

ASSUME LimitsAssumption == Limits \subseteq Nat /\ Huge \in Nat
ASSUME ChunksAssumption == Chunks \subseteq Seq(Int)
ASSUME OverridesAssumption == Overrides \subseteq Dialects \cup {AutoDetect}

VARIABLES
    override, \* the dialect asked for, fixed
    phase,    \* "select", "header", "load", "trailing", then "done"; "unwind", then "failed"
    cursor,   \* units consumed
    path,     \* current_proto_path of the reader
    stack,    \* the activations of load_proto, the innermost last
    protos,   \* total_prototypes
    insts,    \* total_instructions
    error,    \* code and target of the diagnostic returned, or NoError
    result    \* the main prototype, once loaded

fixed == <<data, override>>
vars == <<data, override, dialect, strings, phase, cursor, path, stack, protos, insts,
          error, result>>

NoError == [code |-> "none", target |-> <<>>]
NoProto == [start |-> 0]

Root == <<0>>
Depth(p) == Len(p) - 1

Top == Last(stack)
SetTop(frame) == Append(Front(stack), frame)

-----------------------------------------------------------------------------
(* The stages of an activation, in the order of the format; those of         *)
(* ListNames are counted lists.                                             *)

ListNames == {"code", "constants", "children", "upvalues", "lines", "abslines", "locals",
              "names"}

Stages51 == <<"source", "frame", "code", "constants", "children", "lines", "locals", "names">>
Stages52 == <<"frame", "code", "constants", "children", "upvalues", "source", "lines",
              "locals", "names">>
Stages53 == <<"source", "frame", "code", "constants", "upvalues", "children", "lines",
              "locals", "names">>
Stages54 == <<"source", "frame", "code", "constants", "upvalues", "children", "lines",
              "abslines", "locals", "names">>
Stages55 == <<"frame", "code", "constants", "upvalues", "children", "source", "lines",
              "abslines", "locals", "names">>

Stages ==
    IF Lua51 THEN Stages51
    ELSE IF dialect = "lua5.2" THEN Stages52
    ELSE IF dialect = "lua5.3" THEN Stages53
    ELSE IF dialect = "lua5.4" THEN Stages54
    ELSE Stages55

NextStage(stage) ==
    IF stage = Last(Stages) THEN "end"
    ELSE Stages[(CHOOSE i \in 1..(Len(Stages) - 1) : Stages[i] = stage) + 1]

-----------------------------------------------------------------------------
(* An activation *)

Uncounted == -1

(* read and left count the elements of the current list that were read and
   that are still to be read, lists holds the elements. *)
Activation(own, previous, inherited, start) ==
    [path |-> own, previous |-> previous, start |-> start, stage |-> Head(Stages),
     read |-> 0, left |-> Uncounted, source |-> inherited, frame |-> <<>>,
     lists |-> [l \in ListNames |-> <<>>]]

(* Mutant: the bytes of a prototype reach to the end of the input. *)
PrototypeToEnd(frame) ==
    [start |-> frame.start, end |-> Len(data), source |-> frame.source,
     frame |-> frame.frame, lists |-> frame.lists]

(* The prototype of a finished activation *)
Prototype(frame) ==
    [start |-> frame.start, end |-> cursor, source |-> frame.source,
     frame |-> frame.frame, lists |-> frame.lists]

(* Once n elements are left of its list. *)
Counting(frame, n) ==
    IF n = 0
    THEN [frame EXCEPT !.stage = NextStage(frame.stage), !.read = 0, !.left = Uncounted]
    ELSE [frame EXCEPT !.left = n]

(* An element was read. *)
WithElement(frame, value) ==
    Counting([frame EXCEPT !.lists[frame.stage] = Append(@, value), !.read = @ + 1],
             frame.left - 1)

Element(list) ==
    IF list = "constants" THEN ConstantAt(cursor)
    ELSE IF list = "upvalues" THEN UpvalueAt(cursor)
    ELSE IF list = "abslines" THEN AbsoluteLineAt(cursor)
    ELSE IF list = "locals" THEN LocalAt(cursor)
    ELSE IF list = "names" THEN LuaString(cursor)
    ELSE Unit(cursor)

-----------------------------------------------------------------------------

Init ==
    /\ data \in Chunks
    /\ override \in Overrides
    /\ dialect = AutoDetect
    /\ strings = <<>>
    /\ phase = "select"
    /\ cursor = 0
    /\ path = Root
    /\ stack = <<>>
    /\ protos = 0
    /\ insts = 0
    /\ error = NoError
    /\ result = NoProto

(* The diagnostic is returned in both parse modes: permissive mode only
   records it first. *)
Fail(code, target) ==
    /\ phase' = "unwind"
    /\ error' = [code |-> code, target |-> target]
    /\ UNCHANGED <<dialect, strings, cursor, path, stack, result>>

(* parse_chunk_detailed: the dialect asked for, or the one detected. *)
SelectDialect ==
    /\ phase = "select"
    /\ LET chosen == IF override # AutoDetect THEN override ELSE Detected
       IN  IF Len(data) > MaxInputBytes THEN Fail("LimitExceeded", Root)
           ELSE IF chosen = AutoDetect THEN Fail("UnsupportedFormat", Root)
           ELSE /\ phase' = "header"
                /\ dialect' = chosen
                /\ UNCHANGED <<strings, cursor, path, stack, error, result>>
    /\ UNCHANGED <<fixed, protos, insts>>

(* parse_header of the dialect, and the call of load_proto for the main
   prototype *)
ReadHeader ==
    /\ phase = "header"
    /\ LET header == HeaderAt(0)
       IN  IF header.code # "none" THEN Fail(header.code, path)
           ELSE /\ phase' = "load"
                /\ cursor' = header.next
                /\ stack' = <<Activation(Root, Root, NoString, header.next)>>
                /\ UNCHANGED <<dialect, strings, path, error, result>>
    /\ UNCHANGED <<fixed, protos, insts>>

(* What was read is in the activation on top. *)
Advance(read, frame) ==
    /\ cursor' = read.next
    /\ strings' = strings \o read.saved
    /\ stack' = SetTop(frame)
    /\ UNCHANGED <<dialect, phase, path, error, result>>

(* A prototype without a source name has the one its activation was given: the
   name of its parent where that was read before its children. *)
ReadSource ==
    /\ phase = "load"
    /\ Top.stage = "source"
    /\ LET name == LuaString(cursor)
       IN  IF name.code # "none" THEN Fail(name.code, path)
           ELSE Advance(name, [Top EXCEPT !.stage = NextStage("source"),
                                 !.source = IF name.value = NoString THEN @ ELSE name.value])
    /\ UNCHANGED <<fixed, protos, insts>>

(* The first and the last line, and the one byte fields *)
ReadFrame ==
    /\ phase = "load"
    /\ Top.stage = "frame"
    /\ LET fields == FrameAt(cursor)
       IN  IF fields.code # "none" THEN Fail(fields.code, path)
           ELSE Advance(fields, [Top EXCEPT !.stage = NextStage("frame"),
                                   !.frame = fields.value])
    /\ UNCHANGED <<fixed, protos, insts>>

(* The count of a list, which has a limit or not; the limit is checked before
   anything is allocated. *)
ListLimit(list) ==
    CASE list = "code" -> MaxInstructionsPerProto
      [] list = "constants" -> MaxConstantsPerProto
      [] list = "upvalues" -> MaxUpvaluesPerProto
      [] list = "children" -> MaxTotalPrototypes
      [] OTHER -> Huge

ListError(list) ==
    CASE list = "code" -> "CODE-001"
      [] list = "constants" -> "CONST-COUNT"
      [] list = "upvalues" -> "UPVAL-001"
      [] OTHER -> "PROTO-001"

(* charge_instructions: what a count of code adds stays charged even when it
   crosses the limit. *)
Charged(list, n) == IF list = "code" THEN insts + n ELSE insts

(* Lua 5.5 aligns the words of the code, and of the absolute line information
   when there is any. *)
FirstElement(list, n, at) ==
    IF dialect = "lua5.5" /\ (list = "code" \/ (list = "abslines" /\ n > 0))
    THEN Aligned(at)
    ELSE Got(at, n)

ReadCount ==
    /\ phase = "load"
    /\ Top.stage \in ListNames
    /\ Top.left = Uncounted
    /\ LET count == Integer(cursor)
           n == count.value
           list == Top.stage
           first == FirstElement(list, n, count.next)
       IN  IF count.code # "none"
           THEN Fail(count.code, path) /\ insts' = insts
           ELSE IF n > ListLimit(list)
           THEN Fail(ListError(list), Top.path) /\ insts' = insts
           ELSE /\ insts' = Charged(list, n)
                /\ IF insts' > MaxTotalInstructions
                   THEN Fail("CORE-LIMIT-004", Top.path)
                   ELSE IF first.code # "none"
                   THEN Fail(first.code, path)
                   ELSE Advance(first, Counting(Top, n))
    /\ UNCHANGED <<fixed, protos>>

(* One element of a list that holds no prototypes *)
ReadElement ==
    /\ phase = "load"
    /\ Top.stage \in ListNames \ {"children"}
    /\ Top.left > 0
    /\ LET element == Element(Top.stage)
       IN  IF element.code = BadTag THEN Fail(element.code, Top.path)
           ELSE IF element.code # "none" THEN Fail(element.code, path)
           ELSE Advance(element, WithElement(Top, element.value))
    /\ UNCHANGED <<fixed, protos, insts>>

(* Mutant: the depth of the parent is checked. *)
EnterChildTooDeep ==
    /\ phase = "load"
    /\ Top.stage = "children"
    /\ Top.left > 0
    /\ LET child == Append(path, Top.read)
       IN  IF Depth(path) > MaxNestingDepth
           THEN Fail("CORE-LIMIT-001", child) /\ protos' = protos
           ELSE /\ protos' = protos + 1
                /\ IF protos' > MaxTotalPrototypes
                   THEN Fail("CORE-LIMIT-002", child)
                   ELSE /\ path' = child
                        /\ stack' = Append(stack, Activation(Append(Top.path, Top.read), path,
                                                             Top.source, cursor))
                        /\ UNCHANGED <<dialect, strings, phase, cursor, error, result>>
    /\ UNCHANGED <<fixed, insts>>

(* enter_proto, and the call of load_proto on the child *)
EnterChild ==
    /\ phase = "load"
    /\ Top.stage = "children"
    /\ Top.left > 0
    /\ LET child == Append(path, Top.read)
       IN  IF Depth(child) > MaxNestingDepth
           THEN Fail("CORE-LIMIT-001", child) /\ protos' = protos
           ELSE /\ protos' = protos + 1
                /\ IF protos' > MaxTotalPrototypes
                   THEN Fail("CORE-LIMIT-002", child)
                   ELSE /\ path' = child
                        /\ stack' = Append(stack, Activation(Append(Top.path, Top.read), path,
                                                             Top.source, cursor))
                        /\ UNCHANGED <<dialect, strings, phase, cursor, error, result>>
    /\ UNCHANGED <<fixed, insts>>

(* Mutant: the guard of a child that was loaded restores nothing. *)
FinishChildKeepingPath ==
    /\ phase = "load"
    /\ Top.stage = "end"
    /\ Len(stack) > 1
    /\ LET outer == Front(stack)
       IN  stack' = Append(Front(outer), WithElement(Last(outer), Prototype(Top)))
    /\ UNCHANGED <<fixed, dialect, strings, phase, cursor, path, protos, insts, error, result>>

(* The return of load_proto for a child: the guard that goes out of scope
   restores the path. *)
FinishChild ==
    /\ phase = "load"
    /\ Top.stage = "end"
    /\ Len(stack) > 1
    /\ LET outer == Front(stack)
       IN  stack' = Append(Front(outer), WithElement(Last(outer), Prototype(Top)))
    /\ path' = Top.previous
    /\ UNCHANGED <<fixed, dialect, strings, phase, cursor, protos, insts, error, result>>

FinishMain ==
    /\ phase = "load"
    /\ Top.stage = "end"
    /\ Len(stack) = 1
    /\ result' = Prototype(Top)
    /\ stack' = <<>>
    /\ phase' = "trailing"
    /\ UNCHANGED <<fixed, dialect, strings, cursor, path, protos, insts, error>>

(* Bytes after the main prototype are kept, with a warning; Lua 5.4 does not
   read them. *)
ReadTrailing ==
    /\ phase = "trailing"
    /\ cursor' = IF dialect = "lua5.4" THEN cursor ELSE Len(data)
    /\ phase' = "done"
    /\ UNCHANGED <<fixed, dialect, strings, path, stack, protos, insts, error, result>>

(* An error leaves one activation after the other, and the guard of each. *)
Unwind ==
    /\ phase = "unwind"
    /\ IF Len(stack) > 1
       THEN /\ stack' = Front(stack)
            /\ path' = Top.previous
            /\ UNCHANGED phase
       ELSE /\ stack' = <<>>
            /\ phase' = "failed"
            /\ UNCHANGED path
    /\ UNCHANGED <<fixed, dialect, strings, cursor, protos, insts, error, result>>

Next ==
    \/ SelectDialect \/ ReadHeader \/ ReadSource \/ ReadFrame \/ ReadCount \/ ReadElement
    \/ EnterChild \/ FinishChild \/ FinishMain \/ ReadTrailing \/ Unwind

Spec == Init /\ [][Next]_vars

-----------------------------------------------------------------------------
(* Properties *)

TypeOK ==
    /\ phase \in {"select", "header", "load", "trailing", "done", "unwind", "failed"}
    /\ dialect \in Dialects \cup {AutoDetect}
    /\ phase \notin {"select", "unwind", "failed"} => dialect # AutoDetect
    /\ cursor \in 0..Len(data)
    /\ path \in Seq(Nat)
    /\ protos \in Nat
    /\ insts \in Nat
    /\ phase = "load" => stack # <<>>

(* The path the reader puts into its diagnostics is the path of the prototype
   being loaded, through every entry, return and error; when the loader is
   done, whatever the outcome, it is the root again. *)
PathIsInnermost ==
    path = IF stack = <<>> THEN Root ELSE Top.path

(* While the loader goes on, what it has been charged is within the limits. *)
LimitsHold ==
    phase \in {"load", "trailing", "done"} =>
        /\ insts <= MaxTotalInstructions
        /\ protos <= MaxTotalPrototypes
        /\ Len(stack) <= MaxNestingDepth + 1
=============================================================================
