----------------------------- MODULE FlowValues -----------------------------
(***************************************************************************)
(* The abstract values of the callee analysis (callees.rs), how two of     *)
(* them meet at a join, and what each instruction does to the abstract     *)
(* registers.                                                              *)
(*                                                                         *)
(* A register state is a function from 0..maxstack-1 to values. A value is *)
(* Bottom, Known(kind, evidence) or Unknown(reason); a kind is a record    *)
(* [shape, ...]. Evidence is a set of instruction ids.                     *)
(***************************************************************************)
EXTENDS Lua51Code, Sequences

CONSTANTS
    Strings,          \* the string constants of the programs
    ModuleSegments,   \* [Strings -> Seq(STRING)]: a module name split at dots
    NaN,              \* the constant that is a float NaN
    MaxPathSegments   \* MAX_PATH_SEGMENTS

Bottom == [tag |-> "bottom"]
Known(kind, evidence) == [tag |-> "known", kind |-> kind, evidence |-> evidence]
Unknown(reason) == [tag |-> "unknown", reason |-> reason]

IsKnown(v) == v.tag = "known"

Label(lookup, key) == [shape |-> "LookupLabel", lookup |-> lookup, key |-> key]
Path(basis, segments) ==
    [shape |-> "SymbolicPath", basis |-> basis, segments |-> segments]
Literal(s) == [shape |-> "LiteralString", value |-> s]
Closure(child) == [shape |-> "Closure", prototype |-> child]
NonClosure == [shape |-> "NonClosure"]

RequirePath == Path("global", <<"require">>)

(* StableId::instruction *)
Id(proto, pc) == <<proto.path, pc>>

(* ProtoPath::child *)
ChildPath(proto, i) == Append(proto.path, i)

-----------------------------------------------------------------------------
(* Meet *)

(* values_join: equal kinds join, except labels whose key is a NaN. *)
KindsJoin(k, l) == k = l /\ (k.shape = "LookupLabel" => k.key # NaN)

(* Mutant: equal kinds keep the evidence of the first. *)
MeetValueFirstEvidence(v, w) ==
    CASE v = Bottom -> w
      [] w = Bottom -> v
      [] v # Bottom /\ w # Bottom /\ IsKnown(v) /\ IsKnown(w) /\ KindsJoin(v.kind, w.kind) -> v
      [] v = w /\ v.tag = "unknown" -> v
      [] OTHER -> Unknown("ControlFlowConflict")

(* Mutant: Bottom absorbs what it meets. *)
MeetValueAbsorbing(v, w) ==
    IF v = Bottom \/ w = Bottom THEN Bottom
    ELSE IF IsKnown(v) /\ IsKnown(w) /\ KindsJoin(v.kind, w.kind)
    THEN Known(v.kind, v.evidence \cup w.evidence)
    ELSE IF v = w /\ v.tag = "unknown" THEN v
    ELSE Unknown("ControlFlowConflict")

MeetValue(v, w) ==
    CASE v = Bottom -> w
      [] w = Bottom -> v
      [] v # Bottom /\ w # Bottom /\ IsKnown(v) /\ IsKnown(w) /\ KindsJoin(v.kind, w.kind) ->
            Known(v.kind, v.evidence \cup w.evidence)
      [] v = w /\ v.tag = "unknown" -> v
      [] OTHER -> Unknown("ControlFlowConflict")

-----------------------------------------------------------------------------
(* Transfer *)

(* A register outside the frame is never known. *)
GetRegister(state, r) ==
    IF r \in DOMAIN state THEN state[r] ELSE Unknown("OpenRegisterWindow")

SetRegister(state, r, v) == [state EXCEPT ![r] = v]

SetAll(state, regs, v) == [r \in DOMAIN state |-> IF r \in regs THEN v ELSE state[r]]

Invalidate(w, state) ==
    SetAll(state, {r \in DOMAIN state : r \in Writes(w) \/ Clobbers(w, r)},
           Unknown("Overwritten"))

(* The value of a lookup of key in receiver: a symbolic path grows by a
   string segment, every other receiver leaves only the key. *)
LookupValue(id, lookup, receiver, key) ==
    IF IsKnown(receiver) /\ receiver.kind.shape = "SymbolicPath" /\ key \in Strings
    THEN IF Len(receiver.kind.segments) >= MaxPathSegments
         THEN Unknown("PathLimit")
         ELSE Known(Path(receiver.kind.basis, Append(receiver.kind.segments, key)),
                    receiver.evidence \cup {id})
    ELSE Known(Label(lookup, key), {id})

IsRequireCall(w, before) ==
    LET callee == GetRegister(before, w.a)
    IN  w.b = 2 /\ w.c = 2 /\ IsKnown(callee) /\ callee.kind = RequirePath

(* The result of a literal require("name"). *)
ModuleValue(id, callee, arg) ==
    LET segments == ModuleSegments[arg.kind.value]
    IN  IF segments = <<>> \/ Len(segments) > MaxPathSegments
        THEN Unknown("PathLimit")
        ELSE Known(Path("module", segments), arg.evidence \cup callee.evidence \cup {id})

Transfer(proto, captures, pc, before) ==
    LET w == proto.words[pc]
        id == Id(proto, pc)
        after == Invalidate(w, before)
        source == GetRegister(before, w.b)
        arg == GetRegister(before, w.a + 1)
    IN  CASE w.op = "LOADK" ->
              SetRegister(after, w.a,
                 Known(IF w.k \in Strings THEN Literal(w.k) ELSE NonClosure, {id}))
          [] w.op = "GETGLOBAL" /\ w.k \in Strings ->
              SetRegister(after, w.a, Known(Path("global", <<w.k>>), {id}))
          [] w.op = "MOVE" ->
              SetRegister(after, w.a,
                 IF IsKnown(source) THEN Known(source.kind, source.evidence \cup {id})
                 ELSE source)
          [] w.op = "GETUPVAL" ->
              SetRegister(after, w.a,
                 IF w.b \in DOMAIN captures THEN captures[w.b]
                 ELSE Unknown("AmbiguousCapture"))
          [] w.op = "GETTABLE" ->
              SetRegister(after, w.a,
                 IF w.k = NoConst THEN Unknown("DynamicKey")
                 ELSE LookupValue(id, "gettable", source, w.k))
          [] w.op = "SELF" ->
              SetRegister(SetRegister(after, w.a + 1, source), w.a,
                 IF w.k = NoConst THEN Unknown("DynamicKey")
                 ELSE LookupValue(id, "self", source, w.k))
          [] w.op = "CALL" ->
              IF IsRequireCall(w, before)
              THEN IF IsKnown(arg) /\ arg.kind.shape = "LiteralString"
                   THEN SetRegister(after, w.a,
                           ModuleValue(id, GetRegister(before, w.a), arg))
                   ELSE after
              ELSE IF w.c = 0
                   THEN SetAll(after, {r \in DOMAIN after : r >= w.a},
                               Unknown("OpenRegisterWindow"))
                   ELSE after
          [] w.op = "CLOSURE" ->
              SetRegister(after, w.a, Known(Closure(ChildPath(proto, w.x)), {id}))
          [] w.op = "VARARG" /\ w.b = 0 ->
              SetAll(after, {r \in DOMAIN after : r >= w.a}, Unknown("OpenRegisterWindow"))
          [] OTHER -> after
=============================================================================
