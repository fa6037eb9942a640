---------------------------- MODULE OriginValues ----------------------------
(***************************************************************************)
(* The expressions of the origin analysis (origins.rs), how two of them    *)
(* meet at a join, and what each instruction does to a register state.     *)
(*                                                                         *)
(* An expression is a node [label, parts, ev]: a label that starts with    *)
(* its kind, its sub-expressions and its evidence, of which only the ids   *)
(* of instructions are kept; those of constants, upvalues and prototypes   *)
(* follow from them. A register state is a function from the registers to  *)
(* expressions or Bottom. The code sorts the options of alternatives; here *)
(* they are in an order that depends on their shapes alone.                *)
(***************************************************************************)
EXTENDS Lua51Code, SequencesExt

CONSTANTS
    Strings,              \* the string constants of the programs
    MaxExpressionDepth,   \* MAX_EXPRESSION_DEPTH
    MaxExpressionNodes,   \* MAX_EXPRESSION_NODES
    MaxAlternatives       \* MAX_ALTERNATIVES

ASSUME OriginBounds ==
    /\ MaxExpressionDepth \in Nat
    /\ MaxExpressionNodes \in Nat
    /\ MaxAlternatives \in Nat

Id(proto, pc) == <<proto.path, pc>>

Node(label, parts, ev) == [label |-> label, parts |-> parts, ev |-> ev]
Leaf(label, ev) == Node(label, <<>>, ev)

Bottom == Leaf(<<"bottom">>, {})
Unknown(reason, ev) == Leaf(<<"unknown", reason>>, ev)
Parameter(owner, index, ev) == Leaf(<<"parameter", owner, index>>, ev)
Upvalue(owner, index, ev) == Leaf(<<"upvalue", owner, index>>, ev)
Global(name, ev) == Leaf(<<"global", name>>, ev)
Prototype(path, ev) == Leaf(<<"prototype", path>>, ev)
CallResult(call, index) == Leaf(<<"result", call, index>>, {call})
(* A literal or a key remembers whether a constant of the chunk gave it. *)
Literal(value, from, ev) == Leaf(<<"literal", value, from>>, ev)
FieldOf(base, key, from, ev) == Node(<<"field", key, from>>, <<base>>, ev)
Operation(operator, parts, ev) == Node(<<"operation", operator>>, parts, ev)
Table(entries, ev) == Node(<<"table">>, entries, ev)
Alternatives(options, ev) == Node(<<"alternatives">>, options, ev)
TableLiteral(keys, incomplete, values, ev) ==
    Node(<<"table literal", keys, incomplete>>, values, ev)

IsA(e, kind) == e.label[1] = kind
IsUnknownFor(e, reason) == e.label = <<"unknown", reason>>

-----------------------------------------------------------------------------
(* Walks over an expression *)

(* The labels of an expression, parents first *)
RECURSIVE Labels(_)
Labels(e) ==
    <<e.label>> \o FlattenSeq([i \in DOMAIN e.parts |-> Labels(e.parts[i])])

RECURSIVE Depth(_)
Depth(e) ==
    1 + (IF e.parts = <<>> THEN 0
         ELSE Max({Depth(e.parts[i]) : i \in DOMAIN e.parts}))

(* What is left of an expression without its evidence *)
RECURSIVE Shape(_)
Shape(e) == <<e.label, [i \in DOMAIN e.parts |-> Shape(e.parts[i])]>>

SameShape(d, e) == Shape(d) = Shape(e)

Holds(e, label) == \E i \in DOMAIN Labels(e) : Labels(e)[i] = label

(* The nodes of expression_size, where a field of a table literal is one *)
Nodes(e) == Len(Labels(e)) + IF IsA(e, "table literal") THEN Len(e.parts) ELSE 0

HasControlFlowConflict(e) == Holds(e, <<"unknown", "ControlFlowConflict">>)

ContainsAlternatives(e) == Holds(e, <<"alternatives">>)

ContainsTable(e) ==
    \E i \in DOMAIN Labels(e) : Labels(e)[i][1] \in {"table", "table literal"}

(* first_cutoff, as a sequence of at most one reason *)
FirstCutoff(e) ==
    LET cutoffs == {"ExpressionDepthLimit", "ExpressionNodeLimit",
                    "RegisterWindowLimit", "AnalysisLimit"}
        found == SelectSeq(Labels(e), LAMBDA l : l[1] = "unknown" /\ l[2] \in cutoffs)
    IN  IF found = <<>> THEN <<>> ELSE <<found[1][2]>>

AddEvidence(e, ev) == IF e = Bottom THEN e ELSE [e EXCEPT !.ev = @ \cup ev]

(* union_expression_evidence, of two expressions of the same shape *)
RECURSIVE UnionEvidence(_, _)
UnionEvidence(d, e) ==
    Node(d.label, [i \in DOMAIN d.parts |-> UnionEvidence(d.parts[i], e.parts[i])],
         d.ev \cup e.ev)

(* bounded_expression *)
Bounded(e) ==
    CASE FirstCutoff(e) # <<>> -> Unknown(FirstCutoff(e)[1], e.ev)
      [] FirstCutoff(e) = <<>> /\ Depth(e) > MaxExpressionDepth ->
            Unknown("ExpressionDepthLimit", e.ev)
      [] FirstCutoff(e) = <<>> /\ Depth(e) <= MaxExpressionDepth
           /\ Nodes(e) > MaxExpressionNodes -> Unknown("ExpressionNodeLimit", e.ev)
      [] OTHER -> e

-----------------------------------------------------------------------------
(* Meet *)

(* collect_candidate_options: alternatives within alternatives are opened. *)
RECURSIVE Options(_)
Options(e) ==
    IF IsA(e, "alternatives")
    THEN FlattenSeq([i \in DOMAIN e.parts |-> Options(e.parts[i])])
    ELSE <<e>>

(* Options of one shape become one, and keep the evidence of all. *)
AddOption(options, e) ==
    IF \E i \in DOMAIN options : SameShape(options[i], e)
    THEN [i \in DOMAIN options |->
            IF SameShape(options[i], e) THEN UnionEvidence(options[i], e) ELSE options[i]]
    ELSE Append(options, e)

Deduplicated(options) == FoldLeft(AddOption, <<>>, options)

InOrder(options) ==
    LET shapes == SetToSeq({Shape(options[i]) : i \in DOMAIN options})
        find(s) == CHOOSE i \in DOMAIN options : Shape(options[i]) = s
    IN  [i \in DOMAIN shapes |-> options[find(shapes[i])]]

(* The join of two different origins with neither a cutoff nor a conflict *)
JoinOptions(d, e) ==
    LET options == Deduplicated(Options(d) \o Options(e))
        ev == d.ev \cup e.ev \cup UNION {options[i].ev : i \in DOMAIN options}
    IN  IF Len(options) = 1 THEN AddEvidence(options[1], ev)
        ELSE IF Len(options) > MaxAlternatives THEN Unknown("AnalysisLimit", ev)
        ELSE Bounded(Alternatives(InOrder(options), ev))

(* Mutant: of two different origins the first is kept. *)
MeetFirst(d, e) == IF d = Bottom THEN e ELSE d

(* meet_value: a cutoff is passed on, a conflict absorbs, and any other two
   origins become alternatives. *)
Meet(d, e) ==
    LET ev == d.ev \cup e.ev
        cutoff == FirstCutoff(d) \o FirstCutoff(e)
    IN  CASE d = Bottom -> e
          [] d # Bottom /\ e = Bottom -> d
          [] OTHER ->
                IF SameShape(d, e) THEN UnionEvidence(d, e)
                ELSE IF cutoff # <<>> THEN Unknown(cutoff[1], ev)
                ELSE IF HasControlFlowConflict(d) \/ HasControlFlowConflict(e)
                THEN Unknown("ControlFlowConflict", ev)
                ELSE JoinOptions(d, e)

-----------------------------------------------------------------------------
(* Transfer *)

(* A register outside the frame is never known. *)
GetRegister(state, r) ==
    IF r \in DOMAIN state THEN state[r] ELSE Unknown("RegisterWindowLimit", {})

(* origin_from_flow of a register *)
OriginAt(state, r) ==
    IF GetRegister(state, r) = Bottom THEN Unknown("MissingDefinition", {})
    ELSE GetRegister(state, r)

SetRegister(state, r, e) == [state EXCEPT ![r] = e]

SetAll(state, regs, e) == [r \in DOMAIN state |-> IF r \in regs THEN e ELSE state[r]]

SetFrom(state, first, e) == SetAll(state, {r \in DOMAIN state : r >= first}, e)

ConstantAt(proto, id, index) == Literal(proto.values[index], "constant", {id})

(* expression_operand of an operand that is a register or a constant *)
RkOrigin(proto, id, state, operand) ==
    IF operand >= 256 THEN ConstantAt(proto, id, operand - 256)
    ELSE OriginAt(state, operand)

(* field_over_literal_keys, as a sequence of at most one expression: the
   fields of base a register names, if all it may hold are literals. *)
FieldsOverKeys(id, base, key) ==
    LET field(e) == Bounded(FieldOf(base, e.label[2], "register", e.ev \cup {id}))
    IN  IF IsA(key, "literal") THEN <<field(key)>>
        ELSE IF /\ IsA(key, "alternatives")
                /\ \A i \in DOMAIN key.parts : IsA(key.parts[i], "literal")
        THEN <<Bounded(Alternatives([i \in DOMAIN key.parts |-> field(key.parts[i])],
                                    key.ev \cup {id}))>>
        ELSE <<>>

(* The origin of a lookup of GETTABLE and SELF *)
LookupOrigin(proto, id, w, before) ==
    LET base == OriginAt(before, w.b)
        key == OriginAt(before, w.c)
        fields == FieldsOverKeys(id, base, key)
    IN  IF w.c >= 256
        THEN Bounded(FieldOf(base, proto.values[w.c - 256], "constant", {id}))
        ELSE IF fields # <<>> THEN fields[1]
        ELSE Unknown("DynamicKey", key.ev \cup {id})

(* invalidate_aliased_subexpressions: every sub-expression that looks like
   the table written to is forgotten. *)
RECURSIVE ForgetAlias(_, _, _)
ForgetAlias(id, e, alias) ==
    IF SameShape(e, alias) /\ ContainsTable(e) THEN Unknown("UnsupportedValue", {id})
    ELSE [e EXCEPT !.parts = [i \in DOMAIN e.parts |-> ForgetAlias(id, e.parts[i], alias)]]

(* invalidate_table_aliases, of every option of the table written to *)
ForgetAliases(id, state, before, base) ==
    LET aliases == Options(OriginAt(before, base))
        forget(e) == FoldLeft(LAMBDA acc, alias : ForgetAlias(id, acc, alias), e, aliases)
    IN  [r \in DOMAIN state |->
            IF before[r] # Bottom /\ forget(before[r]) # before[r] THEN forget(before[r])
            ELSE state[r]]

(* transfer_setlist *)
SetList(id, w, state, before) ==
    LET table == OriginAt(before, w.a)
        entries == table.parts \o [i \in 1..w.b |-> OriginAt(before, w.a + i)]
        others == {r \in DOMAIN state \ {w.a} : SameShape(before[r], table)}
    IN  IF w.b = 0 THEN SetRegister(state, w.a, Unknown("OpenArgumentWindow", {id}))
        ELSE IF ~IsA(table, "table")
        THEN SetRegister(state, w.a, Unknown("UnsupportedValue", {id}))
        ELSE SetRegister(SetAll(state, others, Unknown("UnsupportedValue", {id})),
                         w.a, Bounded(Table(entries, table.ev \cup {id})))

(* The results of a CALL whose callee may have written to any table *)
CallResults(id, w, state) ==
    LET tables == {r \in DOMAIN state : ContainsTable(state[r])}
        after == SetAll(state, tables, Unknown("UnsupportedValue", {id}))
    IN  IF w.c = 0 THEN SetFrom(after, w.a, Unknown("OpenResultWindow", {id}))
        ELSE [r \in DOMAIN after |->
                IF r \in w.a..(w.a + w.c - 2) THEN CallResult(id, r - w.a) ELSE after[r]]

Arithmetic == {"ADD", "SUB", "MUL", "DIV", "MOD", "POW"}

(* invalidate_writes and the boundary of call_frame.rs; SETLIST keeps its
   table for transfer_setlist. *)
Invalidate(id, w, state) ==
    LET written == IF w.op = "SETLIST" THEN {} ELSE Writes(w)
    IN  SetAll(state, {r \in DOMAIN state : r \in written \/ Clobbers(w, r)},
               Unknown("Overwritten", {id}))

(* The origin of register w.a after an instruction that computes it from
   what was before, if it is one of those. *)
Computed(proto, captures, pc, before) ==
    LET w == proto.words[pc]
        id == Id(proto, pc)
        rk(operand) == RkOrigin(proto, id, before, operand)
    IN  CASE w.op \in {"MOVE", "TESTSET"} -> AddEvidence(GetRegister(before, w.b), {id})
          [] w.op = "LOADK" -> ConstantAt(proto, id, w.x)
          [] w.op = "LOADBOOL" ->
                Literal(IF w.b = 0 THEN "false" ELSE "true", "instruction", {id})
          [] w.op = "GETUPVAL" ->
                AddEvidence(IF w.b \in DOMAIN captures THEN captures[w.b]
                            ELSE Unknown("AmbiguousCapture", {id}), {id})
          [] w.op = "GETGLOBAL" /\ proto.values[w.x] \in Strings ->
                Global(proto.values[w.x], {id})
          [] w.op \in {"GETTABLE", "SELF"} -> LookupOrigin(proto, id, w, before)
          [] w.op = "NEWTABLE" -> Table(<<>>, {id})
          [] w.op = "CLOSURE" -> Prototype(Append(proto.path, w.x), {id})
          [] w.op \in Arithmetic -> Bounded(Operation(w.op, <<rk(w.b), rk(w.c)>>, {id}))
          [] w.op \in {"UNM", "NOT", "LEN"} ->
                Bounded(Operation(w.op, <<OriginAt(before, w.b)>>, {id}))
          [] w.op = "CONCAT" ->
                IF w.b > w.c \/ w.c \notin DOMAIN before
                THEN Unknown("RegisterWindowLimit", {id})
                ELSE Bounded(Operation(w.op,
                        [i \in 1..(w.c - w.b + 1) |-> OriginAt(before, w.b + i - 1)], {id}))

Computing ==
    {"MOVE", "TESTSET", "LOADK", "LOADBOOL", "GETUPVAL", "GETTABLE", "SELF", "NEWTABLE",
     "CLOSURE", "UNM", "NOT", "LEN", "CONCAT"} \cup Arithmetic

Transfer(proto, captures, pc, before) ==
    LET w == proto.words[pc]
        id == Id(proto, pc)
        after == Invalidate(id, w, before)
        computed == Computed(proto, captures, pc, before)
    IN  CASE w.op = "SELF" ->
              SetRegister(SetRegister(after, w.a + 1, GetRegister(before, w.b)),
                          w.a, computed)
          [] (w.op \in Computing \ {"SELF"})
               \/ (w.op = "GETGLOBAL" /\ proto.values[w.x] \in Strings) ->
              SetRegister(after, w.a, computed)
          [] w.op = "LOADNIL" ->
              SetAll(after, w.a..w.b, Literal("nil", "instruction", {id}))
          [] w.op = "SETTABLE" -> ForgetAliases(id, after, before, w.a)
          [] w.op = "SETLIST" -> SetList(id, w, after, before)
          [] w.op = "CALL" -> CallResults(id, w, after)
          [] w.op = "VARARG" ->
              IF w.b = 0 THEN SetFrom(after, w.a, Unknown("OpenResultWindow", {id}))
              ELSE SetAll(after, w.a..(w.a + w.b - 2), Unknown("VarargValue", {id}))
          [] OTHER -> after
=============================================================================
