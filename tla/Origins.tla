------------------------------ MODULE Origins ------------------------------
(***************************************************************************)
(* The origin analysis of one prototype of Lua 5.1 (origins.rs): a         *)
(* worklist of basic blocks that computes where the value of every         *)
(* register comes from, then a fact for the arguments of every call, one   *)
(* for every table access rooted at a parameter, and what each child       *)
(* prototype may assume of its upvalues.                                   *)
(***************************************************************************)
EXTENDS OriginValues, BlockWorklist, CaptureCells

CONSTANTS
    Inputs,             \* records [chunk, proto, captures, budget]
    MaxBlockRevisits,   \* MAX_BLOCK_REVISITS
    MaxTableFields,     \* MAX_TABLE_FIELDS
    MaxTableScanSteps,  \* MAX_TABLE_SCAN_STEPS
    MutationBudget      \* DEFAULT_CAPTURE_MUTATION_BUDGET

VARIABLES
    task,        \* what is analysed, fixed
    phase,       \* "iterate" -> "done"
    in, out,     \* in_states and out_states of the reachable blocks
    skip,        \* skip_states: a sequence of at most one state per block
    worklist, steps, revisits, exhausted,
    calls,       \* the argument window of each call instruction, once done
    fields,      \* parameter_fields, once done
    children     \* the captures of each child a reachable CLOSURE creates

vars == <<task, phase, in, out, skip, worklist, steps, revisits, exhausted,
          calls, fields, children>>

OriginTask(input) ==
    Task(input) @@ [summary |-> Summary(input.chunk, MutationBudget)]

BottomState(t) == [r \in Registers(t.proto) |-> Bottom]

EntryState(t) ==
    [r \in Registers(t.proto) |->
        IF r < t.proto.params THEN Parameter(t.proto.path, r, {})
        ELSE Unknown("MissingDefinition", {})]

-----------------------------------------------------------------------------
(* The dataflow *)

(* The edge from p to b on which a TESTSET does not assign. *)
SkipsInto(t, p, b) ==
    b \in {BlockOf(t.cfg.nodes, s) :
             s \in SkipTargets(t.proto.words[Last(t.body[p])], Last(t.body[p])) \cap Pcs(t.proto)}

(* What a predecessor passes along the edge to b *)
StateFrom(t, outs, skips, p, b) ==
    IF SkipsInto(t, p, b) /\ skips[p] # <<>> THEN skips[p][1] ELSE outs[p]

Preds(t, b) == {p \in t.reach : b \in t.cfg.succ[p]}

(* meet_predecessors. The entry block keeps the state of a fresh frame, even
   when an edge leads back to it. *)
Incoming(t, outs, skips, b) ==
    IF b = t.cfg.entry THEN EntryState(t)
    ELSE LET states == [p \in Preds(t, b) |-> StateFrom(t, outs, skips, p, b)]
             order == SetToSortSeq(Preds(t, b), <)
         IN  [r \in Registers(t.proto) |->
                FoldLeft(LAMBDA acc, p : Meet(acc, states[p][r]), Bottom, order)]

(* The state before pc, from the state before its block *)
StateBefore(t, state, pc) ==
    FoldLeft(LAMBDA s, p : Transfer(t.proto, t.captures, p, s), state,
             SelectSeq(t.body[BlockOf(t.cfg.nodes, pc)], LAMBDA p : p < pc))

(* The state after a block, and the one its TESTSET skips to *)
BlockFlow(t, b, state) ==
    LET last == Last(t.body[b])
        before == StateBefore(t, state, last)
    IN  [out |-> Transfer(t.proto, t.captures, last, before),
         skip |-> IF t.proto.words[last].op = "TESTSET" THEN <<before>> ELSE <<>>]

(* Widening: what still changes after so many visits is a conflict. *)
Widened(state, previous, visits) ==
    IF visits <= MaxBlockRevisits THEN state
    ELSE [r \in DOMAIN state |->
            IF state[r] = previous[r] THEN state[r]
            ELSE Unknown("ControlFlowConflict", state[r].ev \cup previous[r].ev)]

-----------------------------------------------------------------------------
(* reconstruct_table_literal *)

(* What counts as a write of a register: what the lifter says is written, and
   what a call clobbers. An open VARARG states no write. *)
MayWrite(w, r) == r \in Writes(w) \/ Clobbers(w, r)

(* The NEWTABLE a register was copied from within the block, searched
   backwards over MOVEs, as a sequence of at most one pc. *)
NewTableOf(t, register, before) ==
    LET step(acc, pc) ==
            LET w == t.proto.words[pc]
            IN  IF acc.found # <<>> \/ acc.lost \/ ~MayWrite(w, acc.register) THEN acc
                ELSE IF w.op = "MOVE" THEN [acc EXCEPT !.register = w.b]
                ELSE IF w.op = "NEWTABLE" THEN [acc EXCEPT !.found = <<pc>>]
                ELSE [acc EXCEPT !.lost = TRUE]
    IN  FoldLeft(step, [register |-> register, found |-> <<>>, lost |-> FALSE],
                 Reverse(before)).found

(* Whether a call hands the table itself to its callee *)
PassedTo(w, aliases) ==
    \/ w.a \in aliases
    \/ IF w.b = 0 THEN \E r \in aliases : r > w.a
       ELSE \E r \in aliases : r \in (w.a + 1)..(w.a + w.b - 1)

(* Mutant: a call is no escape. *)
EscapesByStore(w, aliases) == w.op \in {"SETGLOBAL", "SETUPVAL"} /\ w.a \in aliases

Escapes(w, aliases) ==
    \/ w.op \in {"CALL", "TAILCALL"} /\ PassedTo(w, aliases)
    \/ w.op \in {"SETGLOBAL", "SETUPVAL"} /\ w.a \in aliases

AliasesAfter(w, aliases) ==
    (IF w.op # "MOVE" THEN {r \in aliases : ~MayWrite(w, r)}
     ELSE IF w.b \in aliases THEN aliases \cup {w.a} ELSE aliases \ {w.a})

(* One store through an alias: a constant key gets its value, a key stored
   twice or one field too many leaves the literal incomplete. *)
StoreField(t, acc, pc) ==
    LET w == t.proto.words[pc]
        key == t.proto.values[w.b - 256]
        value == RkOrigin(t.proto, Id(t.proto, pc), acc.state, w.c)
        full == Cardinality(DOMAIN acc.stored) >= MaxTableFields
    IN  IF w.b < 256 THEN [acc EXCEPT !.incomplete = TRUE, !.seen = TRUE]
        ELSE [acc EXCEPT
                !.seen = TRUE,
                !.incomplete = @ \/ key \in DOMAIN acc.stored \/ full,
                !.stored = IF full THEN @
                           ELSE (key :> [value |-> value, pc |-> pc]) @@ @]

ScanStep(t, acc, pc) ==
    LET w == t.proto.words[pc]
        stored == IF w.op # "SETTABLE" THEN acc
                  ELSE IF w.a \in acc.aliases THEN StoreField(t, acc, pc)
                  ELSE [acc EXCEPT !.incomplete = @ \/ (w.c < 256 /\ w.c \in acc.aliases)]
    IN  [stored EXCEPT
            !.listed = @ \/ (w.op = "SETLIST" /\ w.a \in acc.aliases),
            !.escape = IF Escapes(w, acc.aliases) THEN pc ELSE @,
            !.aliases = AliasesAfter(w, @),
            !.state = Transfer(t.proto, t.captures, pc, @)]

(* What the instructions after the NEWTABLE do to the table *)
TableScan(t, state, new, span) ==
    FoldLeft(LAMBDA acc, pc : ScanStep(t, acc, pc),
             [aliases |-> {t.proto.words[new].a}, stored |-> [k \in {} |-> {}],
              incomplete |-> Len(span) > MaxTableScanSteps, seen |-> FALSE,
              listed |-> FALSE, escape |-> -1,
              state |-> StateBefore(t, state, new + 1)], span)

KeptKeys(scan) ==
    SetToSeq({k \in DOMAIN scan.stored : scan.stored[k].pc > scan.escape})

(* What was stored since the table last left the prototype. A sequence of at
   most one expression. *)
ScannedLiteral(scan, keys, register, id) ==
    IF \/ scan.listed
       \/ register \notin scan.aliases
       \/ scan.escape >= 0 /\ keys = <<>>
       \/ ~scan.seen /\ ~scan.incomplete /\ scan.escape < 0
    THEN <<>>
    ELSE <<Bounded(TableLiteral(keys, scan.incomplete \/ scan.escape >= 0,
                                [i \in DOMAIN keys |-> scan.stored[keys[i]].value],
                                {id}))>>

LiteralAfter(scan, register, id) == ScannedLiteral(scan, KeptKeys(scan), register, id)

LiteralFrom(t, state, register, new, before) ==
    LiteralAfter(TableScan(t, state, new, SelectSeq(before, LAMBDA p : p > new)),
                 register, Id(t.proto, new))

(* The table literal in an argument register of a call, if the block builds
   one *)
TableLiteralOf(t, state, call, register) ==
    LET before == SelectSeq(t.body[BlockOf(t.cfg.nodes, call)], LAMBDA p : p < call)
        new == NewTableOf(t, register, before)
    IN  IF new = <<>> THEN <<>> ELSE LiteralFrom(t, state, register, new[1], before)

-----------------------------------------------------------------------------
(* Facts *)

CallPcs(t) == {pc \in Executable(t.proto) : t.proto.words[pc].op \in {"CALL", "TAILCALL"}}

(* determinable_prefix_length: the arguments below the open tail *)
PrefixLength(t, w, state) ==
    LET tail == {r \in DOMAIN state : r > w.a /\ IsUnknownFor(state[r], "OpenResultWindow")}
    IN  IF tail = {} THEN 0 ELSE Min(tail) - (w.a + 1)

ArgumentOrigin(t, ins, pc, register) ==
    LET start == ins[BlockOf(t.cfg.nodes, pc)]
        literal == TableLiteralOf(t, start, pc, register)
    IN  IF literal # <<>> THEN literal[1]
        ELSE OriginAt(StateBefore(t, start, pc), register)

(* call_fact of a call in a reachable block *)
CallFact(t, ins, pc) ==
    LET w == t.proto.words[pc]
        state == StateBefore(t, ins[BlockOf(t.cfg.nodes, pc)], pc)
        count == IF w.b = 0 THEN PrefixLength(t, w, state) ELSE w.b - 1
    IN  [open |-> w.b = 0,
         reason |-> IF w.b = 0 THEN "OpenArgumentWindow" ELSE "none",
         arguments |-> [i \in 1..count |-> ArgumentOrigin(t, ins, pc, w.a + i)]]

(* call_fact with a reason that is forced on it; without a state no prefix
   is found. *)
ForcedFact(t, pc, reason) ==
    LET w == t.proto.words[pc]
    IN  [open |-> w.b = 0,
         reason |-> IF w.b = 0 THEN reason ELSE "none",
         arguments |-> [i \in 1..(IF w.b = 0 THEN 0 ELSE w.b - 1) |->
                          Unknown(reason, {Id(t.proto, pc)})]]

(* collect_calls and enumerate_calls_with_reason *)
CallFacts(t, ins, limit) ==
    [pc \in CallPcs(t) |->
        IF limit THEN ForcedFact(t, pc, "AnalysisLimit")
        ELSE IF BlockOf(t.cfg.nodes, pc) \in t.reach THEN CallFact(t, ins, pc)
        ELSE ForcedFact(t, pc, "Unreachable")]

(* parameter_root_path, as a sequence of at most one root *)
RECURSIVE ParameterRoot(_, _)
ParameterRoot(owner, e) ==
    IF IsA(e, "parameter") /\ e.label[2] = owner
    THEN <<[index |-> e.label[3], path |-> <<>>]>>
    ELSE IF ~IsA(e, "field") THEN <<>>
    ELSE [i \in DOMAIN ParameterRoot(owner, e.parts[1]) |->
            [ParameterRoot(owner, e.parts[1])[i] EXCEPT !.path = Append(@, e.label[2])]]

(* parameter_field_fact, as a set of at most one fact. The key is read at its
   own operand, which differs between reads and writes. *)
FieldFact(t, ins, pc) ==
    LET w == t.proto.words[pc]
        write == w.op = "SETTABLE"
        operand == IF write THEN w.b ELSE w.c
        base == OriginAt(StateBefore(t, ins[BlockOf(t.cfg.nodes, pc)], pc),
                         IF write THEN w.a ELSE w.b)
        root == ParameterRoot(t.proto.path, base)
    IN  IF w.op \in {"GETTABLE", "SELF", "SETTABLE"} /\ operand >= 256 /\ root # <<>>
        THEN {[pc |-> pc, parameter |-> root[1].index, path |-> root[1].path,
               key |-> t.proto.values[operand - 256], write |-> write]}
        ELSE {}

(* collect_parameter_fields *)
FieldFacts(t, ins) ==
    UNION {FieldFact(t, ins, pc) :
             pc \in {pc \in Executable(t.proto) : BlockOf(t.cfg.nodes, pc) \in t.reach}}

-----------------------------------------------------------------------------
(* Captures *)

(* reachable_blocks_after *)
BlocksAfter(t, b) == UNION {ReachableBlocks([t.cfg EXCEPT !.entry = s]) : s \in t.cfg.succ[b]}

(* q may be executed after pc. *)
MayFollow(t, pc, q) ==
    \/ q > pc /\ BlockOf(t.cfg.nodes, q) = BlockOf(t.cfg.nodes, pc)
    \/ BlockOf(t.cfg.nodes, q) \in BlocksAfter(t, BlockOf(t.cfg.nodes, pc))

(* effect_may_be_written_after, of a register and of an upvalue *)
RegisterWrittenAfter(t, pc, r) ==
    \E q \in Executable(t.proto) : MayWrite(t.proto.words[q], r) /\ MayFollow(t, pc, q)

UpvalueWrittenAfter(t, pc, u) ==
    \E q \in Executable(t.proto) :
        t.proto.words[q].op = "SETUPVAL" /\ t.proto.words[q].b = u /\ MayFollow(t, pc, q)

(* What a CLOSURE and its descriptor say of the captured value *)
DescribedCapture(t, state, pc, d) ==
    LET path == t.proto.path
    IN  IF d.op = "MOVE"
        THEN IF \/ d.b = t.proto.words[pc].a
                \/ IsLocalRegisterMutated(t.summary, path, d.b)
                \/ RegisterWrittenAfter(t, pc, d.b)
             THEN Unknown("MutableCapture", {}) ELSE OriginAt(state, d.b)
        ELSE IF \/ IsUpvalueSlotMutated(t.summary, path, d.b)
                \/ UpvalueWrittenAfter(t, pc, d.b)
             THEN Unknown("MutableCapture", {})
             ELSE IF d.b \in DOMAIN t.captures THEN t.captures[d.b]
             ELSE Unknown("AmbiguousCapture", {})

(* capture_from_descriptor *)
CapturedOrigin(t, ins, pc, slot) ==
    LET child == t.proto.kids[t.proto.words[pc].x]
        state == StateBefore(t, ins[BlockOf(t.cfg.nodes, pc)], pc)
        ev == {Id(t.proto, pc), Id(t.proto, pc + 1 + slot)}
        value == DescribedCapture(t, state, pc, t.proto.words[pc + 1 + slot])
    IN  IF IsChildSlotMutated(t.summary, child.path, slot) \/ ContainsTable(value)
        THEN Unknown("MutableCapture", ev)
        ELSE IF ContainsAlternatives(value) THEN Unknown("AmbiguousCapture", ev)
        ELSE AddEvidence(value, ev)

(* Two CLOSUREs of one child must agree. *)
MergeCaptures(d, e) ==
    IF SameShape(d, e) THEN UnionEvidence(d, e)
    ELSE Unknown("AmbiguousCapture", d.ev \cup e.ev)

ReachedClosures(t, i) ==
    SetToSortSeq({pc \in ClosuresOf(t.proto, i) : BlockOf(t.cfg.nodes, pc) \in t.reach}, <)

MergedCapture(t, ins, slot, closures) ==
    LET all == [n \in DOMAIN closures |-> CapturedOrigin(t, ins, closures[n], slot)]
    IN  FoldLeft(MergeCaptures, all[1], Tail(all))

(* derive_child_captures *)
ChildCaptures(t, ins) ==
    [i \in {i \in DOMAIN t.proto.kids : ReachedClosures(t, i) # <<>>} |->
        [s \in Slots(t.proto.kids[i]) |-> MergedCapture(t, ins, s, ReachedClosures(t, i))]]

(* unknown_capture_environment, of a child no reachable CLOSURE creates or of
   an analysis that ran out *)
ChildEnvironment(i) ==
    IF i \in DOMAIN children THEN children[i]
    ELSE [s \in Slots(task.proto.kids[i]) |-> Unknown("AmbiguousCapture", {})]

-----------------------------------------------------------------------------
(* The worklist *)

Init ==
    /\ \E input \in Inputs : task = OriginTask(input)
    /\ phase = "iterate"
    /\ in = [b \in task.reach |-> IF b = task.cfg.entry THEN EntryState(task)
                                  ELSE BottomState(task)]
    /\ out = [b \in task.reach |-> BottomState(task)]
    /\ skip = [b \in task.reach |-> <<>>]
    /\ worklist = task.order
    /\ steps = 0
    /\ revisits = [b \in task.reach |-> 0]
    /\ exhausted = FALSE
    /\ calls = [pc \in {} |-> {}]
    /\ fields = {}
    /\ children = [i \in {} |-> {}]

StepsAfter(b) == steps + Len(task.body[b])

(* A block whose end state or whose skip state changed is widened and its
   successors are visited again. *)
BlockChanged(b, flow) ==
    /\ flow.out # out[b] \/ flow.skip # skip[b]
    /\ revisits' = [revisits EXCEPT ![b] = @ + 1]
    /\ out' = [out EXCEPT ![b] = Widened(flow.out, @, revisits[b] + 1)]
    /\ skip' = [skip EXCEPT ![b] = flow.skip]
    /\ worklist' = PushSuccessors(Tail(worklist), task.edges[b])

BlockUnchanged(b, flow) ==
    /\ flow.out = out[b] /\ flow.skip = skip[b]
    /\ worklist' = Tail(worklist)
    /\ UNCHANGED <<revisits, out, skip>>

FlowInto(b, flow) == BlockChanged(b, flow) \/ BlockUnchanged(b, flow)

FlowThrough(b, incoming) ==
    /\ in' = [in EXCEPT ![b] = incoming]
    /\ FlowInto(b, BlockFlow(task, b, incoming))

(* One round of the loop within the budget *)
ProcessBlock ==
    /\ phase = "iterate"
    /\ ~exhausted
    /\ worklist # <<>>
    /\ StepsAfter(Head(worklist)) <= task.budget
    /\ steps' = StepsAfter(Head(worklist))
    /\ FlowThrough(Head(worklist), Incoming(task, out, skip, Head(worklist)))
    /\ UNCHANGED <<task, phase, exhausted, calls, fields, children>>

(* The round in which the budget runs out *)
Exhaust ==
    /\ phase = "iterate"
    /\ ~exhausted
    /\ worklist # <<>>
    /\ StepsAfter(Head(worklist)) > task.budget
    /\ in' = [in EXCEPT ![Head(worklist)] = Incoming(task, out, skip, Head(worklist))]
    /\ worklist' = Tail(worklist)
    /\ steps' = task.budget + 1
    /\ exhausted' = TRUE
    /\ UNCHANGED <<task, phase, out, skip, revisits, calls, fields, children>>

(* Mutant: what was found before the budget ran out is reported. *)
FinishRegardless ==
    /\ phase = "iterate"
    /\ worklist = <<>> \/ exhausted
    /\ phase' = "done"
    /\ calls' = CallFacts(task, in, exhausted)
    /\ fields' = FieldFacts(task, in)
    /\ children' = ChildCaptures(task, in)
    /\ UNCHANGED <<task, in, out, skip, worklist, steps, revisits, exhausted>>

(* analyze_proto_tree once the dataflow has ended *)
Finish ==
    /\ phase = "iterate"
    /\ worklist = <<>> \/ exhausted
    /\ phase' = "done"
    /\ calls' = CallFacts(task, in, exhausted)
    /\ fields' = IF exhausted THEN {} ELSE FieldFacts(task, in)
    /\ children' = IF exhausted THEN [i \in {} |-> {}] ELSE ChildCaptures(task, in)
    /\ UNCHANGED <<task, in, out, skip, worklist, steps, revisits, exhausted>>

Next == ProcessBlock \/ Exhaust \/ Finish

Spec == Init /\ [][Next]_vars
=============================================================================
