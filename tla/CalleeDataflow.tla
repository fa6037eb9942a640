--------------------------- MODULE CalleeDataflow ---------------------------
(***************************************************************************)
(* The callee analysis of one prototype (analyze_callees and run_dataflow  *)
(* in callees.rs): a worklist of basic blocks, seeded in reverse           *)
(* postorder, that recomputes abstract register states until nothing       *)
(* changes or the budget of transfer steps is spent, then one fact for     *)
(* every CALL and TAILCALL.                                                *)
(***************************************************************************)
EXTENDS FlowValues, BlockWorklist

CONSTANT
    Inputs   \* records [proto, captures, budget] the analysis may be given;
             \* budget stands for MAX_TRANSFER_STEPS

(* An instruction has at most two successors, so that a block has at most
   two edges. *)
IsTask(t) ==
    /\ t.cfg.entry \in t.reach
    /\ t.order \in Seq(t.reach)
    /\ \A b \in t.reach :
          /\ IsIn(b, t.order)
          /\ t.edges[b] \in Seq(t.reach)
          /\ Len(t.edges[b]) <= 2
          /\ \A s \in t.reach : IsIn(s, t.edges[b]) <=> s \in t.cfg.succ[b]
          /\ Len(t.body[b]) \in Nat
    /\ t.budget \in Nat

ASSUME InputsAssumption == \A input \in Inputs : IsTask(Task(input))

VARIABLES
    task,       \* what is analysed, fixed
    phase,      \* "iterate" -> "done"
    in, out,    \* in_states and out_states of the reachable blocks
    worklist,   \* blocks to process, first in first out
    steps,      \* transfer steps taken
    exhausted,  \* the budget was exceeded
    facts       \* the resolution of each call instruction, once done

vars == <<task, phase, in, out, worklist, steps, exhausted, facts>>

-----------------------------------------------------------------------------

BottomState(t) == [r \in Registers(t.proto) |-> Bottom]

(* Nothing is known of a frame on entry. *)
EntryState(t) == [r \in Registers(t.proto) |-> Unknown("MissingDefinition")]

(* The predecessors that count: an unreachable one keeps a Bottom state,
   which changes no meet. *)
Preds(t, b) == {p \in t.reach : b \in t.cfg.succ[p]}

(* meet_predecessors, over the out states of the predecessors alone *)
MeetStates(t, states) ==
    [r \in Registers(t.proto) |->
        FoldFunction(MeetValue, Bottom, [p \in DOMAIN states |-> states[p][r]])]

(* The state before a block: the entry block keeps the state of a fresh
   frame, even when an edge leads back to it. *)
Incoming(t, outs, b) ==
    IF b = t.cfg.entry THEN EntryState(t)
    ELSE MeetStates(t, [p \in Preds(t, b) |-> outs[p]])

(* The states along a block that begins in state: the one before the word at
   pc, which only the instructions of the block change. *)
Replay(t, b, state) ==
    LET before[pc \in b..NumWords(t.proto)] ==
            IF pc = b THEN state
            ELSE IF pc - 1 \in DOMAIN t.block /\ t.block[pc - 1] = b
            THEN Transfer(t.proto, t.captures, pc - 1, before[pc - 1])
            ELSE before[pc - 1]
    IN  before

(* The state after the instructions of a block *)
BlockFlow(t, b, state) == Replay(t, b, state)[NumWords(t.proto)]

-----------------------------------------------------------------------------
(* Facts *)

Calls(t) ==
    {pc \in Executable(t.proto) : t.proto.words[pc].op \in {"CALL", "TAILCALL"}}

Unresolved(reason) == [status |-> "unresolved", reason |-> reason]
Resolved(value) == [status |-> "resolved", kind |-> value.kind, evidence |-> value.evidence]

(* fact_from_state: the resolution of a callee register holding value *)
Resolution(value) ==
    CASE value.tag = "bottom" -> Unresolved("MissingDefinition")
      [] value.tag = "unknown" -> Unresolved(value.reason)
      [] IsKnown(value) ->
            IF value.kind.shape \in {"NonClosure", "LiteralString"}
            THEN Unresolved("UnsupportedValue")
            ELSE Resolved(value)

(* The state before the instruction at pc, replayed from the in state of its
   block. *)
StateBefore(t, ins, pc) == Replay(t, t.block[pc], ins[t.block[pc]])[pc]

(* collect_final_calls *)
FinalFacts(t, ins) ==
    [pc \in Calls(t) |->
        IF t.block[pc] \in t.reach
        THEN Resolution(GetRegister(StateBefore(t, ins, pc), t.proto.words[pc].a))
        ELSE Unresolved("Unreachable")]

(* enumerate_with_reason *)
LimitFacts(t) == [pc \in Calls(t) |-> Unresolved("AnalysisLimit")]

-----------------------------------------------------------------------------
(* The worklist *)

Init ==
    /\ \E input \in Inputs : task = Task(input)
    /\ phase = "iterate"
    /\ in = [b \in task.reach |-> IF b = task.cfg.entry THEN EntryState(task)
                                  ELSE BottomState(task)]
    /\ out = [b \in task.reach |-> BottomState(task)]
    /\ worklist = task.order
    /\ steps = 0
    /\ exhausted = FALSE
    /\ facts = [pc \in {} |-> {}]

(* Mutant: label keys are compared as floats, and a NaN is never the same. *)
SameStateAsFloats(s, t) ==
    /\ s = t
    /\ \A r \in DOMAIN s :
          IsKnown(s[r]) => s[r].kind.shape # "LookupLabel" \/ s[r].kind.key # NaN

(* The equality of register states: label keys are compared bit by bit. *)
SameState(s, t) == s = t

(* The transfer steps once block b is processed *)
StepsAfter(b) == steps + Len(task.body[b])

(* One round of the loop within the budget. *)
ProcessBlock ==
    /\ phase = "iterate"
    /\ ~exhausted
    /\ worklist # <<>>
    /\ LET b == Head(worklist)
           incoming == Incoming(task, out, b)
           outgoing == BlockFlow(task, b, incoming)
       IN  /\ StepsAfter(b) <= task.budget
           /\ in' = [in EXCEPT ![b] = incoming]
           /\ out' = [out EXCEPT ![b] = outgoing]
           /\ worklist' = IF SameState(outgoing, out[b]) THEN Tail(worklist)
                          ELSE PushSuccessors(Tail(worklist), task.edges[b])
           /\ steps' = StepsAfter(b)
    /\ UNCHANGED <<task, phase, exhausted, facts>>

(* Mutant: the budget is looked at after the block instead of at every
   instruction. *)
ExhaustAfterBlock ==
    /\ phase = "iterate"
    /\ ~exhausted
    /\ worklist # <<>>
    /\ LET b == Head(worklist)
       IN  /\ StepsAfter(b) > task.budget
           /\ in' = [in EXCEPT ![b] = Incoming(task, out, b)]
           /\ worklist' = Tail(worklist)
           /\ steps' = StepsAfter(b)
    /\ exhausted' = TRUE
    /\ UNCHANGED <<task, phase, out, facts>>

(* The round in which the budget runs out: the block's out state is not
   stored and nothing is queued. *)
Exhaust ==
    /\ phase = "iterate"
    /\ ~exhausted
    /\ worklist # <<>>
    /\ LET b == Head(worklist)
       IN  /\ StepsAfter(b) > task.budget
           /\ in' = [in EXCEPT ![b] = Incoming(task, out, b)]
           /\ worklist' = Tail(worklist)
           /\ steps' = task.budget + 1
    /\ exhausted' = TRUE
    /\ UNCHANGED <<task, phase, out, facts>>

(* Mutant: facts are collected from the states however the loop ended. *)
FinishRegardless ==
    /\ phase = "iterate"
    /\ worklist = <<>> \/ exhausted
    /\ phase' = "done"
    /\ facts' = FinalFacts(task, in)
    /\ UNCHANGED <<task, in, out, worklist, steps, exhausted>>

Finish ==
    /\ phase = "iterate"
    /\ worklist = <<>> \/ exhausted
    /\ phase' = "done"
    /\ facts' = IF exhausted THEN LimitFacts(task) ELSE FinalFacts(task, in)
    /\ UNCHANGED <<task, in, out, worklist, steps, exhausted>>

Next == ProcessBlock \/ Exhaust \/ Finish

Spec == Init /\ [][Next]_vars

-----------------------------------------------------------------------------
(* Properties *)

TypeOK ==
    /\ phase \in {"iterate", "done"}
    /\ DOMAIN in = task.reach /\ DOMAIN out = task.reach
    /\ worklist \in Seq(task.reach)
    /\ steps \in 0..(task.budget + 1)
    /\ exhausted \in BOOLEAN
    /\ phase = "done" => DOMAIN facts = Calls(task)

(* An analysis that ends within its budget ends at a fixed point: every block
   is consistent with its predecessors and with its own instructions. *)
EndsAtFixpoint ==
    (phase = "done" /\ ~exhausted) =>
        \A b \in task.reach :
            /\ in[b] = Incoming(task, out, b)
            /\ out[b] = BlockFlow(task, b, in[b])

(* The bound the repository's own model of the analysis iterates to, in
   transfer steps: n words, n * n + 8 rounds over them. *)
IterationBound(t) == NumWords(t.proto) * (NumWords(t.proto) * NumWords(t.proto) + 8)

(* With at least that budget the analysis does not run out. *)
SettlesWithinBound ==
    (phase = "done" /\ task.budget >= IterationBound(task)) => ~exhausted
=============================================================================
