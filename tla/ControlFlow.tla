---------------------------- MODULE ControlFlow ----------------------------
(***************************************************************************)
(* From code vector to dominators: a prototype is classified, validated    *)
(* and lifted by its dialect (Lua51Code to Lua55Code), its control-flow    *)
(* graph is built (CodeGraph) and the graph algorithms of Dominators run   *)
(* over it. Graphs given directly as adjacency lists                       *)
(* (ControlFlowGraph::from_adjacency_list) take the second half only.      *)
(*                                                                         *)
(* The properties relate the graph to what the virtual machine can do with *)
(* the same words, for the dialects the analyses support (Lua 5.1 and      *)
(* 5.4), and the lifted effects to what the validator lets through.        *)
(***************************************************************************)
EXTENDS CodeGraph, Dominators

CONSTANTS
    Prototypes,     \* families of prototypes with at least one word
    AdjacencyLists  \* graphs given directly

ASSUME InputsAssumption ==
    /\ \A f \in DOMAIN Prototypes : \A p \in Prototypes[f] : IsPrototype(p)
    /\ \A h \in AdjacencyLists : IsGraph(h)

VARIABLE proto      \* the prototype the graph was built from, or NoProto

L51 == INSTANCE Lua51Effects

NoProto == [dialect |-> "5.1", words |-> [pc \in {} |-> {}], maxstack |-> 0, nups |-> 0,
            consts |-> 0, kids |-> [i \in {} |-> {}]]

CfInit ==
    \/ \E f \in DOMAIN Prototypes : \E p \in Prototypes[f] : proto = p /\ InitWith(BuildCfg(p))
    \/ proto = NoProto /\ \E h \in AdjacencyLists : InitWith(h)

CfNext == Next /\ UNCHANGED proto

CfVars == <<vars, proto>>

CfSpec == CfInit /\ [][CfNext]_CfVars

CfFairSpec == CfSpec /\ WF_CfVars(CfNext)

-----------------------------------------------------------------------------
(* The virtual machine (lvm.c, not in the repository): the words control   *)
(* may be at after the instruction at pc.                                  *)

Vm51Steps(p, pc) ==
    LET w == p.words[pc]
    IN  CASE w.op \in {"JMP", "FORPREP"} -> {w.x}
          [] w.op = "FORLOOP" -> {w.x, pc + 1}
          [] w.op \in SkipOps -> {pc + 1, pc + 2}
          [] w.op = "LOADBOOL" /\ w.c # 0 -> {pc + 2}
          [] w.op = "RETURN" -> {}
          [] w.op = "CLOSURE" -> {pc + 1 + p.kids[w.x].nups}
          [] w.op = "SETLIST" /\ w.c = 0 -> {pc + 2}
          [] OTHER -> {pc + 1}

(* Words of Lua 5.4 that read the next one as their argument, and operators,
   which go past the fallback after them unless they need it *)
TakesExtra(w) == w.op \in {"LOADKX", "NEWTABLE"} \/ (w.op = "SETLIST" /\ w.k # 0)
IsOperator(w) == w.op \in L54!BinaryOps \cup L54!ConstantOps \cup L54!ImmediateOps

(* In Lua 5.4 the preparation of a numeric loop enters the loop or goes past
   its FORLOOP. *)
Vm54Steps(p, pc) ==
    LET w == p.words[pc]
    IN  CASE w.op = "JMP" -> {w.x}
          [] w.op = "FORPREP" -> {pc + 1, pc + 2 + w.x}
          [] w.op = "TFORPREP" -> {pc + 1 + w.x}
          [] w.op \in L54!BackwardOps -> {pc + 1 - w.x, pc + 1}
          [] w.op = "LFALSESKIP" -> {pc + 2}
          [] w.op \in L54!SkipOps \ {"LFALSESKIP"} -> {pc + 1, pc + 2}
          [] IsOperator(w) -> {pc + 1, pc + 2}
          [] w.op \in {"RETURN", "RETURN0", "RETURN1"} -> {}
          [] TakesExtra(w) -> {pc + 2}
          [] OTHER -> {pc + 1}

VmSteps(p, pc) == IF p.dialect = "5.1" THEN Vm51Steps(p, pc) ELSE Vm54Steps(p, pc)

(* The words control reaches from word 0. *)
VmReachable(p) ==
    LET wave[n \in 0..NumWords(p)] ==
            IF n = 0 THEN {0}
            ELSE wave[n - 1]
                   \cup ((UNION {VmSteps(p, pc) : pc \in wave[n - 1]}) \cap Pcs(p))
    IN  wave[NumWords(p)]

-----------------------------------------------------------------------------
(* Properties *)

(* An accepted prototype of a dialect with graphs, before the search *)
IsStart ==
    /\ phase = "search" /\ reach = {} /\ proto # NoProto
    /\ proto.dialect \in {"5.1", "5.4"} /\ Accepted(proto)

(* What compilers of Lua 5.4 emit and its validator does not ask for: every
   preparation of a numeric loop is aimed at the FORLOOP of the loop, *)
LoopsAreClosed(p) ==
    \A pc \in Pcs(p) : p.words[pc].op = "FORPREP" =>
        LET to == pc + 1 + p.words[pc].x
        IN  to \in Pcs(p) /\ p.words[to].op = "FORLOOP"

(* and an extra argument or a fallback follows the word it is for, and nothing
   jumps to it. *)
IsCompanion(w) == w.op \in L54!FallbackOps \cup {"EXTRAARG"}

ArePaired(p) ==
    \A pc \in Pcs(p) :
        /\ TakesExtra(p.words[pc]) \/ IsOperator(p.words[pc]) =>
              pc + 1 \in Pcs(p) /\ IsCompanion(p.words[pc + 1])
        /\ \A t \in Targets(p, pc) \cap Pcs(p) : ~IsCompanion(p.words[t])

IsCompiled(p) == p.dialect = "5.4" => LoopsAreClosed(p) /\ ArePaired(p)

(* In a prototype the validator accepts, control never reaches a companion
   word: no jump, skip or fall-through executes a descriptor of a CLOSURE or
   the extra word of a SETLIST as if it were an instruction. *)
ControlStaysOnInstructions ==
    (IsStart /\ proto.dialect = "5.1") => VmReachable(proto) \subseteq Instructions(proto)

(* The graph of an accepted prototype over-approximates the machine: a step
   from an instruction stays in its block and goes forward, or it goes along
   an edge to the start of a block. Only the exit of a numeric loop of Lua 5.4
   that is never entered takes two edges: the lifter aims FORPREP at the
   FORLOOP, from where the exit is one edge away. *)
CfgCoversExecution ==
    (IsStart /\ IsCompiled(proto)) =>
        LET exec == Executable(proto)
            leaders == Leaders(proto, exec)
        IN  \A pc \in VmReachable(proto) :
              \A to \in VmSteps(proto, pc) \cap Pcs(proto) :
                LET from == BlockOf(leaders, pc)
                    ends == IF proto.dialect = "5.4" /\ proto.words[pc].op = "FORPREP"
                            THEN {from} \cup g.succ[from] ELSE {from}
                IN  \/ to > pc /\ to \in Body(exec, leaders, from)
                    \/ to \in leaders /\ \E b \in ends : to \in g.succ[b]

(* A word the machine can reach is in a block the search marks. *)
ReachedWordsAreMarked ==
    (/\ phase = "done" /\ proto # NoProto /\ proto.dialect \in {"5.1", "5.4"}
     /\ Accepted(proto) /\ IsCompiled(proto)) =>
        \A pc \in VmReachable(proto) : BlockOf(g.nodes, pc) \in reach

(* What the lifter of the dialect says the word at pc reads and writes *)
EffectsOf(p, pc) ==
    CASE p.dialect = "5.1" -> L51!Effects(p, pc)
      [] p.dialect = "5.2" -> L52!Effects(p.words[pc])
      [] p.dialect = "5.3" -> L53!Effects(p.words[pc])
      [] p.dialect = "5.4" -> L54!Effects(p, pc)
      [] p.dialect = "5.5" -> L55!Effects(p, pc)

Undeclared(p, pc) ==
    {o \in EffectsOf(p, pc).reads \cup EffectsOf(p, pc).writes : ~L51!IsDeclared(p, o)}

(* The words whose window the validator lets end one register too far: it
   counts the register after the window, or a list without a count. *)
EndsOneTooFar(p, pc) ==
    \/ p.dialect \in {"5.2", "5.3"} /\ p.words[pc].op \in {"CALL", "TAILCALL", "TFORCALL"}
    \/ p.dialect \in {"5.1", "5.2", "5.3"} /\ p.words[pc].op = "SETLIST"

(* What an accepted word reads and writes is declared by its prototype: the
   lifter and the validator, which decode every operand separately, agree on
   which fields are registers, constants and upvalues, and how far windows
   go. A window that ends one too far ends at most one too far. Lua 5.4 only
   warns of registers. *)
AcceptedOperandsAreDeclared ==
    (phase = "search" /\ reach = {} /\ proto # NoProto /\ proto.dialect # "5.4"
       /\ Accepted(proto)) =>
        \A pc \in Executable(proto) :
            IF EndsOneTooFar(proto, pc)
            THEN Undeclared(proto, pc) \subseteq {L51!R(proto.maxstack)}
            ELSE Undeclared(proto, pc) = {}
=============================================================================
