----------------------------- MODULE CodeGraph -----------------------------
(***************************************************************************)
(* The control-flow graph of a prototype of any dialect (cfg.rs), built    *)
(* over what the lifter of its dialect says of each word.                  *)
(***************************************************************************)
EXTENDS Lua51Code

L52 == INSTANCE Lua52Code
L53 == INSTANCE Lua53Code
L54 == INSTANCE Lua54Code
L55 == INSTANCE Lua55Code

(* The words that own themselves: only Lua 5.1 has companion roles. *)
Executable(proto) ==
    IF proto.dialect = "5.1" THEN Instructions(proto) ELSE Pcs(proto)

(* jump_target and the skip targets of the lifted instruction at pc *)
Targets(proto, pc) ==
    LET w == proto.words[pc]
    IN  CASE proto.dialect = "5.1" -> JumpTargets(w) \cup SkipTargets(w, pc)
          [] proto.dialect \in {"5.2", "5.3"} ->
                L52!JumpTargets(w) \cup L52!SkipTargets(w, pc)
          [] proto.dialect \in {"5.4", "5.5"} ->
                L54!JumpTargets(w, pc) \cup L54!SkipTargets(w, pc)

(* Whether the validator of the dialect finds no error in the prototype *)
Accepted(proto) ==
    CASE proto.dialect = "5.1" -> ValidForParser(proto)
      [] proto.dialect = "5.2" -> \A pc \in Pcs(proto) : L52!WordErrors(proto, pc) = {}
      [] proto.dialect = "5.3" -> \A pc \in Pcs(proto) : L53!WordErrors(proto, pc) = {}
      [] proto.dialect = "5.4" -> \A pc \in Pcs(proto) : L54!WordErrors(proto, pc) = {}
      [] proto.dialect = "5.5" -> \A pc \in Pcs(proto) : L55!WordErrors(proto, pc) = {}

-----------------------------------------------------------------------------
(* ControlFlowGraph::build. A block is named by its start pc. *)

(* next_executable_pc, as the set with that pc, or empty *)
NextExecutable(exec, from) ==
    LET later == {pc \in exec : pc >= from}
    IN  IF later = {} THEN {} ELSE {Min(later)}

(* Mutant: only targets lead blocks, what follows a branch does not. *)
LeadersAtTargets(proto, exec) ==
    NextExecutable(exec, 0) \cup UNION {Targets(proto, pc) \cap exec : pc \in exec}

Returns(w) == w.op \in {"RETURN", "RETURN0", "RETURN1"}

(* Block leaders: the first instruction, every target that is not a
   companion, and whatever follows a branch, a skip or a return. *)
Leaders(proto, exec) ==
    LET ends == {pc \in exec : Targets(proto, pc) # {} \/ Returns(proto.words[pc])}
    IN  NextExecutable(exec, 0)
          \cup (UNION {Targets(proto, pc) \cap exec : pc \in exec})
          \cup (UNION {NextExecutable(exec, pc + 1) : pc \in ends})

(* pc_to_block: companions belong to the block that precedes them. *)
BlockOf(leaders, pc) == Max({l \in leaders : l <= pc})

Body(exec, leaders, block) ==
    {pc \in exec : pc >= block /\ BlockOf(leaders, pc) = block}

(* Mutant: a FORLOOP always loops. *)
FallsThroughUnlessJump(w) == ~Returns(w) /\ w.op \notin {"JMP", "FORLOOP"}

FallsThrough(w) == ~Returns(w) /\ w.op # "JMP"

(* Branches and skips to a word of some block, then the fall-through. *)
Successors(proto, exec, leaders, block) ==
    LET last == Max(Body(exec, leaders, block))
        branch == {BlockOf(leaders, t) : t \in Targets(proto, last) \cap Pcs(proto)}
        next == {l \in leaders : l > block}
        fallthrough == IF FallsThrough(proto.words[last]) /\ next # {}
                       THEN {Min(next)} ELSE {}
    IN  branch \cup fallthrough

(* The graph has the form Dominators works on. *)
BuildCfg(proto) ==
    LET exec == Executable(proto)
        leaders == Leaders(proto, exec)
    IN  [nodes |-> leaders,
         entry |-> Min(leaders),
         succ  |-> [b \in leaders |-> Successors(proto, exec, leaders, b)]]
=============================================================================
