---------------------------- MODULE BlockWorklist ----------------------------
(***************************************************************************)
(* The worklist of basic blocks that callees.rs and origins.rs both keep:  *)
(* first in first out, and a block that waits is not queued twice. The     *)
(* queued set of the code always holds exactly the blocks of the worklist, *)
(* and is left out.                                                        *)
(***************************************************************************)
EXTENDS CodeGraph, SequencesExt

(* The blocks that edges lead to from the entry *)
ReachableBlocks(cfg) ==
    LET wave[n \in 0..Cardinality(cfg.nodes)] ==
            IF n = 0 THEN {cfg.entry}
            ELSE wave[n - 1] \cup UNION {cfg.succ[b] : b \in wave[n - 1]}
    IN  wave[Cardinality(cfg.nodes)]

(* One step of the depth-first search that takes successors in ascending
   order: the path to the block it is at, what it has seen, and the blocks it
   has left, the last one first. *)
SearchStep(cfg, search) ==
    LET block == search.path[1]
        unseen == cfg.succ[block] \ search.seen
    IN  IF search.path = <<>> THEN search
        ELSE IF unseen = {}
        THEN [search EXCEPT !.path = Tail(@), !.left = <<block>> \o @]
        ELSE [search EXCEPT !.path = <<Min(unseen)>> \o @, !.seen = @ \cup {Min(unseen)}]

(* The reachable blocks in the order in which the worklist is seeded: every
   block is entered and left once. *)
ReversePostorder(cfg) ==
    FoldLeft(LAMBDA search, n : SearchStep(cfg, search),
             [path |-> <<cfg.entry>>, seen |-> {cfg.entry}, left |-> <<>>],
             [n \in 1..(2 * Cardinality(cfg.nodes)) |-> n]).left

(* The successors of a block in the order of its edges: the branch first,
   the fall-through to the next block last. *)
EdgeOrder(cfg, b) ==
    LET falls == {s \in cfg.succ[b] : s > b /\ \A l \in cfg.nodes : l > b => s <= l}
    IN  SetToSeq(cfg.succ[b] \ falls) \o SetToSeq(falls)

(* Everything the analysis reads and does not change: the prototype, its
   graph with the block of each instruction (pc_to_block), its reachable
   blocks and, for each, its instructions and its edges in order. *)
Task(input) ==
    LET exec == Executable(input.proto)
        cfg == BuildCfg(input.proto)
    IN  [proto |-> input.proto, captures |-> input.captures, budget |-> input.budget,
         cfg |-> cfg, block |-> [pc \in exec |-> BlockOf(cfg.nodes, pc)],
         reach |-> ReachableBlocks(cfg), order |-> ReversePostorder(cfg),
         edges |-> [b \in cfg.nodes |-> EdgeOrder(cfg, b)],
         body |-> [b \in cfg.nodes |->
                     SelectSeq([n \in 1..NumWords(input.proto) |-> n - 1],
                               LAMBDA p : p \in Body(exec, cfg.nodes, b))]]

(* x is an element of the sequence q *)
IsIn(x, q) == \E i \in 1..Len(q) : q[i] = x

(* queued.insert and push_back: a block that waits already is not queued
   again. *)
Push(q, b) == IF IsIn(b, q) THEN q ELSE Append(q, b)

(* Mutant: only the first edge is followed. *)
PushFirstSuccessor(q, edges) == IF Len(edges) = 0 THEN q ELSE Push(q, edges[1])

PushSuccessors(q, edges) ==
    IF Len(edges) = 0 THEN q
    ELSE IF Len(edges) = 1 THEN Push(q, edges[1])
    ELSE Push(Push(q, edges[1]), edges[2])
=============================================================================
