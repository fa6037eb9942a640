----------------------------- MODULE Dominators -----------------------------
(***************************************************************************)
(* The graph algorithms of luad's control-flow graph (cfg.rs): breadth-    *)
(* first reachability, the iterative computation of dominator sets, the    *)
(* immediate dominators and the dominance frontiers read from them.        *)
(*                                                                         *)
(* A graph is [nodes, entry, succ]: block numbers, the entry block, and    *)
(* the set of successors of every block.                                   *)
(***************************************************************************)
EXTENDS Integers, FiniteSets, FiniteSetsExt

CONSTANT Graphs     \* the graphs the construction may be given

IsGraph(h) ==
    /\ IsFiniteSet(h.nodes) /\ h.nodes \subseteq Nat
    /\ h.entry \in h.nodes
    /\ h.succ \in [h.nodes -> SUBSET h.nodes]

ASSUME GraphsAssumption == \A h \in Graphs : IsGraph(h)

VARIABLES
    g,         \* the graph, fixed
    phase,     \* "search" -> "sweep" -> "done"
    reach,     \* blocks whose is_reachable flag is set
    queue,     \* blocks visited but not popped yet
    doms,      \* the dominator set of every reachable block, so far
    pending,   \* blocks this sweep has still to recompute
    changed    \* this sweep changed a set

vars == <<g, phase, reach, queue, doms, pending, changed>>

NoBlock == -1

Predecessors(h, n) == {p \in h.nodes : n \in h.succ[p]}

-----------------------------------------------------------------------------

InitWith(h) ==
    /\ g = h
    /\ phase = "search"
    /\ reach = {}
    /\ queue = {h.entry}
    /\ doms = [b \in {} |-> {}]
    /\ pending = {}
    /\ changed = FALSE

Init == \E h \in Graphs : InitWith(h)

(* Mutant: the blocks waiting are forgotten when new ones are found. *)
VisitForgetful ==
    /\ phase = "search"
    /\ \E b \in queue :
         /\ reach' = reach \cup {b}
         /\ queue' = IF g.succ[b] \subseteq reach \cup {b} THEN queue \ {b}
                     ELSE g.succ[b] \ (reach \cup {b})
    /\ UNCHANGED <<g, phase, doms, pending, changed>>

(* Pop a block of the queue, mark it, queue what was not visited before.
   Which block is popped first does not matter: any may be. *)
Visit ==
    /\ phase = "search"
    /\ \E b \in queue :
         /\ reach' = reach \cup {b}
         /\ queue' = (queue \cup (g.succ[b] \ reach)) \ {b}
    /\ UNCHANGED <<g, phase, doms, pending, changed>>

(* Mutant: every block starts with itself as its only dominator. *)
StartDominatorsLow ==
    /\ phase = "search"
    /\ queue = {}
    /\ phase' = "sweep"
    /\ doms' = [b \in reach |-> {b}]
    /\ changed' = TRUE
    /\ UNCHANGED <<g, reach, queue, pending>>

(* The entry is dominated by itself, every other block by all at first. *)
StartDominators ==
    /\ phase = "search"
    /\ queue = {}
    /\ phase' = "sweep"
    /\ doms' = [b \in reach |-> IF b = g.entry THEN {b} ELSE reach]
    /\ changed' = TRUE
    /\ UNCHANGED <<g, reach, queue, pending>>

(* Mutant: the sweep recomputes the entry too. *)
StartSweepEverywhere ==
    /\ phase = "sweep"
    /\ pending = {}
    /\ changed
    /\ pending' = reach
    /\ changed' = FALSE
    /\ UNCHANGED <<g, phase, reach, queue, doms>>

StartSweep ==
    /\ phase = "sweep"
    /\ pending = {}
    /\ changed
    /\ pending' = reach \ {g.entry}
    /\ changed' = FALSE
    /\ UNCHANGED <<g, phase, reach, queue, doms>>

(* A block is dominated by itself and by what dominates all its reachable
   predecessors; a block that has none keeps its set. *)
NewDoms(b) ==
    LET preds == Predecessors(g, b) \cap reach
    IN  IF preds = {} THEN doms[b]
        ELSE {b} \cup {d \in reach : \A p \in preds : d \in doms[p]}

(* Mutant: every set that is recomputed counts as changed. *)
RecomputeRestless ==
    /\ phase = "sweep"
    /\ \E b \in pending :
         /\ \A x \in pending : b <= x
         /\ doms' = [doms EXCEPT ![b] = NewDoms(b)]
         /\ changed' = TRUE
         /\ pending' = pending \ {b}
    /\ UNCHANGED <<g, phase, reach, queue>>

(* The sweep goes through the blocks in ascending order. *)
Recompute ==
    /\ phase = "sweep"
    /\ \E b \in pending :
         /\ \A x \in pending : b <= x
         /\ doms' = [doms EXCEPT ![b] = NewDoms(b)]
         /\ changed' = (changed \/ NewDoms(b) # doms[b])
         /\ pending' = pending \ {b}
    /\ UNCHANGED <<g, phase, reach, queue>>

Converge ==
    /\ phase = "sweep"
    /\ pending = {}
    /\ ~changed
    /\ phase' = "done"
    /\ UNCHANGED <<g, reach, queue, doms, pending, changed>>

Next == Visit \/ StartDominators \/ StartSweep \/ Recompute \/ Converge

Spec == Init /\ [][Next]_vars

-----------------------------------------------------------------------------
(* What is read from the converged sets *)

(* Mutant: the first strict dominator, whatever the others dominate. *)
FirstStrictDominator(b) ==
    LET strict == doms[b] \ {b}
    IN  IF b = g.entry \/ strict = {} THEN NoBlock ELSE Min(strict)

(* The first strict dominator, in ascending order, that every other strict
   dominator dominates. *)
ImmediateDominator(b) ==
    LET strict == doms[b] \ {b}
        closest == {c \in strict : \A o \in strict : o = c \/ o \in doms[c]}
    IN  IF b = g.entry \/ closest = {} THEN NoBlock ELSE Min(closest)

(* The blocks a runner that starts at p passes before it stops: at the
   immediate dominator of b, above the entry, or off the reachable blocks. *)
RunnerPath(p, b) ==
    LET stop == ImmediateDominator(b)
        at[n \in 0..Cardinality(reach)] ==
            IF n = 0 THEN p
            ELSE IF at[n - 1] \in reach \ {stop}
                 THEN ImmediateDominator(at[n - 1]) ELSE NoBlock
    IN  {at[n] : n \in 0..Cardinality(reach)} \cap (reach \ {stop})

(* Only a block with two predecessors or more is in a frontier. *)
DominanceFrontier(n) ==
    {b \in reach :
        /\ Cardinality(Predecessors(g, b)) >= 2
        /\ \E p \in Predecessors(g, b) : n \in RunnerPath(p, b)}

-----------------------------------------------------------------------------
(* Reference definitions *)

(* S holds every block that a path from the entry reaches without entering
   d, or more. *)
AvoidsClosed(h, d, S) ==
    /\ h.entry # d => h.entry \in S
    /\ \A x \in S : h.succ[x] \ {d} \subseteq S

(* d dominates b: b cannot be reached from the entry once d is removed. *)
Dominates(h, d, b) == \E S \in SUBSET h.nodes : AvoidsClosed(h, d, S) /\ b \notin S

StrictlyDominates(h, d, b) == d # b /\ Dominates(h, d, b)

(* Cytron's frontier of n: the blocks n reaches the edge of, dominating a
   predecessor and not strictly dominating the block itself. *)
FrontierByDefinition(n) ==
    {b \in reach :
        /\ \E p \in Predecessors(g, b) \cap reach : Dominates(g, n, p)
        /\ ~StrictlyDominates(g, n, b)}

-----------------------------------------------------------------------------
(* Properties *)

TypeOK ==
    /\ IsGraph(g)
    /\ phase \in {"search", "sweep", "done"}
    /\ reach \subseteq g.nodes
    /\ queue \subseteq g.nodes
    /\ pending \subseteq reach \ {g.entry}
    /\ changed \in BOOLEAN
    /\ phase # "search" => doms \in [reach -> SUBSET reach]

(* When the search is over the marked blocks are exactly the reachable ones:
   they hold the entry, no edge leaves them, and no smaller set has both. *)
ReachIsExact ==
    phase # "search" =>
        /\ g.entry \in reach
        /\ \A b \in reach : g.succ[b] \subseteq reach
        /\ \A S \in SUBSET reach :
              (g.entry \in S /\ \A b \in S : g.succ[b] \subseteq S) => S = reach

(* When the sweeps have converged, a block is in the set of another exactly
   when removing it cuts the other from the entry. *)
DominatorsAreExact ==
    phase = "done" =>
        \A d, b \in reach : d \in doms[b] <=> Dominates(g, d, b)

(* The last of the strict dominators of b on any path to it *)
IsClosestDominator(c, b) ==
    /\ c \in reach
    /\ StrictlyDominates(g, c, b)
    /\ \A o \in reach : StrictlyDominates(g, o, b) => Dominates(g, o, c)

(* What is read off the dominators: every reachable block but the entry has
   an immediate dominator, the closest one; and the frontiers (cfg.rs:410) are
   those of the definition as far as blocks other than the entry go. An entry
   block that one edge leads back to is in the frontier of the blocks of that
   loop too, and the code leaves it out. *)
DominatorTreeIsExact ==
    phase = "done" =>
        /\ \A b \in reach \ {g.entry} : IsClosestDominator(ImmediateDominator(b), b)
        /\ \A n \in reach :
              DominanceFrontier(n) \ {g.entry} = FrontierByDefinition(n) \ {g.entry}

(* The loop runs as long as it has work to do. *)
FairSpec == Spec /\ WF_vars(Next)

(* The sweeps come to an end on every graph. *)
Converges == <>(phase = "done")
=============================================================================
