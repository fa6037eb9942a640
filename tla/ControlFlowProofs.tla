------------------------- MODULE ControlFlowProofs -------------------------
(***************************************************************************)
(* Theorems about Dominators, for every set of graphs, and ControlFlow,    *)
(* for every set of prototypes.                                            *)
(*                                                                         *)
(* The search invariant says that everything marked or queued is reachable *)
(* and that the edges of marked blocks have been followed. The sweep       *)
(* invariant says that a dominator is never lost, and that a sweep which   *)
(* has not changed anything leaves behind it only blocks whose set is the  *)
(* one its predecessors give.                                              *)
(***************************************************************************)
EXTENDS ControlFlow, CodeGraphProofs

(* b is in every set that contains the entry and is closed under edges *)
IsReachable(h, b) ==
    \A S \in SUBSET h.nodes :
        (h.entry \in S /\ \A x \in S : h.succ[x] \subseteq S) => b \in S

SearchInv ==
    /\ g.entry \in reach \cup queue
    /\ \A b \in reach : g.succ[b] \subseteq reach \cup queue
    /\ \A b \in reach \cup queue : IsReachable(g, b)
    /\ phase # "search" => queue = {}

(* A block that is missing from a set does not dominate it. *)
KeepsDominators ==
    \A b, d \in reach : d \notin doms[b] => ~Dominates(g, d, b)

Settled(b) == doms[b] = NewDoms(b)

SweepInv ==
    phase # "search" =>
        /\ doms[g.entry] = {g.entry}
        /\ KeepsDominators
        /\ ~changed => \A b \in reach \ ({g.entry} \cup pending) : Settled(b)
        /\ phase = "done" => pending = {} /\ ~changed

IInv == TypeOK /\ SearchInv /\ SweepInv

-----------------------------------------------------------------------------

LEMMA NextKeepsTypes == TypeOK /\ [Next]_vars => TypeOK'
<1> SUFFICES ASSUME TypeOK, [Next]_vars PROVE TypeOK'
  OBVIOUS
<1> USE DEF TypeOK, IsGraph
<1>1. CASE Visit
  BY <1>1 DEF Visit
<1>2. CASE StartDominators
  BY <1>2 DEF StartDominators
<1>3. CASE StartSweep
  BY <1>3 DEF StartSweep
<1>4. CASE Recompute
  <2>1. PICK b \in pending : /\ doms' = [doms EXCEPT ![b] = NewDoms(b)]
                             /\ changed' = (changed \/ NewDoms(b) # doms[b])
                             /\ pending' = pending \ {b}
    BY <1>4 DEF Recompute
  <2>2. NewDoms(b) \subseteq reach
    BY <1>4 DEF NewDoms, Recompute
  <2>3. changed' \in BOOLEAN
    BY <2>1
  <2>4. doms' \in [reach -> SUBSET reach]
    BY <1>4, <2>1, <2>2 DEF Recompute
  <2> QED BY <1>4, <2>1, <2>3, <2>4 DEF Recompute
<1>5. CASE Converge
  BY <1>5 DEF Converge
<1>6. CASE UNCHANGED vars
  BY <1>6 DEF vars
<1> QED BY <1>1, <1>2, <1>3, <1>4, <1>5, <1>6 DEF Next

(* Following an edge of a reachable block leads to a reachable block. *)
LEMMA ReachableStep ==
    ASSUME NEW h, NEW b \in h.nodes, IsReachable(h, b), NEW c \in h.succ[b]
    PROVE  IsReachable(h, c)
BY DEF IsReachable

(* A closed set that misses b shows that its excluded block dominates b;
   what a predecessor of b escapes, b escapes too. *)
LEMMA EscapePropagates ==
    ASSUME NEW h, IsGraph(h), NEW d, NEW p \in h.nodes, NEW b \in h.succ[p],
           b # d, ~Dominates(h, d, p)
    PROVE  ~Dominates(h, d, b)
BY DEF Dominates, AvoidsClosed

LEMMA EntryEscapes ==
    ASSUME NEW h, NEW d, d # h.entry
    PROVE  ~Dominates(h, d, h.entry)
BY DEF Dominates, AvoidsClosed

-----------------------------------------------------------------------------

LEMMA InitWithIInv ==
    ASSUME NEW h, IsGraph(h), InitWith(h)
    PROVE  IInv
<1>1. TypeOK
  BY DEF InitWith, TypeOK, IsGraph
<1>2. SearchInv
  BY DEF InitWith, SearchInv, IsReachable
<1>3. SweepInv
  BY DEF InitWith, SweepInv
<1> QED BY <1>1, <1>2, <1>3 DEF IInv

LEMMA VisitKeepsSearchInv == IInv /\ Visit => SearchInv'
<1> SUFFICES ASSUME IInv, Visit PROVE SearchInv'
  OBVIOUS
<1> USE DEF IInv, TypeOK, IsGraph
<1>1. PICK b \in queue : /\ reach' = reach \cup {b}
                         /\ queue' = (queue \cup (g.succ[b] \ reach)) \ {b}
  BY DEF Visit
<1>2. g' = g /\ phase' = phase /\ phase = "search"
  BY DEF Visit
<1>3. reach' \cup queue' = reach \cup queue \cup g.succ[b]
  BY <1>1
<1>4. \A c \in g.succ[b] : IsReachable(g, c)
  BY ReachableStep DEF SearchInv
<1> QED BY <1>1, <1>2, <1>3, <1>4 DEF SearchInv

LEMMA StartKeepsSweepInv == IInv /\ StartDominators => SweepInv'
<1> SUFFICES ASSUME IInv, StartDominators PROVE SweepInv'
  OBVIOUS
<1> USE DEF IInv, TypeOK, IsGraph, StartDominators
<1>1. g.entry \in reach
  BY DEF SearchInv
<1>2. doms' = [b \in reach |-> IF b = g.entry THEN {b} ELSE reach]
  OBVIOUS
<1>3. ASSUME NEW b \in reach, NEW d \in reach, d \notin doms'[b]
      PROVE  ~Dominates(g, d, b)
  BY <1>2, <1>3, EntryEscapes
<1>4. KeepsDominators'
  BY <1>3 DEF KeepsDominators
<1> QED BY <1>1, <1>2, <1>4 DEF SweepInv

(* Recomputing one block keeps every dominator, and when it changes nothing
   it leaves all recomputed blocks settled. *)
LEMMA RecomputeKeepsSweepInv == IInv /\ Recompute => SweepInv'
<1> SUFFICES ASSUME IInv, Recompute PROVE SweepInv'
  OBVIOUS
<1> USE DEF IInv, TypeOK, IsGraph
<1>1. PICK b \in pending : /\ doms' = [doms EXCEPT ![b] = NewDoms(b)]
                           /\ changed' = (changed \/ NewDoms(b) # doms[b])
                           /\ pending' = pending \ {b}
  BY DEF Recompute
<1>2. /\ g' = g /\ reach' = reach /\ phase = "sweep" /\ phase' = "sweep"
      /\ doms \in [reach -> SUBSET reach]
      /\ b \in reach /\ b # g.entry
  BY DEF Recompute
<1>3. doms'[g.entry] = {g.entry}
  BY <1>1, <1>2 DEF SweepInv
<1>4. ASSUME NEW x \in reach, NEW d \in reach, d \notin doms'[x]
      PROVE  ~Dominates(g, d, x)
  <2>1. CASE x # b
    BY <1>1, <1>2, <1>4, <2>1 DEF SweepInv, KeepsDominators
  <2>2. CASE x = b /\ Predecessors(g, b) \cap reach = {}
    BY <1>1, <1>2, <1>4, <2>2 DEF SweepInv, KeepsDominators, NewDoms
  <2>3. CASE x = b /\ Predecessors(g, b) \cap reach # {}
    <3>1. NewDoms(b) = {b} \cup
             {e \in reach : \A p \in Predecessors(g, b) \cap reach : e \in doms[p]}
      BY <2>3 DEF NewDoms
    <3>2. d # b
      BY <1>1, <1>2, <1>4, <2>3, <3>1
    <3>3. PICK p \in Predecessors(g, b) \cap reach : d \notin doms[p]
      BY <1>1, <1>2, <1>4, <2>3, <3>1
    <3>4. p \in g.nodes /\ b \in g.succ[p] /\ ~Dominates(g, d, p)
      BY <1>2, <3>3 DEF Predecessors, SweepInv, KeepsDominators
    <3> QED BY <2>3, <3>2, <3>4, EscapePropagates
  <2> QED BY <2>1, <2>2, <2>3
<1>5. KeepsDominators'
  BY <1>2, <1>4 DEF KeepsDominators
<1>6. ASSUME ~changed', NEW x \in reach \ ({g.entry} \cup pending')
      PROVE  Settled(x)'
  <2>1. ~changed /\ NewDoms(b) = doms[b]
    BY <1>1, <1>6
  <2>2. doms' = doms
    BY <1>1, <1>2, <2>1
  <2>3. Settled(x)
    BY <1>1, <1>2, <1>6, <2>1 DEF SweepInv, Settled
  <2> QED BY <1>2, <2>2, <2>3 DEF Settled, NewDoms
<1> QED BY <1>2, <1>3, <1>5, <1>6 DEF SweepInv

-----------------------------------------------------------------------------

LEMMA NextKeepsIInv == IInv /\ TypeOK' /\ [Next]_vars => IInv'
<1> SUFFICES ASSUME IInv, TypeOK', [Next]_vars PROVE SearchInv' /\ SweepInv'
  BY DEF IInv
<1>1. CASE Visit
  BY <1>1, VisitKeepsSearchInv DEF Visit, SweepInv, IInv
<1>2. CASE StartDominators
  BY <1>2, StartKeepsSweepInv DEF StartDominators, SearchInv, IInv
<1>3. CASE StartSweep
  <2>1. SearchInv'
    BY <1>3 DEF StartSweep, SearchInv, IInv
  <2>2. SweepInv'
    BY <1>3 DEF StartSweep, SweepInv, KeepsDominators, IInv, TypeOK
  <2> QED BY <2>1, <2>2
<1>4. CASE Recompute
  <2>1. SearchInv'
    BY <1>4 DEF Recompute, SearchInv, IInv
  <2> QED BY <1>4, <2>1, RecomputeKeepsSweepInv
<1>5. CASE Converge
  <2>1. SearchInv'
    BY <1>5 DEF Converge, SearchInv, IInv
  <2>2. SweepInv'
    BY <1>5 DEF Converge, SweepInv, KeepsDominators, Settled, NewDoms, IInv
  <2> QED BY <2>1, <2>2
<1>6. CASE UNCHANGED vars
  BY <1>6 DEF vars, SearchInv, SweepInv, KeepsDominators, Settled, NewDoms, IInv
<1> QED BY <1>1, <1>2, <1>3, <1>4, <1>5, <1>6 DEF Next

LEMMA InductiveInvariant == Spec => []IInv
<1>1. Init => IInv
  BY GraphsAssumption, InitWithIInv DEF Init
<1>2. IInv /\ [Next]_vars => IInv'
  BY NextKeepsTypes, NextKeepsIInv DEF IInv
<1> QED BY <1>1, <1>2, PTL DEF Spec

(* The variables keep their types: in particular a dominator set never
   holds a block the search did not mark. *)
THEOREM TypeCorrect == Spec => []TypeOK
<1>1. IInv => TypeOK
  BY DEF IInv
<1> QED BY <1>1, InductiveInvariant, PTL

LEMMA ReachFromIInv == IInv => ReachIsExact
<1> SUFFICES ASSUME IInv, phase # "search" PROVE
      /\ g.entry \in reach
      /\ \A b \in reach : g.succ[b] \subseteq reach
      /\ \A S \in SUBSET reach :
            (g.entry \in S /\ \A b \in S : g.succ[b] \subseteq S) => S = reach
  BY DEF ReachIsExact
<1>1. queue = {}
  BY DEF IInv, SearchInv
<1>2. reach \subseteq g.nodes
  BY DEF IInv, TypeOK
<1> QED BY <1>1, <1>2 DEF IInv, SearchInv, IsReachable

(* When the search is over, the marked blocks are exactly the reachable
   ones (the is_reachable flags of cfg.rs). *)
THEOREM SearchIsExact == Spec => []ReachIsExact
BY ReachFromIInv, InductiveInvariant, PTL

(* At the fixed point, the blocks whose set lacks d form a set closed under
   the edges that do not enter d: everything they miss, d dominates. *)
LEMMA FixpointHasOnlyDominators ==
    ASSUME IInv, phase = "done", NEW d \in reach, NEW b \in reach, d \in doms[b]
    PROVE  Dominates(g, d, b)
<1> DEFINE S == {x \in reach : d \notin doms[x]}
<1> USE DEF IInv, TypeOK, IsGraph
<1>1. /\ g.entry \in reach
      /\ \A x \in reach : g.succ[x] \subseteq reach
  BY DEF SearchInv
<1>2. doms[g.entry] = {g.entry} /\ \A x \in reach \ {g.entry} : doms[x] = NewDoms(x)
  BY DEF SweepInv, Settled
<1>3. g.entry # d => g.entry \in S
  BY <1>1, <1>2
<1>4. ASSUME NEW x \in S, NEW y \in g.succ[x], y # d PROVE y \in S
  <2>1. y \in reach /\ x \in Predecessors(g, y) \cap reach
    BY <1>1, <1>4 DEF Predecessors
  <2>2. CASE y = g.entry
    BY <1>2, <1>4, <2>1, <2>2
  <2>3. CASE y # g.entry
    <3>1. doms[y] = {y} \cup
             {e \in reach : \A p \in Predecessors(g, y) \cap reach : e \in doms[p]}
      BY <1>2, <2>1, <2>3 DEF NewDoms
    <3> QED BY <1>4, <2>1, <3>1
  <2> QED BY <2>2, <2>3
<1>5. AvoidsClosed(g, d, S)
  BY <1>3, <1>4 DEF AvoidsClosed
<1>6. S \in SUBSET g.nodes /\ b \notin S
  OBVIOUS
<1> QED BY <1>5, <1>6 DEF Dominates

LEMMA DominatorsFromIInv == IInv => DominatorsAreExact
<1> SUFFICES ASSUME IInv, phase = "done", NEW d \in reach, NEW b \in reach
             PROVE  d \in doms[b] <=> Dominates(g, d, b)
  BY DEF DominatorsAreExact
<1>1. d \notin doms[b] => ~Dominates(g, d, b)
  BY DEF IInv, SweepInv, KeepsDominators
<1> QED BY <1>1, FixpointHasOnlyDominators

(* The sweeps of compute_immediate_dominators converge to the dominator
   relation and to nothing else, on every graph. *)
THEOREM DominatorsCorrect == Spec => []DominatorsAreExact
BY DominatorsFromIInv, InductiveInvariant, PTL

-----------------------------------------------------------------------------
(* Domination is an order whose upper sets are chains *)

LEMMA DominationIsTransitive ==
    ASSUME NEW h, NEW a, NEW b, NEW c, Dominates(h, a, b), Dominates(h, b, c)
    PROVE  Dominates(h, a, c)
<1>1. PICK S \in SUBSET h.nodes : AvoidsClosed(h, a, S) /\ b \notin S
  BY DEF Dominates
<1>2. PICK T \in SUBSET h.nodes : AvoidsClosed(h, b, T) /\ c \notin T
  BY DEF Dominates
<1>3. AvoidsClosed(h, a, S \cap T)
  BY <1>1, <1>2 DEF AvoidsClosed
<1>4. S \cap T \in SUBSET h.nodes /\ c \notin S \cap T
  BY <1>2
<1> QED BY <1>3, <1>4 DEF Dominates

LEMMA DominationIsReflexive ==
    ASSUME NEW h, IsGraph(h), NEW d
    PROVE  Dominates(h, d, d)
<1>1. AvoidsClosed(h, d, h.nodes \ {d})
  BY DEF AvoidsClosed, IsGraph
<1> QED BY <1>1 DEF Dominates

LEMMA DominationIsAntisymmetric ==
    ASSUME NEW h, NEW a, NEW b \in h.nodes, Dominates(h, a, b), Dominates(h, b, a),
           IsReachable(h, b)
    PROVE  a = b
<1> SUFFICES ASSUME a # b PROVE FALSE
  OBVIOUS
<1>1. PICK S \in SUBSET h.nodes : AvoidsClosed(h, a, S) /\ b \notin S
  BY DEF Dominates
<1>2. PICK T \in SUBSET h.nodes : AvoidsClosed(h, b, T) /\ a \notin T
  BY DEF Dominates
<1>3. h.entry \in S \cap T
  BY <1>1, <1>2 DEF AvoidsClosed
<1>4. \A x \in S \cap T : h.succ[x] \subseteq S \cap T
  BY <1>1, <1>2 DEF AvoidsClosed
<1>5. S \cap T \in SUBSET h.nodes
  OBVIOUS
<1>6. b \in S \cap T
  BY <1>3, <1>4, <1>5 DEF IsReachable
<1> QED BY <1>1, <1>6

LEMMA DominatorsAreOrdered ==
    ASSUME NEW h, NEW a, NEW c, NEW b \in h.nodes, IsReachable(h, b),
           Dominates(h, a, b), Dominates(h, c, b)
    PROVE  Dominates(h, a, c) \/ Dominates(h, c, a)
<1> SUFFICES ASSUME ~Dominates(h, a, c), ~Dominates(h, c, a) PROVE FALSE
  OBVIOUS
<1>1. PICK S \in SUBSET h.nodes : AvoidsClosed(h, a, S) /\ b \notin S
  BY DEF Dominates
<1>2. PICK T \in SUBSET h.nodes : AvoidsClosed(h, c, T) /\ b \notin T
  BY DEF Dominates
<1>3. c \in S /\ a \in T
  BY <1>1, <1>2 DEF Dominates
<1>4. h.entry \in S \cup T
  BY <1>1, <1>2, <1>3 DEF AvoidsClosed
<1>5. \A x \in S \cup T : h.succ[x] \subseteq S \cup T
  BY <1>1, <1>2, <1>3 DEF AvoidsClosed
<1>6. S \cup T \in SUBSET h.nodes
  OBVIOUS
<1>7. b \in S \cup T
  BY <1>4, <1>5, <1>6 DEF IsReachable
<1> QED BY <1>1, <1>2, <1>7

LEMMA EntryDominates ==
    ASSUME NEW h, NEW b
    PROVE  Dominates(h, h.entry, b)
<1>1. AvoidsClosed(h, h.entry, {}) /\ {} \in SUBSET h.nodes /\ b \notin {}
  BY DEF AvoidsClosed
<1> QED BY <1>1 DEF Dominates

(* What dominates a block dominates its predecessors, but for itself. *)
LEMMA DominatesPredecessor ==
    ASSUME NEW h, IsGraph(h), NEW d, NEW p \in h.nodes, NEW b \in h.succ[p],
           StrictlyDominates(h, d, b)
    PROVE  Dominates(h, d, p)
BY EscapePropagates DEF StrictlyDominates

-----------------------------------------------------------------------------
(* The dominator tree read off the converged sets *)

(* The sweeps have converged. *)
Converged == IInv /\ phase = "done"

LEMMA WhenConverged ==
    ASSUME Converged
    PROVE  /\ IsGraph(g) /\ reach \subseteq g.nodes /\ g.entry \in reach
           /\ reach \subseteq Nat /\ IsFiniteSet(reach) /\ NoBlock \notin reach
           /\ \A b \in reach : g.succ[b] \subseteq reach /\ IsReachable(g, b)
           /\ \A b \in reach : doms[b] = {d \in reach : Dominates(g, d, b)}
<1> USE DEF Converged, IInv, TypeOK
<1>1. IsGraph(g) /\ reach \subseteq g.nodes
  OBVIOUS
<1>2. g.entry \in reach /\ \A b \in reach : g.succ[b] \subseteq reach /\ IsReachable(g, b)
  BY DEF SearchInv
<1>3. reach \subseteq Nat /\ IsFiniteSet(reach)
  BY <1>1, FS_Subset DEF IsGraph
<1>4. ASSUME NEW b \in reach
      PROVE  doms[b] = {d \in reach : Dominates(g, d, b)}
  <2>1. doms[b] \subseteq reach
    OBVIOUS
  <2>2. ASSUME NEW d \in reach PROVE d \in doms[b] <=> Dominates(g, d, b)
    <3>1. d \notin doms[b] => ~Dominates(g, d, b)
      BY DEF SweepInv, KeepsDominators
    <3> QED BY <3>1, FixpointHasOnlyDominators
  <2> QED BY <2>1, <2>2
<1>5. NoBlock \notin Nat
  BY DEF NoBlock
<1> QED BY <1>1, <1>2, <1>3, <1>4, <1>5

(* Of a finite set of dominators of a block, one is dominated by all. *)
LEMMA ClosestOf ==
    ASSUME Converged, NEW b \in reach, NEW D, D \subseteq reach, D # {},
           \A d \in D : Dominates(g, d, b)
    PROVE  \E c \in D : \A o \in D : Dominates(g, o, c)
<1> DEFINE HasClosest(s) == \E c \in s : \A o \in s : Dominates(g, o, c)
           C == {s \in SUBSET D : s # {} => HasClosest(s)}
<1>1. /\ IsGraph(g) /\ IsFiniteSet(D) /\ b \in g.nodes /\ IsReachable(g, b)
  BY WhenConverged, FS_Subset
<1>2. {} \in C
  OBVIOUS
<1>3. ASSUME NEW s \in SUBSET D, s # {}, \A x \in s : s \ {x} \in C PROVE s \in C
  <2>1. PICK x \in s : TRUE
    BY <1>3
  <2>2. CASE s \ {x} = {}
    <3>1. \A o \in s : Dominates(g, o, x)
      BY <1>1, <2>2, DominationIsReflexive
    <3> QED BY <2>1, <3>1
  <2>3. CASE s \ {x} # {}
    <3>1. HasClosest(s \ {x})
      BY <1>3, <2>1, <2>3
    <3>2. PICK c \in s \ {x} : \A o \in s \ {x} : Dominates(g, o, c)
      BY <3>1
    <3>3. Dominates(g, x, b) /\ Dominates(g, c, b)
      BY <2>1, <3>2
    <3>4. CASE Dominates(g, x, c)
      <4>1. \A o \in s : Dominates(g, o, c)
        BY <3>2, <3>4
      <4> QED BY <3>2, <4>1
    <3>5. CASE Dominates(g, c, x)
      <4>1. \A o \in s \ {x} : Dominates(g, o, x)
        BY <3>2, <3>5, DominationIsTransitive
      <4>2. Dominates(g, x, x)
        BY <1>1, DominationIsReflexive
      <4>3. \A o \in s : Dominates(g, o, x)
        BY <4>1, <4>2
      <4> QED BY <2>1, <4>3
    <3> QED BY <1>1, <3>3, <3>4, <3>5, DominatorsAreOrdered
  <2> QED BY <2>2, <2>3
<1>4. SUBSET D \subseteq C
  <2> HIDE DEF C
  <2> QED BY <1>1, <1>2, <1>3, SetInduction
<1> QED BY <1>4

LEMMA ImmediateIsClosest ==
    ASSUME Converged, NEW b \in reach \ {g.entry}
    PROVE  IsClosestDominator(ImmediateDominator(b), b)
<1> DEFINE strict == doms[b] \ {b}
           closest == {c \in strict : \A o \in strict : o = c \/ o \in doms[c]}
<1>1. /\ g.entry \in reach /\ reach \subseteq Nat
      /\ \A x \in reach : doms[x] = {d \in reach : Dominates(g, d, x)}
  BY WhenConverged
<1>2. strict = {d \in reach : StrictlyDominates(g, d, b)}
  BY <1>1 DEF StrictlyDominates
<1>3. g.entry \in strict
  BY <1>1, <1>2, EntryDominates DEF StrictlyDominates
<1>4. PICK c \in strict : \A o \in strict : Dominates(g, o, c)
  <2>1. strict \subseteq reach /\ strict # {} /\ \A d \in strict : Dominates(g, d, b)
    BY <1>2, <1>3 DEF StrictlyDominates
  <2> HIDE DEF strict
  <2> QED BY <2>1, ClosestOf
<1>5. c \in closest
  BY <1>1, <1>2, <1>4
<1>6. closest \subseteq Nat /\ closest # {}
  BY <1>1, <1>2, <1>5
<1>7. Min(closest) \in closest
  <2> HIDE DEF closest
  <2> QED BY <1>6, MinOf
<1>8. ImmediateDominator(b) = Min(closest)
  BY <1>6 DEF ImmediateDominator
<1>9. ASSUME NEW i \in closest PROVE IsClosestDominator(i, b)
  <2>1. i \in reach /\ StrictlyDominates(g, i, b)
    BY <1>2
  <2>2. ASSUME NEW o \in reach, StrictlyDominates(g, o, b) PROVE Dominates(g, o, i)
    <3>1. o = i \/ o \in doms[i]
      BY <1>2, <2>2
    <3>2. IsGraph(g)
      BY WhenConverged
    <3> QED BY <1>1, <2>1, <3>1, <3>2, DominationIsReflexive
  <2> QED BY <2>1, <2>2 DEF IsClosestDominator
<1> QED BY <1>7, <1>8, <1>9

(* The steps of a runner, as a recurrence *)
IsRun(at, N, p, stop) ==
    /\ at[0] = p
    /\ \A n \in 0..(N - 1) :
          at[n + 1] = IF at[n] \in reach \ {stop} THEN ImmediateDominator(at[n]) ELSE NoBlock

LEMMA RunnerRuns ==
    ASSUME Converged, NEW b \in reach \ {g.entry}, NEW p \in g.nodes
    PROVE  \E at : /\ IsRun(at, Cardinality(reach), p, ImmediateDominator(b))
                   /\ RunnerPath(p, b) = {at[n] : n \in 0..Cardinality(reach)}
                                            \cap (reach \ {ImmediateDominator(b)})
<1> DEFINE N == Cardinality(reach)
           stop == ImmediateDominator(b)
           V == g.nodes \cup {NoBlock}
           Next1(v) == IF v \in reach \ {stop} THEN ImmediateDominator(v) ELSE NoBlock
           IsAt(f) == f = [n \in 0..N |-> IF n = 0 THEN p ELSE Next1(f[n - 1])]
           at == CHOOSE f : IsAt(f)
           step == [n \in Nat |-> [v \in V |-> Next1(v)]]
<1>1. N \in Nat
  BY WhenConverged, FS_CardinalityType
<1>2. \A v \in reach : ImmediateDominator(v) \in V
  <2> SUFFICES ASSUME NEW v \in reach PROVE ImmediateDominator(v) \in V
    OBVIOUS
  <2>1. CASE v = g.entry
    BY <2>1 DEF ImmediateDominator
  <2>2. CASE v # g.entry
    <3>1. ImmediateDominator(v) \in reach
      BY <2>2, ImmediateIsClosest DEF IsClosestDominator
    <3> QED BY <3>1, WhenConverged
  <2> QED BY <2>1, <2>2
<1>3. step \in [Nat -> [V -> V]]
  <2>1. \A v \in V : Next1(v) \in V
    BY <1>2
  <2> HIDE DEF V, Next1
  <2> QED BY <2>1
<1>4. \E f : IsRec(V, p, step, N, f)
  <2>1. p \in V
    OBVIOUS
  <2> HIDE DEF V, step, N
  <2> QED BY <1>1, <1>3, <2>1, Recursion
<1>5. PICK f \in [0..N -> V] : f[0] = p /\ \A n \in 1..N : f[n] = step[n][f[n - 1]]
  <2> HIDE DEF V, step, N
  <2> QED BY <1>4 DEF IsRec
<1>6. ASSUME NEW n \in 0..N PROVE f[n] = IF n = 0 THEN p ELSE Next1(f[n - 1])
  <2>1. CASE n # 0
    <3>1. n \in 1..N /\ n - 1 \in 0..N /\ n \in Nat
      BY <1>1, <2>1
    <3>2. step[n][f[n - 1]] = Next1(f[n - 1])
      <4>1. n \in Nat /\ f[n - 1] \in V
        BY <3>1
      <4> HIDE DEF Next1, V
      <4> QED BY <4>1
    <3> HIDE DEF step, Next1, N
    <3> QED BY <1>5, <2>1, <3>1, <3>2
  <2> QED BY <1>5, <2>1
<1>7. IsAt(f)
  <2>1. f = [n \in 0..N |-> f[n]]
    OBVIOUS
  <2> HIDE DEF Next1, N
  <2> QED BY <1>6, <2>1
<1>8. IsAt(at)
  <2> HIDE DEF IsAt
  <2> QED BY <1>7
<1>9. at[0] = p /\ \A n \in 0..(N - 1) : at[n + 1] = Next1(at[n])
  <2>1. \A n \in 0..N : at[n] = IF n = 0 THEN p ELSE Next1(at[n - 1])
    <3> HIDE DEF at, Next1
    <3> QED BY <1>8
  <2> HIDE DEF at, Next1, N
  <2> QED BY <1>1, <2>1
<1>10. RunnerPath(p, b) = {at[n] : n \in 0..N} \cap (reach \ {stop})
  BY DEF RunnerPath
<1>11. IsRun(at, N, p, stop)
  <2> HIDE DEF at, N, stop
  <2> QED BY <1>9 DEF IsRun
<1> HIDE DEF at, N, stop
<1> QED BY <1>10, <1>11 DEF N, stop

(* What the runner passes from a predecessor: what dominates that block and
   not the immediate dominator of b. *)
LEMMA RunnerPasses ==
    ASSUME Converged, NEW b \in reach \ {g.entry}, NEW p \in Predecessors(g, b)
    PROVE  \A n \in reach :
              n \in RunnerPath(p, b) <=>
                 /\ p \in reach /\ Dominates(g, n, p)
                 /\ ~Dominates(g, n, ImmediateDominator(b))
<1> DEFINE N == Cardinality(reach)
           stop == ImmediateDominator(b)
<1>1. /\ IsGraph(g) /\ reach \subseteq g.nodes /\ g.entry \in reach
      /\ reach \subseteq Nat /\ IsFiniteSet(reach) /\ NoBlock \notin reach
      /\ \A x \in reach : IsReachable(g, x)
  BY WhenConverged
<1>2. N \in Nat
  BY <1>1, FS_CardinalityType
<1>3. p \in g.nodes /\ b \in g.succ[p]
  BY DEF Predecessors
<1>4. stop \in reach /\ StrictlyDominates(g, stop, b)
  BY ImmediateIsClosest DEF IsClosestDominator
<1>5. PICK at : /\ IsRun(at, N, p, stop)
                /\ RunnerPath(p, b) = {at[n] : n \in 0..N} \cap (reach \ {stop})
  BY <1>3, RunnerRuns
<1> HIDE DEF stop, N
<1>6. /\ at[0] = p
      /\ \A n \in 0..(N - 1) :
            /\ at[n] \in reach \ {stop} => at[n + 1] = ImmediateDominator(at[n])
            /\ at[n] \notin reach \ {stop} => at[n + 1] = NoBlock
  BY <1>5 DEF IsRun
<1>7. Dominates(g, stop, p)
  BY <1>1, <1>3, <1>4, DominatesPredecessor
(* What a step of the runner does to the dominators of its block *)
<1>8. ASSUME NEW x \in reach \ {g.entry}
      PROVE  LET i == ImmediateDominator(x)
             IN  /\ i \in reach /\ StrictlyDominates(g, i, x)
                 /\ \A o \in reach : StrictlyDominates(g, o, x) => Dominates(g, o, i)
  BY ImmediateIsClosest DEF IsClosestDominator
<1>9. ImmediateDominator(g.entry) = NoBlock
  BY DEF ImmediateDominator
<1>10. \A n \in 0..N : at[n] \in reach \ {stop} =>
          p \in reach /\ Dominates(g, at[n], p) /\ ~Dominates(g, at[n], stop)
  <2> DEFINE Good(x) == x \in reach \ {stop} =>
                 p \in reach /\ Dominates(g, x, p) /\ ~Dominates(g, x, stop)
             S == {n \in Nat : n <= N => Good(at[n])}
  <2>1. 0 \in S
    <3>1. ASSUME p \in reach \ {stop}
          PROVE  Dominates(g, p, p) /\ ~Dominates(g, p, stop)
      <4>1. Dominates(g, p, p)
        BY <1>1, DominationIsReflexive
      <4>2. Dominates(g, p, stop) => p = stop
        BY <1>1, <1>4, <1>7, DominationIsAntisymmetric
      <4> QED BY <3>1, <4>1, <4>2
    <3> QED BY <1>6, <3>1
  <2>2. ASSUME NEW n \in Nat, n \in S PROVE n + 1 \in S
    <3> SUFFICES ASSUME n + 1 <= N, at[n + 1] \in reach \ {stop}
                 PROVE  /\ p \in reach /\ Dominates(g, at[n + 1], p)
                        /\ ~Dominates(g, at[n + 1], stop)
      OBVIOUS
    <3>1. n \in 0..(N - 1)
      BY <1>2
    <3> DEFINE x == at[n]
               i == at[n + 1]
    <3>2. x \in reach \ {stop} /\ i = ImmediateDominator(x)
      BY <1>1, <1>6, <3>1
    <3>3. p \in reach /\ Dominates(g, x, p) /\ ~Dominates(g, x, stop)
      BY <1>2, <2>2, <3>1, <3>2
    <3>4. x # g.entry
      BY <1>1, <1>9, <3>2
    <3>5. i \in reach /\ i # stop /\ StrictlyDominates(g, i, x)
      BY <1>8, <3>2, <3>4
    <3>6. Dominates(g, i, p)
      BY <3>3, <3>5, DominationIsTransitive DEF StrictlyDominates
    <3>7. Dominates(g, stop, x)
      BY <1>1, <1>4, <1>7, <3>2, <3>3, DominatorsAreOrdered
    <3>8. Dominates(g, stop, i)
      BY <1>4, <1>8, <3>2, <3>4, <3>7 DEF StrictlyDominates
    <3>9. ~Dominates(g, i, stop)
      BY <1>1, <1>4, <3>5, <3>8, DominationIsAntisymmetric
    <3> QED BY <3>3, <3>6, <3>9
  <2>3. Nat \subseteq S
    <3> HIDE DEF S
    <3> QED BY <2>1, <2>2, Induction
  <2> QED BY <1>2, <2>3
<1>11. ASSUME NEW m \in reach, p \in reach, Dominates(g, m, p), ~Dominates(g, m, stop)
       PROVE  \E n \in 0..N : at[n] = m
  <2> DEFINE D(x) == {o \in reach : Dominates(g, o, x)}
             Left(n) == /\ at[n] \in reach \ {stop}
                        /\ StrictlyDominates(g, m, at[n])
                        /\ Cardinality(D(at[n])) <= N - n
             S == {n \in Nat : n <= N => (\E j \in 0..n : at[j] = m) \/ Left(n)}
  <2>1. \A x : IsFiniteSet(D(x)) /\ Cardinality(D(x)) \in Nat /\ Cardinality(D(x)) <= N
    <3> SUFFICES ASSUME NEW x
                 PROVE  IsFiniteSet(D(x)) /\ Cardinality(D(x)) \in Nat /\ Cardinality(D(x)) <= N
      OBVIOUS
    <3>1. D(x) \subseteq reach
      OBVIOUS
    <3> HIDE DEF D
    <3> QED BY <1>1, <3>1, FS_Subset, FS_CardinalityType DEF N
  <2>2. 0 \in S
    <3>1. CASE p = m
      BY <1>6, <3>1
    <3>2. CASE p # m
      <4>1. StrictlyDominates(g, m, p)
        BY <1>11, <3>2 DEF StrictlyDominates
      <4>2. p # stop
        BY <1>11
      <4>3. Left(0)
        <5> HIDE DEF D
        <5> QED BY <1>2, <1>6, <1>11, <2>1, <4>1, <4>2
      <4> QED BY <4>3
    <3> QED BY <3>1, <3>2
  <2>3. ASSUME NEW n \in Nat, n \in S PROVE n + 1 \in S
    <3> SUFFICES ASSUME n + 1 <= N PROVE (\E j \in 0..(n + 1) : at[j] = m) \/ Left(n + 1)
      OBVIOUS
    <3>0. n \in 0..(N - 1) /\ n <= N
      BY <1>2
    <3>1. CASE \E j \in 0..n : at[j] = m
      BY <3>1
    <3>2. CASE Left(n)
      <4> DEFINE x == at[n]
                 i == at[n + 1]
      <4>1. x \in reach \ {stop} /\ i = ImmediateDominator(x) /\ StrictlyDominates(g, m, x)
        BY <1>6, <3>0, <3>2
      <4>2. x # g.entry
        <5>1. m # g.entry => ~Dominates(g, m, g.entry)
          BY EntryEscapes
        <5> QED BY <4>1, <5>1 DEF StrictlyDominates
      <4>3. /\ i \in reach /\ StrictlyDominates(g, i, x)
            /\ Dominates(g, m, i)
        BY <1>8, <4>1, <4>2
      <4>4. i # stop
        BY <1>11, <4>3
      <4>5. Cardinality(D(i)) <= N - (n + 1)
        <5>1. x \in D(x)
          BY <1>1, <4>1, DominationIsReflexive
        <5>2. x \notin D(i)
          <6>1. Dominates(g, x, i) => x = i
            BY <1>1, <4>1, <4>3, DominationIsAntisymmetric DEF StrictlyDominates
          <6> QED BY <4>3, <6>1 DEF StrictlyDominates
        <5>3. D(i) \subseteq D(x)
          BY <4>3, DominationIsTransitive DEF StrictlyDominates
        <5>4. D(i) \subseteq D(x) \ {x}
          BY <5>2, <5>3
        <5>5. Cardinality(D(x)) <= N - n
          BY <3>2
        <5> HIDE DEF D
        <5>6. /\ Cardinality(D(x) \ {x}) = Cardinality(D(x)) - 1
              /\ IsFiniteSet(D(x) \ {x})
          BY <2>1, <5>1, FS_RemoveElement
        <5>7. Cardinality(D(i)) <= Cardinality(D(x) \ {x})
          BY <5>4, <5>6, FS_Subset
        <5>8. Cardinality(D(i)) \in Nat /\ Cardinality(D(x)) \in Nat
          BY <2>1
        <5> QED BY <1>2, <5>5, <5>6, <5>7, <5>8
      <4>6. CASE i = m
        BY <4>6
      <4>7. CASE i # m
        <5>1. StrictlyDominates(g, m, i)
          BY <4>3, <4>7 DEF StrictlyDominates
        <5> QED BY <4>3, <4>4, <4>5, <5>1
      <4> QED BY <4>6, <4>7
    <3> QED BY <2>3, <3>0, <3>1, <3>2
  <2>4. Nat \subseteq S
    <3> HIDE DEF S
    <3> QED BY <2>2, <2>3, Induction
  <2>5. (\E j \in 0..N : at[j] = m) \/ Left(N)
    BY <1>2, <2>4
  <2>6. ~Left(N)
    <3> SUFFICES ASSUME at[N] \in reach, Cardinality(D(at[N])) <= 0 PROVE FALSE
      BY <1>2
    <3>1. at[N] \in D(at[N])
      BY <1>1, DominationIsReflexive
    <3> HIDE DEF D
    <3>2. Cardinality(D(at[N])) = 0
      BY <2>1
    <3> QED BY <2>1, <3>1, <3>2, FS_EmptySet
  <2> QED BY <2>5, <2>6
<1>12. ASSUME NEW n \in reach
       PROVE  n \in RunnerPath(p, b) <=>
                 p \in reach /\ Dominates(g, n, p) /\ ~Dominates(g, n, stop)
  <2>1. ASSUME n \in RunnerPath(p, b)
        PROVE  p \in reach /\ Dominates(g, n, p) /\ ~Dominates(g, n, stop)
    BY <1>5, <1>10, <2>1
  <2>2. ASSUME p \in reach, Dominates(g, n, p), ~Dominates(g, n, stop)
        PROVE  n \in RunnerPath(p, b)
    <3>1. n # stop
      BY <1>1, <2>2, DominationIsReflexive
    <3>2. \E k \in 0..N : at[k] = n
      BY <1>11, <2>2
    <3> QED BY <1>5, <3>1, <3>2
  <2> QED BY <2>1, <2>2
<1> QED BY <1>12 DEF stop

(* A block that is reached in one way only is dominated by where it is reached
   from. *)
LEMMA OnlyPredecessorDominates ==
    ASSUME NEW h, IsGraph(h), NEW b \in h.nodes, b # h.entry, IsReachable(h, b), NEW p,
           Predecessors(h, b) = {p}
    PROVE  StrictlyDominates(h, p, b)
<1>1. \A x \in h.nodes : b \in h.succ[x] => x = p
  BY DEF Predecessors
<1>2. p # b
  <2> SUFFICES ASSUME p = b PROVE FALSE
    OBVIOUS
  <2> DEFINE S == h.nodes \ {b}
  <2>1. S \in SUBSET h.nodes /\ h.entry \in S /\ \A x \in S : h.succ[x] \subseteq S
    BY <1>1 DEF IsGraph
  <2> QED BY <2>1 DEF IsReachable
<1>3. AvoidsClosed(h, p, h.nodes \ {b, p})
  BY <1>1 DEF AvoidsClosed, IsGraph
<1>4. Dominates(h, p, b)
  BY <1>3 DEF Dominates
<1> QED BY <1>2, <1>4 DEF StrictlyDominates

LEMMA FrontierIsExact ==
    ASSUME Converged, NEW n \in reach, NEW b \in reach \ {g.entry}
    PROVE  b \in DominanceFrontier(n) <=> b \in FrontierByDefinition(n)
<1> DEFINE stop == ImmediateDominator(b)
           Preds == Predecessors(g, b)
<1>1. /\ IsGraph(g) /\ reach \subseteq g.nodes /\ IsFiniteSet(g.nodes)
      /\ \A x \in reach : IsReachable(g, x)
  BY WhenConverged DEF IsGraph
<1>2. /\ stop \in reach /\ StrictlyDominates(g, stop, b)
      /\ StrictlyDominates(g, n, b) => Dominates(g, n, stop)
  BY ImmediateIsClosest DEF IsClosestDominator
<1>3. \A p \in Preds :
         n \in RunnerPath(p, b) <=>
            p \in reach /\ Dominates(g, n, p) /\ ~Dominates(g, n, stop)
  BY RunnerPasses
<1> HIDE DEF stop
<1>4. Dominates(g, n, stop) => StrictlyDominates(g, n, b)
  <2>1. n = b => ~Dominates(g, n, stop)
    BY <1>1, <1>2, DominationIsAntisymmetric DEF StrictlyDominates
  <2>2. Dominates(g, n, stop) => Dominates(g, n, b)
    BY <1>2, DominationIsTransitive DEF StrictlyDominates
  <2> QED BY <2>1, <2>2 DEF StrictlyDominates
<1>5. ASSUME NEW p \in Preds, p \in reach, Dominates(g, n, p), ~StrictlyDominates(g, n, b)
      PROVE  Cardinality(Preds) >= 2
  <2>1. Preds \subseteq g.nodes
    BY DEF Predecessors
  <2>2. IsFiniteSet(Preds) /\ Cardinality(Preds) \in Nat
    BY <1>1, <2>1, FS_Subset, FS_CardinalityType
  <2>3. Cardinality(Preds) # 0
    BY <1>5, <2>2, FS_EmptySet
  <2>4. Preds # {p}
    <3> SUFFICES ASSUME Preds = {p} PROVE FALSE
      OBVIOUS
    <3>1. StrictlyDominates(g, p, b)
      BY <1>1, OnlyPredecessorDominates
    <3>2. Dominates(g, n, b)
      BY <1>5, <3>1, DominationIsTransitive DEF StrictlyDominates
    <3>3. n # b
      BY <1>1, <1>5, <3>1, DominationIsAntisymmetric DEF StrictlyDominates
    <3> QED BY <1>5, <3>2, <3>3 DEF StrictlyDominates
  <2>5. Cardinality(Preds) # 1
    <3> SUFFICES ASSUME Cardinality(Preds) = 1 PROVE FALSE
      OBVIOUS
    <3>1. PICK x : Preds = {x}
      BY <2>2, FS_Singleton
    <3> QED BY <1>5, <2>4, <3>1
  <2> QED BY <2>2, <2>3, <2>5
<1> HIDE DEF Preds
<1>6. b \in DominanceFrontier(n) <=>
        Cardinality(Preds) >= 2 /\ \E p \in Preds : n \in RunnerPath(p, b)
  BY DEF DominanceFrontier, Preds
<1>7. b \in FrontierByDefinition(n) <=>
        /\ \E p \in Preds \cap reach : Dominates(g, n, p)
        /\ ~StrictlyDominates(g, n, b)
  BY DEF FrontierByDefinition, Preds
<1> QED BY <1>2, <1>3, <1>4, <1>5, <1>6, <1>7

LEMMA TreeFromIInv == IInv => DominatorTreeIsExact
<1> SUFFICES ASSUME IInv, phase = "done" PROVE
      /\ \A b \in reach \ {g.entry} : IsClosestDominator(ImmediateDominator(b), b)
      /\ \A n \in reach :
            DominanceFrontier(n) \ {g.entry} = FrontierByDefinition(n) \ {g.entry}
  BY DEF DominatorTreeIsExact
<1>1. Converged
  BY DEF Converged
<1>2. ASSUME NEW n \in reach
      PROVE  DominanceFrontier(n) \ {g.entry} = FrontierByDefinition(n) \ {g.entry}
  <2>1. DominanceFrontier(n) \subseteq reach /\ FrontierByDefinition(n) \subseteq reach
    BY DEF DominanceFrontier, FrontierByDefinition
  <2> QED BY <1>1, <2>1, FrontierIsExact
<1> QED BY <1>1, <1>2, ImmediateIsClosest

(* What cfg.rs reads off the sets is exact on every graph: the immediate
   dominator of a block is its closest one, and the frontiers are those of the
   definition but for the entry block, which no frontier lists. *)
THEOREM TreeIsExact == Spec => []DominatorTreeIsExact
BY TreeFromIInv, InductiveInvariant, PTL

-----------------------------------------------------------------------------
(* Where the machine goes in a prototype of Lua 5.1 or 5.4 *)

(* The graph accounts for a step of the machine: control goes forward in its
   block, along an edge to the start of a block, or past a numeric loop along
   two edges. *)
IsCovered(p, pc, to) ==
    LET exec == Executable(p)
        leaders == Leaders(p, exec)
        from == BlockOf(leaders, pc)
        succ(b) == Successors(p, exec, leaders, b)
    IN  /\ to \in exec
        /\ \/ to > pc /\ BlockOf(leaders, to) = from
           \/ to \in leaders /\ to \in succ(from)
           \/ /\ p.dialect = "5.4" /\ p.words[pc].op = "FORPREP" /\ to \in leaders
              /\ \E b \in succ(from) : to \in succ(b)

LEMMA TargetIsCovered ==
    ASSUME NEW p, IsPrototype(p), NEW pc \in Executable(p), NEW to \in Targets(p, pc),
           to \in Executable(p)
    PROVE  IsCovered(p, pc, to)
BY ToTarget DEF IsCovered

LEMMA AfterIsCovered ==
    ASSUME NEW p, IsPrototype(p), NEW pc \in Executable(p), After(p, pc) \in Pcs(p),
           FallsThrough(p.words[pc])
    PROVE  IsCovered(p, pc, After(p, pc))
<1>1. pc \in Nat /\ After(p, pc) > pc /\ After(p, pc) \in Executable(p)
  BY NextInstruction DEF After
<1>2. CASE EndsBlock(p, pc)
  BY <1>1, <1>2, ToAfter DEF IsCovered
<1>3. CASE ~EndsBlock(p, pc)
  BY <1>1, <1>3, SameBlock DEF IsCovered
<1> QED BY <1>2, <1>3

(* Past the argument or the fallback of the word at pc *)
LEMMA PairIsCovered ==
    ASSUME NEW p, IsPrototype(p), p.dialect = "5.4", ArePaired(p), NEW pc \in Pcs(p),
           TakesExtra(p.words[pc]) \/ IsOperator(p.words[pc]), pc + 2 \in Pcs(p)
    PROVE  IsCovered(p, pc, pc + 2)
<1> DEFINE exec == Executable(p)
           leaders == Leaders(p, exec)
           w == p.words[pc]
           q == pc + 1
<1>1. /\ exec = Pcs(p) /\ pc \in Nat /\ q \in Nat /\ pc + 2 \in Nat
      /\ After(p, pc) = q /\ After(p, q) = pc + 2
      /\ \A i \in exec : i \in Nat /\ After(p, i) = i + 1
  <2>1. Pcs(p) \subseteq Nat
    BY ExecutableAreWords
  <2> QED BY <2>1 DEF Executable, After, Claimed
<1>2. q \in Pcs(p) /\ IsCompanion(p.words[q])
  BY DEF ArePaired
<1>3. \A i \in Pcs(p) : q \notin Targets(p, i)
  BY <1>2 DEF ArePaired
<1>4. w.op \in L54!BinaryOps \cup L54!ConstantOps \cup L54!ImmediateOps
                \cup {"LOADKX", "NEWTABLE", "SETLIST"}
  BY DEF TakesExtra, IsOperator
<1>5. Targets(p, pc) = {} /\ ~Returns(w)
  BY <1>4 DEF Targets, Returns, L54!JumpTargets, L54!SkipTargets, L54!BinaryOps,
              L54!ConstantOps, L54!ImmediateOps, L54!SkipOps, L54!ImmediateTests,
              L54!ForwardOps, L54!BackwardOps
<1>6. FallsThrough(p.words[q])
  BY <1>2 DEF IsCompanion, L54!FallbackOps, FallsThrough, Returns
<1>7. q \notin leaders
  <2> SUFFICES ASSUME q \in leaders PROVE FALSE
    OBVIOUS
  <2>1. q # 0
    BY <1>1
  <2>2. PICK i \in exec : /\ Targets(p, i) # {} \/ Returns(p.words[i])
                          /\ q = After(p, i)
    BY <1>1, <1>3, <2>1, LeadersHaveReasons
  <2>3. i = pc
    BY <1>1, <2>2
  <2> QED BY <1>5, <2>2, <2>3
<1>8. ~EndsBlock(p, pc)
  BY <1>1, <1>2, <1>7 DEF EndsBlock
<1>9. q \in exec /\ BlockOf(leaders, q) = BlockOf(leaders, pc)
  BY <1>1, <1>2, <1>8, SameBlock
<1>10. IsCovered(p, q, pc + 2)
  BY <1>1, <1>6, <1>9, AfterIsCovered
<1>11. p.words[q].op # "FORPREP"
  BY <1>2 DEF IsCompanion, L54!FallbackOps
<1> HIDE DEF exec, leaders
<1> QED BY <1>1, <1>9, <1>10, <1>11 DEF IsCovered, exec, leaders

(* Past a numeric loop that is never entered *)
LEMMA LoopExitIsCovered ==
    ASSUME NEW p, IsPrototype(p), p.dialect = "5.4", LoopsAreClosed(p), NEW pc \in Pcs(p),
           p.words[pc].op = "FORPREP", pc + 2 + p.words[pc].x \in Pcs(p)
    PROVE  IsCovered(p, pc, pc + 2 + p.words[pc].x)
<1> DEFINE exec == Executable(p)
           leaders == Leaders(p, exec)
           f == pc + 1 + p.words[pc].x
           to == pc + 2 + p.words[pc].x
<1>1. /\ exec = Pcs(p) /\ f \in Pcs(p) /\ p.words[f].op = "FORLOOP"
      /\ pc \in Nat /\ p.words[pc].x \in Int
  <2>1. Pcs(p) \subseteq Nat
    BY ExecutableAreWords
  <2> QED BY <2>1 DEF Executable, LoopsAreClosed, IsPrototype
<1>2. f \in Targets(p, pc) /\ Targets(p, f) # {}
  BY <1>1 DEF Targets, L54!JumpTargets, L54!ForwardOps, L54!BackwardOps
<1>3. After(p, f) = to
  BY <1>1 DEF After, Claimed
<1>4. f \in leaders /\ f \in Successors(p, exec, leaders, BlockOf(leaders, pc))
  BY <1>1, <1>2, ToTarget
<1>5. EndsBlock(p, f)
  BY <1>1, <1>2, LeadersAreExecutable
<1>6. FallsThrough(p.words[f])
  BY <1>1 DEF FallsThrough, Returns
<1>7. BlockOf(leaders, f) = f
  BY <1>1, <1>4, BlockOfIs
<1>8. to \in leaders /\ to \in Successors(p, exec, leaders, f)
  BY <1>1, <1>3, <1>5, <1>6, <1>7, ToAfter
<1> QED BY <1>1, <1>4, <1>8 DEF IsCovered

LEMMA StepIsCovered51 ==
    ASSUME NEW p, IsPrototype(p), p.dialect = "5.1", Accepted(p), NEW pc \in Executable(p),
           NEW to \in Vm51Steps(p, pc), to \in Pcs(p)
    PROVE  IsCovered(p, pc, to)
<1> DEFINE w == p.words[pc]
<1>1. /\ Executable(p) = Instructions(p) /\ pc \in Pcs(p) /\ pc \in Nat
      /\ WordErrors(p, Instructions(p), pc) = {}
  BY ExecutableAreWords DEF Executable, Accepted, ValidForParser
<1>2. /\ w.op \in Opcodes
      /\ w.op = "CLOSURE" => w.x \in DOMAIN p.kids
      /\ Targets(p, pc) \cap Pcs(p) \subseteq Executable(p)
  BY <1>1, ValidOperands DEF Targets
<1>3. to \in NextPcs(p, pc)
  <2>1. CASE w.op \in {"JMP", "FORPREP", "FORLOOP", "RETURN", "CLOSURE"} \cup SkipOps
    BY <1>2, <2>1 DEF Vm51Steps, NextPcs, Span, SkipOps
  <2>2. CASE w.op \in {"SETLIST", "LOADBOOL", "TAILCALL"}
    BY <1>1, <2>2 DEF Vm51Steps, NextPcs, Span, SkipOps
  <2>3. CASE w.op \notin {"JMP", "FORPREP", "FORLOOP", "RETURN", "CLOSURE", "SETLIST",
                          "LOADBOOL", "TAILCALL"} \cup SkipOps
    <3>1. Vm51Steps(p, pc) = {pc + 1}
      BY <2>3 DEF Vm51Steps
    <3>2. NextPcs(p, pc) = {pc + 1 + 0}
      BY <2>3 DEF NextPcs, Span
    <3> QED BY <1>1, <3>1, <3>2
  <2> QED BY <2>1, <2>2, <2>3
<1>4. to \in Targets(p, pc) \/ (to = After(p, pc) /\ FallsThrough(w))
  BY <1>1, <1>2, <1>3, NextIsTargetOrAfter
<1> QED BY <1>2, <1>4, TargetIsCovered, AfterIsCovered

LEMMA StepIsCovered54 ==
    ASSUME NEW p, IsPrototype(p), p.dialect = "5.4", LoopsAreClosed(p), ArePaired(p),
           NEW pc \in Pcs(p), NEW to \in Vm54Steps(p, pc), to \in Pcs(p)
    PROVE  IsCovered(p, pc, to)
<1> DEFINE w == p.words[pc]
<1>1. /\ Executable(p) = Pcs(p) /\ After(p, pc) = pc + 1
      /\ pc \in Nat /\ to \in Nat /\ w.x \in Int
  <2>1. Pcs(p) \subseteq Nat
    BY ExecutableAreWords
  <2> QED BY <2>1 DEF Executable, After, Claimed, IsPrototype
<1>2. Targets(p, pc) = L54!JumpTargets(w, pc) \cup L54!SkipTargets(w, pc)
  BY DEF Targets
<1>3. CASE to \in Targets(p, pc)
  BY <1>1, <1>3, TargetIsCovered
<1>4. CASE to = pc + 1 /\ FallsThrough(w)
  BY <1>1, <1>4, AfterIsCovered
<1>5. CASE to = pc + 2 /\ (TakesExtra(w) \/ IsOperator(w))
  BY <1>5, PairIsCovered
<1>6. CASE to = pc + 2 + w.x /\ w.op = "FORPREP"
  BY <1>6, LoopExitIsCovered
<1>7. \/ to \in Targets(p, pc)
      \/ to = pc + 1 /\ FallsThrough(w)
      \/ to = pc + 2 /\ (TakesExtra(w) \/ IsOperator(w))
      \/ to = pc + 2 + w.x /\ w.op = "FORPREP"
  <2> USE DEF L54!ForwardOps, L54!BackwardOps
  <2>0. w.op \in {"JMP", "FORPREP", "TFORPREP", "RETURN", "RETURN0", "RETURN1"}
                   \cup L54!BackwardOps =>
           w.op \notin L54!SkipOps /\ ~IsOperator(w) /\ ~TakesExtra(w)
    BY DEF L54!SkipOps, L54!ImmediateTests, IsOperator, TakesExtra, L54!BinaryOps,
           L54!ConstantOps, L54!ImmediateOps
  <2>1. CASE w.op \in {"JMP", "TFORPREP"}
    <3>1. Vm54Steps(p, pc) = IF w.op = "JMP" THEN {w.x} ELSE {pc + 1 + w.x}
      BY <2>0, <2>1 DEF Vm54Steps
    <3>2. L54!JumpTargets(w, pc) = IF w.op = "JMP" THEN {w.x} ELSE {pc + 1 + w.x}
      BY <2>1 DEF L54!JumpTargets
    <3> QED BY <1>2, <3>1, <3>2
  <2>2. CASE w.op = "FORPREP"
    <3>1. Vm54Steps(p, pc) = {pc + 1, pc + 2 + w.x}
      BY <2>0, <2>2 DEF Vm54Steps
    <3>2. FallsThrough(w)
      BY <2>2 DEF FallsThrough, Returns
    <3> QED BY <2>2, <3>1, <3>2
  <2>3. CASE w.op \in L54!BackwardOps
    <3>1. Vm54Steps(p, pc) = {pc + 1 - w.x, pc + 1}
      BY <2>0, <2>3 DEF Vm54Steps
    <3>2. to = pc + 1 - w.x => to \in L54!JumpTargets(w, pc)
      BY <1>1, <2>3 DEF L54!JumpTargets
    <3>3. FallsThrough(w)
      BY <2>3 DEF FallsThrough, Returns
    <3> QED BY <1>2, <3>1, <3>2, <3>3
  <2>4. CASE w.op \in L54!SkipOps
    <3>1. /\ w.op \notin {"JMP", "FORPREP", "TFORPREP", "RETURN", "RETURN0", "RETURN1"}
          /\ w.op \notin L54!BackwardOps
      BY <2>4 DEF L54!SkipOps, L54!ImmediateTests
    <3>2. Vm54Steps(p, pc) \subseteq {pc + 1, pc + 2}
      BY <2>4, <3>1 DEF Vm54Steps
    <3> QED BY <1>2, <2>4, <3>1, <3>2 DEF L54!SkipTargets, FallsThrough, Returns
  <2>5. CASE IsOperator(w)
    <3>1. /\ w.op \notin {"JMP", "FORPREP", "TFORPREP", "RETURN", "RETURN0", "RETURN1"}
          /\ w.op \notin L54!BackwardOps \cup L54!SkipOps
      BY <2>5 DEF IsOperator, L54!BinaryOps, L54!ConstantOps, L54!ImmediateOps,
                  L54!SkipOps, L54!ImmediateTests
    <3>2. Vm54Steps(p, pc) \subseteq {pc + 1, pc + 2}
      BY <2>5, <3>1 DEF Vm54Steps
    <3> QED BY <2>5, <3>1, <3>2 DEF FallsThrough, Returns
  <2>6. CASE /\ w.op \notin {"JMP", "FORPREP", "TFORPREP"} \cup L54!BackwardOps \cup L54!SkipOps
             /\ ~IsOperator(w)
    <3>1. w.op # "LFALSESKIP"
      BY <2>6 DEF L54!SkipOps
    <3>2. Returns(w) => Vm54Steps(p, pc) = {}
      <4> SUFFICES ASSUME Returns(w) PROVE Vm54Steps(p, pc) = {}
        OBVIOUS
      <4>1. w.op \in {"RETURN", "RETURN0", "RETURN1"}
        BY DEF Returns
      <4> QED BY <2>0, <2>6, <3>1, <4>1 DEF Vm54Steps
    <3>3. TakesExtra(w) => Vm54Steps(p, pc) = {pc + 2}
      BY <2>6, <3>1 DEF Vm54Steps, TakesExtra
    <3>4. ~TakesExtra(w) /\ ~Returns(w) => Vm54Steps(p, pc) = {pc + 1}
      BY <2>6, <3>1 DEF Vm54Steps, Returns
    <3> QED BY <2>6, <3>2, <3>3, <3>4 DEF FallsThrough
  <2> QED BY <2>1, <2>2, <2>3, <2>4, <2>5, <2>6
<1> QED BY <1>3, <1>4, <1>5, <1>6, <1>7

(* The prototypes the machine is compared with *)
IsFollowed(p) ==
    IsPrototype(p) /\ p.dialect \in {"5.1", "5.4"} /\ Accepted(p) /\ IsCompiled(p)

LEMMA StepIsCovered ==
    ASSUME NEW p, IsFollowed(p), NEW pc \in Executable(p),
           NEW to \in VmSteps(p, pc), to \in Pcs(p)
    PROVE  IsCovered(p, pc, to)
<1> USE DEF IsFollowed
<1>1. CASE p.dialect = "5.1"
  BY <1>1, StepIsCovered51 DEF VmSteps
<1>2. CASE p.dialect = "5.4"
  <2>1. LoopsAreClosed(p) /\ ArePaired(p)
    BY <1>2 DEF IsCompiled
  <2>2. pc \in Pcs(p) /\ to \in Vm54Steps(p, pc)
    BY <1>2, ExecutableAreWords DEF VmSteps
  <2> QED BY <1>2, <2>1, <2>2, StepIsCovered54
<1> QED BY <1>1, <1>2

-----------------------------------------------------------------------------
(* The words the machine reaches are in every set that holds word 0 and is
   closed under its steps. *)
LEMMA ReachedAreIn ==
    ASSUME NEW p, IsPrototype(p), NEW S, S \subseteq Pcs(p), 0 \in S,
           \A pc \in S : VmSteps(p, pc) \cap Pcs(p) \subseteq S
    PROVE  VmReachable(p) \subseteq S
<1> DEFINE N == NumWords(p)
           Grown(s) == s \cup ((UNION {VmSteps(p, pc) : pc \in s}) \cap Pcs(p))
           IsWave(f) == f = [n \in 0..N |-> IF n = 0 THEN {0} ELSE Grown(f[n - 1])]
           wave == CHOOSE f : IsWave(f)
           V == SUBSET Pcs(p)
           step == [n \in Nat |-> [s \in V |-> Grown(s)]]
           start == {0}
<1>1. N \in Nat
  BY DEF IsPrototype
<1>2. VmReachable(p) = wave[N]
  BY DEF VmReachable
<1>3. IsWave(wave)
  <2>1. step \in [Nat -> [V -> V]]
    OBVIOUS
  <2>2. start \in V
    OBVIOUS
  <2>3. \E f : IsRec(V, start, step, N, f)
    <3> HIDE DEF V, step, N, start
    <3> QED BY <1>1, <2>1, <2>2, Recursion
  <2>4. PICK f \in [0..N -> V] : f[0] = start /\ \A n \in 1..N : f[n] = step[n][f[n - 1]]
    <3> HIDE DEF V, step, N, start
    <3> QED BY <2>3 DEF IsRec
  <2>5. ASSUME NEW n \in 0..N PROVE f[n] = IF n = 0 THEN {0} ELSE Grown(f[n - 1])
    <3>1. CASE n # 0
      <4>1. n \in 1..N /\ n - 1 \in 0..N /\ n \in Nat
        BY <1>1, <3>1
      <4>2. step[n][f[n - 1]] = Grown(f[n - 1])
        <5>1. n \in Nat /\ f[n - 1] \in V
          BY <4>1
        <5> HIDE DEF Grown, V
        <5> QED BY <5>1
      <4> HIDE DEF step, Grown, N
      <4> QED BY <2>4, <3>1, <4>1, <4>2
    <3> QED BY <2>4, <3>1
  <2>6. IsWave(f)
    <3>1. f = [n \in 0..N |-> f[n]]
      OBVIOUS
    <3> HIDE DEF Grown, N
    <3> QED BY <2>5, <3>1
  <2> HIDE DEF IsWave
  <2> QED BY <2>6
<1>4. wave[0] = {0} /\ \A n \in 0..(N - 1) : wave[n + 1] = Grown(wave[n])
  <2>1. \A n \in 0..N : wave[n] = IF n = 0 THEN {0} ELSE Grown(wave[n - 1])
    <3> HIDE DEF wave, Grown
    <3> QED BY <1>3
  <2> HIDE DEF wave, Grown, N
  <2> QED BY <1>1, <2>1
<1> HIDE DEF wave
<1> DEFINE Fine == {n \in Nat : n <= N => wave[n] \subseteq S}
<1>5. 0 \in Fine
  BY <1>4
<1>6. ASSUME NEW n \in Nat, n \in Fine PROVE n + 1 \in Fine
  <2> SUFFICES ASSUME n + 1 <= N PROVE wave[n + 1] \subseteq S
    OBVIOUS
  <2>1. n \in 0..(N - 1) /\ n <= N
    BY <1>1
  <2>2. wave[n] \subseteq S
    BY <1>6, <2>1
  <2>3. Grown(wave[n]) \subseteq S
    BY <2>2
  <2>4. wave[n + 1] = Grown(wave[n])
    <3> HIDE DEF Grown, N
    <3> QED BY <1>4, <2>1
  <2> QED BY <2>3, <2>4
<1>7. Nat \subseteq Fine
  <2> HIDE DEF Fine
  <2> QED BY <1>5, <1>6, Induction
<1> QED BY <1>1, <1>2, <1>7

LEMMA ReachedAreExecutable ==
    ASSUME NEW p, IsFollowed(p)
    PROVE  VmReachable(p) \subseteq Executable(p)
<1>1. Executable(p) \subseteq Pcs(p) /\ 0 \in Executable(p)
  BY ExecutableAreWords DEF IsFollowed
<1>2. \A pc \in Executable(p) : VmSteps(p, pc) \cap Pcs(p) \subseteq Executable(p)
  BY StepIsCovered DEF IsCovered
<1> QED BY <1>1, <1>2, ReachedAreIn DEF IsFollowed

-----------------------------------------------------------------------------
(* The graph that is searched is the one built from the prototype. *)
FromProto == proto # NoProto => IsPrototype(proto) /\ g = BuildCfg(proto)

CfIInv == IInv /\ FromProto

(* On the graph of every prototype of any dialect, and on every adjacency list,
   the analyses keep their invariant. *)
THEOREM CfInvariant == CfSpec => []CfIInv
<1>1. CfInit => CfIInv
  <2>1. ASSUME NEW f \in DOMAIN Prototypes, NEW p \in Prototypes[f], proto = p,
               InitWith(BuildCfg(p))
        PROVE  CfIInv
    <3>1. IsPrototype(p)
      BY InputsAssumption
    <3>2. IsGraph(BuildCfg(p))
      BY <3>1, BuiltGraph DEF IsGraph
    <3> QED BY <2>1, <3>1, <3>2, InitWithIInv DEF CfIInv, FromProto, InitWith
  <2>2. ASSUME proto = NoProto, NEW h \in AdjacencyLists, InitWith(h) PROVE CfIInv
    BY <2>2, InputsAssumption, InitWithIInv DEF CfIInv, FromProto
  <2> QED BY <2>1, <2>2 DEF CfInit
<1>2. CfIInv /\ [CfNext]_CfVars => CfIInv'
  <2> SUFFICES ASSUME CfIInv, [CfNext]_CfVars PROVE CfIInv'
    OBVIOUS
  <2>1. [Next]_vars /\ proto' = proto
    BY DEF CfNext, CfVars
  <2>2. IInv'
    BY <2>1, NextKeepsTypes, NextKeepsIInv DEF CfIInv, IInv
  <2>3. g' = g
    BY <2>1 DEF Next, vars, Visit, StartDominators, StartSweep, Recompute, Converge
  <2>4. FromProto'
    BY <2>1, <2>3 DEF CfIInv, FromProto
  <2> QED BY <2>2, <2>4 DEF CfIInv
<1> QED BY <1>1, <1>2, PTL DEF CfSpec

(* What roles.rs and validator.rs promise together: in a prototype of Lua 5.1
   that is accepted, control never gets to a companion word. *)
THEOREM ControlStays == CfSpec => []ControlStaysOnInstructions
<1>1. CfIInv => ControlStaysOnInstructions
  <2> SUFFICES ASSUME CfIInv, IsStart, proto.dialect = "5.1"
               PROVE  VmReachable(proto) \subseteq Instructions(proto)
    BY DEF ControlStaysOnInstructions
  <2>1. IsFollowed(proto)
    BY DEF IsStart, CfIInv, FromProto, IsFollowed, IsCompiled
  <2> QED BY <2>1, ReachedAreExecutable DEF Executable
<1> QED BY <1>1, CfInvariant, PTL

(* ControlFlowGraph::build over-approximates the machine: whatever the words,
   a step that the machine can take is one the graph has. *)
THEOREM CfgCovers == CfSpec => []CfgCoversExecution
<1>1. CfIInv => CfgCoversExecution
  <2> DEFINE exec == Executable(proto)
             leaders == Leaders(proto, exec)
             Ends(from, pc) == IF proto.dialect = "5.4" /\ proto.words[pc].op = "FORPREP"
                               THEN {from} \cup g.succ[from] ELSE {from}
  <2> SUFFICES ASSUME CfIInv, IsStart, IsCompiled(proto),
                      NEW pc \in VmReachable(proto),
                      NEW to \in VmSteps(proto, pc) \cap Pcs(proto)
               PROVE  LET from == BlockOf(leaders, pc)
                      IN  \/ to > pc /\ to \in Body(exec, leaders, from)
                          \/ to \in leaders /\ \E b \in Ends(from, pc) : to \in g.succ[b]
    BY DEF CfgCoversExecution
  <2> DEFINE from == BlockOf(leaders, pc)
             succ(b) == Successors(proto, exec, leaders, b)
  <2>1. IsFollowed(proto)
    BY DEF IsStart, CfIInv, FromProto, IsFollowed
  <2>2. pc \in exec /\ pc \in Pcs(proto) /\ IsPrototype(proto)
    BY <2>1, ReachedAreExecutable, ExecutableAreWords DEF IsFollowed
  <2>3. IsCovered(proto, pc, to)
    BY <2>1, <2>2, StepIsCovered
  <2>4. /\ from \in leaders /\ from <= pc /\ from \in Nat /\ pc \in Nat /\ to \in Nat
    <3>1. from \in leaders /\ from <= pc
      BY <2>2, BlockOfIs
    <3> QED BY <2>2, <3>1, ExecutableAreWords, LeadersAreExecutable
  <2>5. /\ \A b \in leaders : g.succ[b] = succ(b)
        /\ \A b \in leaders : succ(b) \subseteq leaders
    <3>1. g = BuildCfg(proto)
      BY DEF IsStart, CfIInv, FromProto
    <3> QED BY <2>2, <3>1, BuiltGraph, SuccessorsAreLeaders
  <2>6. CASE to > pc /\ BlockOf(leaders, to) = from
    <3>1. to \in exec
      BY <2>3 DEF IsCovered
    <3>2. to >= from
      BY <2>4, <2>6
    <3> HIDE DEF exec, leaders, from
    <3>3. to \in Body(exec, leaders, from)
      BY <2>6, <3>1, <3>2 DEF Body
    <3> QED BY <2>6, <3>3 DEF from
  <2>7. CASE to \in leaders /\ to \in succ(from)
    <3> HIDE DEF succ, leaders, from
    <3>1. to \in g.succ[from] /\ from \in Ends(from, pc)
      BY <2>4, <2>5, <2>7
    <3> QED BY <2>7, <3>1 DEF from
  <2>8. CASE /\ proto.dialect = "5.4" /\ proto.words[pc].op = "FORPREP" /\ to \in leaders
             /\ \E b \in succ(from) : to \in succ(b)
    <3>1. PICK b \in succ(from) : to \in succ(b)
      BY <2>8
    <3> HIDE DEF succ, leaders, from
    <3>2. b \in Ends(from, pc) /\ to \in g.succ[b]
      BY <2>4, <2>5, <2>8, <3>1
    <3> QED BY <2>8, <3>2 DEF from
  <2> QED BY <2>3, <2>6, <2>7, <2>8 DEF IsCovered
<1> QED BY <1>1, CfInvariant, PTL

(* What the machine can reach is in a block whose is_reachable flag is set. *)
THEOREM ReachedAreMarked == CfSpec => []ReachedWordsAreMarked
<1>1. CfIInv => ReachedWordsAreMarked
  <2> DEFINE exec == Executable(proto)
             leaders == Leaders(proto, exec)
             S == {pc \in exec : BlockOf(leaders, pc) \in reach}
  <2> SUFFICES ASSUME CfIInv, phase = "done", proto # NoProto,
                      proto.dialect \in {"5.1", "5.4"}, Accepted(proto), IsCompiled(proto)
               PROVE  \A pc \in VmReachable(proto) : BlockOf(g.nodes, pc) \in reach
    BY DEF ReachedWordsAreMarked
  <2>1. IsFollowed(proto) /\ IsPrototype(proto) /\ g = BuildCfg(proto)
    BY DEF CfIInv, FromProto, IsFollowed
  <2>2. /\ g.nodes = leaders /\ g.entry = 0 /\ 0 \in leaders
        /\ \A b \in leaders : g.succ[b] = Successors(proto, exec, leaders, b)
    BY <2>1, BuiltGraph
  <2>3. /\ g.entry \in reach /\ reach \subseteq g.nodes
        /\ \A b \in reach : g.succ[b] \subseteq reach
    <3>1. Converged
      BY DEF Converged, CfIInv
    <3> QED BY <3>1, WhenConverged
  <2>4. exec \subseteq Pcs(proto) /\ 0 \in exec /\ 0 \in Pcs(proto)
    BY <2>1, ExecutableAreWords
  <2>5. \A l \in leaders : l \in exec /\ BlockOf(leaders, l) = l
    <3>1. leaders \subseteq exec
      BY <2>1, LeadersAreExecutable
    <3> QED BY <2>1, <2>4, <3>1, BlockOfIs
  <2>6. 0 \in S
    BY <2>2, <2>3, <2>5
  <2>7. ASSUME NEW pc \in S, NEW to \in VmSteps(proto, pc) \cap Pcs(proto)
        PROVE  to \in S
    <3> DEFINE from == BlockOf(leaders, pc)
               succ(b) == Successors(proto, exec, leaders, b)
    <3>1. IsCovered(proto, pc, to) /\ to \in exec
      BY <2>1, <2>7, StepIsCovered DEF IsCovered
    <3>2. from \in reach
      BY <2>7
    <3>3. \A b \in reach : succ(b) \subseteq reach
      BY <2>2, <2>3
    <3>4. BlockOf(leaders, to) = from \/ (to \in leaders /\ to \in reach)
      <4>1. \/ BlockOf(leaders, to) = from
            \/ to \in leaders /\ to \in succ(from)
            \/ to \in leaders /\ \E b \in succ(from) : to \in succ(b)
        BY <3>1 DEF IsCovered
      <4> HIDE DEF succ, from, leaders
      <4> QED BY <3>2, <3>3, <4>1
    <3> QED BY <2>5, <3>1, <3>2, <3>4
  <2>8. VmReachable(proto) \subseteq S
    <3>1. S \subseteq Pcs(proto)
      BY <2>4
    <3>2. \A pc \in S : VmSteps(proto, pc) \cap Pcs(proto) \subseteq S
      BY <2>7
    <3> HIDE DEF S
    <3> QED BY <2>1, <2>6, <3>1, <3>2, ReachedAreIn
  <2> QED BY <2>2, <2>8
<1> QED BY <1>1, CfInvariant, PTL

(* The answers are exact on the graphs the code builds, too. *)
THEOREM BuiltGraphsAreAnalysed ==
    CfSpec => [](TypeOK /\ ReachIsExact /\ DominatorsAreExact /\ DominatorTreeIsExact)
<1>1. CfIInv => TypeOK /\ ReachIsExact /\ DominatorsAreExact /\ DominatorTreeIsExact
  BY ReachFromIInv, DominatorsFromIInv, TreeFromIInv DEF CfIInv, IInv
<1> QED BY <1>1, CfInvariant, PTL

-----------------------------------------------------------------------------
(***************************************************************************)
(* The lifter and the validator of a dialect decode every operand          *)
(* separately; that they agree is proved here for Lua 5.1, 5.2, 5.3 and    *)
(* 5.5, for every word with every operand and every prototype: what an     *)
(* accepted word is said to read and write is declared by its prototype.   *)
(*                                                                         *)
(* The checks of a validator are collected in one predicate of the word    *)
(* (Checked, Checked52, Checked55), and every entry of a lifter is shown   *)
(* to stay within it, table by table. Lua 5.1 and 5.3 use the entries of   *)
(* Lua 5.2 they repeat.                                                    *)
(***************************************************************************)
-----------------------------------------------------------------------------
(* Operands *)

(* The operand is declared, or far allows the one register past the last. *)
IsWithin(p, far, o) ==
    L51!IsDeclared(p, o) \/ (far /\ o = L51!R(p.maxstack))

(* What Lua 5.1 to 5.3 check of a word, whichever of them *)
Checked(p, far, w) ==
    LET max == p.maxstack
        last(n) == n < max \/ (far /\ n <= max)
        byte(n) == n % 256
    IN  /\ {w.a, w.b, w.c} \subseteq Nat /\ w.x \in Int
        /\ w.op \notin {"EXTRAARG", "JMP", "SETTABUP", "EQ", "LT", "LE"} => w.a < max
        /\ w.op \in {"UNM", "NOT", "LEN", "MOVE", "TESTSET", "GETTABLE", "SELF"}
              => byte(w.b) < max
        /\ w.op = "CONCAT" => byte(w.c) < max
        /\ w.op \in L52!RKBOps => IF w.b < 256 THEN w.b < max ELSE w.b - 256 < p.consts
        /\ w.op \in L52!RKCOps => IF w.c < 256 THEN w.c < max ELSE w.c - 256 < p.consts
        /\ w.op = "LOADK" => w.x < p.consts
        /\ w.op \in {"GETUPVAL", "SETUPVAL", "GETTABUP"} => w.b < p.nups
        /\ w.op = "SETTABUP" => w.a < p.nups
        /\ w.op = "SELF" => w.a + 1 < max
        /\ w.op \in {"CALL", "TAILCALL"} /\ w.b > 1 => last(w.a + w.b - 1)
        /\ w.op = "CALL" /\ w.c > 1 => w.a + w.c - 2 < max
        /\ w.op \in {"RETURN", "VARARG"} /\ w.b > 1 => w.a + w.b - 2 < max
        /\ w.op = "FORLOOP" => w.a + 3 < max
        /\ w.op = "FORPREP" => w.a + 2 < max

LEMMA RegisterWithin ==
    ASSUME NEW p, p.maxstack \in Nat, NEW far, NEW i \in Nat,
           i % 256 < p.maxstack \/ (far /\ i <= p.maxstack)
    PROVE  IsWithin(p, far, L51!R(i))
<1>1. i % 256 \in Nat /\ i % 256 <= i /\ p.maxstack % 256 \in Nat /\ i % 256 < 256
  OBVIOUS
<1>2. CASE i % 256 < p.maxstack
  BY <1>2 DEF IsWithin, L51!IsDeclared, L51!R
<1>3. CASE far /\ i % 256 >= p.maxstack
  <2>1. i % 256 = p.maxstack /\ p.maxstack < 256
    BY <1>1, <1>3
  <2>2. p.maxstack % 256 = p.maxstack
    BY <2>1
  <2> QED BY <1>3, <2>1, <2>2 DEF IsWithin, L51!R
<1> QED BY <1>1, <1>2, <1>3

LEMMA WindowWithin ==
    ASSUME NEW p, p.maxstack \in Nat, NEW far, NEW first \in Nat, NEW last \in Int,
           last < p.maxstack \/ (far /\ last <= p.maxstack)
    PROVE  \A o \in L51!Window(first, last) : IsWithin(p, far, o)
<1> SUFFICES ASSUME NEW i \in first..last
             PROVE  IsWithin(p, far, L51!R(i))
  BY DEF L51!Window
<1>1. i \in Nat /\ i <= last /\ i % 256 <= i /\ i % 256 \in Nat
  OBVIOUS
<1>2. i % 256 < p.maxstack \/ (far /\ i <= p.maxstack)
  BY <1>1
<1> QED BY <1>1, <1>2, RegisterWithin

LEMMA ConstantWithin ==
    ASSUME NEW p, NEW far, NEW i, i < p.consts
    PROVE  IsWithin(p, far, L51!K(i))
BY DEF IsWithin, L51!IsDeclared, L51!K

LEMMA UpvalueWithin ==
    ASSUME NEW p, p.nups \in Nat, NEW far, NEW i \in Nat, i < p.nups
    PROVE  IsWithin(p, far, L51!U(i))
<1>1. i % 256 <= i /\ i % 256 \in Nat
  OBVIOUS
<1>2. i % 256 < p.nups
  BY <1>1
<1> QED BY <1>2 DEF IsWithin, L51!IsDeclared, L51!U

LEMMA RKWithin ==
    ASSUME NEW p, p.maxstack \in Nat, p.consts \in Nat, NEW far, NEW n \in Nat,
           IF n < 256 THEN n < p.maxstack ELSE n - 256 < p.consts
    PROVE  \A o \in L51!RK(n) : IsWithin(p, far, o)
<1>1. CASE n < 256
  <2>1. n % 256 = n /\ L51!RK(n) = {L51!R(n)}
    BY <1>1 DEF L51!RK
  <2> QED BY <1>1, <2>1, RegisterWithin
<1>2. CASE n >= 256
  <2>1. L51!RK(n) = {L51!K(n - 256)} /\ n - 256 < p.consts
    BY <1>2 DEF L51!RK
  <2> QED BY <2>1, ConstantWithin
<1> QED BY <1>1, <1>2

LEMMA LoadsWithin ==
    ASSUME NEW p, {p.maxstack, p.consts, p.nups} \subseteq Nat,
           NEW far, NEW w, Checked(p, far, w),
           w.op = "LOADNIL" => w.a + (w.b % 256) < p.maxstack,
           NEW e \in L52!In(L52!Loads(w), w.op), NEW o \in e.reads \cup e.writes
    PROVE  IsWithin(p, far, o)
<1>1. w.op \in {"MOVE", "LOADK", "LOADKX", "LOADBOOL", "LOADNIL", "GETUPVAL"}
      /\ e = L52!Loads(w)[w.op]
  BY DEF L52!In, L52!Loads
<1>2. CASE w.op = "LOADNIL"
  <2>1. o \in L51!Window(w.a, w.a + (w.b % 256))
    BY <1>1, <1>2 DEF L52!Loads, L52!Effect, L52!Window, L51!Window, L52!R, L51!R
  <2> DEFINE last == w.a + (w.b % 256)
  <2>2. w.a \in Nat /\ last \in Int /\ last < p.maxstack
    BY <1>2 DEF Checked
  <2> HIDE DEF last
  <2>3. \A r \in L51!Window(w.a, last) : IsWithin(p, far, r)
    BY <2>2, WindowWithin
  <2> QED BY <2>1, <2>3 DEF last
<1>3. CASE w.op # "LOADNIL"
  <2>1. \/ o = L51!R(w.a)
        \/ w.op = "MOVE" /\ o = L51!R(w.b)
        \/ w.op = "LOADK" /\ o = L51!K(w.x)
        \/ w.op = "GETUPVAL" /\ o = L51!U(w.b)
    BY <1>1, <1>3 DEF L52!Loads, L52!Effect, L52!R, L51!R, L52!K, L51!K, L52!U, L51!U
  <2> QED BY <1>1, <2>1, RegisterWithin, ConstantWithin, UpvalueWithin DEF Checked
<1> QED BY <1>2, <1>3

LEMMA TablesWithin ==
    ASSUME NEW p, {p.maxstack, p.consts, p.nups} \subseteq Nat,
           NEW far, NEW w, Checked(p, far, w),
           NEW e \in L52!In(L52!Tables(w), w.op), NEW o \in e.reads \cup e.writes
    PROVE  IsWithin(p, far, o)
<1>1. w.op \in {"GETTABUP", "GETTABLE", "SETTABUP", "SETUPVAL", "SETTABLE", "NEWTABLE", "SELF"}
      /\ e = L52!Tables(w)[w.op]
  BY DEF L52!In, L52!Tables
<1>2. \/ w.op # "SETTABUP" /\ o = L51!R(w.a)
      \/ w.op \in {"GETTABLE", "SELF"} /\ o = L51!R(w.b)
      \/ w.op \in {"GETTABUP", "SETUPVAL"} /\ o = L51!U(w.b)
      \/ w.op = "SETTABUP" /\ o = L51!U(w.a)
      \/ w.op \in {"SETTABUP", "SETTABLE"} /\ o \in L51!RK(w.b)
      \/ w.op \in {"GETTABUP", "GETTABLE", "SETTABUP", "SETTABLE", "SELF"} /\ o \in L51!RK(w.c)
      \/ w.op = "SELF" /\ o \in L51!Window(w.a, w.a + 1)
  BY <1>1 DEF L52!Tables, L52!Effect, L52!R, L51!R, L52!U, L51!U, L52!K, L51!K, L52!RK, L51!RK,
              L52!Window, L51!Window
<1>3. CASE w.op # "SETTABUP" /\ o = L51!R(w.a)
  BY <1>1, <1>3, RegisterWithin DEF Checked
<1>4. CASE w.op \in {"GETTABLE", "SELF"} /\ o = L51!R(w.b)
  BY <1>4, RegisterWithin DEF Checked
<1>5. CASE \/ w.op \in {"GETTABUP", "SETUPVAL"} /\ o = L51!U(w.b)
           \/ w.op = "SETTABUP" /\ o = L51!U(w.a)
  BY <1>5, UpvalueWithin DEF Checked
<1>6. CASE w.op \in {"SETTABUP", "SETTABLE"} /\ o \in L51!RK(w.b)
  <2>1. w.op \in L52!RKBOps
    BY <1>6 DEF L52!RKBOps
  <2> QED BY <1>6, <2>1, RKWithin DEF Checked
<1>7. CASE w.op \in {"GETTABUP", "GETTABLE", "SETTABUP", "SETTABLE", "SELF"} /\ o \in L51!RK(w.c)
  <2>1. w.op \in L52!RKCOps
    BY <1>7 DEF L52!RKBOps, L52!RKCOps
  <2> QED BY <1>7, <2>1, RKWithin DEF Checked
<1>8. CASE w.op = "SELF" /\ o \in L51!Window(w.a, w.a + 1)
  <2>1. w.a \in Nat /\ w.a + 1 \in Int /\ w.a + 1 < p.maxstack
    BY <1>8 DEF Checked
  <2> QED BY <1>8, <2>1, WindowWithin
<1> QED BY <1>2, <1>3, <1>4, <1>5, <1>6, <1>7, <1>8

LEMMA OperatorsWithin ==
    ASSUME NEW p, {p.maxstack, p.consts, p.nups} \subseteq Nat,
           NEW far, NEW w, Checked(p, far, w),
           NEW e \in L52!In(L52!Operators(w), w.op) \cup L52!In(L52!UnaryOperators(w), w.op),
           NEW o \in e.reads \cup e.writes
    PROVE  IsWithin(p, far, o)
<1>1. CASE e \in L52!In(L52!Operators(w), w.op)
  <2>1. /\ w.op \in L52!BinaryOps
        /\ e = L52!Effect(L52!RK(w.b) \cup L52!RK(w.c), {L52!R(w.a)})
    BY <1>1 DEF L52!In, L52!Operators
  <2>2. o = L51!R(w.a) \/ o \in L51!RK(w.b) \/ o \in L51!RK(w.c)
    BY <2>1 DEF L52!Effect, L52!R, L51!R, L52!K, L51!K, L52!RK, L51!RK
  <2>3. w.op \in L52!RKBOps /\ w.op \in L52!RKCOps
    BY <2>1 DEF L52!RKBOps, L52!RKCOps
  <2>4. w.op \notin {"EXTRAARG", "JMP", "SETTABUP", "EQ", "LT", "LE"}
    BY <2>1 DEF L52!BinaryOps
  <2> QED BY <2>2, <2>3, <2>4, RegisterWithin, RKWithin DEF Checked
<1>2. CASE e \in L52!In(L52!UnaryOperators(w), w.op)
  <2>1. w.op \in {"UNM", "NOT", "LEN"} /\ e = L52!Effect({L52!R(w.b)}, {L52!R(w.a)})
    BY <1>2 DEF L52!In, L52!UnaryOperators, L52!UnaryOps
  <2>2. o = L51!R(w.a) \/ o = L51!R(w.b)
    BY <2>1 DEF L52!Effect, L52!R, L51!R
  <2> QED BY <2>1, <2>2, RegisterWithin DEF Checked
<1> QED BY <1>1, <1>2

LEMMA TestsWithin ==
    ASSUME NEW p, {p.maxstack, p.consts, p.nups} \subseteq Nat,
           NEW far, NEW w, Checked(p, far, w),
           NEW e \in L52!In(L52!Tests(w), w.op), NEW o \in e.reads \cup e.writes
    PROVE  IsWithin(p, far, o)
<1>1. w.op \in {"CONCAT", "EQ", "LT", "LE", "TEST", "TESTSET"} /\ e = L52!Tests(w)[w.op]
  BY DEF L52!In, L52!Tests
<1>2. \/ w.op \in {"CONCAT", "TEST", "TESTSET"} /\ o = L51!R(w.a)
      \/ w.op = "TESTSET" /\ o = L51!R(w.b)
      \/ w.op = "CONCAT" /\ o \in L51!Window(w.b % 256, w.c % 256)
      \/ w.op \in {"EQ", "LT", "LE"} /\ o \in L51!RK(w.b) \cup L51!RK(w.c)
  BY <1>1 DEF L52!Tests, L52!Effect, L52!R, L51!R, L52!K, L51!K, L52!RK, L51!RK,
              L52!Window, L51!Window
<1>3. CASE \/ w.op \in {"CONCAT", "TEST", "TESTSET"} /\ o = L51!R(w.a)
           \/ w.op = "TESTSET" /\ o = L51!R(w.b)
  BY <1>3, RegisterWithin DEF Checked
<1>4. CASE w.op = "CONCAT" /\ o \in L51!Window(w.b % 256, w.c % 256)
  <2>1. w.b % 256 \in Nat /\ w.c % 256 \in Int /\ w.c % 256 < p.maxstack
    BY <1>4 DEF Checked
  <2> QED BY <1>4, <2>1, WindowWithin
<1>5. CASE w.op \in {"EQ", "LT", "LE"} /\ o \in L51!RK(w.b) \cup L51!RK(w.c)
  <2>1. w.op \in L52!RKBOps /\ w.op \in L52!RKCOps
    BY <1>5 DEF L52!RKBOps, L52!RKCOps
  <2> QED BY <1>5, <2>1, RKWithin DEF Checked
<1> QED BY <1>2, <1>3, <1>4, <1>5

LEMMA CallsWithin ==
    ASSUME NEW p, {p.maxstack, p.consts, p.nups} \subseteq Nat,
           NEW far, NEW w, Checked(p, far, w),
           w.op \in {"CALL", "TAILCALL", "RETURN", "CLOSURE", "VARARG"},
           NEW o \in L52!Calls(w)[w.op].reads \cup L52!Calls(w)[w.op].writes
    PROVE  IsWithin(p, far, o)
<1>1. /\ w.a \in Nat /\ w.b \in Nat /\ w.c \in Nat /\ w.a < p.maxstack
      /\ w.b % 256 \in Nat /\ w.b % 256 <= w.b /\ w.c % 256 \in Nat /\ w.c % 256 <= w.c
  BY DEF Checked
<1>2. \/ w.op \in {"CALL", "TAILCALL", "CLOSURE"} /\ o = L51!R(w.a)
      \/ /\ w.op \in {"CALL", "TAILCALL"} /\ w.b > 1
         /\ o \in L51!Window(w.a + 1, w.a + (w.b % 256) - 1)
      \/ w.op = "CALL" /\ w.c > 1 /\ o \in L51!Window(w.a, w.a + (w.c % 256) - 2)
      \/ /\ w.op \in {"RETURN", "VARARG"} /\ w.b > 1
         /\ o \in L51!Window(w.a, w.a + (w.b % 256) - 2)
  BY DEF L52!Calls, L52!Called, L52!Effect, L52!R, L51!R, L52!Window, L51!Window
<1>3. CASE w.op \in {"CALL", "TAILCALL", "CLOSURE"} /\ o = L51!R(w.a)
  <2>1. w.a % 256 < p.maxstack
    BY <1>1
  <2> QED BY <1>1, <1>3, <2>1, RegisterWithin
<1>4. CASE /\ w.op \in {"CALL", "TAILCALL"} /\ w.b > 1
           /\ o \in L51!Window(w.a + 1, w.a + (w.b % 256) - 1)
  <2>1. \/ w.a + w.b - 1 < p.maxstack
        \/ far /\ w.a + w.b - 1 <= p.maxstack
    BY <1>4 DEF Checked
  <2>2. \/ w.a + (w.b % 256) - 1 < p.maxstack
        \/ far /\ w.a + (w.b % 256) - 1 <= p.maxstack
    BY <1>1, <2>1
  <2>3. w.a + 1 \in Nat /\ w.a + (w.b % 256) - 1 \in Int
    BY <1>1
  <2> QED BY <1>4, <2>2, <2>3, WindowWithin
<1>5. CASE w.op = "CALL" /\ w.c > 1 /\ o \in L51!Window(w.a, w.a + (w.c % 256) - 2)
  <2>1. w.a + w.c - 2 < p.maxstack
    BY <1>5 DEF Checked
  <2>2. w.a + (w.c % 256) - 2 < p.maxstack /\ w.a + (w.c % 256) - 2 \in Int
    BY <1>1, <2>1
  <2> QED BY <1>1, <1>5, <2>2, WindowWithin
<1>6. CASE /\ w.op \in {"RETURN", "VARARG"} /\ w.b > 1
           /\ o \in L51!Window(w.a, w.a + (w.b % 256) - 2)
  <2>1. w.a + w.b - 2 < p.maxstack
    BY <1>6 DEF Checked
  <2>2. w.a + (w.b % 256) - 2 < p.maxstack /\ w.a + (w.b % 256) - 2 \in Int
    BY <1>1, <2>1
  <2> QED BY <1>1, <1>6, <2>2, WindowWithin
<1> QED BY <1>2, <1>3, <1>4, <1>5, <1>6

(* The entry of a loop instruction, or of the list that ends as they do *)
LEMMA LoopsWithin ==
    ASSUME NEW p, {p.maxstack, p.consts, p.nups} \subseteq Nat,
           NEW far, NEW w, Checked(p, far, w), w.a < p.maxstack,
           NEW op \in {"FORLOOP", "FORPREP", "TFORCALL", "TFORLOOP", "SETLIST"},
           op = "FORLOOP" => w.a + 3 < p.maxstack,
           op = "FORPREP" => w.a + 2 < p.maxstack,
           op = "TFORLOOP" => w.a + 1 < p.maxstack,
           op = "TFORCALL" => \/ w.a + 2 + w.c < p.maxstack
                              \/ far /\ w.a + 2 + w.c <= p.maxstack,
           op = "SETLIST" => far /\ (w.b > 0 => w.a + w.b <= p.maxstack),
           NEW o \in L52!Loops(w)[op].reads \cup L52!Loops(w)[op].writes
    PROVE  IsWithin(p, far, o)
<1>1. /\ w.a \in Nat /\ w.b \in Nat /\ w.c \in Nat /\ p.maxstack \in Nat
      /\ w.b % 256 \in Nat /\ w.b % 256 <= w.b /\ w.c % 256 \in Nat /\ w.c % 256 <= w.c
  BY DEF Checked
<1>2. CASE op \in {"FORLOOP", "FORPREP"}
  <2>1. \/ o \in L51!Window(w.a, w.a + 2)
        \/ o = L51!R(w.a)
        \/ op = "FORLOOP" /\ o = L51!R(w.a + 3)
    BY <1>2 DEF L52!Loops, L52!Effect, L52!R, L51!R, L52!Window, L51!Window
  <2>2. w.a + 2 < p.maxstack /\ w.a + 2 \in Int /\ w.a + 3 \in Nat
    BY <1>1, <1>2
  <2>3. /\ w.a % 256 < p.maxstack
        /\ op = "FORLOOP" => (w.a + 3) % 256 < p.maxstack
    BY <1>1
  <2>4. \A r \in L51!Window(w.a, w.a + 2) : IsWithin(p, far, r)
    BY <1>1, <2>2, WindowWithin
  <2> QED BY <1>1, <2>1, <2>2, <2>3, <2>4, RegisterWithin
<1>3. CASE op = "TFORCALL"
  <2>1. \/ o \in L51!Window(w.a, w.a + 2)
        \/ o \in L51!Window(w.a + 3, w.a + 2 + (w.c % 256))
    BY <1>3 DEF L52!Loops, L52!Effect, L52!R, L51!R, L52!Window, L51!Window
  <2>2. /\ w.a + 2 < p.maxstack \/ (far /\ w.a + 2 <= p.maxstack)
        /\ \/ w.a + 2 + (w.c % 256) < p.maxstack
           \/ far /\ w.a + 2 + (w.c % 256) <= p.maxstack
    BY <1>1, <1>3
  <2>3. w.a + 2 \in Int /\ w.a + 3 \in Nat /\ w.a + 2 + (w.c % 256) \in Int
    BY <1>1
  <2>4. \A r \in L51!Window(w.a, w.a + 2) : IsWithin(p, far, r)
    BY <1>1, <2>2, <2>3, WindowWithin
  <2> DEFINE last == w.a + 2 + (w.c % 256)
  <2>5. /\ last < p.maxstack \/ (far /\ last <= p.maxstack)
        /\ last \in Int /\ w.a + 3 \in Nat
    BY <2>2, <2>3
  <2> HIDE DEF last
  <2>6. \A r \in L51!Window(w.a + 3, last) : IsWithin(p, far, r)
    BY <1>1, <2>5, WindowWithin
  <2> QED BY <2>1, <2>4, <2>6 DEF last
<1>4. CASE op = "TFORLOOP"
  <2>1. o = L51!R(w.a + 1) \/ o = L51!R(w.a)
    BY <1>4 DEF L52!Loops, L52!Effect, L52!R, L51!R
  <2>2. w.a % 256 < p.maxstack /\ (w.a + 1) % 256 < p.maxstack /\ w.a + 1 \in Nat
    BY <1>1, <1>4
  <2> QED BY <1>1, <2>1, <2>2, RegisterWithin
<1>5. CASE op = "SETLIST"
  <2> DEFINE last == w.a + (IF w.b = 0 THEN 1 ELSE w.b % 256)
  <2>1. o \in L51!Window(w.a + 1, last) \/ o = L51!R(w.a)
    BY <1>5 DEF L52!Loops, L52!Effect, L52!R, L51!R, L52!Window, L51!Window
  <2>2. far /\ last <= p.maxstack /\ last \in Int /\ w.a + 1 \in Nat
    BY <1>1, <1>5
  <2>3. w.a % 256 < p.maxstack
    BY <1>1
  <2> HIDE DEF last
  <2>4. \A r \in L51!Window(w.a + 1, last) : IsWithin(p, far, r)
    BY <1>1, <2>2, WindowWithin
  <2> QED BY <1>1, <2>1, <2>3, <2>4, RegisterWithin
<1> QED BY <1>2, <1>3, <1>4, <1>5

-----------------------------------------------------------------------------
(* Lua 5.2 and 5.3 *)

(* What Lua 5.2 checks besides *)
Checked52(p, far, w) ==
    LET max == p.maxstack
    IN  /\ Checked(p, far, w)
        /\ w.op = "LOADNIL" => w.a + (w.b % 256) < max
        /\ w.op = "TFORLOOP" => w.a + 1 < max
        /\ w.op = "TFORCALL" => far /\ w.a + 2 + w.c <= max
        /\ w.op = "SETLIST" => far /\ (w.b > 0 => w.a + w.b <= max)

Found52(w) ==
    L52!In(L52!Loads(w), w.op) \cup L52!In(L52!Tables(w), w.op)
      \cup L52!In(L52!Operators(w), w.op) \cup L52!In(L52!UnaryOperators(w), w.op)
      \cup L52!In(L52!Tests(w), w.op) \cup L52!In(L52!Calls(w), w.op)
      \cup L52!In(L52!Loops(w), w.op)

LEMMA Found52Within ==
    ASSUME NEW p, {p.maxstack, p.consts, p.nups} \subseteq Nat,
           NEW far, NEW w, Checked52(p, far, w),
           NEW e \in Found52(w), NEW o \in e.reads \cup e.writes
    PROVE  IsWithin(p, far, o)
<1>1. Checked(p, far, w)
  BY DEF Checked52
<1>2. CASE e \in L52!In(L52!Loads(w), w.op)
  BY <1>1, <1>2, LoadsWithin DEF Checked52
<1>3. CASE e \in L52!In(L52!Tables(w), w.op)
  BY <1>1, <1>3, TablesWithin
<1>4. CASE e \in L52!In(L52!Operators(w), w.op) \cup L52!In(L52!UnaryOperators(w), w.op)
  BY <1>1, <1>4, OperatorsWithin
<1>5. CASE e \in L52!In(L52!Tests(w), w.op)
  BY <1>1, <1>5, TestsWithin
<1>6. CASE e \in L52!In(L52!Calls(w), w.op)
  <2>1. /\ w.op \in {"CALL", "TAILCALL", "RETURN", "CLOSURE", "VARARG"}
        /\ e = L52!Calls(w)[w.op]
    BY <1>6 DEF L52!In, L52!Calls
  <2> QED BY <1>1, <2>1, CallsWithin
<1>7. CASE e \in L52!In(L52!Loops(w), w.op)
  <2> DEFINE op == w.op
  <2>1. /\ op \in {"FORLOOP", "FORPREP", "TFORCALL", "TFORLOOP", "SETLIST"}
        /\ e = L52!Loops(w)[op]
    BY <1>7 DEF L52!In, L52!Loops
  <2>2. /\ w.a < p.maxstack
        /\ op = "FORLOOP" => w.a + 3 < p.maxstack
        /\ op = "FORPREP" => w.a + 2 < p.maxstack
        /\ op = "TFORLOOP" => w.a + 1 < p.maxstack
        /\ op = "TFORCALL" => far /\ w.a + 2 + w.c <= p.maxstack
        /\ op = "SETLIST" => far /\ (w.b > 0 => w.a + w.b <= p.maxstack)
    BY <2>1 DEF Checked52, Checked
  <2> HIDE DEF op
  <2> QED BY <1>1, <2>1, <2>2, LoopsWithin
<1> QED BY <1>2, <1>3, <1>4, <1>5, <1>6, <1>7 DEF Found52

LEMMA Checked52Holds ==
    ASSUME NEW p, {p.maxstack, p.consts, p.nups} \subseteq Nat,
           NEW w, {w.a, w.b, w.c} \subseteq Nat, w.x \in Int, NEW far \in BOOLEAN,
           w.op \in {"CALL", "TAILCALL", "TFORCALL", "SETLIST"} => far,
           L52!RegisterErrors(p, w) = {}, L52!SpanErrors(p, w) = {},
           L52!IndexErrors(p, w) = {}, w.op \in L52!Opcodes,
           w.op = "LOADK" => w.x < p.consts,
           w.op \in L52!RKBOps /\ w.b >= 256 => w.b - 256 < p.consts,
           w.op \in L52!RKCOps /\ w.c >= 256 => w.c - 256 < p.consts
    PROVE  Checked52(p, far, w)
<1>1. /\ w.op \in L52!ARegisterOps => ~(w.a >= p.maxstack)
      /\ (w.op \in L52!BRegisterOps \/ (w.op \in L52!RKBOps /\ w.b < 256))
            => ~(w.b % 256 >= p.maxstack)
      /\ (w.op = "CONCAT" \/ (w.op \in L52!RKCOps /\ w.c < 256))
            => ~(w.c % 256 >= p.maxstack)
  BY DEF L52!RegisterErrors, L52!Codes
<1>2. /\ w.op \in {"GETUPVAL", "SETUPVAL", "GETTABUP"} => ~(w.b >= p.nups)
      /\ w.op = "SETTABUP" => ~(w.a >= p.nups)
  BY DEF L52!IndexErrors, L52!Codes
<1>3. /\ w.op = "LOADNIL" => ~(w.a + w.b >= p.maxstack)
      /\ w.op = "SELF" => ~(w.a + 1 >= p.maxstack)
      /\ w.op \in {"CALL", "TAILCALL"} /\ w.b > 1 => ~(w.a + w.b - 1 > p.maxstack)
      /\ w.op = "CALL" /\ w.c > 1 => ~(w.a + w.c - 2 >= p.maxstack)
      /\ w.op \in {"RETURN", "VARARG"} /\ w.b > 1 => ~(w.a + w.b - 2 >= p.maxstack)
      /\ w.op = "FORLOOP" => ~(w.a + 3 >= p.maxstack)
      /\ w.op = "FORPREP" => ~(w.a + 2 >= p.maxstack)
      /\ w.op = "TFORCALL" => ~(w.a + 2 + w.c > p.maxstack)
      /\ w.op = "TFORLOOP" => ~(w.a + 1 >= p.maxstack)
      /\ w.op = "SETLIST" /\ w.b > 0 => ~(w.a + w.b > p.maxstack)
  BY DEF L52!SpanErrors, L52!Codes
<1>4. /\ w.a \in Nat /\ w.b \in Nat /\ w.c \in Nat
      /\ w.b % 256 \in Nat /\ w.b % 256 <= w.b /\ w.c % 256 \in Nat
      /\ w.b < 256 => w.b % 256 = w.b
      /\ w.c < 256 => w.c % 256 = w.c
  OBVIOUS
<1>5. /\ w.op \notin {"EXTRAARG", "JMP", "SETTABUP", "EQ", "LT", "LE"} => w.op \in L52!ARegisterOps
      /\ w.op \in {"UNM", "NOT", "LEN", "MOVE", "TESTSET", "GETTABLE", "SELF"}
            => w.op \in L52!BRegisterOps
  BY DEF L52!ARegisterOps, L52!BRegisterOps, L52!UnaryOps
<1>6. Checked(p, far, w)
  BY <1>1, <1>2, <1>3, <1>4, <1>5 DEF Checked
<1> QED BY <1>3, <1>4, <1>6 DEF Checked52

LEMMA Effects52Within ==
    ASSUME NEW p, IsPrototype(p), p.dialect = "5.2",
           NEW pc \in Pcs(p), L52!WordErrors(p, pc) = {},
           NEW o \in Undeclared(p, pc)
    PROVE  EndsOneTooFar(p, pc) /\ o = L51!R(p.maxstack)
<1> DEFINE w == p.words[pc]
           far == EndsOneTooFar(p, pc)
           e == L52!Effects(w)
<1>1. /\ {w.a, w.b, w.c} \subseteq Nat /\ w.x \in Int
      /\ {p.maxstack, p.consts, p.nups} \subseteq Nat
  BY DEF IsPrototype
<1>2. /\ w.op \in L52!Opcodes /\ L52!RegisterErrors(p, w) = {}
      /\ L52!SpanErrors(p, w) = {} /\ L52!IndexErrors(p, w) = {}
      /\ L52!ConstantErrors(p, pc) = {}
  BY DEF L52!WordErrors
<1>3. /\ w.op = "LOADK" => ~(w.x >= p.consts)
      /\ w.op \in L52!RKBOps /\ w.b >= 256 => ~(w.b - 256 >= p.consts)
      /\ w.op \in L52!RKCOps /\ w.c >= 256 => ~(w.c - 256 >= p.consts)
  BY <1>2 DEF L52!ConstantErrors, L52!Codes
<1>4. /\ w.op = "LOADK" => w.x < p.consts
      /\ w.op \in L52!RKBOps /\ w.b >= 256 => w.b - 256 < p.consts
      /\ w.op \in L52!RKCOps /\ w.c >= 256 => w.c - 256 < p.consts
  BY <1>1, <1>3
<1>5. /\ far \in BOOLEAN
      /\ w.op \in {"CALL", "TAILCALL", "TFORCALL", "SETLIST"} => far
  BY DEF EndsOneTooFar
<1>6. o \in e.reads \cup e.writes /\ ~L51!IsDeclared(p, o)
  BY DEF Undeclared, EffectsOf
<1>7. e \in Found52(w)
  <2>1. e = IF Found52(w) = {} THEN L52!NoEffect ELSE CHOOSE f \in Found52(w) : TRUE
    BY DEF L52!Effects, Found52
  <2>2. Found52(w) # {}
    BY <1>6, <2>1 DEF L52!NoEffect, L52!Effect
  <2> HIDE DEF e
  <2> QED BY <2>1, <2>2
<1>8. Checked52(p, far, w)
  <2> HIDE DEF w, far
  <2> QED BY <1>1, <1>2, <1>4, <1>5, Checked52Holds
<1>9. IsWithin(p, far, o)
  <2> HIDE DEF w, far, e
  <2> QED BY <1>1, <1>6, <1>7, <1>8, Found52Within
<1> QED BY <1>6, <1>9 DEF IsWithin

(* An operator on integers is checked and lifted as an arithmetic one. *)
LEMMA Arithmetic ==
    ASSUME NEW w, w = Word(w.op, w.a, w.b, w.c, w.x, w.k), NEW v, v = L53!AsArithmetic(w)
    PROVE  /\ v.a = w.a /\ v.b = w.b /\ v.c = w.c /\ v.x = w.x
           /\ v.op = IF w.op \in L53!IntegerOps THEN "ADD"
                     ELSE IF w.op = "BNOT" THEN "UNM" ELSE w.op
<1>1. /\ [w EXCEPT !.op = "ADD"] = Word("ADD", w.a, w.b, w.c, w.x, w.k)
      /\ [w EXCEPT !.op = "UNM"] = Word("UNM", w.a, w.b, w.c, w.x, w.k)
  BY DEF Word
<1> QED BY <1>1 DEF L53!AsArithmetic, Word

LEMMA Effects53Found ==
    ASSUME NEW w, w = Word(w.op, w.a, w.b, w.c, w.x, w.k),
           NEW e \in L53!Loads(w) \cup L53!Tables(w) \cup L53!Operators(w) \cup L53!Tests(w)
                      \cup L53!Calls(w) \cup L53!Loops(w)
    PROVE  e \in Found52(L53!AsArithmetic(w))
<1> DEFINE v == L53!AsArithmetic(w)
<1>1. /\ L53!V52!Loads(w) = L52!Loads(w) /\ L53!V52!Tables(w) = L52!Tables(w)
      /\ L53!V52!Tests(w) = L52!Tests(w) /\ L53!V52!Calls(w) = L52!Calls(w)
      /\ L53!V52!Loops(w) = L52!Loops(w)
      /\ L53!V52!Operators(v) = L52!Operators(v)
      /\ L53!V52!UnaryOperators(v) = L52!UnaryOperators(v)
  <2> HIDE DEF v
  <2> QED BY DEF L53!V52!Loads, L52!Loads, L53!V52!Tables, L52!Tables, L53!V52!Tests, L52!Tests,
       L53!V52!Calls, L52!Calls, L53!V52!Called, L52!Called, L53!V52!Loops, L52!Loops,
       L53!V52!Operators, L52!Operators, L53!V52!UnaryOperators, L52!UnaryOperators,
       L53!V52!BinaryOps, L52!BinaryOps, L53!V52!UnaryOps, L52!UnaryOps,
       L53!V52!Effect, L52!Effect, L53!V52!R, L52!R, L53!V52!K, L52!K, L53!V52!U, L52!U,
       L53!V52!RK, L52!RK, L53!V52!Window, L52!Window
<1>2. \A table, op : L53!V52!In(table, op) = L52!In(table, op)
  BY DEF L53!V52!In, L52!In
<1>3. w.op \in L53!IntegerOps \cup {"BNOT"} =>
         /\ L52!In(L52!Loads(w), w.op) = {} /\ L52!In(L52!Tables(w), w.op) = {}
         /\ L52!In(L52!Tests(w), w.op) = {} /\ L52!In(L52!Calls(w), w.op) = {}
         /\ L52!In(L52!Loops(w), w.op) = {}
  BY DEF L53!IntegerOps, L52!In, L52!Loads, L52!Tables, L52!Tests, L52!Calls, L52!Loops
<1>4. w.op \notin L53!IntegerOps \cup {"BNOT"} => v = w
  BY DEF L53!AsArithmetic
<1>5. CASE e \in L53!Operators(w)
  <2> HIDE DEF v
  <2>1. e \in L52!In(L52!Operators(v), v.op) \cup L52!In(L52!UnaryOperators(v), v.op)
    BY <1>1, <1>2, <1>5 DEF L53!Operators, v
  <2> QED BY <2>1 DEF Found52, v
<1>6. CASE e \notin L53!Operators(w)
  <2> HIDE DEF v
  <2>1. e \in L52!In(L52!Loads(w), w.op) \cup L52!In(L52!Tables(w), w.op)
              \cup L52!In(L52!Tests(w), w.op) \cup L52!In(L52!Calls(w), w.op)
              \cup L52!In(L52!Loops(w), w.op)
    BY <1>1, <1>2, <1>6 DEF L53!Loads, L53!Tables, L53!Tests, L53!Calls, L53!Loops
  <2>2. v = w
    BY <1>3, <1>4, <2>1
  <2> QED BY <2>1, <2>2 DEF Found52, v
<1> QED BY <1>5, <1>6

LEMMA Effects53Within ==
    ASSUME NEW p, IsPrototype(p), p.dialect = "5.3",
           NEW pc \in Pcs(p), L53!WordErrors(p, pc) = {},
           NEW o \in Undeclared(p, pc)
    PROVE  EndsOneTooFar(p, pc) /\ o = L51!R(p.maxstack)
<1> DEFINE w == p.words[pc]
           v == L53!AsArithmetic(w)
           far == EndsOneTooFar(p, pc)
           e == L53!Effects(w)
           found == L53!Loads(w) \cup L53!Tables(w) \cup L53!Operators(w) \cup L53!Tests(w)
                      \cup L53!Calls(w) \cup L53!Loops(w)
           same == [words |-> [p.words EXCEPT ![pc] = L53!AsArithmetic(@)],
                    consts |-> p.consts]
<1>1. /\ w = Word(w.op, w.a, w.b, w.c, w.x, w.k)
      /\ {w.a, w.b, w.c} \subseteq Nat /\ w.x \in Int
      /\ {p.maxstack, p.consts, p.nups} \subseteq Nat
  BY DEF IsPrototype
<1>2. /\ v.a = w.a /\ v.b = w.b /\ v.c = w.c /\ v.x = w.x
      /\ v.op = IF w.op \in L53!IntegerOps THEN "ADD" ELSE IF w.op = "BNOT" THEN "UNM" ELSE w.op
  BY <1>1, Arithmetic
<1>3. same.words[pc] = v /\ same.consts = p.consts
  BY DEF Pcs
<1>4. /\ w.op \in L53!Opcodes
      /\ L53!V52!RegisterErrors(p, v) = {} /\ L53!V52!ConstantErrors(same, pc) = {}
      /\ L53!V52!IndexErrors(p, w) = {} /\ L53!V52!SpanErrors(p, w) = {}
  BY DEF L53!WordErrors, L53!RegisterErrors, L53!ConstantErrors, L53!IndexErrors, L53!SpanErrors
<1>5. v.op \in L52!Opcodes
  <2>1. L53!V52!Opcodes = L52!Opcodes
    BY DEF L53!V52!Opcodes, L52!Opcodes, L53!V52!BinaryOps, L52!BinaryOps, L53!V52!UnaryOps,
           L52!UnaryOps, L53!V52!JumpOps, L52!JumpOps, L53!V52!SkipOps, L52!SkipOps
  <2>2. {"ADD", "UNM"} \subseteq L52!Opcodes
    BY DEF L52!Opcodes, L52!BinaryOps, L52!UnaryOps
  <2> HIDE DEF v, w
  <2> QED BY <1>2, <1>4, <2>1, <2>2 DEF L53!Opcodes
<1>6. L52!RegisterErrors(p, v) = {}
  <2> HIDE DEF v
  <2>1. L53!V52!ARegisterOps = L52!ARegisterOps /\ L53!V52!BRegisterOps = L52!BRegisterOps
        /\ L53!V52!RKBOps = L52!RKBOps /\ L53!V52!RKCOps = L52!RKCOps
    BY DEF L53!V52!Opcodes, L52!Opcodes, L53!V52!BinaryOps, L52!BinaryOps, L53!V52!UnaryOps,
           L52!UnaryOps, L53!V52!JumpOps, L52!JumpOps, L53!V52!SkipOps, L52!SkipOps,
           L53!V52!ARegisterOps, L52!ARegisterOps, L53!V52!BRegisterOps, L52!BRegisterOps,
           L53!V52!RKBOps, L52!RKBOps, L53!V52!RKCOps, L52!RKCOps
  <2> QED BY <1>4, <2>1 DEF L53!V52!RegisterErrors, L52!RegisterErrors, L53!V52!Codes, L52!Codes
<1>7. L52!IndexErrors(p, v) = {} /\ L52!SpanErrors(p, v) = {}
  <2>1. L52!IndexErrors(p, w) = {} /\ L52!SpanErrors(p, w) = {}
    <3> HIDE DEF w
    <3> QED BY <1>4 DEF L53!V52!IndexErrors, L52!IndexErrors, L53!V52!SpanErrors, L52!SpanErrors,
                        L53!V52!Codes, L52!Codes
  <2>2. CASE w.op \in L53!IntegerOps \cup {"BNOT"}
    <3>1. v.op \in {"ADD", "UNM"}
      BY <1>2, <2>2
    <3> HIDE DEF v, w
    <3> QED BY <3>1 DEF L52!IndexErrors, L52!SpanErrors, L52!Codes
  <2>3. CASE w.op \notin L53!IntegerOps \cup {"BNOT"}
    <3>1. v = w
      BY <2>3 DEF L53!AsArithmetic
    <3> QED BY <2>1, <3>1
  <2> QED BY <2>2, <2>3
<1>8. /\ v.op = "LOADK" => v.x < p.consts
      /\ v.op \in L52!RKBOps /\ v.b >= 256 => v.b - 256 < p.consts
      /\ v.op \in L52!RKCOps /\ v.c >= 256 => v.c - 256 < p.consts
  <2>1. L53!V52!RKBOps = L52!RKBOps /\ L53!V52!RKCOps = L52!RKCOps
    BY DEF L53!V52!BinaryOps, L52!BinaryOps, L53!V52!RKBOps, L52!RKBOps, L53!V52!RKCOps, L52!RKCOps
  <2> HIDE DEF v, w, same
  <2>2. /\ v.op = "LOADK" => ~(v.x >= p.consts)
        /\ v.op \in L52!RKBOps /\ v.b >= 256 => ~(v.b - 256 >= p.consts)
        /\ v.op \in L52!RKCOps /\ v.c >= 256 => ~(v.c - 256 >= p.consts)
    BY <1>3, <1>4, <2>1 DEF L53!V52!ConstantErrors, L53!V52!Codes
  <2> QED BY <1>1, <1>2, <2>2
<1>9. /\ far \in BOOLEAN
      /\ v.op \in {"CALL", "TAILCALL", "TFORCALL", "SETLIST"} => far
  BY <1>2 DEF EndsOneTooFar
<1>10. Checked52(p, far, v)
  <2> HIDE DEF v, w, far
  <2> QED BY <1>1, <1>2, <1>5, <1>6, <1>7, <1>8, <1>9, Checked52Holds
<1>11. o \in e.reads \cup e.writes /\ ~L51!IsDeclared(p, o)
  BY DEF Undeclared, EffectsOf
<1>12. e \in found
  <2>1. e = IF found = {} THEN L53!NoEffect ELSE CHOOSE f \in found : TRUE
    BY DEF L53!Effects
  <2>2. found # {}
    BY <1>11, <2>1 DEF L53!NoEffect, L53!Effect
  <2> HIDE DEF e, found
  <2> QED BY <2>1, <2>2
<1>13. e \in Found52(v)
  <2> HIDE DEF w, e
  <2> QED BY <1>1, <1>12, Effects53Found
<1>14. IsWithin(p, far, o)
  <2> HIDE DEF v, far, e
  <2> QED BY <1>1, <1>10, <1>11, <1>13, Found52Within
<1> QED BY <1>11, <1>14 DEF IsWithin

-----------------------------------------------------------------------------
(* Lua 5.1 *)

LEMMA Checked51Holds ==
    ASSUME NEW p, IsPrototype(p), p.dialect = "5.1", NEW exec,
           NEW pc \in Pcs(p), WordErrors(p, exec, pc) = {}
    PROVE  LET w == p.words[pc]
           IN  /\ Checked(p, EndsOneTooFar(p, pc), w)
               /\ w.op \in Opcodes
               /\ w.op \in {"GETGLOBAL", "SETGLOBAL"} => w.x < p.consts
               /\ w.op = "LOADNIL" => w.b < p.maxstack
               /\ w.op = "TFORLOOP" => w.a + 2 + w.c < p.maxstack
               /\ w.op = "SETLIST" /\ w.b > 0 => w.a + w.b <= p.maxstack
               /\ w.op = "CLOSURE" => DescriptorErrors(p, pc) = {}
<1> DEFINE w == p.words[pc]
           max == p.maxstack
<1>1. /\ w.a \in Nat /\ w.b \in Nat /\ w.c \in Nat /\ w.x \in Int
      /\ max \in Nat /\ p.consts \in Nat /\ p.nups \in Nat
      /\ {w.a, w.b, w.c} \subseteq Nat
  BY DEF IsPrototype
<1>2. /\ w.op \in Opcodes
      /\ w.op \in {"GETUPVAL", "SETUPVAL"} => ~(w.b >= p.nups)
      /\ ARegisterOps(w.op) => ~(w.a >= max)
      /\ \A last \in WindowEnds(w) : ~(last >= max)
      /\ OperandErrors(p, w) = {}
      /\ w.op = "CLOSURE" => DescriptorErrors(p, pc) = {}
  BY DEF WordErrors
<1> HIDE DEF w, max
<1>3. /\ w.op \in BRegisterOps \/ (w.op \in RKBOps /\ w.b < 256) => ~(w.b >= max)
      /\ w.op = "CONCAT" \/ (w.op \in RKCOps /\ w.c < 256) => ~(w.c >= max)
      /\ w.op \in RKBOps /\ w.b >= 256 => ~(w.b - 256 >= p.consts)
      /\ w.op \in RKCOps /\ w.c >= 256 => ~(w.c - 256 >= p.consts)
      /\ w.op \in {"LOADK", "GETGLOBAL", "SETGLOBAL"} => ~(w.x >= p.consts)
  BY <1>2 DEF OperandErrors, max
<1>4. /\ w.op = "SELF" => w.a + 1 \in WindowEnds(w)
      /\ w.op \in {"FORPREP", "FORLOOP"} => w.a + 3 \in WindowEnds(w)
      /\ w.op = "TFORLOOP" => w.a + 2 + w.c \in WindowEnds(w)
      /\ w.op \in {"CALL", "TAILCALL"} /\ w.b > 0 => w.a + w.b - 1 \in WindowEnds(w)
      /\ w.op = "CALL" /\ w.c > 1 => w.a + w.c - 2 \in WindowEnds(w)
      /\ w.op \in {"RETURN", "VARARG"} /\ w.b > 1 => w.a + w.b - 2 \in WindowEnds(w)
      /\ w.op = "SETLIST" /\ w.b > 0 => w.a + w.b \in WindowEnds(w)
  BY DEF WindowEnds
<1>5. /\ w.op = "SELF" => ~(w.a + 1 >= max)
      /\ w.op \in {"FORPREP", "FORLOOP"} => ~(w.a + 3 >= max)
      /\ w.op = "TFORLOOP" => ~(w.a + 2 + w.c >= max)
      /\ w.op \in {"CALL", "TAILCALL"} /\ w.b > 0 => ~(w.a + w.b - 1 >= max)
      /\ w.op = "CALL" /\ w.c > 1 => ~(w.a + w.c - 2 >= max)
      /\ w.op \in {"RETURN", "VARARG"} /\ w.b > 1 => ~(w.a + w.b - 2 >= max)
      /\ w.op = "SETLIST" /\ w.b > 0 => ~(w.a + w.b >= max)
  BY <1>2, <1>4
<1>6. /\ w.b % 256 \in Nat /\ w.b % 256 <= w.b /\ w.c % 256 \in Nat /\ w.c % 256 <= w.c
  BY <1>1
<1>7. /\ w.op \notin {"SETTABUP", "GETTABUP", "EXTRAARG"}
      /\ w.op \notin {"EXTRAARG", "JMP", "SETTABUP", "EQ", "LT", "LE"} => ARegisterOps(w.op)
      /\ w.op \in {"UNM", "NOT", "LEN", "MOVE", "TESTSET", "GETTABLE", "SELF", "LOADNIL"}
            => w.op \in BRegisterOps
      /\ w.op \in L52!RKBOps => w.op \in RKBOps
      /\ w.op \in L52!RKCOps => w.op \in RKCOps
  BY <1>2 DEF Opcodes, ARegisterOps, BRegisterOps, RKBOps, RKCOps, L52!RKBOps, L52!RKCOps,
              L52!BinaryOps
<1>8. Checked(p, EndsOneTooFar(p, pc), w)
  BY <1>1, <1>2, <1>3, <1>5, <1>6, <1>7 DEF Checked, max
<1> QED BY <1>1, <1>2, <1>3, <1>5, <1>7, <1>8 DEF w, max

(* Where the effect of an instruction of Lua 5.1 comes from *)
ComesFrom(p, pc, w, e) ==
    \/ w.op = "LOADNIL" /\ e = L51!Effect({}, L51!Window(w.a, w.b % 256))
    \/ w.op = "GETGLOBAL" /\ e = L51!Effect({L51!K(w.x)}, {L51!R(w.a)})
    \/ w.op = "SETGLOBAL" /\ e = L51!Effect({L51!R(w.a), L51!K(w.x)}, {})
    \/ w.op # "LOADNIL" /\ e \in L52!In(L52!Loads(w), w.op)
    \/ e \in L52!In(L52!Tables(w), w.op)
    \/ e \in L52!In(L52!Operators(w), w.op) \cup L52!In(L52!UnaryOperators(w), w.op)
    \/ e \in L52!In(L52!Tests(w), w.op)
    \/ w.op \in {"CALL", "TAILCALL", "RETURN", "VARARG"} /\ e = L52!Calls(w)[w.op]
    \/ w.op \in {"FORLOOP", "FORPREP", "SETLIST"} /\ e = L52!Loops(w)[w.op]
    \/ w.op = "TFORLOOP" /\ e = L52!Loops(w)["TFORCALL"]
    \/ w.op = "CLOSURE" /\ e = L51!Effect(L51!Captures(p, pc), {L51!R(w.a)})

LEMMA Effects51Found ==
    ASSUME NEW p, NEW pc, NEW w, w = p.words[pc],
           NEW e \in L51!Loads(w) \cup L51!Tables(w) \cup L51!Operators(w) \cup L51!Calls(w)
                      \cup L51!Loops(w) \cup L51!Closures(p, pc)
    PROVE  ComesFrom(p, pc, w, e)
<1>1. /\ L51!V52!Loads(w) = L52!Loads(w) /\ L51!V52!Tables(w) = L52!Tables(w)
      /\ L51!V52!Tests(w) = L52!Tests(w) /\ L51!V52!Calls(w) = L52!Calls(w)
      /\ L51!V52!Loops(w) = L52!Loops(w)
      /\ L51!V52!Operators(w) = L52!Operators(w)
      /\ L51!V52!UnaryOperators(w) = L52!UnaryOperators(w)
  BY DEF L51!V52!Loads, L52!Loads, L51!V52!Tables, L52!Tables, L51!V52!Tests, L52!Tests,
       L51!V52!Calls, L52!Calls, L51!V52!Called, L52!Called, L51!V52!Loops, L52!Loops,
       L51!V52!Operators, L52!Operators, L51!V52!UnaryOperators, L52!UnaryOperators,
       L51!V52!BinaryOps, L52!BinaryOps, L51!V52!UnaryOps, L52!UnaryOps,
       L51!V52!Effect, L52!Effect, L51!V52!R, L52!R, L51!V52!K, L52!K, L51!V52!U, L52!U,
       L51!V52!RK, L52!RK, L51!V52!Window, L52!Window
<1>2. \A table, op : L51!V52!In(table, op) = L52!In(table, op)
  BY DEF L51!V52!In, L52!In
<1>3. CASE e \in L51!Loads(w)
  <2>1. w.op \in {"MOVE", "LOADK", "LOADBOOL", "GETUPVAL"} =>
           L52!In(L52!Loads(w), w.op) = {L52!Loads(w)[w.op]}
    BY DEF L52!In, L52!Loads
  <2> QED BY <1>1, <1>3, <2>1 DEF L51!Loads, ComesFrom
<1>4. CASE e \in L51!Tables(w) \cup L51!Operators(w)
  BY <1>1, <1>2, <1>4 DEF L51!Tables, L51!Operators, ComesFrom
<1>5. CASE e \in L51!Calls(w)
  BY <1>1, <1>5 DEF L51!Calls, ComesFrom
<1>6. CASE e \in L51!Loops(w)
  BY <1>1, <1>6 DEF L51!Loops, ComesFrom
<1>7. CASE e \in L51!Closures(p, pc)
  BY <1>7 DEF L51!Closures, ComesFrom
<1> QED BY <1>3, <1>4, <1>5, <1>6, <1>7

LEMMA CapturesWithin ==
    ASSUME NEW p, IsPrototype(p), NEW pc \in Pcs(p), NEW far,
           p.words[pc].op = "CLOSURE", DescriptorErrors(p, pc) = {},
           NEW o \in L51!Captures(p, pc)
    PROVE  IsWithin(p, far, o)
<1> DEFINE child == p.words[pc].x
           nups == IF child \in DOMAIN p.kids THEN p.kids[child].nups ELSE 0
           word(d) == p.words[d]
<1>1. PICK d \in ((pc + 1)..(pc + nups)) \cap DOMAIN p.words :
            \/ word(d).op = "MOVE" /\ o = L51!R(word(d).b)
            \/ word(d).op = "GETUPVAL" /\ o = L51!U(word(d).b)
  BY DEF L51!Captures
<1>2. pc \in Nat /\ nups \in Nat /\ d \in Nat
  BY DEF IsPrototype
<1>3. nups = Span(p, pc)
  BY DEF Span
<1> DEFINE j == d - pc
<1>4. j \in 1..Span(p, pc) /\ pc + j = d /\ pc + j \in Pcs(p)
  BY <1>1, <1>2, <1>3 DEF Pcs
<1>5. /\ word(d).op = "MOVE" => ~(word(d).b >= p.maxstack)
      /\ word(d).op = "GETUPVAL" => ~(word(d).b >= p.nups)
  <2> HIDE DEF j
  <2> QED BY <1>4 DEF DescriptorErrors
<1>6. /\ word(d).b \in Nat /\ p.maxstack \in Nat /\ p.nups \in Nat
      /\ word(d).b % 256 \in Nat /\ word(d).b % 256 <= word(d).b
  <2>1. d \in Pcs(p)
    BY <1>1 DEF Pcs
  <2>2. word(d).b \in Nat /\ p.maxstack \in Nat /\ p.nups \in Nat
    BY <2>1 DEF IsPrototype
  <2> HIDE DEF word
  <2> QED BY <2>2
<1>7. /\ word(d).op = "MOVE" => word(d).b % 256 < p.maxstack
      /\ word(d).op = "GETUPVAL" => word(d).b < p.nups
  BY <1>5, <1>6
<1> HIDE DEF word
<1> QED BY <1>1, <1>6, <1>7, RegisterWithin, UpvalueWithin

LEMMA Effects51Within ==
    ASSUME NEW p, IsPrototype(p), p.dialect = "5.1", NEW exec,
           NEW pc \in Pcs(p), WordErrors(p, exec, pc) = {},
           NEW o \in Undeclared(p, pc)
    PROVE  EndsOneTooFar(p, pc) /\ o = L51!R(p.maxstack)
<1> DEFINE w == p.words[pc]
           far == EndsOneTooFar(p, pc)
           e == L51!Effects(p, pc)
           found == L51!Loads(w) \cup L51!Tables(w) \cup L51!Operators(w) \cup L51!Calls(w)
                      \cup L51!Loops(w) \cup L51!Closures(p, pc)
<1>1. /\ w.a \in Nat /\ w.b \in Nat /\ w.c \in Nat /\ p.maxstack \in Nat
      /\ {p.maxstack, p.consts, p.nups} \subseteq Nat
      /\ w.b % 256 \in Nat /\ w.b % 256 <= w.b
  <2>1. /\ w.a \in Nat /\ w.b \in Nat /\ w.c \in Nat
        /\ {p.maxstack, p.consts, p.nups} \subseteq Nat
    BY DEF IsPrototype
  <2> HIDE DEF w
  <2> QED BY <2>1
<1>2. /\ Checked(p, far, w) /\ w.op \in Opcodes
      /\ w.op \in {"GETGLOBAL", "SETGLOBAL"} => w.x < p.consts
      /\ w.op = "LOADNIL" => w.b < p.maxstack
      /\ w.op = "TFORLOOP" => w.a + 2 + w.c < p.maxstack
      /\ w.op = "SETLIST" /\ w.b > 0 => w.a + w.b <= p.maxstack
      /\ w.op = "CLOSURE" => DescriptorErrors(p, pc) = {}
  BY Checked51Holds
<1>3. w.op = "SETLIST" => far
  BY DEF EndsOneTooFar
<1>4. o \in e.reads \cup e.writes /\ ~L51!IsDeclared(p, o)
  BY DEF Undeclared, EffectsOf
<1>5. e \in found
  <2>1. e = IF found = {} THEN L51!NoEffect ELSE CHOOSE f \in found : TRUE
    BY DEF L51!Effects
  <2>2. found # {}
    BY <1>4, <2>1 DEF L51!NoEffect, L51!Effect
  <2> HIDE DEF e, found
  <2> QED BY <2>1, <2>2
<1> HIDE DEF far, e
<1>6. w.op \notin {"EXTRAARG", "JMP", "SETTABUP", "EQ", "LT", "LE"} =>
         IsWithin(p, far, L51!R(w.a))
  <2>1. w.op \notin {"EXTRAARG", "JMP", "SETTABUP", "EQ", "LT", "LE"} =>
           w.a % 256 < p.maxstack
    BY <1>1, <1>2 DEF Checked
  <2> QED BY <1>1, <2>1, RegisterWithin
<1>7. CASE w.op = "LOADNIL" /\ e = L51!Effect({}, L51!Window(w.a, w.b % 256))
  <2>1. o \in L51!Window(w.a, w.b % 256)
    BY <1>4, <1>7 DEF L51!Effect
  <2>2. w.b % 256 \in Int /\ w.b % 256 < p.maxstack
    BY <1>1, <1>2, <1>7
  <2>3. \A r \in L51!Window(w.a, w.b % 256) : IsWithin(p, far, r)
    BY <1>1, <2>2, WindowWithin
  <2> QED BY <1>4, <2>1, <2>3 DEF IsWithin, far
<1>8. CASE \/ w.op = "GETGLOBAL" /\ e = L51!Effect({L51!K(w.x)}, {L51!R(w.a)})
           \/ w.op = "SETGLOBAL" /\ e = L51!Effect({L51!R(w.a), L51!K(w.x)}, {})
  <2>1. (o = L51!K(w.x) \/ o = L51!R(w.a)) /\ w.op \in {"GETGLOBAL", "SETGLOBAL"}
    BY <1>4, <1>8 DEF L51!Effect
  <2>2. IsWithin(p, far, L51!K(w.x))
    BY <1>2, <2>1, ConstantWithin
  <2>3. IsWithin(p, far, o)
    BY <1>6, <2>1, <2>2
  <2> QED BY <1>4, <2>3 DEF IsWithin, far
<1>9. CASE w.op # "LOADNIL" /\ e \in L52!In(L52!Loads(w), w.op)
  <2>1. IsWithin(p, far, o)
    BY <1>1, <1>2, <1>4, <1>9, LoadsWithin
  <2> QED BY <1>4, <2>1 DEF IsWithin, far
<1>10. CASE e \in L52!In(L52!Tables(w), w.op)
  <2>1. IsWithin(p, far, o)
    BY <1>1, <1>2, <1>4, <1>10, TablesWithin
  <2> QED BY <1>4, <2>1 DEF IsWithin, far
<1>11. CASE e \in L52!In(L52!Operators(w), w.op) \cup L52!In(L52!UnaryOperators(w), w.op)
  <2>1. IsWithin(p, far, o)
    BY <1>1, <1>2, <1>4, <1>11, OperatorsWithin
  <2> QED BY <1>4, <2>1 DEF IsWithin, far
<1>12. CASE e \in L52!In(L52!Tests(w), w.op)
  <2>1. IsWithin(p, far, o)
    BY <1>1, <1>2, <1>4, <1>12, TestsWithin
  <2> QED BY <1>4, <2>1 DEF IsWithin, far
<1>13. CASE w.op \in {"CALL", "TAILCALL", "RETURN", "VARARG"} /\ e = L52!Calls(w)[w.op]
  <2>1. IsWithin(p, far, o)
    BY <1>1, <1>2, <1>4, <1>13, CallsWithin
  <2> QED BY <1>4, <2>1 DEF IsWithin, far
<1>14. CASE \/ w.op \in {"FORLOOP", "FORPREP", "SETLIST"} /\ e = L52!Loops(w)[w.op]
            \/ w.op = "TFORLOOP" /\ e = L52!Loops(w)["TFORCALL"]
  <2> DEFINE op == IF w.op = "TFORLOOP" THEN "TFORCALL" ELSE w.op
  <2>1. /\ op \in {"FORLOOP", "FORPREP", "TFORCALL", "SETLIST"} /\ e = L52!Loops(w)[op]
        /\ w.a < p.maxstack
        /\ op = "FORLOOP" => w.a + 3 < p.maxstack
        /\ op = "FORPREP" => w.a + 2 < p.maxstack
        /\ op = "TFORCALL" => w.a + 2 + w.c < p.maxstack
        /\ op = "SETLIST" => far /\ (w.b > 0 => w.a + w.b <= p.maxstack)
    BY <1>2, <1>3, <1>14 DEF Checked
  <2> HIDE DEF op
  <2>2. IsWithin(p, far, o)
    BY <1>1, <1>2, <1>4, <2>1, LoopsWithin
  <2> QED BY <1>4, <2>2 DEF IsWithin, far
<1>15. CASE w.op = "CLOSURE" /\ e = L51!Effect(L51!Captures(p, pc), {L51!R(w.a)})
  <2>1. o \in L51!Captures(p, pc) \/ o = L51!R(w.a)
    BY <1>4, <1>15 DEF L51!Effect
  <2>2. IsWithin(p, far, o)
    BY <1>2, <1>6, <1>15, <2>1, CapturesWithin
  <2> QED BY <1>4, <2>2 DEF IsWithin, far
<1>16. ComesFrom(p, pc, w, e)
  <2>1. w = p.words[pc]
    OBVIOUS
  <2> HIDE DEF w
  <2> QED BY <1>5, <2>1, Effects51Found
<1> HIDE DEF w
<1> QED BY <1>7, <1>8, <1>9, <1>10, <1>11, <1>12, <1>13, <1>14, <1>15, <1>16 DEF ComesFrom

-----------------------------------------------------------------------------
(* Lua 5.5 *)

LEMMA PrototypeWithin ==
    ASSUME NEW p, NEW far, NEW i \in DOMAIN p.kids
    PROVE  IsWithin(p, far, L51!P(i))
BY DEF IsWithin, L51!IsDeclared, L51!P

(* What the validator of Lua 5.5 checks of the word at pc *)
Checked55(p, pc, w) ==
    LET max == p.maxstack
    IN  /\ {w.a, w.b, w.c} \subseteq Nat
        /\ w.op \in L55!Opcodes
        /\ w.op \in L55!ARegisterOps => w.a < max
        /\ w.op \in L55!BRegisterOps => w.b < max
        /\ w.op \in L55!CRegisterOps => w.c < max
        /\ w.op = "LOADK" => w.x < p.consts
        /\ w.op \in L55!V54!ConstantOps \cup {"GETFIELD", "GETTABUP"} => w.c < p.consts
        /\ w.op \in {"SETFIELD", "SETTABUP"} => w.b < p.consts
        /\ w.op \in {"GETUPVAL", "SETUPVAL", "GETTABUP"} => w.b < p.nups
        /\ w.op = "SETTABUP" => w.a < p.nups
        /\ w.op = "CLOSURE" => w.x \in DOMAIN p.kids
        /\ w.op = "LOADNIL" => w.a + w.b < max
        /\ w.op = "CONCAT" /\ w.b > 0 => w.a + w.b - 1 < max
        /\ w.op = "SELF" => w.a + 1 < max
        /\ w.op = "LOADKX" =>
              /\ pc + 1 \in DOMAIN p.words /\ p.words[pc + 1].op = "EXTRAARG"
              /\ p.words[pc + 1].x < p.consts

LEMMA Checked55Holds ==
    ASSUME NEW p, IsPrototype(p), p.dialect = "5.5",
           \A q \in Pcs(p) : L55!WordErrors(p, q) = {}, NEW pc \in Pcs(p)
    PROVE  Checked55(p, pc, p.words[pc])
<1> DEFINE w == p.words[pc]
           max == p.maxstack
<1>1. /\ w.a \in Nat /\ w.b \in Nat /\ w.c \in Nat /\ w.x \in Int
      /\ max \in Nat /\ p.consts \in Nat /\ p.nups \in Nat
  BY DEF IsPrototype
<1>2. /\ w.op \in L55!Opcodes
      /\ L55!CompanionErrors(p, pc) = {} /\ L55!RegisterErrors(p, w) = {}
      /\ L55!ConstantErrors(p, w) = {} /\ L55!IndexErrors(p, w) = {}
      /\ \A last \in L55!WindowEnds(w) : ~(last >= max)
  BY DEF L55!WordErrors, L55!Codes
<1>3. ASSUME w.op = "LOADKX"
      PROVE  /\ pc + 1 \in DOMAIN p.words /\ p.words[pc + 1].op = "EXTRAARG"
             /\ p.words[pc + 1].x < p.consts
  <2>1. pc + 1 \in DOMAIN p.words /\ p.words[pc + 1].op = "EXTRAARG"
    BY <1>2, <1>3 DEF L55!CompanionErrors, L55!Codes, Pcs
  <2>2. L55!CompanionErrors(p, pc + 1) = {}
    <3>1. L55!WordErrors(p, pc + 1) = {} /\ p.words[pc + 1].op \in L55!Opcodes
      BY <2>1 DEF Pcs, L55!WordErrors
    <3> QED BY <3>1 DEF L55!WordErrors
  <2>3. pc \in Int /\ pc + 1 - 1 = pc
    BY DEF IsPrototype
  <2>4. ~(p.words[pc + 1].x >= p.consts)
    BY <1>3, <2>1, <2>2, <2>3 DEF L55!CompanionErrors, L55!Codes, Pcs
  <2>5. p.words[pc + 1].x \in Int
    BY <2>1 DEF IsPrototype, Pcs
  <2> QED BY <1>1, <2>1, <2>4, <2>5
<1> HIDE DEF w, max
<1>4. /\ w.op \in L55!ARegisterOps => ~(w.a >= max)
      /\ w.op \in L55!BRegisterOps => ~(w.b >= max)
      /\ w.op \in L55!CRegisterOps => ~(w.c >= max)
  BY <1>2 DEF L55!RegisterErrors, L55!Codes, max
<1>5. /\ w.op = "LOADK" => ~(w.x >= p.consts)
      /\ w.op \in L55!V54!ConstantOps \cup {"GETFIELD", "GETTABUP"} => ~(w.c >= p.consts)
      /\ w.op \in {"SETFIELD", "SETTABUP"} => ~(w.b >= p.consts)
  BY <1>2 DEF L55!ConstantErrors, L55!Codes
<1>6. /\ w.op \in {"GETUPVAL", "SETUPVAL", "GETTABUP"} => ~(w.b >= p.nups)
      /\ w.op = "SETTABUP" => ~(w.a >= p.nups)
      /\ w.op = "CLOSURE" => w.x \in DOMAIN p.kids
  BY <1>2 DEF L55!IndexErrors, L55!Codes
<1>7. /\ w.op = "LOADNIL" => w.a + w.b \in L55!WindowEnds(w)
      /\ w.op = "CONCAT" /\ w.b > 0 => w.a + w.b - 1 \in L55!WindowEnds(w)
      /\ w.op = "SELF" => w.a + 1 \in L55!WindowEnds(w)
  BY DEF L55!WindowEnds
<1>8. /\ w.op = "LOADNIL" => ~(w.a + w.b >= max)
      /\ w.op = "CONCAT" /\ w.b > 0 => ~(w.a + w.b - 1 >= max)
      /\ w.op = "SELF" => ~(w.a + 1 >= max)
  BY <1>2, <1>7
<1> QED BY <1>1, <1>2, <1>3, <1>4, <1>5, <1>6, <1>8 DEF Checked55, w, max

Found55(p, pc, w) ==
    L55!In(L55!Loads(p, pc), w.op) \cup L55!In(L55!Tables(w), w.op) \cup L55!Operators(w)
      \cup L55!V54!Tests(w) \cup L55!In(L55!Calls(w), w.op)

(* The operands by their kind *)
Operand55(p, pc, w, o) ==
    \/ w.op \in L55!ARegisterOps /\ o = L51!R(w.a)
    \/ w.op \in L55!BRegisterOps /\ o = L51!R(w.b)
    \/ w.op \in L55!CRegisterOps /\ o = L51!R(w.c)
    \/ w.op = "LOADK" /\ o = L51!K(w.x)
    \/ w.op = "LOADKX" /\ o = L55!V54!ExtraConstant(p, pc)
    \/ w.op \in L55!V54!ConstantOps \cup {"GETFIELD", "GETTABUP"} /\ o = L51!K(w.c)
    \/ w.op \in {"SETFIELD", "SETTABUP"} /\ o = L51!K(w.b)
    \/ w.op \in {"GETUPVAL", "SETUPVAL", "GETTABUP"} /\ o = L51!U(w.b)
    \/ w.op = "SETTABUP" /\ o = L51!U(w.a)
    \/ w.op = "CLOSURE" /\ o = L51!P(w.x)
    \/ w.op = "LOADNIL" /\ o \in L51!Window(w.a, w.a + w.b)
    \/ w.op = "CONCAT" /\ o \in L51!Window(w.a, L55!Saturated(w.a + w.b) - 1)
    \/ w.op = "SELF" /\ o = L51!R(w.a + 1)

LEMMA Operands55 ==
    ASSUME NEW p, NEW pc, NEW w, w = p.words[pc], w.op \in L55!Opcodes,
           NEW e \in Found55(p, pc, w), NEW o \in e.reads \cup e.writes
    PROVE  Operand55(p, pc, w, o)
<1>1. /\ L55!ARegisterOps = L55!Opcodes \ {"JMP", "EXTRAARG", "SETTABUP", "RETURN0", "VARARGPREP"}
      /\ {"MOVE", "GETI", "GETFIELD", "SETTABLE", "SELF", "GETTABLE", "GETVARG"}
            \subseteq L55!BRegisterOps
      /\ {"GETTABLE", "GETVARG"} \subseteq L55!CRegisterOps
  BY DEF L55!ARegisterOps, L55!BRegisterOps, L55!CRegisterOps
<1>2. CASE e \in L55!In(L55!Loads(p, pc), w.op)
  <2>1. e = L55!Loads(p, pc)[w.op] /\ w.op \in
            {"MOVE", "LOADI", "LOADF", "LOADK", "LOADKX", "LOADFALSE", "LFALSESKIP", "LOADTRUE",
             "LOADNIL", "GETUPVAL", "SETUPVAL"}
    BY <1>2 DEF L55!In, L55!Loads
  <2>2. \/ o = L51!R(w.a)
        \/ w.op = "MOVE" /\ o = L51!R(w.b)
        \/ w.op = "LOADK" /\ o = L51!K(w.x)
        \/ w.op = "LOADKX" /\ o = L55!V54!ExtraConstant(p, pc)
        \/ w.op \in {"GETUPVAL", "SETUPVAL"} /\ o = L51!U(w.b)
        \/ w.op = "LOADNIL" /\ o \in L51!Window(w.a, w.a + w.b)
    <3>1. /\ L55!Loads(p, pc)["LOADI"] = L55!Effect({}, {L55!R(w.a)})
          /\ L55!Loads(p, pc)["LOADF"] = L55!Effect({}, {L55!R(w.a)})
          /\ L55!Loads(p, pc)["LOADFALSE"] = L55!Effect({}, {L55!R(w.a)})
          /\ L55!Loads(p, pc)["LFALSESKIP"] = L55!Effect({}, {L55!R(w.a)})
          /\ L55!Loads(p, pc)["LOADTRUE"] = L55!Effect({}, {L55!R(w.a)})
          /\ L55!Loads(p, pc)["MOVE"] = L55!Effect({L55!R(w.b)}, {L55!R(w.a)})
          /\ L55!Loads(p, pc)["LOADK"] = L55!Effect({L55!K(w.x)}, {L55!R(w.a)})
          /\ L55!Loads(p, pc)["LOADKX"] = L55!Effect({L55!V54!ExtraConstant(p, pc)}, {L55!R(w.a)})
          /\ L55!Loads(p, pc)["LOADNIL"] = L55!Effect({}, L55!Window(w.a, w.a + w.b))
          /\ L55!Loads(p, pc)["GETUPVAL"] = L55!Effect({L55!U(w.b)}, {L55!R(w.a)})
          /\ L55!Loads(p, pc)["SETUPVAL"] = L55!Effect({L55!R(w.a)}, {L55!U(w.b)})
      BY DEF L55!Loads
    <3>2. \/ /\ w.op \in {"LOADI", "LOADF", "LOADFALSE", "LFALSESKIP", "LOADTRUE"}
             /\ e = L55!Effect({}, {L55!R(w.a)})
          \/ w.op = "MOVE" /\ e = L55!Effect({L55!R(w.b)}, {L55!R(w.a)})
          \/ w.op = "LOADK" /\ e = L55!Effect({L55!K(w.x)}, {L55!R(w.a)})
          \/ /\ w.op = "LOADKX"
             /\ e = L55!Effect({L55!V54!ExtraConstant(p, pc)}, {L55!R(w.a)})
          \/ w.op = "LOADNIL" /\ e = L55!Effect({}, L55!Window(w.a, w.a + w.b))
          \/ w.op = "GETUPVAL" /\ e = L55!Effect({L55!U(w.b)}, {L55!R(w.a)})
          \/ w.op = "SETUPVAL" /\ e = L55!Effect({L55!R(w.a)}, {L55!U(w.b)})
      BY <2>1, <3>1
    <3> QED BY <3>2 DEF L55!Effect, L55!R, L51!R, L55!K, L51!K, L55!U, L51!U,
                        L55!Window, L51!Window
  <2> QED BY <1>1, <2>1, <2>2 DEF Operand55
<1>3. CASE e \in L55!In(L55!Tables(w), w.op)
  <2>1. e = L55!Tables(w)[w.op] /\ w.op \in
            {"GETTABUP", "GETTABLE", "GETI", "GETFIELD", "SETTABUP", "SETTABLE", "SETI",
             "SETFIELD", "NEWTABLE", "SELF"}
    BY <1>3 DEF L55!In, L55!Tables
  <2>2. \/ w.op # "SETTABUP" /\ o = L51!R(w.a)
        \/ w.op \in {"GETTABLE", "GETI", "GETFIELD", "SETTABLE", "SELF"} /\ o = L51!R(w.b)
        \/ w.op = "GETTABLE" /\ o = L51!R(w.c)
        \/ w.op \in {"GETFIELD", "GETTABUP"} /\ o = L51!K(w.c)
        \/ w.op \in {"SETFIELD", "SETTABUP"} /\ o = L51!K(w.b)
        \/ w.op = "GETTABUP" /\ o = L51!U(w.b)
        \/ w.op = "SETTABUP" /\ o = L51!U(w.a)
        \/ w.op = "SELF" /\ o = L51!R(w.a + 1)
    <3>1. /\ L55!Tables(w)["GETTABUP"] = L55!Effect({L55!U(w.b), L55!K(w.c)}, {L55!R(w.a)})
          /\ L55!Tables(w)["GETTABLE"] = L55!Effect({L55!R(w.b), L55!R(w.c)}, {L55!R(w.a)})
          /\ L55!Tables(w)["GETI"] = L55!Effect({L55!R(w.b)}, {L55!R(w.a)})
          /\ L55!Tables(w)["GETFIELD"] = L55!Effect({L55!R(w.b), L55!K(w.c)}, {L55!R(w.a)})
          /\ L55!Tables(w)["SETTABUP"] = L55!Effect({L55!K(w.b)}, {L55!U(w.a)})
          /\ L55!Tables(w)["SETTABLE"] = L55!Effect({L55!R(w.a), L55!R(w.b)}, {})
          /\ L55!Tables(w)["SETI"] = L55!Effect({L55!R(w.a)}, {})
          /\ L55!Tables(w)["SETFIELD"] = L55!Effect({L55!R(w.a), L55!K(w.b)}, {})
          /\ L55!Tables(w)["NEWTABLE"] = L55!Effect({}, {L55!R(w.a)})
          /\ L55!Tables(w)["SELF"] = L55!Effect({L55!R(w.b)}, {L55!R(w.a), L55!R(w.a + 1)})
      BY DEF L55!Tables
    <3>2. \/ w.op = "GETTABUP" /\ e = L55!Effect({L55!U(w.b), L55!K(w.c)}, {L55!R(w.a)})
          \/ w.op = "GETTABLE" /\ e = L55!Effect({L55!R(w.b), L55!R(w.c)}, {L55!R(w.a)})
          \/ w.op = "GETI" /\ e = L55!Effect({L55!R(w.b)}, {L55!R(w.a)})
          \/ w.op = "GETFIELD" /\ e = L55!Effect({L55!R(w.b), L55!K(w.c)}, {L55!R(w.a)})
          \/ w.op = "SETTABUP" /\ e = L55!Effect({L55!K(w.b)}, {L55!U(w.a)})
          \/ w.op = "SETTABLE" /\ e = L55!Effect({L55!R(w.a), L55!R(w.b)}, {})
          \/ w.op = "SETI" /\ e = L55!Effect({L55!R(w.a)}, {})
          \/ w.op = "SETFIELD" /\ e = L55!Effect({L55!R(w.a), L55!K(w.b)}, {})
          \/ w.op = "NEWTABLE" /\ e = L55!Effect({}, {L55!R(w.a)})
          \/ w.op = "SELF" /\ e = L55!Effect({L55!R(w.b)}, {L55!R(w.a), L55!R(w.a + 1)})
      BY <2>1, <3>1
    <3>3. \A i : L55!R(i) = L51!R(i) /\ L55!K(i) = L51!K(i) /\ L55!U(i) = L51!U(i)
      BY DEF L55!R, L51!R, L55!K, L51!K, L55!U, L51!U
    <3>4. \/ w.op # "SETTABUP" /\ o = L55!R(w.a)
          \/ w.op \in {"GETTABLE", "GETI", "GETFIELD", "SETTABLE", "SELF"} /\ o = L55!R(w.b)
          \/ w.op = "GETTABLE" /\ o = L55!R(w.c)
          \/ w.op \in {"GETFIELD", "GETTABUP"} /\ o = L55!K(w.c)
          \/ w.op \in {"SETFIELD", "SETTABUP"} /\ o = L55!K(w.b)
          \/ w.op = "GETTABUP" /\ o = L55!U(w.b)
          \/ w.op = "SETTABUP" /\ o = L55!U(w.a)
          \/ w.op = "SELF" /\ o = L55!R(w.a + 1)
      BY <3>2 DEF L55!Effect
    <3> QED BY <3>3, <3>4
  <2> QED BY <1>1, <2>1, <2>2 DEF Operand55
<1>4. CASE e \in L55!Operators(w)
  <2>1. /\ L55!V54!ConstantOps \cap (L55!V54!BinaryOps \cup L55!V54!ImmediateOps
               \cup L55!V54!UnaryOps \cup {"CONCAT"}) = {}
        /\ L55!V54!BinaryOps \cap (L55!V54!ImmediateOps \cup L55!V54!UnaryOps \cup {"CONCAT"}) = {}
        /\ "CONCAT" \notin L55!V54!ImmediateOps \cup L55!V54!UnaryOps
    BY DEF L55!V54!ConstantOps, L55!V54!BinaryOps, L55!V54!ImmediateOps, L55!V54!UnaryOps
  <2>2. \/ w.op \in L55!V54!ConstantOps /\ e = L55!Effect({L55!R(w.b), L55!K(w.c)}, {L55!R(w.a)})
        \/ w.op \in L55!V54!BinaryOps /\ e = L55!Effect({L55!R(w.b), L55!R(w.c)}, {L55!R(w.a)})
        \/ /\ w.op \in L55!V54!ImmediateOps \cup L55!V54!UnaryOps
           /\ e = L55!Effect({L55!R(w.b)}, {L55!R(w.a)})
        \/ /\ w.op = "CONCAT"
           /\ e = L55!Effect(L55!Window(w.a, L55!Saturated(w.a + w.b) - 1), {L55!R(w.a)})
    BY <1>4, <2>1 DEF L55!Operators
  <2>3. \/ o = L51!R(w.a)
        \/ /\ w.op \in L55!V54!ConstantOps \cup L55!V54!BinaryOps \cup L55!V54!ImmediateOps
                         \cup L55!V54!UnaryOps
           /\ o = L51!R(w.b)
        \/ w.op \in L55!V54!BinaryOps /\ o = L51!R(w.c)
        \/ w.op \in L55!V54!ConstantOps /\ o = L51!K(w.c)
        \/ w.op = "CONCAT" /\ o \in L51!Window(w.a, L55!Saturated(w.a + w.b) - 1)
    BY <2>2 DEF L55!Effect, L55!R, L51!R, L55!K, L51!K, L55!Window, L51!Window
  <2>4. /\ L55!V54!ConstantOps \cup L55!V54!BinaryOps \cup L55!V54!ImmediateOps
             \cup L55!V54!UnaryOps \subseteq L55!BRegisterOps
        /\ L55!V54!BinaryOps \subseteq L55!CRegisterOps
    BY DEF L55!BRegisterOps, L55!CRegisterOps
  <2>5. w.op \notin {"JMP", "EXTRAARG", "SETTABUP", "RETURN0", "VARARGPREP"}
    BY <2>2 DEF L55!V54!ConstantOps, L55!V54!BinaryOps, L55!V54!ImmediateOps, L55!V54!UnaryOps
  <2> QED BY <1>1, <2>3, <2>4, <2>5 DEF Operand55
<1>5. CASE e \in L55!V54!Tests(w)
  <2>1. w.op \in L55!V54!ImmediateTests /\ o = L51!R(w.a)
    BY <1>5 DEF L55!V54!Tests, L55!V54!Effect, L55!V54!R, L51!R
  <2>2. w.op \notin {"JMP", "EXTRAARG", "SETTABUP", "RETURN0", "VARARGPREP"}
    BY <2>1 DEF L55!V54!ImmediateTests
  <2> QED BY <1>1, <2>1, <2>2 DEF Operand55
<1>6. CASE e \in L55!In(L55!Calls(w), w.op)
  <2>1. e = L55!Calls(w)[w.op] /\ w.op \in
            {"CALL", "TAILCALL", "RETURN1", "SETLIST", "CLOSURE", "GETVARG", "ERRNNIL"}
    BY <1>6 DEF L55!In, L55!Calls
  <2>2. \/ o = L51!R(w.a)
        \/ w.op = "GETVARG" /\ (o = L51!R(w.b) \/ o = L51!R(w.c))
        \/ w.op = "CLOSURE" /\ o = L51!P(w.x)
    <3>1. /\ L55!Calls(w)["CALL"] = L55!Effect({L55!R(w.a)}, {})
          /\ L55!Calls(w)["TAILCALL"] = L55!Effect({L55!R(w.a)}, {})
          /\ L55!Calls(w)["RETURN1"] = L55!Effect({L55!R(w.a)}, {})
          /\ L55!Calls(w)["SETLIST"] = L55!Effect({L55!R(w.a)}, {})
          /\ L55!Calls(w)["ERRNNIL"] = L55!Effect({L55!R(w.a)}, {})
          /\ L55!Calls(w)["CLOSURE"] = L55!Effect({L55!P(w.x)}, {L55!R(w.a)})
          /\ L55!Calls(w)["GETVARG"] = L55!Effect({L55!R(w.b), L55!R(w.c)}, {L55!R(w.a)})
      BY DEF L55!Calls
    <3>2. \/ /\ w.op \in {"CALL", "TAILCALL", "RETURN1", "SETLIST", "ERRNNIL"}
             /\ e = L55!Effect({L55!R(w.a)}, {})
          \/ w.op = "CLOSURE" /\ e = L55!Effect({L55!P(w.x)}, {L55!R(w.a)})
          \/ w.op = "GETVARG" /\ e = L55!Effect({L55!R(w.b), L55!R(w.c)}, {L55!R(w.a)})
      BY <2>1, <3>1
    <3> QED BY <3>2 DEF L55!Effect, L55!R, L51!R, L55!P, L51!P
  <2> QED BY <1>1, <2>1, <2>2 DEF Operand55
<1> QED BY <1>2, <1>3, <1>4, <1>5, <1>6 DEF Found55

LEMMA Operand55Within ==
    ASSUME NEW p, {p.maxstack, p.consts, p.nups} \subseteq Nat, NEW pc,
           NEW w, w = p.words[pc], Checked55(p, pc, w), NEW o, Operand55(p, pc, w, o)
    PROVE  IsWithin(p, FALSE, o)
<1>1. /\ w.a \in Nat /\ w.b \in Nat /\ w.c \in Nat /\ p.maxstack \in Nat
      /\ p.nups \in Nat
      /\ w.a % 256 \in Nat /\ w.a % 256 <= w.a /\ w.b % 256 \in Nat /\ w.b % 256 <= w.b
      /\ w.c % 256 \in Nat /\ w.c % 256 <= w.c
      /\ w.a + 1 \in Nat /\ (w.a + 1) % 256 <= w.a + 1 /\ (w.a + 1) % 256 \in Nat
  <2>1. w.a \in Nat /\ w.b \in Nat /\ w.c \in Nat
    BY DEF Checked55
  <2> QED BY <2>1
<1>2. CASE \/ w.op \in L55!ARegisterOps /\ o = L51!R(w.a)
           \/ w.op \in L55!BRegisterOps /\ o = L51!R(w.b)
           \/ w.op \in L55!CRegisterOps /\ o = L51!R(w.c)
           \/ w.op = "SELF" /\ o = L51!R(w.a + 1)
  <2>1. PICK i \in Nat : o = L51!R(i) /\ i % 256 < p.maxstack
    BY <1>1, <1>2 DEF Checked55
  <2> QED BY <1>1, <2>1, RegisterWithin
<1>3. CASE \/ w.op = "LOADK" /\ o = L51!K(w.x)
           \/ w.op = "LOADKX" /\ o = L55!V54!ExtraConstant(p, pc)
           \/ w.op \in L55!V54!ConstantOps \cup {"GETFIELD", "GETTABUP"} /\ o = L51!K(w.c)
           \/ w.op \in {"SETFIELD", "SETTABUP"} /\ o = L51!K(w.b)
  <2>1. w.op = "LOADKX" => L55!V54!ExtraConstant(p, pc) = L51!K(p.words[pc + 1].x)
    BY DEF Checked55, L55!V54!ExtraConstant, L55!V54!K, L51!K
  <2>2. \E i : o = L51!K(i) /\ i < p.consts
    BY <1>3, <2>1 DEF Checked55
  <2> QED BY <2>2, ConstantWithin
<1>4. CASE \/ w.op \in {"GETUPVAL", "SETUPVAL", "GETTABUP"} /\ o = L51!U(w.b)
           \/ w.op = "SETTABUP" /\ o = L51!U(w.a)
  BY <1>1, <1>4, UpvalueWithin DEF Checked55
<1>5. CASE w.op = "CLOSURE" /\ o = L51!P(w.x)
  BY <1>5, PrototypeWithin DEF Checked55
<1>6. CASE w.op = "LOADNIL" /\ o \in L51!Window(w.a, w.a + w.b)
  <2>1. w.a + w.b \in Int /\ w.a + w.b < p.maxstack
    BY <1>1, <1>6 DEF Checked55
  <2>2. \A r \in L51!Window(w.a, w.a + w.b) : IsWithin(p, FALSE, r)
    BY <1>1, <2>1, WindowWithin
  <2> QED BY <1>6, <2>2
<1>7. CASE w.op = "CONCAT" /\ o \in L51!Window(w.a, L55!Saturated(w.a + w.b) - 1)
  <2> DEFINE last == L55!Saturated(w.a + w.b) - 1
  <2>1. w.a < p.maxstack /\ (w.b > 0 => w.a + w.b - 1 < p.maxstack)
    <3>1. w.op \in L55!ARegisterOps
      BY <1>7 DEF L55!ARegisterOps, L55!Opcodes, L55!V54!Opcodes
    <3> QED BY <1>7, <3>1 DEF Checked55
  <2>2. last \in Int /\ last < p.maxstack
    BY <1>1, <2>1 DEF L55!Saturated
  <2> HIDE DEF last
  <2>3. \A r \in L51!Window(w.a, last) : IsWithin(p, FALSE, r)
    BY <1>1, <2>2, WindowWithin
  <2> QED BY <1>7, <2>3 DEF last
<1> QED BY <1>2, <1>3, <1>4, <1>5, <1>6, <1>7 DEF Operand55

LEMMA Effects55Within ==
    ASSUME NEW p, IsPrototype(p), p.dialect = "5.5",
           \A q \in Pcs(p) : L55!WordErrors(p, q) = {}, NEW pc \in Pcs(p)
    PROVE  Undeclared(p, pc) = {}
<1> SUFFICES ASSUME NEW o \in Undeclared(p, pc) PROVE FALSE
  OBVIOUS
<1> DEFINE w == p.words[pc]
           e == L55!Effects(p, pc)
<1>1. {p.maxstack, p.consts, p.nups} \subseteq Nat
  BY DEF IsPrototype
<1>2. Checked55(p, pc, w)
  BY Checked55Holds
<1>3. o \in e.reads \cup e.writes /\ ~L51!IsDeclared(p, o)
  BY DEF Undeclared, EffectsOf
<1>4. e \in Found55(p, pc, w)
  <2>1. e = IF Found55(p, pc, w) = {} THEN L55!NoEffect
            ELSE CHOOSE f \in Found55(p, pc, w) : TRUE
    BY DEF L55!Effects, Found55
  <2>2. Found55(p, pc, w) # {}
    BY <1>3, <2>1 DEF L55!NoEffect, L55!Effect
  <2> HIDE DEF e
  <2> QED BY <2>1, <2>2
<1>5. w = p.words[pc] /\ w.op \in L55!Opcodes
  BY <1>2 DEF Checked55
<1> HIDE DEF w, e
<1>6. Operand55(p, pc, w, o)
  BY <1>3, <1>4, <1>5, Operands55
<1>7. IsWithin(p, FALSE, o)
  BY <1>1, <1>2, <1>5, <1>6, Operand55Within
<1> QED BY <1>3, <1>7 DEF IsWithin

-----------------------------------------------------------------------------

(* What an accepted word reads and writes is declared by its prototype, but for
   the windows that end one too far. *)
LEMMA AcceptedWordsAreWithin ==
    ASSUME NEW p, IsPrototype(p), p.dialect \in {"5.1", "5.2", "5.3", "5.5"}, Accepted(p),
           NEW pc \in Executable(p)
    PROVE  IF EndsOneTooFar(p, pc)
           THEN Undeclared(p, pc) \subseteq {L51!R(p.maxstack)}
           ELSE Undeclared(p, pc) = {}
<1>0. pc \in Pcs(p)
  BY ExecutableAreWords
<1>1. CASE p.dialect = "5.1"
  <2>1. WordErrors(p, Instructions(p), pc) = {}
    BY <1>1 DEF Accepted, ValidForParser, Executable
  <2> QED BY <1>0, <1>1, <2>1, Effects51Within
<1>2. CASE p.dialect = "5.2"
  <2>1. L52!WordErrors(p, pc) = {}
    BY <1>0, <1>2 DEF Accepted
  <2> QED BY <1>0, <1>2, <2>1, Effects52Within
<1>3. CASE p.dialect = "5.3"
  <2>1. L53!WordErrors(p, pc) = {}
    BY <1>0, <1>3 DEF Accepted
  <2> QED BY <1>0, <1>3, <2>1, Effects53Within
<1>4. CASE p.dialect = "5.5"
  <2>1. \A q \in Pcs(p) : L55!WordErrors(p, q) = {}
    BY <1>4 DEF Accepted
  <2>2. Undeclared(p, pc) = {}
    BY <1>0, <1>4, <2>1, Effects55Within
  <2> QED BY <2>2
<1> QED BY <1>1, <1>2, <1>3, <1>4

(* The validator and the lifter agree on the operands of every accepted word
   (validate_proto, lift_instruction of Lua 5.1, 5.2, 5.3 and 5.5). *)
THEOREM OperandsAreDeclared == CfSpec => []AcceptedOperandsAreDeclared
<1>1. CfIInv => AcceptedOperandsAreDeclared
  <2> SUFFICES ASSUME CfIInv, proto # NoProto, proto.dialect # "5.4", Accepted(proto),
                      NEW pc \in Executable(proto)
               PROVE  IF EndsOneTooFar(proto, pc)
                      THEN Undeclared(proto, pc) \subseteq {L51!R(proto.maxstack)}
                      ELSE Undeclared(proto, pc) = {}
    BY DEF AcceptedOperandsAreDeclared
  <2>1. IsPrototype(proto) /\ proto.dialect \in {"5.1", "5.2", "5.3", "5.5"}
    BY DEF CfIInv, FromProto, IsPrototype
  <2> QED BY <2>1, AcceptedWordsAreWithin
<1> QED BY <1>1, CfInvariant, PTL
=============================================================================
