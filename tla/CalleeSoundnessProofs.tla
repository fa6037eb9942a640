----------------------- MODULE CalleeSoundnessProofs -----------------------
(***************************************************************************)
(* Two parts. The first is about the worklist of CalleeDataflow, for every *)
(* input and whatever the transfer function and the meet compute: they are *)
(* used there as the operators they are, never unfolded. In particular     *)
(* nothing is assumed about monotonicity, which the transfer function does *)
(* not have.                                                               *)
(*                                                                         *)
(* The second: what the callee analysis says of a call is true in every    *)
(* execution, for every program that the validator of Lua 5.1 accepts and  *)
(* every size of the machine of CalleeSoundness. The argument is a         *)
(* simulation. The fixed point of the analysis covers every edge of the    *)
(* graph of each prototype, and an edge stands wherever an execution goes  *)
(* from a block to another (CodeGraphProofs). A claim of an execution      *)
(* bears an abstract value out (Bears) when it says what the value says; a *)
(* frame agrees with the state before its instruction when every register, *)
(* and what its closure captured, is borne out. Each instruction keeps the *)
(* agreement (the lemmas on Apply, one per group of opcodes), so that the  *)
(* running frame and the waiting ones agree in every reachable state       *)
(* (RunInvariant) and a fact that names a callee names the one that is     *)
(* called.                                                                 *)
(***************************************************************************)
EXTENDS CalleeSoundness, CodeGraphProofs

-----------------------------------------------------------------------------
(* The worklist *)

IsMap(f, S) == DOMAIN f = S /\ f = [x \in S |-> f[x]]

TypeInv ==
    /\ IsTask(task)
    /\ phase \in {"iterate", "done"}
    /\ IsMap(in, task.reach)
    /\ IsMap(out, task.reach)
    /\ worklist \in Seq(task.reach)
    /\ steps \in 0..(task.budget + 1)
    /\ exhausted \in BOOLEAN
    /\ exhausted <=> steps > task.budget
    /\ phase = "done" => worklist = <<>> \/ exhausted

Settled(b) ==
    /\ in[b] = Incoming(task, out, b)
    /\ out[b] = BlockFlow(task, b, in[b])

(* What is reported once the worklist has ended *)
FactsInv ==
    phase = "done" => facts = IF exhausted THEN LimitFacts(task) ELSE FinalFacts(task, in)

(* A block that is not waiting is consistent with its predecessors. *)
WorkInv == ~exhausted => \A b \in task.reach : IsIn(b, worklist) \/ Settled(b)

IInv == TypeInv /\ FactsInv /\ WorkInv

-----------------------------------------------------------------------------
(* Sequences *)

LEMMA PushIsSeq ==
    ASSUME NEW S, NEW q \in Seq(S), NEW b \in S
    PROVE  /\ Push(q, b) \in Seq(S)
           /\ IsIn(b, Push(q, b))
           /\ \A x \in S : IsIn(x, q) => IsIn(x, Push(q, b))
BY DEF Push, IsIn

LEMMA PushSuccessorsIsSeq ==
    ASSUME NEW S, NEW q \in Seq(S), NEW edges \in Seq(S), Len(edges) <= 2
    PROVE  /\ PushSuccessors(q, edges) \in Seq(S)
           /\ \A x \in S : IsIn(x, q) => IsIn(x, PushSuccessors(q, edges))
           /\ \A x \in S : IsIn(x, edges) => IsIn(x, PushSuccessors(q, edges))
<1>0. Len(edges) = 0 \/ Len(edges) = 1 \/ Len(edges) = 2
  <2>1. PICK n \in Nat : n = Len(edges)
    OBVIOUS
  <2>2. n <= 2
    BY <2>1
  <2>3. n = 0 \/ n = 1 \/ n = 2
    BY <2>2
  <2> QED BY <2>1, <2>3
<1>1. CASE Len(edges) = 0
  BY <1>1 DEF PushSuccessors, IsIn
<1>2. CASE Len(edges) = 1
  <2>1. edges[1] \in S /\ \A x \in S : IsIn(x, edges) => x = edges[1]
    BY <1>2 DEF IsIn
  <2>2. PushSuccessors(q, edges) = Push(q, edges[1])
    BY <1>2 DEF PushSuccessors
  <2> QED BY <2>1, <2>2, PushIsSeq
<1>3. CASE Len(edges) = 2
  <2>1. /\ edges[1] \in S /\ edges[2] \in S
        /\ \A x \in S : IsIn(x, edges) => x = edges[1] \/ x = edges[2]
    <3>1. \A i \in 1..Len(edges) : edges[i] \in S
      OBVIOUS
    <3>2. 1..Len(edges) = {1, 2}
      BY <1>3
    <3> QED BY <3>1, <3>2 DEF IsIn
  <2>2. PushSuccessors(q, edges) = Push(Push(q, edges[1]), edges[2])
    BY <1>3 DEF PushSuccessors
  <2>3. /\ Push(q, edges[1]) \in Seq(S)
        /\ IsIn(edges[1], Push(q, edges[1]))
        /\ \A x \in S : IsIn(x, q) => IsIn(x, Push(q, edges[1]))
    BY <2>1, PushIsSeq
  <2>4. /\ Push(Push(q, edges[1]), edges[2]) \in Seq(S)
        /\ IsIn(edges[2], Push(Push(q, edges[1]), edges[2]))
        /\ \A x \in S : IsIn(x, Push(q, edges[1]))
                          => IsIn(x, Push(Push(q, edges[1]), edges[2]))
    BY <2>1, <2>3, PushIsSeq
  <2> QED BY <2>1, <2>2, <2>3, <2>4
<1> QED BY <1>0, <1>1, <1>2, <1>3

LEMMA InTail ==
    ASSUME NEW S, NEW q \in Seq(S), q # <<>>, NEW x, IsIn(x, q), x # Head(q)
    PROVE  IsIn(x, Tail(q))
<1>1. PICK i \in 1..Len(q) : q[i] = x
  BY DEF IsIn
<1>2. i # 1
  BY <1>1
<1>3. i - 1 \in 1..Len(Tail(q)) /\ Tail(q)[i - 1] = x
  BY <1>1, <1>2
<1> QED BY <1>3 DEF IsIn

LEMMA UpdateIsMap ==
    ASSUME NEW S, NEW f, IsMap(f, S), NEW x \in S, NEW v
    PROVE  /\ IsMap([f EXCEPT ![x] = v], S)
           /\ [f EXCEPT ![x] = v][x] = v
           /\ \A y \in S : y # x => [f EXCEPT ![x] = v][y] = f[y]
BY DEF IsMap

(* A meet looks at the out states of the predecessors alone. *)
LEMMA IncomingIsLocal ==
    ASSUME NEW t, NEW outs, NEW outs2, NEW c,
           \A p \in Preds(t, c) : outs[p] = outs2[p]
    PROVE  Incoming(t, outs, c) = Incoming(t, outs2, c)
<1>1. [p \in Preds(t, c) |-> outs[p]] = [p \in Preds(t, c) |-> outs2[p]]
  OBVIOUS
<1> QED BY <1>1 DEF Incoming

-----------------------------------------------------------------------------

LEMMA InitIInv == Init => IInv
<1> SUFFICES ASSUME Init PROVE IInv
  OBVIOUS
<1>1. IsTask(task)
  BY InputsAssumption DEF Init
<1>2. IsMap(in, task.reach) /\ IsMap(out, task.reach)
  BY DEF Init, IsMap
<1>3. /\ worklist \in Seq(task.reach) /\ task.budget \in Nat
      /\ \A b \in task.reach : IsIn(b, worklist)
  BY <1>1 DEF Init, IsTask
<1>4. steps \in 0..(task.budget + 1) /\ (exhausted <=> steps > task.budget)
  BY <1>3 DEF Init
<1>5. TypeInv
  BY <1>1, <1>2, <1>3, <1>4 DEF Init, TypeInv
<1>6. FactsInv
  BY DEF Init, FactsInv
<1> QED BY <1>3, <1>5, <1>6 DEF WorkInv, IInv

LEMMA ProcessKeepsTypeInv == IInv /\ ProcessBlock => TypeInv'
<1> SUFFICES ASSUME IInv, ProcessBlock PROVE TypeInv'
  OBVIOUS
<1> DEFINE b == Head(worklist)
<1>1. b \in task.reach /\ Tail(worklist) \in Seq(task.reach)
  BY DEF IInv, TypeInv, ProcessBlock
<1>2. /\ task.edges[b] \in Seq(task.reach) /\ Len(task.edges[b]) <= 2
      /\ Len(task.body[b]) \in Nat /\ task.budget \in Nat
  BY <1>1 DEF IInv, TypeInv, IsTask
<1>3. worklist' \in Seq(task.reach)
  BY <1>1, <1>2, PushSuccessorsIsSeq DEF ProcessBlock
<1>4. steps' \in 0..task.budget
  BY <1>2 DEF ProcessBlock, StepsAfter, IInv, TypeInv
<1>5. IsMap(in', task.reach) /\ IsMap(out', task.reach)
  BY <1>1, UpdateIsMap DEF ProcessBlock, IInv, TypeInv
<1>6. task' = task /\ phase' = "iterate" /\ exhausted' = exhausted /\ ~exhausted
  BY DEF ProcessBlock
<1>7. IsTask(task') /\ exhausted' \in BOOLEAN
  BY <1>6 DEF IInv, TypeInv
<1>8. exhausted' <=> steps' > task'.budget
  BY <1>2, <1>4, <1>6
<1>9. steps' \in 0..(task'.budget + 1)
  BY <1>2, <1>4, <1>6
<1> QED BY <1>3, <1>5, <1>6, <1>7, <1>8, <1>9 DEF TypeInv

(* The processed block is consistent afterwards; a block whose predecessor
   changed is waiting; every other one reads what it read before. *)
LEMMA ProcessKeepsWorkInv == IInv /\ ProcessBlock => WorkInv'
<1> SUFFICES ASSUME IInv, ProcessBlock, NEW c \in task.reach,
                    ~IsIn(c, worklist')
             PROVE  Settled(c)'
  BY DEF WorkInv, ProcessBlock
<1> DEFINE b == Head(worklist)
           incoming == Incoming(task, out, b)
           outgoing == BlockFlow(task, b, incoming)
<1>1. /\ b \in task.reach /\ Tail(worklist) \in Seq(task.reach)
      /\ worklist \in Seq(task.reach) /\ worklist # <<>>
      /\ IsMap(in, task.reach) /\ IsMap(out, task.reach)
      /\ task' = task /\ ~exhausted
  BY DEF IInv, TypeInv, ProcessBlock
<1>2. /\ in' = [in EXCEPT ![b] = incoming]
      /\ out' = [out EXCEPT ![b] = outgoing]
      /\ worklist' = IF outgoing = out[b] THEN Tail(worklist)
                     ELSE PushSuccessors(Tail(worklist), task.edges[b])
  BY DEF ProcessBlock, SameState
<1>3. /\ task.edges[b] \in Seq(task.reach) /\ Len(task.edges[b]) <= 2
      /\ \A s \in task.reach : IsIn(s, task.edges[b]) <=> s \in task.cfg.succ[b]
  BY <1>1 DEF IInv, TypeInv, IsTask
<1>4. ~IsIn(c, Tail(worklist))
  BY <1>1, <1>2, <1>3, PushSuccessorsIsSeq
<1>5. out'[b] # out[b] => c \notin task.cfg.succ[b]
  <2> SUFFICES ASSUME out'[b] # out[b] PROVE c \notin task.cfg.succ[b]
    OBVIOUS
  <2>1. outgoing # out[b]
    BY <1>1, <1>2, UpdateIsMap
  <2>2. worklist' = PushSuccessors(Tail(worklist), task.edges[b])
    BY <1>2, <2>1
  <2>3. ~IsIn(c, task.edges[b])
    BY <1>1, <1>3, <2>2, PushSuccessorsIsSeq
  <2> QED BY <1>3, <2>3
<1>6. \A p \in Preds(task, c) : out[p] = out'[p]
  BY <1>1, <1>2, <1>5, UpdateIsMap DEF Preds
<1>7. Incoming(task, out, c) = Incoming(task, out', c)
  BY <1>6, IncomingIsLocal
<1>8. CASE c = b
  <2>1. in'[b] = incoming
    BY <1>1, <1>2 DEF IsMap
  <2>2. out'[b] = outgoing
    BY <1>1, <1>2 DEF IsMap
  <2> QED BY <1>1, <1>7, <1>8, <2>1, <2>2 DEF Settled
<1>9. CASE c # b
  <2>1. ~IsIn(c, worklist)
    BY <1>1, <1>4, <1>9, InTail
  <2>2. Settled(c)
    BY <1>1, <2>1 DEF IInv, WorkInv
  <2> QED BY <1>1, <1>2, <1>7, <1>9, <2>2, UpdateIsMap DEF Settled
<1> QED BY <1>8, <1>9

LEMMA NextKeepsIInv == IInv /\ [Next]_vars => IInv'
<1> SUFFICES ASSUME IInv, [Next]_vars PROVE IInv'
  OBVIOUS
<1>1. CASE ProcessBlock
  <2>1. FactsInv'
    BY <1>1 DEF ProcessBlock, FactsInv
  <2> QED BY <1>1, <2>1, ProcessKeepsTypeInv, ProcessKeepsWorkInv DEF IInv
<1>2. CASE Exhaust
  <2>1. Head(worklist) \in task.reach /\ worklist' \in Seq(task.reach)
    BY <1>2 DEF IInv, TypeInv, Exhaust
  <2>2. /\ task' = task /\ phase' = phase /\ phase = "iterate" /\ out' = out
        /\ exhausted' = TRUE /\ steps' = task.budget + 1
    BY <1>2 DEF Exhaust
  <2>3. task.budget \in Nat /\ IsTask(task')
    BY <2>2 DEF IInv, TypeInv, IsTask
  <2>4. IsMap(in', task.reach) /\ IsMap(out', task.reach)
    BY <1>2, <2>1, <2>2, UpdateIsMap DEF Exhaust, IInv, TypeInv
  <2>5. steps' \in 0..(task'.budget + 1) /\ steps' > task'.budget
    BY <2>2, <2>3
  <2>6. TypeInv'
    BY <2>1, <2>2, <2>3, <2>4, <2>5 DEF TypeInv
  <2>7. FactsInv'
    BY <2>2 DEF FactsInv
  <2> QED BY <2>2, <2>6, <2>7 DEF WorkInv, IInv
<1>3. CASE Finish
  <2>1. TypeInv'
    BY <1>3 DEF Finish, IInv, TypeInv
  <2>2. WorkInv'
    BY <1>3 DEF Finish, IInv, WorkInv, Settled
  <2>3. FactsInv'
    BY <1>3 DEF Finish, FactsInv
  <2> QED BY <2>1, <2>2, <2>3 DEF IInv
<1>4. CASE UNCHANGED vars
  BY <1>4 DEF vars, IInv, TypeInv, FactsInv, WorkInv, Settled
<1> QED BY <1>1, <1>2, <1>3, <1>4 DEF Next

LEMMA InductiveInvariant == Spec => []IInv
BY InitIInv, NextKeepsIInv, PTL DEF Spec

(* The types of the worklist's state, and one fact for every call. *)
THEOREM TypeCorrect == Spec => []TypeOK
<1>1. IInv => TypeOK
  <2> SUFFICES ASSUME IInv PROVE TypeOK
    OBVIOUS
  <2>1. DOMAIN in = task.reach /\ DOMAIN out = task.reach
    BY DEF IInv, TypeInv, IsMap
  <2>2. phase = "done" => DOMAIN facts = Calls(task)
    BY DEF IInv, FactsInv, LimitFacts, FinalFacts
  <2> QED BY <2>1, <2>2 DEF IInv, TypeInv, TypeOK
<1> QED BY <1>1, InductiveInvariant, PTL

(* A spent budget is visible (run_dataflow and enumerate_with_reason in
   callees.rs): no call then keeps a half-propagated fact. *)
SpentBudgetIsTotal ==
    (phase = "done" /\ steps > task.budget) =>
        \A pc \in Calls(task) : facts[pc] = Unresolved("AnalysisLimit")

THEOREM SpentBudget == Spec => []SpentBudgetIsTotal
<1>1. IInv => SpentBudgetIsTotal
  BY DEF IInv, TypeInv, FactsInv, LimitFacts, SpentBudgetIsTotal
<1> QED BY <1>1, InductiveInvariant, PTL

LEMMA EndsSettled == IInv => EndsAtFixpoint
<1> SUFFICES ASSUME IInv, phase = "done", ~exhausted, NEW b \in task.reach
             PROVE  Settled(b)
  BY DEF EndsAtFixpoint, Settled
<1>1. worklist = <<>>
  BY DEF IInv, TypeInv
<1>2. ~IsIn(b, worklist)
  BY <1>1 DEF IsIn
<1> QED BY <1>2 DEF IInv, WorkInv

(* An analysis that ends within its budget ends at a fixed point of its
   equations (run_dataflow in callees.rs), whatever order the blocks are
   seeded in. *)
THEOREM FixpointTheorem == Spec => []EndsAtFixpoint
BY EndsSettled, InductiveInvariant, PTL

-----------------------------------------------------------------------------
(* Values and the claims that bear them out *)

IsKind(k) ==
    /\ k.shape \in {"LookupLabel", "SymbolicPath", "LiteralString", "Closure", "NonClosure"}
    /\ k.shape = "SymbolicPath" => k.segments \in Seq(STRING) \ {<<>>}
    /\ k.shape = "LiteralString" => k.value \in Strings
    /\ k.shape = "Closure" => k = Closure(k.prototype)

(* What a register of a reached block can hold: never Bottom *)
IsValue(v) ==
    \/ v.tag = "unknown" /\ v.reason \in FlowReasons
    \/ IsKnown(v) /\ IsKind(v.kind)

IsGlobal(k) == k.shape = "SymbolicPath" /\ k.basis = "global" /\ Len(k.segments) = 1

(* The value was in the global before the chunk stored anything there, or it
   came there through a store of the chunk. *)
FromGlobal(stores, name, evidence, claims) ==
    \/ \E c \in claims : c.kind = Foreign
    \/ \E s \in stores :
          /\ s.name = name
          /\ s.value.tag = "closure" =>
                \E c \in claims : /\ c.kind = Closure(s.value.prototype)
                                  /\ c.trace \subseteq s.value.evidence \cup evidence

(* The claims of an execution bear out an abstract value: what it says is one
   of them, and a global it names has a value the chunk accounts for. *)
Bears(stores, v, claims) ==
    /\ IsValue(v)
    /\ IsKnown(v) => \E c \in claims : c.kind = v.kind /\ c.trace \subseteq v.evidence
    /\ IsKnown(v) /\ IsGlobal(v.kind) =>
          FromGlobal(stores, v.kind.segments[1], v.evidence, claims)

LEMMA UnknownBears ==
    ASSUME NEW stores, NEW claims, NEW reason \in FlowReasons
    PROVE  Bears(stores, Unknown(reason), claims)
BY DEF Bears, IsValue, IsKnown, Unknown

(* More evidence bears out as much. *)
LEMMA MoreEvidence ==
    ASSUME NEW stores, NEW claims, NEW kind, NEW evidence, NEW more,
           Bears(stores, Known(kind, evidence), claims), evidence \subseteq more
    PROVE  Bears(stores, Known(kind, more), claims)
<1>1. IsKind(kind) /\ \E c \in claims : c.kind = kind /\ c.trace \subseteq evidence
  BY DEF Bears, IsValue, IsKnown, Known
<1>2. IsGlobal(kind) => FromGlobal(stores, kind.segments[1], evidence, claims)
  BY DEF Bears, IsKnown, Known
<1>3. IsGlobal(kind) => FromGlobal(stores, kind.segments[1], more, claims)
  BY <1>2 DEF FromGlobal
<1> QED BY <1>1, <1>3 DEF Bears, IsValue, IsKnown, Known

LEMMA KnownForm ==
    ASSUME NEW stores, NEW claims, NEW v, Bears(stores, v, claims), IsKnown(v)
    PROVE  Bears(stores, Known(v.kind, v.evidence), claims)
BY DEF Bears, IsValue, IsKnown, Known

(* A value that meets another one says less than before. *)
LEMMA MeetBears ==
    ASSUME NEW stores, NEW claims, NEW v, NEW w, Bears(stores, v, claims)
    PROVE  Bears(stores, MeetValue(v, w), claims) /\ Bears(stores, MeetValue(w, v), claims)
<1>1. v # Bottom
  BY DEF Bears, IsValue, IsKnown, Bottom
<1>2. CASE w = Bottom
  BY <1>1, <1>2 DEF MeetValue, Bottom
<1>3. CASE w # Bottom /\ IsKnown(v) /\ IsKnown(w) /\ KindsJoin(v.kind, w.kind)
  <2>1. v.kind = w.kind /\ KindsJoin(w.kind, v.kind)
    BY <1>3 DEF KindsJoin
  <2>2. /\ MeetValue(v, w) = Known(v.kind, v.evidence \cup w.evidence)
        /\ MeetValue(w, v) = Known(v.kind, w.evidence \cup v.evidence)
    BY <1>1, <1>3, <2>1 DEF MeetValue, IsKnown
  <2>3. Bears(stores, Known(v.kind, v.evidence), claims)
    BY <1>3, KnownForm
  <2> QED BY <2>2, <2>3, MoreEvidence
<1>4. CASE v = w /\ v.tag = "unknown"
  BY <1>1, <1>4 DEF MeetValue, IsKnown
<1>5. CASE /\ w # Bottom
           /\ ~(IsKnown(v) /\ IsKnown(w) /\ KindsJoin(v.kind, w.kind))
           /\ ~(v = w /\ v.tag = "unknown")
  <2>1. ~(IsKnown(w) /\ IsKnown(v) /\ KindsJoin(w.kind, v.kind))
    BY <1>5 DEF KindsJoin
  <2>2. /\ MeetValue(v, w) = Unknown("ControlFlowConflict")
        /\ MeetValue(w, v) = Unknown("ControlFlowConflict")
    BY <1>1, <1>5, <2>1 DEF MeetValue
  <2> QED BY <2>2, UnknownBears DEF FlowReasons
<1> QED BY <1>2, <1>3, <1>4, <1>5

(* What bears out one of the values that meet bears out their meet, in
   whatever order they are folded. *)
LEMMA FoldBears ==
    ASSUME NEW stores, NEW claims, NEW f, IsFiniteSet(DOMAIN f),
           NEW p \in DOMAIN f, Bears(stores, f[p], claims)
    PROVE  Bears(stores, FoldFunction(MeetValue, Bottom, f), claims)
<1> DEFINE P == DOMAIN f
           Pick(s) == CHOOSE x \in s : TRUE
           Step(g, s) == IF s = {} THEN Bottom ELSE MeetValue(f[Pick(s)], g[s \ {Pick(s)}])
           IsFold(g, D) == g = [s \in D |-> Step(g, s)]
           fold == CHOOSE g : IsFold(g, SUBSET P)
<1>1. FoldFunction(MeetValue, Bottom, f) = fold[P]
  BY DEF FoldFunction, FoldFunctionOnSet, MapThenFoldSet
<1>2. IsFold(fold, SUBSET P)
  <2> DEFINE D(n) == {s \in SUBSET P : Cardinality(s) <= n}
             S == {n \in Nat : \E g : IsFold(g, D(n))}
  <2>1. \A s \in SUBSET P : /\ IsFiniteSet(s) /\ Cardinality(s) \in Nat
                            /\ Cardinality(s) <= Cardinality(P)
                            /\ \A x \in s : Cardinality(s \ {x}) = Cardinality(s) - 1
    BY FS_Subset, FS_CardinalityType, FS_RemoveElement
  <2>2. 0 \in S
    <3>1. \A s \in D(0) : s = {}
      BY <2>1, FS_EmptySet
    <3>2. IsFold([s \in D(0) |-> Bottom], D(0))
      BY <3>1
    <3> QED BY <3>2
  <2>3. ASSUME NEW n \in Nat, n \in S PROVE n + 1 \in S
    <3>1. PICK g : IsFold(g, D(n))
      BY <2>3
    <3> DEFINE next == [s \in D(n + 1) |-> Step(g, s)]
    <3>2. \A s \in D(n) : s \in D(n + 1)
      BY <2>1
    <3>3. \A s \in D(n) : g[s] = Step(g, s)
      BY <3>1
    <3>4. ASSUME NEW s \in D(n + 1), s # {}
          PROVE  Pick(s) \in s /\ s \ {Pick(s)} \in D(n)
      <4>1. Pick(s) \in s
        BY <3>4
      <4> HIDE DEF Pick
      <4>2. s \ {Pick(s)} \in SUBSET P /\ Cardinality(s \ {Pick(s)}) = Cardinality(s) - 1
        BY <2>1, <4>1
      <4>3. Cardinality(s) <= n + 1 /\ Cardinality(s) \in Nat
        BY <2>1
      <4> QED BY <4>1, <4>2, <4>3
    <3>5. ASSUME NEW s \in D(n + 1) PROVE Step(next, s) = next[s]
      <4>1. next[s] = Step(g, s)
        OBVIOUS
      <4>2. ASSUME s # {} PROVE next[s \ {Pick(s)}] = g[s \ {Pick(s)}]
        <5> HIDE DEF Pick
        <5>1. s \ {Pick(s)} \in D(n)
          BY <3>4, <4>2
        <5> HIDE DEF D, Step
        <5>2. next[s \ {Pick(s)}] = Step(g, s \ {Pick(s)})
          BY <3>2, <5>1
        <5> QED BY <3>3, <5>1, <5>2
      <4> HIDE DEF Pick, next
      <4> QED BY <4>1, <4>2
    <3>6. next = [s \in D(n + 1) |-> next[s]]
      OBVIOUS
    <3>7. IsFold(next, D(n + 1))
      <4> HIDE DEF next, D, Step
      <4> QED BY <3>5, <3>6
    <3> HIDE DEF IsFold, D, next
    <3> QED BY <3>7
  <2>4. Nat \subseteq S
    <3> HIDE DEF S
    <3> QED BY <2>2, <2>3, Induction
  <2>5. PICK g : IsFold(g, D(Cardinality(P)))
    BY <2>1, <2>4
  <2>6. D(Cardinality(P)) = SUBSET P
    BY <2>1
  <2>7. IsFold(g, SUBSET P)
    BY <2>5, <2>6
  <2> HIDE DEF IsFold
  <2> QED BY <2>7
<1>3. \A s \in SUBSET P : p \in s => Bears(stores, fold[s], claims)
  <2> DEFINE C == {s \in SUBSET P : p \in s => Bears(stores, fold[s], claims)}
  <2>1. {} \in C
    OBVIOUS
  <2>2. ASSUME NEW s \in SUBSET P, s # {}, \A x \in s : s \ {x} \in C PROVE s \in C
    <3> SUFFICES ASSUME p \in s PROVE Bears(stores, fold[s], claims)
      OBVIOUS
    <3>1. Pick(s) \in s
      OBVIOUS
    <3>2. fold[s] = MeetValue(f[Pick(s)], fold[s \ {Pick(s)}])
      BY <1>2
    <3>3. CASE Pick(s) = p
      <4>1. Bears(stores, f[Pick(s)], claims)
        BY <3>3
      <4> HIDE DEF Pick
      <4> QED BY <3>2, <4>1, MeetBears
    <3>4. CASE Pick(s) # p
      BY <2>2, <3>1, <3>2, <3>4, MeetBears
    <3> QED BY <3>3, <3>4
  <2> HIDE DEF C
  <2>3. \A s \in SUBSET P : s # {} /\ (\A x \in s : s \ {x} \in C) => s \in C
    BY <2>2
  <2>4. SUBSET P \subseteq C
    <3> HIDE DEF P
    <3> QED BY <2>1, <2>3, SetInduction DEF P
  <2> QED BY <2>4 DEF C
<1> QED BY <1>1, <1>3

-----------------------------------------------------------------------------
(* One instruction, in the analysis and in the machine *)

(* The claims of every register bear out the abstract state. *)
Upholds(stores, state, claims) ==
    /\ DOMAIN state = DOMAIN claims
    /\ \A r \in DOMAIN state : Bears(stores, state[r], claims[r])

LEMMA SetUpholds ==
    ASSUME NEW stores, NEW state, NEW claims, Upholds(stores, state, claims),
           NEW a, NEW v, NEW C, a \in DOMAIN state => Bears(stores, v, C)
    PROVE  Upholds(stores, SetRegister(state, a, v), [claims EXCEPT ![a] = C])
BY DEF Upholds, SetRegister

LEMMA ThroughFromGlobal ==
    ASSUME NEW stores, NEW claims, NEW name, NEW evidence, NEW id,
           FromGlobal(stores, name, evidence, claims)
    PROVE  FromGlobal(stores, name, evidence \cup {id}, Through(id, claims))
<1>1. \A c \in claims : Claim(c.kind, c.trace \cup {id}) \in Through(id, claims)
  BY DEF Through
<1>2. \A k, tr : Claim(k, tr).kind = k /\ Claim(k, tr).trace = tr
  BY DEF Claim
<1>3. CASE \E c \in claims : c.kind = Foreign
  BY <1>1, <1>2, <1>3 DEF FromGlobal
<1>4. CASE ~\E c \in claims : c.kind = Foreign
  <2>1. PICK s \in stores :
           /\ s.name = name
           /\ s.value.tag = "closure" =>
                 \E c \in claims : /\ c.kind = Closure(s.value.prototype)
                                   /\ c.trace \subseteq s.value.evidence \cup evidence
    BY <1>4 DEF FromGlobal
  <2>2. s.value.tag = "closure" =>
           \E c \in Through(id, claims) :
              /\ c.kind = Closure(s.value.prototype)
              /\ c.trace \subseteq s.value.evidence \cup (evidence \cup {id})
    <3> SUFFICES ASSUME s.value.tag = "closure"
                 PROVE  \E c \in Through(id, claims) :
                           /\ c.kind = Closure(s.value.prototype)
                           /\ c.trace \subseteq s.value.evidence \cup (evidence \cup {id})
      OBVIOUS
    <3>1. PICK c \in claims : /\ c.kind = Closure(s.value.prototype)
                              /\ c.trace \subseteq s.value.evidence \cup evidence
      BY <2>1
    <3>2. /\ Claim(c.kind, c.trace \cup {id}).kind = Closure(s.value.prototype)
          /\ Claim(c.kind, c.trace \cup {id}).trace
               \subseteq s.value.evidence \cup (evidence \cup {id})
      BY <1>2, <3>1
    <3> QED BY <1>1, <3>2
  <2> QED BY <2>1, <2>2 DEF FromGlobal
<1> QED BY <1>3, <1>4

LEMMA ThroughBears ==
    ASSUME NEW stores, NEW claims, NEW v, NEW id, Bears(stores, v, claims), IsKnown(v)
    PROVE  Bears(stores, Known(v.kind, v.evidence \cup {id}), Through(id, claims))
<1>1. IsKind(v.kind) /\ \E c \in claims : c.kind = v.kind /\ c.trace \subseteq v.evidence
  BY DEF Bears, IsValue, IsKnown
<1>2. \A c \in claims : Claim(c.kind, c.trace \cup {id}) \in Through(id, claims)
  BY DEF Through
<1>3. \A k, tr : Claim(k, tr).kind = k /\ Claim(k, tr).trace = tr
  BY DEF Claim
<1>4. \E c \in Through(id, claims) : c.kind = v.kind /\ c.trace \subseteq v.evidence \cup {id}
  <2>1. PICK c \in claims : c.kind = v.kind /\ c.trace \subseteq v.evidence
    BY <1>1
  <2>2. /\ Claim(c.kind, c.trace \cup {id}).kind = v.kind
        /\ Claim(c.kind, c.trace \cup {id}).trace \subseteq v.evidence \cup {id}
    BY <1>3, <2>1
  <2> QED BY <1>2, <2>2
<1>5. \A name : FromGlobal(stores, name, v.evidence, claims) =>
                   FromGlobal(stores, name, v.evidence \cup {id}, Through(id, claims))
  BY ThroughFromGlobal
<1>6. IsGlobal(v.kind) =>
         FromGlobal(stores, v.kind.segments[1], v.evidence \cup {id}, Through(id, claims))
  BY <1>5 DEF Bears
<1> QED BY <1>1, <1>4, <1>6 DEF Bears, IsValue, IsKnown, Known

(* A value that is its own only claim, and names no global. *)
LEMMA ClaimBears ==
    ASSUME NEW stores, NEW kind, NEW evidence, NEW claims, IsKind(kind), ~IsGlobal(kind),
           Claim(kind, evidence) \in claims
    PROVE  Bears(stores, Known(kind, evidence), claims)
<1>1. Claim(kind, evidence).kind = kind /\ Claim(kind, evidence).trace = evidence
  BY DEF Claim
<1> QED BY <1>1 DEF Bears, IsValue, IsKnown, Known

LEMMA AppendGrows ==
    ASSUME NEW S, NEW q \in Seq(S) \ {<<>>}, NEW x \in S
    PROVE  Append(q, x) \in Seq(S) \ {<<>>} /\ Len(Append(q, x)) # 1
<1>1. Len(q) \in Nat /\ Len(q) # 0
  OBVIOUS
<1>2. Append(q, x) \in Seq(S) /\ Len(Append(q, x)) = Len(q) + 1
  OBVIOUS
<1>3. Append(q, x) # <<>>
  BY <1>1, <1>2
<1> QED BY <1>1, <1>2, <1>3

LEMMA LookupBears ==
    ASSUME NEW stores, NEW receiver, NEW claims, Bears(stores, receiver, claims),
           NEW id, NEW lookup, NEW key, key # NoConst
    PROVE  Bears(stores, LookupValue(id, lookup, receiver, key),
                 LookupClaims(id, lookup, claims, key))
<1> DEFINE value == LookupValue(id, lookup, receiver, key)
           found == LookupClaims(id, lookup, claims, key)
           grows == IsKnown(receiver) /\ receiver.kind.shape = "SymbolicPath" /\ key \in Strings
<1>1. CASE ~grows
  <2>1. value = Known(Label(lookup, key), {id})
    BY <1>1 DEF LookupValue
  <2>2. IsKind(Label(lookup, key)) /\ ~IsGlobal(Label(lookup, key))
    BY DEF IsKind, IsGlobal, Label
  <2>3. Claim(Label(lookup, key), {id}) \in found
    BY DEF LookupClaims
  <2> QED BY <2>1, <2>2, <2>3, ClaimBears
<1>2. CASE grows
  <2>1. /\ receiver.kind.segments \in Seq(STRING) \ {<<>>} /\ key \in STRING
        /\ MaxPathSegments \in Nat /\ Len(receiver.kind.segments) \in Nat
    BY <1>2, NamesAssumption DEF Bears, IsValue, IsKnown, IsKind
  <2>2. CASE Len(receiver.kind.segments) >= MaxPathSegments
    BY <1>2, <2>2, UnknownBears DEF LookupValue, FlowReasons
  <2>3. CASE Len(receiver.kind.segments) < MaxPathSegments
    <3> DEFINE path == Path(receiver.kind.basis, Append(receiver.kind.segments, key))
    <3>1. value = Known(path, receiver.evidence \cup {id})
      BY <1>2, <2>1, <2>3 DEF LookupValue
    <3>2. /\ Append(receiver.kind.segments, key) \in Seq(STRING) \ {<<>>}
          /\ Len(Append(receiver.kind.segments, key)) # 1
      BY <2>1, AppendGrows
    <3>3. IsKind(path) /\ ~IsGlobal(path)
      BY <3>2 DEF IsKind, IsGlobal, Path
    <3>4. PICK c \in claims : c.kind = receiver.kind /\ c.trace \subseteq receiver.evidence
      BY <1>2 DEF Bears
    <3>5. Claim(path, c.trace \cup {id}) \in found
      BY <1>2, <2>3, <3>4 DEF LookupClaims
    <3>6. Bears(stores, Known(path, c.trace \cup {id}), found)
      BY <3>3, <3>5, ClaimBears
    <3> QED BY <3>1, <3>4, <3>6, MoreEvidence
  <2> QED BY <2>1, <2>2, <2>3
<1> QED BY <1>1, <1>2

LEMMA RequireBears ==
    ASSUME NEW stores, NEW id, NEW w, w.b = 2, w.c = 2,
           NEW callee, NEW called, Bears(stores, callee, called),
           IsKnown(callee), callee.kind = RequirePath,
           NEW arg, NEW given, Bears(stores, arg, given),
           IsKnown(arg), arg.kind.shape = "LiteralString"
    PROVE  Bears(stores, ModuleValue(id, callee, arg), RequireClaims(id, w, called, given))
<1> DEFINE segments == ModuleSegments[arg.kind.value]
           path == Path("module", segments)
           evidence == arg.evidence \cup callee.evidence \cup {id}
<1>1. CASE segments = <<>> \/ Len(segments) > MaxPathSegments
  BY <1>1, UnknownBears DEF ModuleValue, FlowReasons
<1>2. CASE ~(segments = <<>> \/ Len(segments) > MaxPathSegments)
  <2>1. PICK f \in called : f.kind = callee.kind /\ f.trace \subseteq callee.evidence
    BY DEF Bears
  <2>2. PICK a \in given : a.kind = arg.kind /\ a.trace \subseteq arg.evidence
    BY DEF Bears
  <2>3. ModuleValue(id, callee, arg) = Known(path, evidence)
    BY <1>2 DEF ModuleValue
  <2>4. segments # <<>> /\ ~(Len(segments) > MaxPathSegments)
    BY <1>2
  <2>5. segments \in Seq(STRING)
    <3>1. arg.kind.value \in Strings
      BY DEF Bears, IsValue, IsKnown, IsKind
    <3> QED BY <3>1, NamesAssumption
  <2>6. Len(segments) <= MaxPathSegments
    BY <2>4, <2>5, NamesAssumption
  <2>7. Claim(path, a.trace \cup f.trace \cup {id}) \in RequireClaims(id, w, called, given)
    <3> DEFINE F == {c \in called : c.kind = RequirePath}
               A == {c \in given : /\ c.kind.shape = "LiteralString"
                                   /\ ModuleSegments[c.kind.value] # <<>>
                                   /\ Len(ModuleSegments[c.kind.value]) <= MaxPathSegments}
               Found(e, c) == Claim(Path("module", ModuleSegments[c.kind.value]),
                                    c.trace \cup e.trace \cup {id})
    <3>1. f \in F /\ a \in A
      BY <2>1, <2>2, <2>4, <2>6
    <3>2. Found(f, a) = Claim(path, a.trace \cup f.trace \cup {id})
      BY <2>2
    <3>3. RequireClaims(id, w, called, given) = {Found(e, c) : e \in F, c \in A}
      BY DEF RequireClaims
    <3> HIDE DEF F, A, Found
    <3>4. Found(f, a) \in RequireClaims(id, w, called, given)
      BY <3>1, <3>3
    <3> QED BY <3>2, <3>4
  <2>8. IsKind(path) /\ ~IsGlobal(path)
    BY <2>4, <2>5 DEF IsKind, IsGlobal, Path
  <2>9. Bears(stores, Known(path, a.trace \cup f.trace \cup {id}),
              RequireClaims(id, w, called, given))
    BY <2>7, <2>8, ClaimBears
  <2>10. a.trace \cup f.trace \cup {id} \subseteq evidence
    BY <2>1, <2>2
  <2> HIDE DEF path, evidence
  <2> QED BY <2>3, <2>9, <2>10, MoreEvidence
<1> QED BY <1>1, <1>2

(* The lifter's byte arithmetic does not cut the window of the word. *)
WindowFits(w) == (w.op = "VARARG" /\ w.b > 1) => w.a + w.b <= 255

LEMMA AcceptedWindowFits ==
    ASSUME NEW proto, IsPrototype(proto), proto.maxstack < 255, NEW exec,
           NEW pc \in Pcs(proto), WordErrors(proto, exec, pc) = {}
    PROVE  WindowFits(proto.words[pc])
<1> DEFINE w == proto.words[pc]
<1>1. w.a \in Nat /\ w.b \in Nat /\ proto.maxstack \in Nat
  BY DEF IsPrototype
<1>2. \A last \in WindowEnds(w) : ~(last >= proto.maxstack)
  BY DEF WordErrors
<1>3. (w.op = "VARARG" /\ w.b > 1) => w.a + w.b - 2 \in WindowEnds(w)
  BY DEF WindowEnds
<1> HIDE DEF w
<1>4. (w.op = "VARARG" /\ w.b > 1) => w.a + w.b <= 255
  BY <1>1, <1>2, <1>3
<1> QED BY <1>4 DEF WindowFits, w

LEMMA LastResultIs ==
    ASSUME NEW a \in Nat, NEW n \in Nat, n > 1, a + n <= 255
    PROVE  LastResult(a, n) = a + n - 2
<1>1. n % 256 = n
  OBVIOUS
<1> QED BY <1>1 DEF LastResult

(* Whatever the machine overwrites, the analysis forgets. *)
LEMMA OverwrittenIsForgotten ==
    ASSUME NEW w, w.a \in Nat, w.b \in Nat, WindowFits(w), DOMAIN regs \subseteq Nat,
           NEW r \in Overwritten(w)
    PROVE  r \in Writes(w) \/ Clobbers(w, r) \/ (w.op = "VARARG" /\ w.b = 0)
<1>1. CASE w.op = "VARARG"
  <2>1. r \in Nat /\ r >= w.a /\ (w.b > 0 => r <= w.a + w.b - 2)
    BY <1>1 DEF Overwritten
  <2>2. w.b > 0 => w.b > 1
    BY <2>1
  <2>3. w.b > 1 => LastResult(w.a, w.b) = w.a + w.b - 2
    BY <1>1, LastResultIs DEF WindowFits
  <2>4. w.b > 1 => Writes(w) = w.a..LastResult(w.a, w.b)
    BY <1>1 DEF Writes
  <2> QED BY <1>1, <2>1, <2>2, <2>3, <2>4
<1>2. CASE w.op \in {"CALL", "TAILCALL", "TFORLOOP"}
  BY <1>2 DEF Overwritten, Clobbers
<1>3. CASE w.op \notin {"VARARG", "CALL", "TAILCALL", "TFORLOOP"}
  BY <1>3 DEF Overwritten, Writes
<1> QED BY <1>1, <1>2, <1>3

Cleared(w) == [r \in DOMAIN regs |-> IF r \in Overwritten(w) THEN {} ELSE regs[r]]

LEMMA InvalidateUpholds ==
    ASSUME NEW stores, NEW before, Upholds(stores, before, regs), DOMAIN regs \subseteq Nat,
           NEW w, w.a \in Nat, w.b \in Nat, WindowFits(w), ~(w.op = "VARARG" /\ w.b = 0)
    PROVE  Upholds(stores, Invalidate(w, before), Cleared(w))
<1>1. /\ DOMAIN Invalidate(w, before) = DOMAIN before
      /\ DOMAIN Cleared(w) = DOMAIN before
  BY DEF Upholds, Invalidate, SetAll, Cleared
<1>2. ASSUME NEW r \in DOMAIN before
      PROVE  Bears(stores, Invalidate(w, before)[r], Cleared(w)[r])
  <2>1. CASE r \in Writes(w) \/ Clobbers(w, r)
    <3>1. Invalidate(w, before)[r] = Unknown("Overwritten")
      BY <2>1 DEF Invalidate, SetAll
    <3> QED BY <3>1, UnknownBears DEF FlowReasons
  <2>2. CASE ~(r \in Writes(w) \/ Clobbers(w, r))
    <3>1. Invalidate(w, before)[r] = before[r]
      BY <2>2 DEF Invalidate, SetAll
    <3>2. Cleared(w)[r] = regs[r]
      BY <2>2, OverwrittenIsForgotten DEF Cleared, Upholds
    <3> QED BY <3>1, <3>2 DEF Upholds
  <2> QED BY <2>1, <2>2
<1> QED BY <1>1, <1>2 DEF Upholds

(* A call leaves nothing that is known from its function upwards. *)
LEMMA CallForgets ==
    ASSUME NEW stores, NEW before, NEW w, w.op = "CALL", w.a \in Nat, w.b \in Nat,
           Upholds(stores, Invalidate(w, before), Cleared(w)), NEW found
    PROVE  Upholds(stores, Invalidate(w, before), [Cleared(w) EXCEPT ![w.a] = found])
<1>1. ASSUME w.a \in DOMAIN before
      PROVE  Invalidate(w, before)[w.a] = Unknown("Overwritten")
  BY <1>1 DEF Invalidate, SetAll, Clobbers
<1>2. DOMAIN Invalidate(w, before) = DOMAIN before
  BY DEF Invalidate, SetAll
<1> QED BY <1>1, <1>2, UnknownBears DEF Upholds, FlowReasons

LEMMA TopUpholds ==
    ASSUME NEW stores, NEW state, NEW claims, Upholds(stores, state, claims), NEW rs
    PROVE  Upholds(stores, SetAll(state, rs, Unknown("OpenRegisterWindow")), claims)
BY UnknownBears DEF Upholds, SetAll, FlowReasons

(* Every global holds what it held before the chunk ran, or what a store of
   the chunk put there. *)
GlobalsUphold(stores, held) == \A g \in Strings : FromGlobal(stores, g, {}, held[g])

LEMMA TransferUpholds ==
    ASSUME NEW t, IsPrototype(t.proto), t.proto.maxstack < 255,
           \A u \in DOMAIN t.captures : IsCapture(t.captures[u]),
           NEW exec, NEW pc \in Pcs(t.proto), WordErrors(t.proto, exec, pc) = {},
           NEW stores, NEW before, Upholds(stores, before, regs),
           DOMAIN regs = Registers(t.proto), GlobalsUphold(stores, globals)
    PROVE  Upholds(stores, Transfer(t.proto, t.captures, pc, before), Executed(t, pc))
<1> DEFINE w == t.proto.words[pc]
           id == Id(t.proto, pc)
           after == Invalidate(w, before)
           source == GetRegister(before, w.b)
           arg == GetRegister(before, w.a + 1)
           result == Transfer(t.proto, t.captures, pc, before)
           claims == Executed(t, pc)
<1> SUFFICES Upholds(stores, result, claims)
  OBVIOUS
<1>1. /\ w.a \in Nat /\ w.b \in Nat /\ w.c \in Nat
      /\ ARegisterOps(w.op) => w.a \in DOMAIN regs
      /\ w.op \in BRegisterOps => w.b \in DOMAIN regs
      /\ w.op = "SELF" => w.a + 1 \in DOMAIN regs
      /\ w.op = "CALL" /\ w.b > 0 => w.a + w.b - 1 \in DOMAIN regs
      /\ DOMAIN regs \subseteq Nat /\ DOMAIN before = DOMAIN regs
  <2>1. /\ ARegisterOps(w.op) => w.a < t.proto.maxstack
        /\ w.op \in BRegisterOps => w.b < t.proto.maxstack
        /\ w.op = "SELF" => w.a + 1 < t.proto.maxstack
        /\ w.op = "CALL" /\ w.b > 0 => w.a + w.b - 1 < t.proto.maxstack
        /\ w.a \in Nat /\ w.b \in Nat /\ w.c \in Nat
    BY ValidOperands
  <2>2. t.proto.maxstack \in Nat
    BY DEF IsPrototype
  <2>3. DOMAIN before = DOMAIN regs /\ DOMAIN regs \subseteq Nat
    BY <2>2 DEF Registers, Upholds
  <2>4. \A n \in Nat : n < t.proto.maxstack => n \in DOMAIN regs
    BY <2>2 DEF Registers
  <2> HIDE DEF w
  <2>5. w.a + 1 \in Nat /\ (w.b > 0 => w.a + w.b - 1 \in Nat)
    BY <2>1
  <2> QED BY <2>1, <2>3, <2>4, <2>5
<1>2. ~(w.op = "VARARG" /\ w.b = 0) => Upholds(stores, after, Cleared(w))
  <2>1. WindowFits(w)
    BY AcceptedWindowFits
  <2> HIDE DEF w, after
  <2> QED BY <1>1, <2>1, InvalidateUpholds DEF after
<1>3. \A r \in DOMAIN regs : /\ GetRegister(before, r) = before[r]
                             /\ Bears(stores, before[r], regs[r])
  BY <1>1 DEF GetRegister, Upholds
<1>4. CASE w.op = "LOADK"
  <2> DEFINE kind == IF w.k \in Strings THEN Literal(w.k) ELSE NonClosure
             found == {Claim(kind, {id})}
  <2>1. /\ result = SetRegister(after, w.a, Known(kind, {id}))
        /\ claims = [Cleared(w) EXCEPT ![w.a] = found]
    BY <1>4 DEF Transfer, Executed, Cleared
  <2>2. IsKind(kind) /\ ~IsGlobal(kind)
    BY DEF IsKind, IsGlobal, Literal, NonClosure
  <2>3. Bears(stores, Known(kind, {id}), found)
    BY <2>2, ClaimBears
  <2> HIDE DEF kind, found, result, claims, after
  <2> QED BY <1>2, <1>4, <2>1, <2>3, SetUpholds
<1>5. CASE w.op = "GETGLOBAL" /\ w.k \in Strings
  <2> DEFINE path == Path("global", <<w.k>>)
             found == {Claim(path, {id})} \cup Through(id, globals[w.k])
  <2>1. /\ result = SetRegister(after, w.a, Known(path, {id}))
        /\ claims = [Cleared(w) EXCEPT ![w.a] = found]
    BY <1>5 DEF Transfer, Executed, Cleared
  <2>2. FromGlobal(stores, w.k, {}, globals[w.k])
    BY <1>5 DEF GlobalsUphold
  <2>3. Bears(stores, Known(path, {id}), found)
    <3>1. IsKind(path)
      <4>1. w.k \in STRING
        BY <1>5, NamesAssumption
      <4>2. <<w.k>> \in Seq(STRING) \ {<<>>}
        BY <4>1
      <4> QED BY <4>2 DEF IsKind, Path
    <3>2. Claim(path, {id}).kind = path /\ Claim(path, {id}).trace = {id}
      BY DEF Claim
    <3>3. path.segments[1] = w.k
      BY DEF Path
    <3>4. FromGlobal(stores, w.k, {id}, Through(id, globals[w.k]))
      BY <2>2, ThroughFromGlobal
    <3>5. FromGlobal(stores, w.k, {id}, found)
      BY <3>4 DEF FromGlobal
    <3> HIDE DEF path
    <3> QED BY <3>1, <3>2, <3>3, <3>5 DEF Bears, IsValue, IsKnown, Known
  <2> HIDE DEF path, found
  <2> QED BY <1>2, <1>5, <2>1, <2>3, SetUpholds
<1>6. CASE w.op = "MOVE"
  <2> DEFINE v == IF IsKnown(source) THEN Known(source.kind, source.evidence \cup {id})
                  ELSE source
  <2>1. /\ result = SetRegister(after, w.a, v)
        /\ claims = [Cleared(w) EXCEPT ![w.a] = Through(id, regs[w.b])]
    BY <1>6 DEF Transfer, Executed, Cleared
  <2>2. Bears(stores, source, regs[w.b])
    BY <1>1, <1>3, <1>6 DEF BRegisterOps
  <2>3. Bears(stores, v, Through(id, regs[w.b]))
    <3>1. CASE IsKnown(source)
      BY <2>2, <3>1, ThroughBears
    <3>2. CASE ~IsKnown(source)
      BY <2>2, <3>2 DEF Bears, IsValue
    <3> QED BY <3>1, <3>2
  <2> HIDE DEF v
  <2> QED BY <1>2, <1>6, <2>1, <2>3, SetUpholds
<1>7. CASE w.op = "GETUPVAL"
  <2> DEFINE v == IF w.b \in DOMAIN t.captures THEN t.captures[w.b]
                  ELSE Unknown("AmbiguousCapture")
  <2>1. /\ result = SetRegister(after, w.a, v)
        /\ claims = [Cleared(w) EXCEPT ![w.a] = CaptureClaims(t, w.b)]
    BY <1>7 DEF Transfer, Executed, Cleared
  <2>2. Bears(stores, v, CaptureClaims(t, w.b))
    <3>1. CASE ~(w.b \in DOMAIN t.captures /\ IsKnown(t.captures[w.b]))
      <4>1. v.tag = "unknown" /\ v.reason \in FlowReasons
        BY <3>1 DEF IsCapture, IsKnown, Unknown, FlowReasons
      <4> QED BY <4>1 DEF Bears, IsValue, IsKnown
    <3>2. CASE w.b \in DOMAIN t.captures /\ IsKnown(t.captures[w.b])
      <4>1. IsValue(v) /\ v = t.captures[w.b]
        BY <3>2 DEF IsCapture, IsValue, IsKnown, IsKind
      <4>2. Claim(v.kind, v.evidence) \in CaptureClaims(t, w.b)
        BY <3>2, <4>1 DEF CaptureClaims
      <4>3. ForeignClaim \in CaptureClaims(t, w.b)
        BY <3>2 DEF CaptureClaims
      <4>4. /\ Claim(v.kind, v.evidence).kind = v.kind
            /\ Claim(v.kind, v.evidence).trace = v.evidence
            /\ ForeignClaim.kind = Foreign
        BY DEF Claim, ForeignClaim
      <4> HIDE DEF v
      <4> QED BY <4>1, <4>2, <4>3, <4>4 DEF Bears, FromGlobal
    <3> QED BY <3>1, <3>2
  <2> HIDE DEF v
  <2> QED BY <1>2, <1>7, <2>1, <2>2, SetUpholds
<1>8. CASE w.op = "GETTABLE"
  <2> DEFINE v == IF w.k = NoConst THEN Unknown("DynamicKey")
                  ELSE LookupValue(id, "gettable", source, w.k)
             found == LookupClaims(id, "gettable", regs[w.b], w.k)
  <2>1. /\ result = SetRegister(after, w.a, v)
        /\ claims = [Cleared(w) EXCEPT ![w.a] = found]
    BY <1>8 DEF Transfer, Executed, Cleared
  <2>2. Bears(stores, source, regs[w.b])
    BY <1>1, <1>3, <1>8 DEF BRegisterOps
  <2>3. Bears(stores, v, found)
    BY <2>2, LookupBears, UnknownBears DEF FlowReasons
  <2> HIDE DEF v, found
  <2> QED BY <1>2, <1>8, <2>1, <2>3, SetUpholds
<1>9. CASE w.op = "SELF"
  <2> DEFINE v == IF w.k = NoConst THEN Unknown("DynamicKey")
                  ELSE LookupValue(id, "self", source, w.k)
             found == LookupClaims(id, "self", regs[w.b], w.k)
             between == SetRegister(after, w.a + 1, source)
             meant == [Cleared(w) EXCEPT ![w.a + 1] = regs[w.b]]
  <2>1. /\ result = SetRegister(between, w.a, v)
        /\ claims = [meant EXCEPT ![w.a] = found]
    BY <1>9 DEF Transfer, Executed, Cleared
  <2>2. Bears(stores, source, regs[w.b])
    BY <1>1, <1>3, <1>9 DEF BRegisterOps
  <2>3. Bears(stores, v, found)
    BY <2>2, LookupBears, UnknownBears DEF FlowReasons
  <2>4. Upholds(stores, between, meant)
    BY <1>2, <1>9, <2>2, SetUpholds
  <2> HIDE DEF v, found, between, meant, result, claims, after
  <2> QED BY <2>1, <2>3, <2>4, SetUpholds
<1>10. CASE w.op = "CALL"
  <2> DEFINE found == IF w.a + 1 \in DOMAIN regs
                      THEN RequireClaims(id, w, regs[w.a], regs[w.a + 1]) ELSE {}
             isModule == /\ IsRequireCall(w, before)
                         /\ IsKnown(arg) /\ arg.kind.shape = "LiteralString"
             v == ModuleValue(id, GetRegister(before, w.a), arg)
             top == SetAll(after, {r \in DOMAIN after : r >= w.a},
                           Unknown("OpenRegisterWindow"))
  <2>1. claims = [Cleared(w) EXCEPT ![w.a] = found]
    BY <1>10 DEF Executed, Cleared
  <2>2. Upholds(stores, after, claims)
    BY <1>1, <1>2, <1>10, <2>1, CallForgets
  <2>3. CASE isModule
    <3>1. result = SetRegister(after, w.a, v)
      BY <1>10, <2>3 DEF Transfer
    <3>2. w.b = 2 /\ w.c = 2
      BY <2>3 DEF IsRequireCall
    <3>3. w.a \in DOMAIN regs /\ w.a + 1 \in DOMAIN regs
      <4>1. w.a + 2 - 1 \in DOMAIN regs
        BY <1>1, <1>10, <3>2
      <4> QED BY <1>1, <1>10, <4>1 DEF ARegisterOps
    <3>4. /\ Bears(stores, GetRegister(before, w.a), regs[w.a])
          /\ Bears(stores, arg, regs[w.a + 1])
      BY <1>3, <3>3
    <3>5. IsKnown(GetRegister(before, w.a)) /\ GetRegister(before, w.a).kind = RequirePath
      BY <2>3 DEF IsRequireCall
    <3>6. found = RequireClaims(id, w, regs[w.a], regs[w.a + 1])
      BY <3>3
    <3>7. Bears(stores, v, RequireClaims(id, w, regs[w.a], regs[w.a + 1]))
      BY <2>3, <3>2, <3>4, <3>5, RequireBears
    <3> HIDE DEF v, found, result, claims, after
    <3> QED BY <1>2, <1>10, <2>1, <3>1, <3>6, <3>7, SetUpholds
  <2>4. CASE ~isModule
    <3>1. result = after \/ result = top
      BY <1>10, <2>4 DEF Transfer
    <3>2. Upholds(stores, top, claims)
      BY <2>2, TopUpholds
    <3> QED BY <2>2, <3>1, <3>2
  <2> QED BY <2>3, <2>4
<1>11. CASE w.op = "CLOSURE"
  <2> DEFINE kind == Closure(ChildPath(t.proto, w.x))
             found == {Claim(kind, {id})}
  <2>1. /\ result = SetRegister(after, w.a, Known(kind, {id}))
        /\ claims = [Cleared(w) EXCEPT ![w.a] = found]
    BY <1>11 DEF Transfer, Executed, Cleared
  <2>2. IsKind(kind) /\ ~IsGlobal(kind)
    BY DEF IsKind, IsGlobal, Closure
  <2>3. Bears(stores, Known(kind, {id}), found)
    BY <2>2, ClaimBears
  <2> HIDE DEF kind, found, result, claims, after
  <2> QED BY <1>2, <1>11, <2>1, <2>3, SetUpholds
<1>12. CASE w.op = "VARARG" /\ w.b = 0
  <2> DEFINE top == SetAll(after, {r \in DOMAIN after : r >= w.a},
                           Unknown("OpenRegisterWindow"))
  <2>1. result = top /\ claims = Cleared(w)
    BY <1>12 DEF Transfer, Executed, Cleared
  <2>2. DOMAIN top = DOMAIN before /\ DOMAIN claims = DOMAIN before
    BY <1>1, <2>1 DEF SetAll, Invalidate, Cleared
  <2>3. ASSUME NEW r \in DOMAIN before PROVE Bears(stores, top[r], Cleared(w)[r])
    <3>1. CASE r >= w.a
      <4>1. top[r] = Unknown("OpenRegisterWindow")
        BY <3>1 DEF SetAll, Invalidate
      <4> QED BY <4>1, UnknownBears DEF FlowReasons
    <3>2. CASE ~(r >= w.a)
      <4>1. r \notin Overwritten(w) /\ r \notin Writes(w) /\ ~Clobbers(w, r)
        BY <1>12, <3>2 DEF Overwritten, Writes, Clobbers
      <4>2. top[r] = before[r] /\ Cleared(w)[r] = regs[r]
        BY <1>1, <3>2, <4>1 DEF SetAll, Invalidate, Cleared
      <4> QED BY <1>1, <1>3, <4>2
    <3> QED BY <3>1, <3>2
  <2> HIDE DEF top
  <2> QED BY <2>1, <2>2, <2>3 DEF Upholds
<1>13. CASE /\ w.op \notin {"LOADK", "MOVE", "GETUPVAL", "GETTABLE", "SELF", "CALL", "CLOSURE"}
            /\ ~(w.op = "GETGLOBAL" /\ w.k \in Strings)
            /\ ~(w.op = "VARARG" /\ w.b = 0)
  <2>1. result = after
    BY <1>13 DEF Transfer
  <2>2. CASE w.op # "GETGLOBAL"
    <3>1. claims = Cleared(w)
      BY <1>13, <2>2 DEF Executed, Cleared
    <3> QED BY <1>2, <1>13, <2>1, <3>1
  <2>3. CASE w.op = "GETGLOBAL"
    <3> DEFINE found == {Claim(Path("global", <<w.k>>), {id})} \cup Through(id, globals[w.k])
    <3>1. claims = [Cleared(w) EXCEPT ![w.a] = found]
      BY <2>3 DEF Executed, Cleared
    <3>2. ASSUME w.a \in DOMAIN before PROVE after[w.a] = Unknown("Overwritten")
      BY <2>3, <3>2 DEF Invalidate, SetAll, Writes
    <3>3. Upholds(stores, after, Cleared(w))
      BY <1>2, <2>3
    <3>4. DOMAIN after = DOMAIN before
      BY DEF Invalidate, SetAll
    <3> HIDE DEF found, after, result, claims
    <3>5. ASSUME NEW r \in DOMAIN after PROVE Bears(stores, after[r], claims[r])
      <4>1. CASE r = w.a
        BY <3>2, <3>4, <4>1, UnknownBears DEF FlowReasons
      <4>2. CASE r # w.a
        BY <3>1, <3>3, <4>2 DEF Upholds
      <4> QED BY <4>1, <4>2
    <3>6. DOMAIN claims = DOMAIN after
      BY <3>1, <3>3 DEF Upholds
    <3> QED BY <2>1, <3>5, <3>6 DEF Upholds
  <2> QED BY <2>2, <2>3
<1> QED BY <1>4, <1>5, <1>6, <1>7, <1>8, <1>9, <1>10, <1>11, <1>12, <1>13

-----------------------------------------------------------------------------
(* The blocks that edges lead to *)

LEMMA ReachIsClosed ==
    ASSUME NEW cfg, IsFiniteSet(cfg.nodes), cfg.entry \in cfg.nodes,
           \A b \in cfg.nodes : cfg.succ[b] \subseteq cfg.nodes
    PROVE  /\ cfg.entry \in ReachableBlocks(cfg) /\ ReachableBlocks(cfg) \subseteq cfg.nodes
           /\ \A b \in ReachableBlocks(cfg) : cfg.succ[b] \subseteq ReachableBlocks(cfg)
<1> DEFINE V == SUBSET cfg.nodes
           N == Cardinality(cfg.nodes)
           Grown(s) == s \cup UNION {cfg.succ[b] : b \in s}
           IsWave(f) == f = [n \in 0..N |-> IF n = 0 THEN {cfg.entry} ELSE Grown(f[n - 1])]
           wave == CHOOSE f : IsWave(f)
           start == {cfg.entry}
<1>1. ReachableBlocks(cfg) = wave[N]
  BY DEF ReachableBlocks
<1>2. N \in Nat /\ start \in V /\ \A s \in V : Grown(s) \in V
  <2>1. N \in Nat /\ start \in V
    BY FS_CardinalityType
  <2>2. ASSUME NEW s \in V PROVE Grown(s) \in V
    OBVIOUS
  <2> QED BY <2>1, <2>2
<1> DEFINE grow == [s \in V |-> Grown(s)]
           step == [n \in Nat |-> grow]
<1>3. IsWave(wave)
  <2>1. start \in V /\ N \in Nat /\ grow \in [V -> V]
    <3> HIDE DEF Grown, V
    <3> QED BY <1>2
  <2>2. step \in [Nat -> [V -> V]]
    <3> HIDE DEF V, grow
    <3> QED BY <2>1
  <2>3. PICK f : IsRec(V, start, step, N, f)
    <3> HIDE DEF step, N, V, start
    <3> QED BY <2>1, <2>2, Recursion
  <2>4. ASSUME NEW n \in 0..N
        PROVE  f[n] = IF n = 0 THEN {cfg.entry} ELSE Grown(f[n - 1])
    <3>1. CASE n # 0
      <4>1. n \in 1..N /\ f[n - 1] \in V /\ f[n] = step[n][f[n - 1]]
        <5> HIDE DEF V, step
        <5> QED BY <2>1, <2>3, <3>1 DEF IsRec
      <4>2. grow[f[n - 1]] = Grown(f[n - 1])
        <5> HIDE DEF Grown, V
        <5> QED BY <4>1
      <4>3. step[n] = grow
        <5> HIDE DEF grow
        <5> QED BY <2>1, <4>1
      <4> HIDE DEF grow, step, Grown
      <4> QED BY <3>1, <4>1, <4>2, <4>3
    <3> QED BY <2>3, <3>1 DEF IsRec
  <2>5. IsWave(f)
    <3>1. f = [n \in 0..N |-> f[n]]
      <4> HIDE DEF V, N, step
      <4> QED BY <2>3 DEF IsRec
    <3> HIDE DEF Grown, N
    <3> QED BY <2>4, <3>1
  <2> HIDE DEF IsWave
  <2> QED BY <2>5
<1>4. wave[0] = start /\ \A n \in 0..(N - 1) : wave[n + 1] = Grown(wave[n])
  <2>1. \A n \in 0..N : wave[n] = IF n = 0 THEN {cfg.entry} ELSE Grown(wave[n - 1])
    <3> HIDE DEF wave, Grown, N
    <3> QED BY <1>3
  <2> HIDE DEF wave, Grown, N
  <2> QED BY <1>2, <2>1
<1> HIDE DEF wave, N
<1> DEFINE Right(n) == /\ wave[n] \in V /\ cfg.entry \in wave[n]
                       /\ Grown(wave[n]) = wave[n] \/ Cardinality(wave[n]) >= n + 1
           S == {n \in Nat : n <= N => Right(n)}
<1>5. 0 \in S
  <2>1. Cardinality(start) = 1
    BY FS_Singleton
  <2> HIDE DEF V, Grown
  <2> QED BY <1>2, <1>4, <2>1
<1>6. ASSUME NEW n \in Nat, n \in S PROVE n + 1 \in S
  <2> SUFFICES ASSUME n + 1 <= N PROVE Right(n + 1)
    OBVIOUS
  <2>1. Right(n) /\ wave[n + 1] = Grown(wave[n])
    <3> HIDE DEF Right, Grown
    <3> QED BY <1>2, <1>4, <1>6
  <2>2. wave[n + 1] \in V /\ cfg.entry \in wave[n + 1] /\ wave[n] \subseteq wave[n + 1]
    <3>1. Grown(wave[n]) \in V
      <4> HIDE DEF Grown, V
      <4> QED BY <1>2, <2>1
    <3>2. wave[n] \subseteq Grown(wave[n]) /\ cfg.entry \in Grown(wave[n])
      BY <2>1
    <3> HIDE DEF Grown, V
    <3> QED BY <2>1, <3>1, <3>2
  <2>3. CASE Grown(wave[n]) = wave[n]
    <3>1. wave[n + 1] = wave[n]
      BY <2>1, <2>3
    <3> HIDE DEF Grown, V
    <3> QED BY <2>2, <2>3, <3>1
  <2>4. CASE Grown(wave[n]) # wave[n]
    <3>1. Cardinality(wave[n]) >= n + 1 /\ wave[n] # wave[n + 1]
      <4> HIDE DEF Grown, V
      <4> QED BY <2>1, <2>4
    <3>2. IsFiniteSet(wave[n + 1])
      BY <2>2, FS_Subset
    <3>3. /\ Cardinality(wave[n]) \in Nat /\ Cardinality(wave[n + 1]) \in Nat
          /\ Cardinality(wave[n]) <= Cardinality(wave[n + 1])
          /\ Cardinality(wave[n]) # Cardinality(wave[n + 1])
      BY <2>2, <3>1, <3>2, FS_Subset, FS_CardinalityType
    <3>4. Cardinality(wave[n + 1]) >= n + 1 + 1
      <4> DEFINE x == Cardinality(wave[n])
                 y == Cardinality(wave[n + 1])
      <4>1. x \in Nat /\ y \in Nat /\ x <= y /\ x # y /\ x >= n + 1
        BY <3>1, <3>3
      <4> HIDE DEF x, y
      <4>2. y >= n + 1 + 1
        BY <4>1
      <4> QED BY <4>2 DEF y
    <3> HIDE DEF Grown, V
    <3> QED BY <2>2, <3>4
  <2> QED BY <2>3, <2>4
<1>7. Nat \subseteq S
  <2> HIDE DEF S
  <2> QED BY <1>5, <1>6, Induction
<1>8. Right(N)
  <2> HIDE DEF Right
  <2> QED BY <1>2, <1>7
<1>9. Grown(wave[N]) = wave[N]
  <2>1. wave[N] \subseteq cfg.nodes
    BY <1>8
  <2>2. Cardinality(wave[N]) <= N /\ Cardinality(wave[N]) \in Nat
    BY <2>1, FS_Subset, FS_CardinalityType DEF N
  <2>3. ~(Cardinality(wave[N]) >= N + 1)
    BY <1>2, <2>2
  <2> HIDE DEF Grown
  <2> QED BY <1>8, <2>3
<1>10. \A b \in wave[N] : cfg.succ[b] \subseteq Grown(wave[N])
  OBVIOUS
<1> HIDE DEF Grown
<1> QED BY <1>1, <1>8, <1>9, <1>10

(* What a prototype is analysed as *)
LEMMA TaskIs ==
    ASSUME NEW input \in Inputs, NEW t, t = Task(input)
    PROVE  LET exec == Executable(t.proto)
               leaders == Leaders(t.proto, exec)
           IN  /\ t.proto = input.proto /\ t.captures = input.captures
               /\ IsPrototype(t.proto) /\ t.proto.dialect = "5.1" /\ t.proto.maxstack < 255
               /\ \A u \in DOMAIN t.captures : IsCapture(t.captures[u])
               /\ \A pc \in exec : WordErrors(t.proto, exec, pc) = {}
               /\ DOMAIN t.block = exec
               /\ \A pc \in exec : t.block[pc] = BlockOf(leaders, pc)
               /\ \A b \in leaders : t.cfg.succ[b] = Successors(t.proto, exec, leaders, b)
               /\ t.cfg.entry = 0 /\ 0 \in t.reach /\ t.reach \subseteq leaders
               /\ IsFiniteSet(t.reach)
               /\ \A b \in t.reach : t.cfg.succ[b] \subseteq t.reach
<1> DEFINE proto == input.proto
           exec == Executable(proto)
           leaders == Leaders(proto, exec)
           cfg == BuildCfg(proto)
<1>1. /\ IsPrototype(proto) /\ proto.dialect = "5.1" /\ Accepted(proto)
      /\ proto.maxstack < 255
      /\ \A u \in DOMAIN input.captures : IsCapture(input.captures[u])
  BY ProgramsAssumption
<1>2. Executable(proto) = exec
  BY <1>1 DEF Executable
<1>3. /\ cfg.nodes = leaders /\ cfg.entry = Min(leaders)
      /\ cfg.succ = [b \in leaders |-> Successors(proto, exec, leaders, b)]
  BY <1>2 DEF BuildCfg
<1>4. /\ t.proto = proto /\ t.captures = input.captures /\ t.cfg = cfg
      /\ t.block = [pc \in exec |-> BlockOf(leaders, pc)]
      /\ t.reach = ReachableBlocks(cfg)
  BY <1>2, <1>3 DEF Task
<1>5. \A pc \in exec : WordErrors(proto, exec, pc) = {}
  BY <1>1 DEF Accepted, ValidForParser, Executable
<1>6. leaders \subseteq Pcs(proto) /\ leaders \subseteq Nat /\ 0 \in leaders
  BY <1>1, LeadersAreExecutable
<1>7. IsFiniteSet(leaders)
  <2>1. Pcs(proto) = 0..(NumWords(proto) - 1) /\ 0 \in Int /\ NumWords(proto) - 1 \in Int
    BY <1>1 DEF IsPrototype
  <2>2. IsFiniteSet(Pcs(proto))
    BY <2>1, FS_Interval
  <2> QED BY <1>6, <2>2, FS_Subset
<1>8. Min(leaders) = 0
  <2>1. \A l \in leaders : 0 <= l
    BY <1>6
  <2> HIDE DEF leaders
  <2> QED BY <1>6, <2>1, MinIs
<1>9. \A b \in leaders : cfg.succ[b] \subseteq leaders
  BY <1>1, <1>3, SuccessorsAreLeaders
<1>10. /\ cfg.entry \in t.reach /\ t.reach \subseteq leaders
       /\ \A b \in t.reach : cfg.succ[b] \subseteq t.reach
  <2> HIDE DEF cfg, leaders
  <2>1. IsFiniteSet(cfg.nodes) /\ cfg.entry \in cfg.nodes
    BY <1>3, <1>6, <1>7, <1>8
  <2>2. \A b \in cfg.nodes : cfg.succ[b] \subseteq cfg.nodes
    BY <1>3, <1>9
  <2>3. /\ cfg.entry \in ReachableBlocks(cfg) /\ ReachableBlocks(cfg) \subseteq cfg.nodes
        /\ \A b \in ReachableBlocks(cfg) : cfg.succ[b] \subseteq ReachableBlocks(cfg)
    BY <2>1, <2>2, ReachIsClosed
  <2>4. t.reach = ReachableBlocks(cfg) /\ cfg.nodes = leaders
    BY <1>3, <1>4
  <2> QED BY <2>3, <2>4
<1>11. IsFiniteSet(t.reach)
  BY <1>7, <1>10, FS_Subset
<1>12. /\ DOMAIN t.block = exec
       /\ \A pc \in exec : t.block[pc] = BlockOf(leaders, pc)
  BY <1>4
<1>13. \A b \in leaders : t.cfg.succ[b] = Successors(proto, exec, leaders, b)
  BY <1>3, <1>4
<1> HIDE DEF cfg, exec, leaders
<1>14. /\ t.cfg.entry = 0 /\ 0 \in t.reach
       /\ \A b \in t.reach : t.cfg.succ[b] \subseteq t.reach
  BY <1>3, <1>4, <1>8, <1>10
<1> QED BY <1>1, <1>4, <1>5, <1>10, <1>11, <1>12, <1>13, <1>14 DEF exec, leaders

-----------------------------------------------------------------------------
(* The states along a block *)

(* The word at pc is an instruction of the block b. *)
Within(t, b, pc) == pc \in DOMAIN t.block /\ t.block[pc] = b

LEMMA ReplayIs ==
    ASSUME NEW t, NumWords(t.proto) \in Nat, NEW b \in Nat, b <= NumWords(t.proto), NEW state
    PROVE  /\ Replay(t, b, state)[b] = state
           /\ \A pc \in b..(NumWords(t.proto) - 1) :
                 Replay(t, b, state)[pc + 1] =
                    IF Within(t, b, pc)
                    THEN Transfer(t.proto, t.captures, pc, Replay(t, b, state)[pc])
                    ELSE Replay(t, b, state)[pc]
<1> DEFINE N == NumWords(t.proto)
           Step(pc, s) == IF Within(t, b, pc) THEN Transfer(t.proto, t.captures, pc, s) ELSE s
           IsReplay(f, n) == f = [pc \in b..n |-> IF pc = b THEN state ELSE Step(pc - 1, f[pc - 1])]
           replay == CHOOSE f : IsReplay(f, N)
           S == {i \in Nat : \E f : IsReplay(f, b + i)}
<1>1. Replay(t, b, state) = replay
  BY DEF Replay, Within
<1>2. 0 \in S
  <2>1. IsReplay([pc \in b..(b + 0) |-> state], b + 0)
    <3>1. \A pc \in b..(b + 0) : pc = b
      OBVIOUS
    <3> HIDE DEF Step
    <3> QED BY <3>1
  <2> HIDE DEF IsReplay
  <2> QED BY <2>1
<1>3. ASSUME NEW i \in Nat, i \in S PROVE i + 1 \in S
  <2>1. PICK f : IsReplay(f, b + i)
    BY <1>3
  <2> DEFINE n == b + i
             next == [pc \in b..(n + 1) |-> IF pc = b THEN state ELSE Step(pc - 1, f[pc - 1])]
  <2>2. \A pc \in b..n : f[pc] = IF pc = b THEN state ELSE Step(pc - 1, f[pc - 1])
    <3> HIDE DEF Step
    <3> QED BY <2>1
  <2>3. \A pc \in b..n : next[pc] = f[pc]
    <3>1. \A pc \in b..n : pc \in b..(n + 1)
      OBVIOUS
    <3> HIDE DEF Step
    <3> QED BY <2>2, <3>1
  <2>4. ASSUME NEW pc \in b..(n + 1)
        PROVE  next[pc] = IF pc = b THEN state ELSE Step(pc - 1, next[pc - 1])
    <3>1. pc # b => pc - 1 \in b..n
      OBVIOUS
    <3>2. next[pc] = IF pc = b THEN state ELSE Step(pc - 1, f[pc - 1])
      <4> HIDE DEF Step
      <4> QED OBVIOUS
    <3> HIDE DEF Step, next
    <3> QED BY <2>3, <3>1, <3>2
  <2>5. IsReplay(next, n + 1)
    <3>1. next = [pc \in b..(n + 1) |-> next[pc]]
      OBVIOUS
    <3> HIDE DEF Step, next, n
    <3> QED BY <2>4, <3>1
  <2>6. n + 1 = b + (i + 1)
    OBVIOUS
  <2>7. IsReplay(next, b + (i + 1))
    <3> HIDE DEF IsReplay, next, n
    <3> QED BY <2>5, <2>6
  <2> HIDE DEF IsReplay, next
  <2> QED BY <2>7
<1>4. Nat \subseteq S
  <2> HIDE DEF S
  <2> QED BY <1>2, <1>3, Induction
<1>5. IsReplay(replay, N)
  <2>1. N - b \in Nat /\ b + (N - b) = N
    OBVIOUS
  <2>2. PICK f : IsReplay(f, b + (N - b))
    BY <1>4, <2>1
  <2>3. IsReplay(f, N)
    <3> HIDE DEF IsReplay, N
    <3> QED BY <2>1, <2>2
  <2> HIDE DEF IsReplay
  <2> QED BY <2>3
<1> HIDE DEF replay
<1>6. \A pc \in b..N : replay[pc] = IF pc = b THEN state ELSE Step(pc - 1, replay[pc - 1])
  <2> HIDE DEF Step, N
  <2> QED BY <1>5
<1>7. replay[b] = state
  <2>1. b \in b..N
    OBVIOUS
  <2> HIDE DEF Step
  <2> QED BY <1>6, <2>1
<1>8. ASSUME NEW pc \in b..(N - 1) PROVE replay[pc + 1] = Step(pc, replay[pc])
  <2>1. pc + 1 \in b..N /\ pc + 1 # b /\ pc + 1 - 1 = pc
    OBVIOUS
  <2> HIDE DEF Step, N
  <2> QED BY <1>6, <2>1
<1> QED BY <1>1, <1>7, <1>8

(* The words after an instruction that are not instructions of its block
   change nothing. *)
LEMMA ReplayTransfers ==
    ASSUME NEW t, NumWords(t.proto) \in Nat, NEW b \in Nat, NEW state,
           NEW pc \in Nat, b <= pc, Within(t, b, pc),
           NEW to \in Nat, pc < to, to <= NumWords(t.proto),
           \A i \in Nat : pc < i /\ i < to => ~Within(t, b, i)
    PROVE  Replay(t, b, state)[to] = Transfer(t.proto, t.captures, pc, Replay(t, b, state)[pc])
<1> DEFINE N == NumWords(t.proto)
           replay == Replay(t, b, state)
           found == Transfer(t.proto, t.captures, pc, replay[pc])
           S == {i \in Nat : pc + 1 + i <= to => replay[pc + 1 + i] = found}
<1>1. b <= N
  OBVIOUS
<1>2. \A i \in b..(N - 1) :
         replay[i + 1] = IF Within(t, b, i) THEN Transfer(t.proto, t.captures, i, replay[i])
                         ELSE replay[i]
  BY <1>1, ReplayIs
<1> HIDE DEF replay
<1>3. replay[pc + 1] = found
  <2>1. pc \in b..(N - 1)
    OBVIOUS
  <2> QED BY <1>2, <2>1
<1> HIDE DEF found
<1>4. 0 \in S
  <2>1. pc + 1 + 0 = pc + 1
    OBVIOUS
  <2> QED BY <1>3, <2>1
<1>5. ASSUME NEW i \in Nat, i \in S PROVE i + 1 \in S
  <2> SUFFICES ASSUME pc + 1 + (i + 1) <= to PROVE replay[pc + 1 + (i + 1)] = found
    OBVIOUS
  <2> DEFINE j == pc + 1 + i
  <2>1. j \in b..(N - 1) /\ j \in Nat /\ pc < j /\ j < to /\ pc + 1 + (i + 1) = j + 1
    OBVIOUS
  <2>2. ~Within(t, b, j)
    <3> HIDE DEF j
    <3> QED BY <2>1
  <2>3. replay[j] = found
    BY <1>5
  <2> HIDE DEF j, N
  <2> QED BY <1>2, <2>1, <2>2, <2>3
<1>6. Nat \subseteq S
  <2> HIDE DEF S
  <2> QED BY <1>4, <1>5, Induction
<1>7. to - (pc + 1) \in Nat /\ pc + 1 + (to - (pc + 1)) = to
  OBVIOUS
<1>8. replay[pc + 1 + (to - (pc + 1))] = found
  BY <1>6, <1>7
<1>9. replay[to] = found
  BY <1>7, <1>8
<1> QED BY <1>9 DEF found, replay

LEMMA StateInBlock ==
    ASSUME NEW input \in Inputs, NEW t, t = Task(input), NEW ins,
           NEW pc \in DOMAIN t.block, ~EndsBlock(t.proto, pc)
    PROVE  LET to == After(t.proto, pc)
           IN  /\ to \in DOMAIN t.block /\ t.block[to] = t.block[pc]
               /\ StateBefore(t, ins, to) =
                     Transfer(t.proto, t.captures, pc, StateBefore(t, ins, pc))
<1> DEFINE exec == Executable(t.proto)
           leaders == Leaders(t.proto, exec)
           to == After(t.proto, pc)
           b == t.block[pc]
<1>1. /\ IsPrototype(t.proto) /\ DOMAIN t.block = exec
      /\ \A i \in exec : t.block[i] = BlockOf(leaders, i)
  BY TaskIs
<1>2. pc \in exec /\ DOMAIN t.block = exec
  BY <1>1
<1>3. to \in exec /\ BlockOf(leaders, to) = BlockOf(leaders, pc)
  BY <1>1, <1>2, SameBlock
<1>4. b = BlockOf(leaders, pc) /\ t.block[to] = b
  BY <1>1, <1>2, <1>3
<1>5. exec \subseteq Pcs(t.proto) /\ leaders \subseteq Nat
  BY <1>1, LeadersAreExecutable
<1>6. b \in leaders /\ b <= pc
  BY <1>1, <1>2, <1>4, <1>5, BlockOfIs
<1>7. /\ pc \in Nat /\ Claimed(t.proto, pc) \in Nat
      /\ \A i \in exec : i > pc => i >= to
  BY <1>1, <1>2, NextInstruction
<1>8. /\ NumWords(t.proto) \in Nat /\ Pcs(t.proto) = 0..(NumWords(t.proto) - 1)
  BY <1>1 DEF IsPrototype
<1> HIDE DEF exec, leaders
<1>9. to \in Nat /\ pc < to
  BY <1>7 DEF After
<1>10. to <= NumWords(t.proto) /\ b \in Nat
  <2>1. to \in Pcs(t.proto) /\ b \in Nat
    BY <1>3, <1>5, <1>6
  <2> HIDE DEF to, b
  <2> QED BY <1>8, <2>1
<1>11. ASSUME NEW i \in Nat, pc < i, i < to PROVE ~Within(t, b, i)
  <2>1. i \notin exec
    <3> HIDE DEF to
    <3> QED BY <1>7, <1>9, <1>11
  <2> QED BY <1>2, <2>1 DEF Within
<1>12. Within(t, b, pc)
  BY DEF Within
<1>13. Replay(t, b, ins[b])[to] = Transfer(t.proto, t.captures, pc, Replay(t, b, ins[b])[pc])
  <2> HIDE DEF to, b
  <2> QED BY <1>6, <1>7, <1>8, <1>9, <1>10, <1>11, <1>12, ReplayTransfers
<1> QED BY <1>2, <1>3, <1>4, <1>13 DEF StateBefore

LEMMA StateAtEnd ==
    ASSUME NEW input \in Inputs, NEW t, t = Task(input), NEW ins,
           NEW pc \in DOMAIN t.block, EndsBlock(t.proto, pc)
    PROVE  BlockFlow(t, t.block[pc], ins[t.block[pc]]) =
              Transfer(t.proto, t.captures, pc, StateBefore(t, ins, pc))
<1> DEFINE exec == Executable(t.proto)
           leaders == Leaders(t.proto, exec)
           b == t.block[pc]
           N == NumWords(t.proto)
<1>1. /\ IsPrototype(t.proto) /\ DOMAIN t.block = exec
      /\ \A i \in exec : t.block[i] = BlockOf(leaders, i)
  BY TaskIs
<1>2. pc \in exec /\ DOMAIN t.block = exec
  BY <1>1
<1>3. b = BlockOf(leaders, pc)
  BY <1>1, <1>2
<1>4. exec \subseteq Pcs(t.proto) /\ leaders \subseteq Nat
  BY <1>1, LeadersAreExecutable
<1>5. b \in leaders /\ b <= pc
  BY <1>1, <1>2, <1>3, <1>4, BlockOfIs
<1>6. \A i \in exec : i > pc => BlockOf(leaders, i) # b
  <2>1. \A i \in exec : i > pc => BlockOf(leaders, i) # BlockOf(leaders, pc)
    BY <1>1, <1>2, LastOfBlock
  <2> QED BY <1>3, <2>1
<1>7. N \in Nat /\ Pcs(t.proto) = 0..(N - 1)
  BY <1>1 DEF IsPrototype
<1>8. Within(t, b, pc)
  BY DEF Within
<1> HIDE DEF exec, leaders, b, N
<1>9. pc \in Nat /\ pc < N /\ b \in Nat /\ N <= N
  <2>1. pc \in Pcs(t.proto) /\ b \in Nat
    BY <1>2, <1>4, <1>5
  <2> QED BY <1>7, <2>1
<1>10. ASSUME NEW i \in Nat, pc < i, i < N PROVE ~Within(t, b, i)
  <2> SUFFICES ASSUME i \in exec PROVE t.block[i] # b
    BY <1>2 DEF Within
  <2>1. i > pc
    BY <1>9, <1>10
  <2> QED BY <1>1, <1>6, <2>1
<1>11. Replay(t, b, ins[b])[N] = Transfer(t.proto, t.captures, pc, Replay(t, b, ins[b])[pc])
  BY <1>5, <1>7, <1>8, <1>9, <1>10, ReplayTransfers DEF N
<1> QED BY <1>11 DEF StateBefore, BlockFlow, N, b

LEMMA StateAtLeader ==
    ASSUME NEW input \in Inputs, NEW t, t = Task(input), NEW ins,
           NEW pc \in Leaders(t.proto, Executable(t.proto))
    PROVE  /\ pc \in DOMAIN t.block /\ t.block[pc] = pc
           /\ StateBefore(t, ins, pc) = ins[pc]
<1> DEFINE exec == Executable(t.proto)
           leaders == Leaders(t.proto, exec)
<1>1. /\ IsPrototype(t.proto) /\ DOMAIN t.block = exec
      /\ \A i \in exec : t.block[i] = BlockOf(leaders, i)
  BY TaskIs
<1>2. pc \in exec /\ pc \in Pcs(t.proto) /\ pc \in Nat
  BY <1>1, LeadersAreExecutable
<1>3. BlockOf(leaders, pc) = pc
  BY <1>1, <1>2, BlockOfIs
<1>4. pc \in DOMAIN t.block /\ t.block[pc] = pc
  BY <1>1, <1>2, <1>3
<1>5. NumWords(t.proto) \in Nat /\ pc <= NumWords(t.proto)
  <2>1. NumWords(t.proto) \in Nat /\ Pcs(t.proto) = 0..(NumWords(t.proto) - 1)
    BY <1>1 DEF IsPrototype
  <2> QED BY <1>2, <2>1
<1> HIDE DEF exec, leaders
<1>6. Replay(t, pc, ins[pc])[pc] = ins[pc]
  <2>1. pc \in Nat /\ NumWords(t.proto) \in Nat /\ pc <= NumWords(t.proto)
    BY <1>2, <1>5
  <2> QED BY <2>1, ReplayIs
<1> QED BY <1>4, <1>6 DEF StateBefore

(* Whatever a predecessor leaves is borne out at the join. *)
LEMMA IncomingUpholds ==
    ASSUME NEW t, IsFiniteSet(t.reach), NEW outs, NEW b, NEW p \in Preds(t, b),
           NEW stores, NEW claims, DOMAIN claims = Registers(t.proto),
           Upholds(stores, outs[p], claims)
    PROVE  Upholds(stores, Incoming(t, outs, b), claims)
<1>1. CASE b = t.cfg.entry
  BY <1>1, UnknownBears DEF Incoming, EntryState, Upholds, FlowReasons
<1>2. CASE b # t.cfg.entry
  <2> DEFINE states == [q \in Preds(t, b) |-> outs[q]]
             column(r) == [q \in DOMAIN states |-> states[q][r]]
  <2>1. Incoming(t, outs, b) =
           [r \in Registers(t.proto) |-> FoldFunction(MeetValue, Bottom, column(r))]
    BY <1>2 DEF Incoming, MeetStates
  <2>2. ASSUME NEW r \in Registers(t.proto)
        PROVE  Bears(stores, FoldFunction(MeetValue, Bottom, column(r)), claims[r])
    <3>1. IsFiniteSet(Preds(t, b))
      BY FS_Subset DEF Preds
    <3>2. DOMAIN column(r) = Preds(t, b) /\ column(r)[p] = outs[p][r]
      OBVIOUS
    <3>3. Bears(stores, outs[p][r], claims[r])
      BY DEF Upholds
    <3> HIDE DEF column
    <3> QED BY <3>1, <3>2, <3>3, FoldBears
  <2> HIDE DEF column
  <2>3. /\ DOMAIN Incoming(t, outs, b) = DOMAIN claims
        /\ \A r \in DOMAIN claims : Bears(stores, Incoming(t, outs, b)[r], claims[r])
    BY <2>1, <2>2
  <2> QED BY <2>3 DEF Upholds
<1> QED BY <1>1, <1>2

-----------------------------------------------------------------------------
(* The inductive invariant *)

(* The stores of the chunk as an analysis that ended within its budget sees
   them *)
StoresOf(t, ins) == ChunkStores(t, ins, FALSE)

(* The machine is at an instruction of a block the analysis reached. *)
PlaceInv ==
    vmpc \in Pcs(task.proto) => vmpc \in DOMAIN task.block /\ task.block[vmpc] \in task.reach

(* The machine starts when the analysis is done. *)
StartInv ==
    phase # "done" => /\ vmpc = 0
                      /\ regs = [r \in Registers(task.proto) |-> {}]
                      /\ globals = [g \in Strings |-> {ForeignClaim}]

(* What the analysis says where the machine is, the machine bears out. *)
UpheldInv ==
    (phase = "done" /\ ~exhausted) =>
        /\ GlobalsUphold(StoresOf(task, in), globals)
        /\ vmpc \in Pcs(task.proto) =>
              /\ Upholds(StoresOf(task, in), StateBefore(task, in, vmpc), regs)
              /\ \A r \in Registers(task.proto) : in[task.block[vmpc]][r] # Bottom

RunInv ==
    /\ \E input \in Inputs : task = Task(input)
    /\ DOMAIN regs = Registers(task.proto)
    /\ DOMAIN globals = Strings
    /\ StartInv
    /\ PlaceInv
    /\ UpheldInv

-----------------------------------------------------------------------------
(* Stores *)

(* Every store the machine executes, here or in a child it calls, is one the
   analysis of the chunk accounts for. *)
LEMMA StoresUphold ==
    ASSUME RunInv, phase = "done", ~exhausted, vmpc \in Pcs(task.proto),
           NEW after \in StoredAfter(task, vmpc)
    PROVE  GlobalsUphold(StoresOf(task, in), after)
<1> DEFINE stores == StoresOf(task, in)
           w == task.proto.words[vmpc]
           id == Id(task.proto, vmpc)
           exec == Executable(task.proto)
<1>1. PICK input \in Inputs : task = Task(input)
  BY DEF RunInv
<1>2. /\ IsPrototype(task.proto) /\ task.proto.dialect = "5.1" /\ DOMAIN task.block = exec
      /\ \A pc \in exec : WordErrors(task.proto, exec, pc) = {}
  BY <1>1, TaskIs
<1>3. /\ vmpc \in exec /\ task.block[vmpc] \in task.reach
      /\ DOMAIN regs = Registers(task.proto) /\ DOMAIN globals = Strings
      /\ Upholds(stores, StateBefore(task, in, vmpc), regs)
      /\ GlobalsUphold(stores, globals)
  BY <1>2 DEF RunInv, PlaceInv, UpheldInv
<1>4. CASE w.op = "SETGLOBAL" /\ w.k \in Strings
  <2> DEFINE v == GetRegister(StateBefore(task, in, vmpc), w.a)
             s == StoreFact(w.k, id, StoredValue(v, id))
  <2>1. w.a \in DOMAIN regs
    <3>1. w.a \in Nat /\ w.a < task.proto.maxstack
      BY <1>2, <1>3, <1>4, ValidOperands DEF ARegisterOps
    <3>2. task.proto.maxstack \in Nat
      BY <1>2 DEF IsPrototype
    <3> QED BY <1>3, <3>1, <3>2 DEF Registers
  <2>2. Bears(stores, v, regs[w.a])
    BY <1>3, <2>1 DEF GetRegister, Upholds
  <2>3. s \in stores
    <3>1. Executable(task.proto) = exec
      BY <1>2 DEF Executable
    <3> QED BY <1>3, <1>4, <3>1 DEF StoresOf, ChunkStores, OwnStores
  <2>4. s.name = w.k /\ s.value = StoredValue(v, id)
    BY DEF StoreFact
  <2> HIDE DEF stores, v, s
  <2>5. ASSUME s.value.tag = "closure"
        PROVE  \E c \in Through(id, regs[w.a]) :
                  c.kind = Closure(s.value.prototype) /\ c.trace \subseteq s.value.evidence
    <3>1. /\ IsKnown(v) /\ v.kind.shape = "Closure"
          /\ s.value = ClosureStored(v.kind.prototype, v.evidence \cup {id})
      <4>1. v.tag = "unknown" \/ IsKnown(v)
        BY <2>2 DEF Bears, IsValue
      <4>2. v.tag = "unknown" => StoredValue(v, id) = UnknownStored(v.reason)
        BY DEF StoredValue, IsKnown
      <4>3. IsKnown(v) => StoredValue(v, id) =
                            IF v.kind.shape = "Closure"
                            THEN ClosureStored(v.kind.prototype, v.evidence \cup {id})
                            ELSE NonClosureStored(v.evidence \cup {id})
        BY DEF StoredValue, IsKnown
      <4>4. UnknownStored(v.reason).tag # "closure"
        BY DEF UnknownStored
      <4>5. NonClosureStored(v.evidence \cup {id}).tag # "closure"
        BY DEF NonClosureStored
      <4> QED BY <2>4, <2>5, <4>1, <4>2, <4>3, <4>4, <4>5
    <3>2. v.kind = Closure(v.kind.prototype)
      BY <2>2, <3>1 DEF Bears, IsValue, IsKnown, IsKind
    <3>3. PICK c \in regs[w.a] : c.kind = v.kind /\ c.trace \subseteq v.evidence
      BY <2>2, <3>1 DEF Bears
    <3>4. /\ s.value.prototype = v.kind.prototype
          /\ s.value.evidence = v.evidence \cup {id}
      BY <3>1 DEF ClosureStored
    <3>5. Claim(c.kind, c.trace \cup {id}) \in Through(id, regs[w.a])
      BY DEF Through
    <3>6. /\ Claim(c.kind, c.trace \cup {id}).kind = c.kind
          /\ Claim(c.kind, c.trace \cup {id}).trace = c.trace \cup {id}
      BY DEF Claim
    <3> QED BY <3>2, <3>3, <3>4, <3>5, <3>6
  <2>6. FromGlobal(stores, w.k, {}, Through(id, regs[w.a]))
    BY <2>3, <2>4, <2>5 DEF FromGlobal
  <2>7. after = [globals EXCEPT ![w.k] = Through(id, regs[w.a])]
    BY <1>4 DEF StoredAfter
  <2>8. ASSUME NEW g \in Strings PROVE FromGlobal(stores, g, {}, after[g])
    BY <1>3, <1>4, <2>6, <2>7 DEF GlobalsUphold
  <2> QED BY <2>8 DEF GlobalsUphold, stores
<1>5. CASE w.op = "SETGLOBAL" /\ w.k \notin Strings
  <2>1. after = [globals EXCEPT ![w.k] = Through(id, regs[w.a])]
    BY <1>5 DEF StoredAfter
  <2>2. \A g \in Strings : after[g] = globals[g]
    BY <1>3, <1>5, <2>1
  <2> HIDE DEF stores
  <2> QED BY <1>3, <2>2 DEF GlobalsUphold, stores
<1>6. CASE w.op \in {"CALL", "TAILCALL", "TFORLOOP"}
  <2>1. \A g \in Strings : after[g] \in AfterCall(task, g)
    BY <1>6 DEF StoredAfter
  <2>2. ChildStores(task) \subseteq stores
    BY DEF StoresOf, ChunkStores
  <2> HIDE DEF stores
  <2>3. ASSUME NEW g \in Strings PROVE FromGlobal(stores, g, {}, after[g])
    <3>1. CASE after[g] = globals[g]
      BY <1>3, <3>1 DEF GlobalsUphold
    <3>2. CASE after[g] # globals[g]
      <4>1. PICK s \in ChildStores(task) :
               /\ s.name = g
               /\ after[g] = IF s.value.tag = "closure"
                             THEN {Claim(Closure(s.value.prototype), s.value.evidence)} ELSE {}
        BY <2>1, <3>2 DEF AfterCall
      <4> DEFINE c == Claim(Closure(s.value.prototype), s.value.evidence)
      <4>2. c.kind = Closure(s.value.prototype) /\ c.trace = s.value.evidence
        BY DEF Claim
      <4>3. s.value.tag = "closure" => c \in after[g]
        BY <4>1
      <4> HIDE DEF c
      <4>4. s.value.tag = "closure" =>
               \E d \in after[g] : /\ d.kind = Closure(s.value.prototype)
                                   /\ d.trace \subseteq s.value.evidence \cup {}
        BY <4>2, <4>3
      <4>5. s \in stores /\ s.name = g
        BY <2>2, <4>1
      <4> QED BY <4>4, <4>5 DEF FromGlobal
    <3> QED BY <3>1, <3>2
  <2> QED BY <2>3 DEF GlobalsUphold, stores
<1>7. CASE w.op \notin {"SETGLOBAL", "CALL", "TAILCALL", "TFORLOOP"}
  <2>1. after = globals
    BY <1>7 DEF StoredAfter
  <2> QED BY <1>3, <2>1
<1> QED BY <1>4, <1>5, <1>6, <1>7

-----------------------------------------------------------------------------
(* The invariant is kept *)

LEMMA StartIsReached ==
    ASSUME NEW input \in Inputs, NEW t, t = Task(input)
    PROVE  /\ 0 \in Pcs(t.proto) /\ 0 \in DOMAIN t.block /\ t.block[0] = 0 /\ 0 \in t.reach
           /\ t.cfg.entry = 0 /\ \A ins : StateBefore(t, ins, 0) = ins[0]
<1>1. IsPrototype(t.proto) /\ 0 \in t.reach /\ t.cfg.entry = 0
  BY TaskIs
<1>2. 0 \in Leaders(t.proto, Executable(t.proto)) /\ 0 \in Pcs(t.proto)
  BY <1>1, LeadersAreExecutable
<1> QED BY <1>1, <1>2, StateAtLeader

LEMMA RunInitInv == RunInit => RunInv
<1> SUFFICES ASSUME RunInit PROVE RunInv
  OBVIOUS
<1>1. PICK input \in Inputs : task = Task(input)
  BY DEF RunInit, Init
<1>2. vmpc = 0 /\ phase = "iterate"
  BY DEF RunInit, Init
<1>3. DOMAIN regs = Registers(task.proto) /\ DOMAIN globals = Strings
  BY DEF RunInit
<1>4. PlaceInv
  BY <1>1, <1>2, StartIsReached DEF PlaceInv
<1> QED BY <1>1, <1>2, <1>3, <1>4 DEF RunInit, RunInv, StartInv, UpheldInv

LEMMA AnalyseKeepsInv == RunInv /\ IInv' /\ Analyse => RunInv'
<1> SUFFICES ASSUME RunInv, IInv', Analyse PROVE RunInv'
  OBVIOUS
<1>1. PICK input \in Inputs : task = Task(input)
  BY DEF RunInv
<1>2. task' = task /\ vmpc' = vmpc /\ regs' = regs /\ globals' = globals
  BY DEF Analyse, Next, ProcessBlock, Exhaust, Finish, vmVars
<1>3. /\ phase = "iterate" /\ vmpc = 0
      /\ regs = [r \in Registers(task.proto) |-> {}]
      /\ globals = [g \in Strings |-> {ForeignClaim}]
  BY DEF Analyse, Next, ProcessBlock, Exhaust, Finish, RunInv, StartInv
<1>4. /\ \E i \in Inputs : task' = Task(i)
      /\ DOMAIN regs' = Registers(task'.proto) /\ DOMAIN globals' = Strings
      /\ PlaceInv'
  BY <1>1, <1>2 DEF RunInv, PlaceInv
<1>5. StartInv'
  BY <1>2, <1>3 DEF StartInv
<1>6. ASSUME (phase = "done" /\ ~exhausted)' PROVE UpheldInv'
  <2>1. EndsAtFixpoint'
    BY EndsSettled, PTL
  <2>2. 0 \in task.reach /\ task.cfg.entry = 0 /\ task.block[0] = 0
    BY <1>1, StartIsReached
  <2>3. in'[0] = EntryState(task)
    BY <1>2, <1>6, <2>1, <2>2 DEF EndsAtFixpoint, Incoming
  <2>4. StateBefore(task, in', 0) = EntryState(task)
    BY <1>1, <2>3, StartIsReached
  <2>5. Upholds(StoresOf(task, in'), EntryState(task), regs)
    BY <1>3, UnknownBears DEF Upholds, EntryState, FlowReasons
  <2>6. \A r \in Registers(task.proto) : EntryState(task)[r] # Bottom
    BY DEF EntryState, Unknown, Bottom
  <2>7. GlobalsUphold(StoresOf(task, in'), globals)
    BY <1>3 DEF GlobalsUphold, FromGlobal, ForeignClaim, Claim
  <2> QED BY <1>2, <1>3, <2>2, <2>3, <2>4, <2>5, <2>6, <2>7 DEF UpheldInv
<1>7. UpheldInv'
  BY <1>6 DEF UpheldInv
<1> QED BY <1>4, <1>5, <1>7 DEF RunInv

LEMMA ExecutedDomain ==
    ASSUME NEW t, NEW pc
    PROVE  DOMAIN Executed(t, pc) = DOMAIN regs
BY DEF Executed

LEMMA StoredDomain ==
    ASSUME NEW t, NEW pc, NEW after \in StoredAfter(t, pc), DOMAIN globals = Strings
    PROVE  DOMAIN after = Strings
BY DEF StoredAfter

(* Where the machine goes, the analysis went too. *)
LEMMA PlaceKept ==
    ASSUME NEW input \in Inputs, NEW t, t = Task(input),
           NEW pc \in DOMAIN t.block, t.block[pc] \in t.reach,
           NEW to \in NextPcs(t.proto, pc), to \in Pcs(t.proto)
    PROVE  /\ to \in DOMAIN t.block /\ t.block[to] \in t.reach
           /\ ~EndsBlock(t.proto, pc) => to = After(t.proto, pc)
           /\ EndsBlock(t.proto, pc) =>
                 /\ to \in Leaders(t.proto, Executable(t.proto)) /\ t.block[to] = to
                 /\ t.block[pc] \in Preds(t, to)
<1> DEFINE exec == Executable(t.proto)
           leaders == Leaders(t.proto, exec)
           b == t.block[pc]
<1>1. /\ IsPrototype(t.proto) /\ t.proto.dialect = "5.1" /\ DOMAIN t.block = exec
      /\ \A i \in exec : WordErrors(t.proto, exec, i) = {}
      /\ \A i \in exec : t.block[i] = BlockOf(leaders, i)
  BY TaskIs
<1>2. /\ t.reach \subseteq leaders
      /\ \A l \in leaders : t.cfg.succ[l] = Successors(t.proto, exec, leaders, l)
      /\ \A l \in t.reach : t.cfg.succ[l] \subseteq t.reach
  BY TaskIs
<1>3. \/ ~EndsBlock(t.proto, pc) /\ to = After(t.proto, pc)
      \/ /\ EndsBlock(t.proto, pc) /\ to \in leaders
         /\ to \in Successors(t.proto, exec, leaders, b)
  <2>1. b = BlockOf(leaders, pc)
    BY <1>1
  <2>2. \/ ~EndsBlock(t.proto, pc) /\ to = After(t.proto, pc)
        \/ /\ EndsBlock(t.proto, pc) /\ to \in leaders
           /\ to \in Successors(t.proto, exec, leaders, BlockOf(leaders, pc))
    BY <1>1, Control
  <2> QED BY <2>1, <2>2
<1>4. CASE ~EndsBlock(t.proto, pc)
  <2>1. to = After(t.proto, pc)
    BY <1>3, <1>4
  <2> QED BY <1>4, <2>1, StateInBlock
<1>5. CASE EndsBlock(t.proto, pc)
  <2>1. to \in leaders /\ to \in t.cfg.succ[b] /\ b \in t.reach /\ to \in t.reach
    <3> HIDE DEF exec, leaders, b
    <3>1. b \in t.reach
      BY DEF b
    <3> QED BY <1>2, <1>3, <1>5, <3>1
  <2>2. to \in DOMAIN t.block /\ t.block[to] = to
    BY <2>1, StateAtLeader
  <2>3. b \in Preds(t, to)
    BY <2>1 DEF Preds
  <2> QED BY <1>5, <2>1, <2>2, <2>3
<1> QED BY <1>4, <1>5

LEMMA ExecuteKeepsInv == RunInv /\ IInv /\ Execute => RunInv'
<1> SUFFICES ASSUME RunInv, IInv, Execute PROVE RunInv'
  OBVIOUS
<1> DEFINE stores == StoresOf(task, in)
           b == task.block[vmpc]
<1>1. PICK input \in Inputs : task = Task(input)
  BY DEF RunInv
<1>2. /\ phase = "done" /\ vmpc \in Pcs(task.proto) /\ vmpc' \in NextPcs(task.proto, vmpc)
      /\ regs' = Executed(task, vmpc) /\ globals' \in StoredAfter(task, vmpc)
      /\ task' = task /\ phase' = phase /\ in' = in /\ out' = out /\ exhausted' = exhausted
  BY DEF Execute, vars
<1>3. vmpc \in DOMAIN task.block /\ b \in task.reach
  BY <1>2 DEF RunInv, PlaceInv
<1>4. DOMAIN regs' = Registers(task'.proto) /\ DOMAIN globals' = Strings
  BY <1>2, ExecutedDomain, StoredDomain DEF RunInv
<1>5. PlaceInv' /\ StartInv'
  BY <1>1, <1>2, <1>3, PlaceKept DEF PlaceInv, StartInv
<1>6. ASSUME ~exhausted PROVE UpheldInv'
  <2>1. /\ Upholds(stores, StateBefore(task, in, vmpc), regs)
        /\ GlobalsUphold(stores, globals)
        /\ \A r \in Registers(task.proto) : in[b][r] # Bottom
    BY <1>2, <1>6 DEF RunInv, UpheldInv
  <2>2. GlobalsUphold(stores, globals')
    BY <1>2, <1>6, StoresUphold
  <2> DEFINE found == Transfer(task.proto, task.captures, vmpc, StateBefore(task, in, vmpc))
  <2>3. Upholds(stores, found, regs')
    <3>1. /\ IsPrototype(task.proto) /\ task.proto.maxstack < 255
          /\ DOMAIN task.block = Executable(task.proto)
          /\ \A u \in DOMAIN task.captures : IsCapture(task.captures[u])
          /\ \A i \in Executable(task.proto) :
                WordErrors(task.proto, Executable(task.proto), i) = {}
      BY <1>1, TaskIs
    <3>2. WordErrors(task.proto, Executable(task.proto), vmpc) = {}
      BY <1>3, <3>1
    <3>3. DOMAIN regs = Registers(task.proto)
      BY DEF RunInv
    <3>4. Upholds(stores, found, Executed(task, vmpc))
      <4> HIDE DEF stores
      <4> QED BY <1>2, <2>1, <3>1, <3>2, <3>3, TransferUpholds
    <3> QED BY <1>2, <3>4
  <2>4. ASSUME vmpc' \in Pcs(task.proto)
        PROVE  /\ Upholds(stores, StateBefore(task, in, vmpc'), regs')
               /\ \A r \in Registers(task.proto) : in[task.block[vmpc']][r] # Bottom
    <3>1. CASE ~EndsBlock(task.proto, vmpc)
      <4>1. vmpc' = After(task.proto, vmpc)
        BY <1>1, <1>2, <1>3, <2>4, <3>1, PlaceKept
      <4>2. task.block[vmpc'] = b /\ StateBefore(task, in, vmpc') = found
        BY <1>1, <1>3, <3>1, <4>1, StateInBlock
      <4> HIDE DEF found, stores, b
      <4> QED BY <2>1, <2>3, <4>2
    <3>2. CASE EndsBlock(task.proto, vmpc)
      <4>1. /\ vmpc' \in Leaders(task.proto, Executable(task.proto))
            /\ b \in Preds(task, vmpc') /\ task.block[vmpc'] = vmpc'
            /\ task.block[vmpc'] \in task.reach
        BY <1>1, <1>2, <1>3, <2>4, <3>2, PlaceKept
      <4>2. EndsAtFixpoint
        BY EndsSettled
      <4>3. out[b] = BlockFlow(task, b, in[b])
        BY <1>2, <1>3, <1>6, <4>2 DEF EndsAtFixpoint
      <4>4. BlockFlow(task, b, in[b]) = found
        BY <1>1, <1>3, <3>2, StateAtEnd
      <4>5. in[vmpc'] = Incoming(task, out, vmpc')
        BY <1>2, <1>6, <4>1, <4>2 DEF EndsAtFixpoint
      <4>6. StateBefore(task, in, vmpc') = in[vmpc']
        BY <1>1, <4>1, StateAtLeader
      <4>7. IsFiniteSet(task.reach) /\ DOMAIN regs' = Registers(task.proto)
        BY <1>1, <1>2, <1>4, TaskIs
      <4> HIDE DEF found, stores, b
      <4>8. Upholds(stores, out[b], regs')
        BY <2>3, <4>3, <4>4
      <4>9. Upholds(stores, in[vmpc'], regs')
        BY <4>1, <4>5, <4>7, <4>8, IncomingUpholds
      <4>10. \A r \in Registers(task.proto) : in[vmpc'][r] # Bottom
        BY <4>7, <4>9 DEF Upholds, Bears, IsValue, IsKnown, Bottom
      <4> QED BY <4>1, <4>6, <4>9, <4>10
    <3> QED BY <3>1, <3>2
  <2> HIDE DEF found
  <2> QED BY <1>2, <2>2, <2>4 DEF UpheldInv
<1>7. UpheldInv'
  BY <1>2, <1>6 DEF UpheldInv
<1> QED BY <1>1, <1>2, <1>4, <1>5, <1>7 DEF RunInv

(* The worklist does not see the machine: a run of both is a run of it. *)
LEMMA RunImplementsSpec == RunSpec => Spec
<1>1. RunInit => Init
  BY DEF RunInit
<1>2. [RunNext]_allVars => [Next]_vars
  BY DEF RunNext, Analyse, Execute, allVars, vars
<1> QED BY <1>1, <1>2, PTL DEF RunSpec, Spec

(* What the analysis says of every register is borne out wherever the machine
   is, in every run. *)
THEOREM RunInvariant == RunSpec => [](IInv /\ RunInv)
<1>1. IInv /\ IInv' /\ RunInv /\ [RunNext]_allVars => RunInv'
  <2> SUFFICES ASSUME IInv, IInv', RunInv, [RunNext]_allVars PROVE RunInv'
    OBVIOUS
  <2>1. CASE Analyse
    BY <2>1, AnalyseKeepsInv
  <2>2. CASE Execute
    BY <2>2, ExecuteKeepsInv
  <2>3. CASE UNCHANGED allVars
    BY <2>3 DEF allVars, vars, vmVars, RunInv, StartInv, PlaceInv, UpheldInv
  <2> QED BY <2>1, <2>2, <2>3 DEF RunNext
<1>2. RunSpec => []IInv
  BY RunImplementsSpec, InductiveInvariant, PTL
<1> QED BY <1>1, <1>2, RunInitInv, PTL DEF RunSpec

-----------------------------------------------------------------------------
(* The facts *)

(* The value in the callee register of a call the machine is about to make *)
Callee(pc) == GetRegister(StateBefore(task, in, pc), task.proto.words[pc].a)

LEMMA FactOfCall ==
    ASSUME IInv, RunInv, phase = "done", ~exhausted, vmpc \in DOMAIN facts
    PROVE  /\ facts[vmpc] = Resolution(Callee(vmpc))
           /\ Bears(StoresOf(task, in), Callee(vmpc), regs[task.proto.words[vmpc].a])
<1> DEFINE w == task.proto.words[vmpc]
<1>1. PICK input \in Inputs : task = Task(input)
  BY DEF RunInv
<1>2. /\ IsPrototype(task.proto) /\ task.proto.dialect = "5.1"
      /\ \A pc \in Executable(task.proto) :
            WordErrors(task.proto, Executable(task.proto), pc) = {}
  BY <1>1, TaskIs
<1>3. facts = FinalFacts(task, in)
  BY DEF IInv, FactsInv
<1>4. vmpc \in Executable(task.proto) /\ w.op \in {"CALL", "TAILCALL"}
  BY <1>2, <1>3 DEF FinalFacts, Calls, Executable
<1>5. vmpc \in Pcs(task.proto)
  BY <1>2, <1>4, ExecutableAreWords
<1>6. task.block[vmpc] \in task.reach
  BY <1>5 DEF RunInv, PlaceInv
<1>7. facts[vmpc] = Resolution(Callee(vmpc))
  <2>1. vmpc \in Calls(task)
    BY <1>3 DEF FinalFacts
  <2> QED BY <1>3, <1>6, <2>1 DEF FinalFacts, Callee
<1>8. Upholds(StoresOf(task, in), StateBefore(task, in, vmpc), regs)
  BY <1>5 DEF RunInv, UpheldInv
<1>9. w.a \in DOMAIN regs
  <2>1. w.a \in Nat /\ w.a < task.proto.maxstack
    BY <1>2, <1>4, <1>5, ValidOperands DEF ARegisterOps
  <2>2. task.proto.maxstack \in Nat
    BY <1>2 DEF IsPrototype
  <2> QED BY <2>1, <2>2 DEF RunInv, Registers
<1> QED BY <1>7, <1>8, <1>9 DEF Callee, GetRegister, Upholds

LEMMA SpentFact ==
    ASSUME IInv, phase = "done", exhausted, NEW pc \in DOMAIN facts
    PROVE  facts[pc] = Unresolved("AnalysisLimit")
BY DEF IInv, FactsInv, LimitFacts

(* What a fact can be, by the value it is of *)
LEMMA FactForms ==
    ASSUME NEW v, IsValue(v)
    PROVE  \/ v.tag = "unknown" /\ v.reason \in FlowReasons
                /\ Resolution(v) = Unresolved(v.reason)
           \/ Resolution(v) = Unresolved("UnsupportedValue")
           \/ IsKnown(v) /\ IsKind(v.kind) /\ Resolution(v) = Resolved(v)
                /\ v.kind.shape \in {"LookupLabel", "SymbolicPath", "Closure"}
<1>1. CASE v.tag = "unknown"
  BY <1>1 DEF IsValue, Resolution, IsKnown
<1>2. CASE IsKnown(v)
  <2>1. Resolution(v) = IF v.kind.shape \in {"NonClosure", "LiteralString"}
                        THEN Unresolved("UnsupportedValue") ELSE Resolved(v)
    BY <1>2 DEF Resolution, IsKnown
  <2>2. IsKind(v.kind)
    BY <1>2 DEF IsValue, IsKnown
  <2> QED BY <1>2, <2>1, <2>2 DEF IsKind
<1> QED BY <1>1, <1>2 DEF IsValue

(* No fact claims more than an execution bears out (fact_from_state in
   callees.rs, over the fixed point of run_dataflow): the callee of a
   resolved call came about as the fact says, on every path. *)
THEOREM FactsAreTrue == RunSpec => []ResolvedCallsAreTrue
<1>1. IInv /\ RunInv => ResolvedCallsAreTrue
  <2> SUFFICES ASSUME IInv, RunInv, phase = "done", vmpc \in DOMAIN facts,
                      facts[vmpc].status = "resolved"
               PROVE  \E c \in regs[task.proto.words[vmpc].a] :
                         c.kind = facts[vmpc].kind /\ c.trace \subseteq facts[vmpc].evidence
    BY DEF ResolvedCallsAreTrue
  <2>1. ~exhausted
    BY SpentFact DEF Unresolved
  <2> DEFINE v == Callee(vmpc)
  <2>2. /\ facts[vmpc] = Resolution(v)
        /\ Bears(StoresOf(task, in), v, regs[task.proto.words[vmpc].a])
    BY <2>1, FactOfCall
  <2> HIDE DEF v
  <2>3. IsKnown(v) /\ facts[vmpc] = Resolved(v)
    BY <2>2, FactForms DEF Bears, Unresolved
  <2> QED BY <2>2, <2>3 DEF Bears, Resolved
<1> QED BY <1>1, RunInvariant, PTL

(* A call the machine reaches is in a block the worklist visited: it is not
   reported unreachable, nor decided by the Bottom its block began with
   (collect_final_calls in callees.rs). *)
THEOREM ReachedCallsTheorem == RunSpec => []ReachedCallsAreAnalysed
<1>1. IInv /\ RunInv => ReachedCallsAreAnalysed
  <2> SUFFICES ASSUME IInv, RunInv, phase = "done", vmpc \in DOMAIN facts
               PROVE  /\ facts[vmpc] # Unresolved("Unreachable")
                      /\ ~exhausted => \A r \in Registers(task.proto) :
                                          in[task.block[vmpc]][r] # Bottom
    BY DEF ReachedCallsAreAnalysed
  <2>1. CASE exhausted
    BY <2>1, SpentFact DEF Unresolved
  <2>2. CASE ~exhausted
    <3> DEFINE v == Callee(vmpc)
    <3>1. /\ facts[vmpc] = Resolution(v)
          /\ Bears(StoresOf(task, in), v, regs[task.proto.words[vmpc].a])
      BY <2>2, FactOfCall
    <3> HIDE DEF v
    <3>2. facts[vmpc] # Unresolved("Unreachable")
      BY <3>1, FactForms DEF Bears, Unresolved, Resolved, FlowReasons
    <3>3. vmpc \in Pcs(task.proto)
      <4>1. PICK input \in Inputs : task = Task(input)
        BY DEF RunInv
      <4>2. IsPrototype(task.proto) /\ task.proto.dialect = "5.1"
        BY <4>1, TaskIs
      <4>3. vmpc \in Executable(task.proto)
        BY <2>2, <4>2 DEF IInv, FactsInv, FinalFacts, Calls, Executable
      <4> QED BY <4>2, <4>3, ExecutableAreWords
    <3> QED BY <2>2, <3>2, <3>3 DEF RunInv, UpheldInv
  <2> QED BY <2>1, <2>2
<1> QED BY <1>1, RunInvariant, PTL

(* A relation of the call graph is true of every execution (resolve_relation
   and resolve_global in callgraph.rs). *)
THEOREM RelationsTheorem == RunSpec => []RelationsAreTrue
<1>1. IInv /\ RunInv => RelationsAreTrue
  <2> DEFINE r == Relations(task, in, exhausted, facts)[vmpc]
             held == regs[task.proto.words[vmpc].a]
  <2> SUFFICES ASSUME IInv, RunInv, phase = "done", vmpc \in DOMAIN facts
               PROVE  /\ r.status = "resolved" =>
                            \E c \in held :
                              \/ c.kind = Closure(r.callee) /\ c.trace \subseteq r.evidence
                              \/ c.kind = Foreign /\ r.basis = "unique-global-store"
                      /\ r = Unresolved("MissingPrototypeStore") =>
                            \E c \in held : c.kind = Foreign
                      /\ exhausted => r = Unresolved("AnalysisLimit")
    BY DEF RelationsAreTrue
  <2>1. r = Relation(facts[vmpc], ChunkStores(task, in, exhausted))
    BY DEF Relations
  <2>2. CASE exhausted
    <3>1. facts[vmpc] = Unresolved("AnalysisLimit")
      BY <2>2, SpentFact
    <3>2. r = Unresolved("AnalysisLimit")
      BY <2>1, <3>1 DEF Relation, Unresolved
    <3> QED BY <3>2 DEF Unresolved
  <2>3. CASE ~exhausted
    <3> DEFINE stores == StoresOf(task, in)
               v == Callee(vmpc)
    <3>1. facts[vmpc] = Resolution(v) /\ Bears(stores, v, held)
      BY <2>3, FactOfCall
    <3>2. r = Relation(Resolution(v), stores)
      <4>1. exhausted = FALSE
        BY <2>3 DEF IInv, TypeInv
      <4> QED BY <2>1, <3>1, <4>1 DEF StoresOf
    <3> HIDE DEF stores, v, held, r
    <3>3. CASE Resolution(v) = Unresolved(v.reason) /\ v.reason \in FlowReasons
      <4>1. r = Unresolved(v.reason)
        BY <3>2, <3>3 DEF Relation, Unresolved
      <4> QED BY <2>3, <3>3, <4>1 DEF Unresolved, FlowReasons
    <3>4. CASE Resolution(v) = Unresolved("UnsupportedValue")
      <4>1. r = Unresolved("UnsupportedValue")
        BY <3>2, <3>4 DEF Relation, Unresolved
      <4> QED BY <2>3, <4>1 DEF Unresolved
    <3>5. CASE /\ IsKnown(v) /\ IsKind(v.kind) /\ Resolution(v) = Resolved(v)
               /\ v.kind.shape \in {"LookupLabel", "SymbolicPath", "Closure"}
      <4>1. /\ Resolution(v).status = "resolved" /\ Resolution(v).kind = v.kind
            /\ Resolution(v).evidence = v.evidence
        BY <3>5 DEF Resolved
      <4>2. CASE v.kind.shape = "LookupLabel"
        <5>1. r = Unresolved("LookupLabelOnly")
          BY <3>2, <4>1, <4>2 DEF Relation
        <5> QED BY <2>3, <5>1 DEF Unresolved
      <4>3. CASE v.kind.shape = "Closure"
        <5>1. r = Runs(v.kind.prototype, "closure-value", v.evidence)
          BY <3>2, <4>1, <4>3 DEF Relation
        <5>2. v.kind = Closure(v.kind.prototype)
          BY <3>5, <4>3 DEF IsKind
        <5>3. \E c \in held : c.kind = v.kind /\ c.trace \subseteq v.evidence
          BY <3>1, <3>5 DEF Bears
        <5> QED BY <2>3, <5>1, <5>2, <5>3 DEF Runs, Unresolved
      <4>4. CASE v.kind.shape = "SymbolicPath" /\ ~IsGlobal(v.kind)
        <5>1. r = Unresolved("SymbolicPathOnly")
          BY <3>2, <4>1, <4>4 DEF Relation, IsGlobal
        <5> QED BY <2>3, <5>1 DEF Unresolved
      <4>5. CASE IsGlobal(v.kind)
        <5> DEFINE name == v.kind.segments[1]
                   candidates == {s \in stores : s.name = name}
                   s == CHOOSE s \in candidates : TRUE
        <5>1. r = ResolveGlobal(name, v.evidence, stores)
          BY <3>2, <4>1, <4>5 DEF Relation, IsGlobal
        <5>2. FromGlobal(stores, name, v.evidence, held)
          BY <3>1, <3>5, <4>5 DEF Bears
        <5>3. CASE candidates = {}
          <6>1. r = Unresolved("MissingPrototypeStore")
            BY <5>1, <5>3 DEF ResolveGlobal
          <6>2. \E c \in held : c.kind = Foreign
            <7> HIDE DEF name
            <7> QED BY <5>2, <5>3 DEF FromGlobal
          <6> QED BY <2>3, <6>1, <6>2 DEF Unresolved
        <5>4. CASE candidates # {} /\ candidates # {s}
          <6>1. r = Unresolved("MultiplePrototypeStores")
            BY <5>1, <5>4 DEF ResolveGlobal
          <6> QED BY <2>3, <6>1 DEF Unresolved
        <5>5. CASE candidates = {s} /\ s.value.tag = "closure"
          <6>1. r = Runs(s.value.prototype, "unique-global-store", v.evidence \cup s.value.evidence)
            BY <5>1, <5>5 DEF ResolveGlobal
          <6>2. \/ \E c \in held : c.kind = Foreign
                \/ \E c \in held : /\ c.kind = Closure(s.value.prototype)
                                   /\ c.trace \subseteq s.value.evidence \cup v.evidence
            <7>1. \A q \in stores : q.name = name => q = s
              <8> HIDE DEF s, name
              <8> QED BY <5>5
            <7> HIDE DEF s, name
            <7> QED BY <5>2, <5>5, <7>1 DEF FromGlobal
          <6> HIDE DEF s, name
          <6>3. /\ r.status = "resolved" /\ r.callee = s.value.prototype
                /\ r.basis = "unique-global-store"
                /\ r.evidence = v.evidence \cup s.value.evidence
            BY <6>1 DEF Runs
          <6> QED BY <2>3, <6>2, <6>3 DEF Unresolved
        <5>6. CASE candidates = {s} /\ s.value.tag # "closure"
          <6>1. \E reason : r = Unresolved(reason) /\ reason # "MissingPrototypeStore"
            <7>1. r = IF s.value.tag = "non-closure" THEN Unresolved("NonClosureStore")
                      ELSE Unresolved(IF s.value.reason = "AnalysisLimit" THEN "AnalysisLimit"
                                      ELSE "AmbiguousStoreValue")
              BY <5>1, <5>6 DEF ResolveGlobal
            <7> HIDE DEF s
            <7> QED BY <7>1
          <6> QED BY <2>3, <6>1 DEF Unresolved
        <5> QED BY <5>3, <5>4, <5>5, <5>6
      <4> QED BY <3>5, <4>2, <4>3, <4>4, <4>5
    <3> QED BY <3>1, <3>3, <3>4, <3>5, FactForms DEF Bears
  <2> QED BY <2>2, <2>3
<1> QED BY <1>1, RunInvariant, PTL
=============================================================================
