--------------------------- MODULE CodeGraphProofs ---------------------------
(***************************************************************************)
(* Lemmas about the code vector and the control-flow graph of a prototype: *)
(* which words are instructions, where the blocks begin and end, and that  *)
(* the graph has an edge wherever control goes from one block to another.  *)
(* They hold of every dialect, from what the words of the code ask for;    *)
(* the last part derives that for Lua 5.1 from what its validator accepts. *)
(* The induction they rest on is over sets, the least element of a set of  *)
(* numbers, since no prover here takes a predicate.                        *)
(***************************************************************************)
EXTENDS CodeGraph, FiniteSetTheorems, WellFoundedInduction, TLAPS

-----------------------------------------------------------------------------
(* Induction, over numbers and over the subsets of a finite set *)

LEMMA LeastNumber ==
    ASSUME NEW T, T \subseteq Nat, T # {}
    PROVE  \E x \in T : \A y \in T : x <= y
<1> DEFINE Less == {p \in Nat \X Nat : p[1] < p[2]}
<1>1. IsWellFoundedOn(Less, Nat)
  BY NatLessThanWellFounded DEF OpToRel
<1>2. PICK x \in T : \A y \in T : ~(<<y, x>> \in Less)
  BY <1>1, WFMin
<1>3. \A y \in T : ~(y < x)
  BY <1>2
<1> QED BY <1>3

LEMMA Induction ==
    ASSUME NEW S, 0 \in S, \A n \in Nat : n \in S => n + 1 \in S
    PROVE  Nat \subseteq S
<1> SUFFICES ASSUME Nat \ S # {} PROVE FALSE
  OBVIOUS
<1>1. PICK x \in Nat \ S : \A y \in Nat \ S : x <= y
  BY LeastNumber
<1>2. x - 1 \in Nat \ S
  BY <1>1
<1> QED BY <1>1, <1>2

LEMMA GreatestNumber ==
    ASSUME NEW T, T \subseteq Int, T # {}, NEW n \in Int, \A x \in T : x <= n
    PROVE  \E x \in T : \A y \in T : y <= x
<1> DEFINE Up == {n - x : x \in T}
<1>1. Up \subseteq Nat /\ Up # {}
  <2>1. \A x \in T : n - x \in Nat
    OBVIOUS
  <2> QED BY <2>1
<1>2. PICK u \in Up : \A y \in Up : u <= y
  BY <1>1, LeastNumber
<1>3. PICK x \in T : u = n - x
  BY <1>2
<1>4. ASSUME NEW y \in T PROVE y <= x
  <2>1. u <= n - y
    BY <1>2
  <2> QED BY <1>3, <2>1
<1> QED BY <1>4

LEMMA SetInduction ==
    ASSUME NEW P, IsFiniteSet(P), NEW C, {} \in C,
           \A s \in SUBSET P : s # {} /\ (\A x \in s : s \ {x} \in C) => s \in C
    PROVE  SUBSET P \subseteq C
<1> DEFINE S == {n \in Nat : \A s \in SUBSET P : Cardinality(s) = n => s \in C}
<1>1. \A s \in SUBSET P : IsFiniteSet(s) /\ Cardinality(s) \in Nat
  BY FS_Subset, FS_CardinalityType
<1>2. 0 \in S
  BY <1>1, FS_EmptySet
<1>3. ASSUME NEW n \in Nat, n \in S PROVE n + 1 \in S
  <2> SUFFICES ASSUME NEW s \in SUBSET P, Cardinality(s) = n + 1 PROVE s \in C
    OBVIOUS
  <2>1. s # {}
    <3>1. n + 1 # 0
      OBVIOUS
    <3> QED BY <3>1, FS_EmptySet
  <2>2. \A x \in s : Cardinality(s \ {x}) = n
    BY <1>1, FS_RemoveElement
  <2>3. \A x \in s : s \ {x} \in C
    BY <1>3, <2>2
  <2> QED BY <2>1, <2>3
<1>4. Nat \subseteq S
  <2> HIDE DEF S
  <2> QED BY <1>2, <1>3, Induction
<1> QED BY <1>1, <1>4

-----------------------------------------------------------------------------
(* Recursion over the numbers up to N *)

IsRec(V, base, step, N, f) ==
    /\ f \in [0..N -> V]
    /\ f[0] = base
    /\ \A n \in 1..N : f[n] = step[n][f[n - 1]]

LEMMA Recursion ==
    ASSUME NEW V, NEW base \in V, NEW step \in [Nat -> [V -> V]], NEW N \in Nat
    PROVE  \E f : IsRec(V, base, step, N, f)
<1> DEFINE Rec(f, n) == /\ f \in [0..n -> V]
                        /\ f[0] = base
                        /\ \A i \in 1..n : f[i] = step[i][f[i - 1]]
           S == {n \in Nat : \E f : Rec(f, n)}
<1>1. 0 \in S
  <2>1. Rec([i \in 0..0 |-> base], 0)
    OBVIOUS
  <2> QED BY <2>1
<1>2. ASSUME NEW n \in Nat, n \in S PROVE n + 1 \in S
  <2>1. PICK f : Rec(f, n)
    BY <1>2
  <2> DEFINE g == [i \in 0..(n + 1) |-> IF i = n + 1 THEN step[n + 1][f[n]] ELSE f[i]]
  <2>2. f[n] \in V /\ \A i \in 0..n : f[i] \in V /\ g[i] = f[i]
    BY <2>1
  <2>3. step[n + 1][f[n]] \in V
    BY <2>2
  <2>4. g \in [0..(n + 1) -> V]
    <3>1. ASSUME NEW i \in 0..(n + 1) PROVE g[i] \in V
      <4>1. i = n + 1 \/ i \in 0..n
        OBVIOUS
      <4> QED BY <2>2, <2>3, <4>1
    <3> QED BY <3>1
  <2>5. g[0] = base
    BY <2>1, <2>2
  <2>6. ASSUME NEW i \in 1..(n + 1) PROVE g[i] = step[i][g[i - 1]]
    <3>1. i - 1 \in 0..n
      OBVIOUS
    <3>2. g[i - 1] = f[i - 1]
      BY <2>2, <3>1
    <3>3. CASE i = n + 1
      <4>1. g[i] = step[i][f[i - 1]]
        BY <3>3
      <4> HIDE DEF g
      <4> QED BY <3>2, <4>1
    <3>4. CASE i # n + 1
      <4>1. i \in 1..n
        BY <3>4
      <4>2. g[i] = f[i]
        BY <2>2, <4>1
      <4> HIDE DEF g
      <4> QED BY <2>1, <3>2, <4>1, <4>2
    <3> QED BY <3>3, <3>4
  <2>7. Rec(g, n + 1)
    <3> HIDE DEF g
    <3> QED BY <2>4, <2>5, <2>6
  <2> HIDE DEF Rec
  <2> QED BY <2>7
<1>3. Nat \subseteq S
  <2> HIDE DEF S
  <2> QED BY <1>1, <1>2, Induction
<1>4. PICK f : Rec(f, N)
  BY <1>3
<1> QED BY <1>4 DEF IsRec

-----------------------------------------------------------------------------
(* Which words are instructions *)

LEMMA InstructionsAreUnclaimed ==
    ASSUME NEW proto, IsPrototype(proto)
    PROVE  LET exec == Instructions(proto)
           IN  /\ exec \subseteq Pcs(proto)
               /\ \A pc \in Pcs(proto) :
                     pc \in exec <=> ~\E o \in exec : o < pc /\ pc <= o + Span(proto, o)
<1> DEFINE N == NumWords(proto)
           Grown(n, found) == IF \E o \in found : n - 1 <= o + Span(proto, o)
                              THEN found ELSE found \cup {n - 1}
           IsUpTo(f) == f = [n \in 0..N |-> IF n = 0 THEN {} ELSE Grown(n, f[n - 1])]
           upTo == CHOOSE f : IsUpTo(f)
<1>1. N \in Nat \ {0} /\ Pcs(proto) = 0..(N - 1)
  BY DEF IsPrototype
<1>2. Instructions(proto) = upTo[N]
  BY DEF Instructions
<1>3. IsUpTo(upTo)
  <2> DEFINE step == [n \in Nat |-> [found \in SUBSET Int |-> Grown(n, found)]]
  <2>1. step \in [Nat -> [SUBSET Int -> SUBSET Int]]
    OBVIOUS
  <2>2. PICK f \in [0..N -> SUBSET Int] :
           f[0] = {} /\ \A n \in 1..N : f[n] = step[n][f[n - 1]]
    <3> DEFINE V == SUBSET Int
               none == {}
    <3>1. none \in V /\ N \in Nat /\ step \in [Nat -> [V -> V]]
      BY <1>1, <2>1
    <3> HIDE DEF step, N, V, none
    <3>2. \E f : IsRec(V, none, step, N, f)
      BY <3>1, Recursion
    <3> QED BY <3>2 DEF V, none, IsRec
  <2>3. ASSUME NEW n \in 0..N
        PROVE  f[n] = IF n = 0 THEN {} ELSE Grown(n, f[n - 1])
    <3>1. CASE n # 0
      <4>1. n \in 1..N /\ n - 1 \in 0..N /\ n \in Nat
        BY <1>1, <3>1
      <4>2. step[n][f[n - 1]] = Grown(n, f[n - 1])
        <5>1. n \in Nat /\ f[n - 1] \in SUBSET Int
          BY <4>1
        <5> HIDE DEF Grown
        <5> QED BY <5>1
      <4> HIDE DEF step, Grown
      <4> QED BY <2>2, <3>1, <4>1, <4>2
    <3> QED BY <2>2, <3>1
  <2>4. IsUpTo(f)
    <3>1. f = [n \in 0..N |-> f[n]]
      OBVIOUS
    <3> HIDE DEF Grown
    <3> QED BY <2>3, <3>1
  <2> HIDE DEF IsUpTo
  <2> QED BY <2>4
<1>4. /\ upTo[0] = {}
      /\ \A n \in 0..(N - 1) : upTo[n + 1] = Grown(n + 1, upTo[n])
  <2>1. \A n \in 0..N : upTo[n] = IF n = 0 THEN {} ELSE Grown(n, upTo[n - 1])
    <3> HIDE DEF upTo, Grown
    <3> QED BY <1>3
  <2> HIDE DEF upTo, Grown
  <2> QED BY <1>1, <2>1
<1> DEFINE Unclaimed(found, m) == ~\E o \in found : o < m /\ m <= o + Span(proto, o)
           Right(n) == /\ upTo[n] \subseteq 0..(n - 1)
                       /\ \A m \in 0..(n - 1) : m \in upTo[n] <=> Unclaimed(upTo[n], m)
           S == {n \in Nat : n <= N => Right(n)}
<1> HIDE DEF upTo
<1>5. 0 \in S
  BY <1>4
<1>6. ASSUME NEW n \in Nat, n \in S PROVE n + 1 \in S
  <2> SUFFICES ASSUME n + 1 <= N PROVE Right(n + 1)
    OBVIOUS
  <2> DEFINE found == upTo[n]
             next == upTo[n + 1]
  <2>1. /\ found \subseteq 0..(n - 1)
        /\ \A m \in 0..(n - 1) : m \in found <=> Unclaimed(found, m)
    BY <1>1, <1>6
  <2>2. next = IF \E o \in found : n <= o + Span(proto, o) THEN found ELSE found \cup {n}
    <3>0. n \in 0..(N - 1)
      BY <1>1
    <3>1. upTo[n + 1] = Grown(n + 1, upTo[n])
      <4> HIDE DEF Grown
      <4> QED BY <1>4, <3>0
    <3>2. n + 1 - 1 = n
      OBVIOUS
    <3> QED BY <3>1, <3>2
  <2>3. n \in next <=> ~\E o \in found : n <= o + Span(proto, o)
    BY <2>1, <2>2
  <2>4. \A m \in 0..(n - 1) : m \in next <=> m \in found
    BY <2>2
  <2>5. next \subseteq 0..n
    BY <2>1, <2>2
  <2> HIDE DEF found, next
  <2>6. \A o \in next : o < n <=> o \in found
    BY <2>1, <2>4, <2>5
  <2>7. ASSUME NEW m \in 0..n PROVE m \in next <=> Unclaimed(next, m)
    <3>1. CASE m = n
      <4>1. Unclaimed(next, n) <=> ~\E o \in found : n <= o + Span(proto, o)
        BY <2>1, <2>4, <2>6
      <4> QED BY <2>3, <3>1, <4>1
    <3>2. CASE m # n
      <4>1. m \in 0..(n - 1)
        BY <3>2
      <4>2. \A o \in 0..n : o < m => (o \in next <=> o \in found)
        BY <2>4, <4>1
      <4>3. found \subseteq 0..n
        BY <2>1
      <4>4. Unclaimed(next, m) <=> Unclaimed(found, m)
        BY <2>5, <4>2, <4>3
      <4> QED BY <2>1, <2>4, <4>1, <4>4
    <3> QED BY <3>1, <3>2
  <2> QED BY <2>5, <2>7 DEF next
<1>7. Nat \subseteq S
  <2> HIDE DEF S
  <2> QED BY <1>5, <1>6, Induction
<1>8. Right(N)
  BY <1>1, <1>7
<1> QED BY <1>1, <1>2, <1>8

(* The words after the one at pc that are its companions *)
Claimed(proto, pc) == IF proto.dialect = "5.1" THEN Span(proto, pc) ELSE 0

(* The word that follows the one at pc and its companions *)
After(proto, pc) == pc + 1 + Claimed(proto, pc)

LEMMA ExecutableAreWords ==
    ASSUME NEW proto, IsPrototype(proto)
    PROVE  /\ Executable(proto) \subseteq Pcs(proto) /\ Pcs(proto) \subseteq Nat
           /\ 0 \in Executable(proto) /\ 0 \in Pcs(proto)
<1>1. Pcs(proto) \subseteq Nat /\ 0 \in Pcs(proto)
  BY DEF IsPrototype
<1>2. Instructions(proto) \subseteq Pcs(proto)
  BY InstructionsAreUnclaimed
<1>3. 0 \in Instructions(proto)
  <2>1. \A o \in Instructions(proto) : ~(o < 0)
    BY <1>1, <1>2
  <2> QED BY <1>1, <2>1, InstructionsAreUnclaimed
<1> QED BY <1>1, <1>2, <1>3 DEF Executable

LEMMA NextInstruction ==
    ASSUME NEW proto, IsPrototype(proto), NEW pc \in Executable(proto)
    PROVE  /\ pc \in Nat /\ Claimed(proto, pc) \in Nat
           /\ After(proto, pc) \in Pcs(proto) => After(proto, pc) \in Executable(proto)
           /\ \A i \in Executable(proto) : i > pc => i >= After(proto, pc)
<1> DEFINE exec == Executable(proto)
           q == After(proto, pc)
<1>1. /\ exec \subseteq Pcs(proto)
      /\ \A n \in Pcs(proto) :
            n \in exec <=> ~\E o \in exec : o < n /\ n <= o + Claimed(proto, o)
  <2>1. CASE proto.dialect = "5.1"
    BY <2>1, InstructionsAreUnclaimed DEF Executable, Claimed
  <2>2. CASE proto.dialect # "5.1"
    <3>1. exec = Pcs(proto) /\ \A o : Claimed(proto, o) = 0
      BY <2>2 DEF Executable, Claimed
    <3>2. \A n, o \in Pcs(proto) : ~(o < n /\ n <= o + 0)
      BY DEF IsPrototype
    <3> HIDE DEF exec
    <3> QED BY <3>1, <3>2
  <2> QED BY <2>1, <2>2
<1>2. Pcs(proto) \subseteq Nat
  BY DEF IsPrototype
<1>3. \A o \in exec : o \in Nat /\ Claimed(proto, o) \in Nat
  <2>1. \A o \in Pcs(proto) : Claimed(proto, o) \in Nat
    BY DEF IsPrototype, Span, Claimed
  <2> HIDE DEF exec
  <2> QED BY <1>1, <1>2, <2>1
<1> HIDE DEF exec
<1>4. pc \in exec /\ pc \in Nat /\ Claimed(proto, pc) \in Nat
  BY <1>3 DEF exec
<1>5. ASSUME NEW i \in exec, i > pc PROVE i >= q
  <2>1. ~(i <= pc + Claimed(proto, pc))
    BY <1>1, <1>3, <1>4, <1>5
  <2> QED BY <1>3, <1>4, <2>1 DEF After
<1>6. ASSUME q \in Pcs(proto) PROVE q \in exec
  <2> SUFFICES ASSUME NEW o \in exec, o < q, q <= o + Claimed(proto, o) PROVE FALSE
    BY <1>1, <1>6
  <2>1. o \in Nat /\ Claimed(proto, o) \in Nat /\ q \in Nat
    BY <1>2, <1>3, <1>6
  <2>2. o <= pc
    BY <1>4, <1>5, <2>1
  <2>3. CASE o = pc
    BY <1>4, <2>3 DEF After
  <2>4. CASE o < pc
    <3>1. pc <= o + Claimed(proto, o)
      BY <1>4, <2>1, <2>4 DEF After
    <3> QED BY <1>1, <1>4, <2>4, <3>1
  <2> QED BY <1>4, <2>1, <2>2, <2>3, <2>4
<1> QED BY <1>4, <1>5, <1>6 DEF exec

LEMMA MinOf ==
    ASSUME NEW T, T \subseteq Nat, T # {}
    PROVE  Min(T) \in T /\ \A y \in T : Min(T) <= y
BY LeastNumber DEF Min

LEMMA MaxOf ==
    ASSUME NEW T, T \subseteq Nat, T # {}, NEW n \in Nat, \A x \in T : x <= n
    PROVE  Max(T) \in T /\ \A y \in T : y <= Max(T)
<1>1. \E x \in T : \A y \in T : x >= y
  <2>1. T \subseteq Int /\ n \in Int
    OBVIOUS
  <2>2. PICK x \in T : \A y \in T : y <= x
    BY <2>1, GreatestNumber
  <2> QED BY <2>2
<1>2. Max(T) \in T /\ \A y \in T : Max(T) >= y
  BY <1>1 DEF Max
<1> QED BY <1>2

LEMMA MinIs ==
    ASSUME NEW T, T \subseteq Nat, NEW x \in T, \A y \in T : x <= y
    PROVE  Min(T) = x
<1>1. Min(T) \in T /\ Min(T) <= x /\ x <= Min(T)
  BY MinOf
<1>2. Min(T) \in Nat /\ x \in Nat
  BY <1>1
<1> QED BY <1>1, <1>2

LEMMA MaxIs ==
    ASSUME NEW T, T \subseteq Nat, NEW x \in T, \A y \in T : y <= x
    PROVE  Max(T) = x
<1>1. x \in Nat
  OBVIOUS
<1>2. Max(T) \in T /\ x <= Max(T) /\ Max(T) <= x
  BY <1>1, MaxOf
<1>3. Max(T) \in Nat
  BY <1>2
<1> QED BY <1>1, <1>2, <1>3

-----------------------------------------------------------------------------
(* The blocks of a prototype *)

(* The instruction at pc is the last one of its block. *)
EndsBlock(proto, pc) ==
    \/ After(proto, pc) \notin Pcs(proto)
    \/ After(proto, pc) \in Leaders(proto, Executable(proto))

LEMMA LeadersAreExecutable ==
    ASSUME NEW proto, IsPrototype(proto)
    PROVE  LET exec == Executable(proto)
               leaders == Leaders(proto, exec)
           IN  /\ leaders \subseteq exec /\ exec \subseteq Pcs(proto) /\ Pcs(proto) \subseteq Nat
               /\ 0 \in leaders
               /\ \A pc \in exec : Targets(proto, pc) \cap exec \subseteq leaders
               /\ \A pc \in exec : Targets(proto, pc) # {} => EndsBlock(proto, pc)
<1> DEFINE exec == Executable(proto)
           leaders == Leaders(proto, exec)
           Ends == {pc \in exec : Targets(proto, pc) # {} \/ Returns(proto.words[pc])}
<1>1. exec \subseteq Pcs(proto) /\ Pcs(proto) \subseteq Nat /\ 0 \in Pcs(proto)
  BY ExecutableAreWords
<1>2. 0 \in exec
  BY ExecutableAreWords
<1>3. NextExecutable(exec, 0) = {0}
  <2> HIDE DEF exec
  <2> DEFINE later == {pc \in exec : pc >= 0}
  <2>1. later \subseteq Nat /\ 0 \in later /\ \A y \in later : 0 <= y
    BY <1>1, <1>2
  <2>2. Min(later) = 0
    <3> HIDE DEF later
    <3> QED BY <2>1, MinIs
  <2> QED BY <2>1, <2>2 DEF NextExecutable
<1>4. \A from : NextExecutable(exec, from) \subseteq exec
  <2> SUFFICES ASSUME NEW from PROVE NextExecutable(exec, from) \subseteq exec
    OBVIOUS
  <2> HIDE DEF exec
  <2> DEFINE later == {pc \in exec : pc >= from}
  <2>1. later # {} => Min(later) \in later
    BY <1>1, MinOf
  <2> QED BY <2>1 DEF NextExecutable
<1>9. leaders = NextExecutable(exec, 0)
                    \cup (UNION {Targets(proto, pc) \cap exec : pc \in exec})
                    \cup (UNION {NextExecutable(exec, pc + 1) : pc \in Ends})
  BY DEF Leaders
<1>5. leaders \subseteq exec
  <2> SUFFICES ASSUME NEW x \in leaders PROVE x \in exec
    OBVIOUS
  <2>1. CASE x \in NextExecutable(exec, 0)
    BY <1>4, <2>1
  <2>2. CASE x \in UNION {Targets(proto, pc) \cap exec : pc \in exec}
    BY <2>2
  <2>3. CASE x \in UNION {NextExecutable(exec, pc + 1) : pc \in Ends}
    <3>1. PICK pc \in Ends : x \in NextExecutable(exec, pc + 1)
      BY <2>3
    <3> HIDE DEF exec
    <3> QED BY <1>4, <3>1
  <2> HIDE DEF leaders, Ends, exec
  <2> QED BY <1>9, <2>1, <2>2, <2>3
<1>6. 0 \in leaders
  <2> HIDE DEF exec
  <2> QED BY <1>3 DEF Leaders
<1>7. ASSUME NEW pc \in exec PROVE Targets(proto, pc) \cap exec \subseteq leaders
  <2> HIDE DEF exec
  <2> QED BY <1>7 DEF Leaders
<1>8. ASSUME NEW pc \in exec, Targets(proto, pc) # {}, After(proto, pc) \in Pcs(proto)
      PROVE  After(proto, pc) \in leaders
  <2> DEFINE q == After(proto, pc)
             later == {i \in exec : i >= pc + 1}
  <2>1. /\ pc \in Nat /\ Claimed(proto, pc) \in Nat /\ q \in exec
        /\ \A i \in exec : i > pc => i >= q
    BY <1>8, NextInstruction
  <2>2. q \in later /\ later \subseteq Nat /\ \A i \in later : q <= i
    <3>1. q \in Nat /\ q >= pc + 1
      BY <2>1 DEF After
    <3>2. \A i \in exec : i \in Nat
      BY <1>1
    <3>3. \A i \in Nat : i >= pc + 1 => i > pc
      BY <2>1
    <3> HIDE DEF exec, q
    <3> QED BY <2>1, <3>1, <3>2, <3>3
  <2>3. Min(later) = q
    <3> HIDE DEF later, q
    <3> QED BY <2>2, MinIs
  <2>4. NextExecutable(exec, pc + 1) = {q}
    <3> HIDE DEF q, exec
    <3> QED BY <2>2, <2>3 DEF NextExecutable
  <2> HIDE DEF q, exec
  <2>5. q \in leaders
    <3>1. pc \in Ends
      BY <1>8
    <3> HIDE DEF leaders, Ends
    <3> QED BY <1>9, <2>4, <3>1
  <2> QED BY <2>5 DEF q
<1> QED BY <1>1, <1>5, <1>6, <1>7, <1>8 DEF EndsBlock

(* Why a word leads a block *)
LEMMA LeadersHaveReasons ==
    ASSUME NEW proto, IsPrototype(proto), NEW l \in Leaders(proto, Executable(proto))
    PROVE  \/ l = 0
           \/ \E pc \in Executable(proto) : l \in Targets(proto, pc)
           \/ \E pc \in Executable(proto) :
                 /\ Targets(proto, pc) # {} \/ Returns(proto.words[pc])
                 /\ l = After(proto, pc)
<1> DEFINE exec == Executable(proto)
           Ends == {pc \in exec : Targets(proto, pc) # {} \/ Returns(proto.words[pc])}
           first == {pc \in exec : pc >= 0}
<1>1. exec \subseteq Pcs(proto) /\ Pcs(proto) \subseteq Nat /\ exec \subseteq Nat /\ 0 \in exec
  BY ExecutableAreWords
<1>2. CASE l \in NextExecutable(exec, 0)
  <2>1. first \subseteq Nat /\ 0 \in first /\ \A y \in first : 0 <= y
    BY <1>1
  <2>2. Min(first) = 0
    <3> HIDE DEF first
    <3> QED BY <2>1, MinIs
  <2> QED BY <1>2, <2>1, <2>2 DEF NextExecutable
<1>3. CASE l \in UNION {Targets(proto, pc) \cap exec : pc \in exec}
  BY <1>3
<1>4. CASE l \in UNION {NextExecutable(exec, pc + 1) : pc \in Ends}
  <2>1. PICK pc \in Ends : l \in NextExecutable(exec, pc + 1)
    BY <1>4
  <2> DEFINE q == After(proto, pc)
             later == {i \in exec : i >= pc + 1}
  <2>2. /\ pc \in Nat /\ q \in Nat /\ q >= pc + 1
        /\ q \in Pcs(proto) => q \in exec
        /\ \A i \in exec : i > pc => i >= q
    BY NextInstruction DEF After
  <2> HIDE DEF exec, q
  <2>3. later # {} /\ l = Min(later)
    BY <2>1 DEF NextExecutable
  <2>4. \A i \in later : i \in Nat /\ i \in Pcs(proto) /\ q <= i
    BY <1>1, <2>2
  <2>5. q \in later
    <3>1. Pcs(proto) = 0..(NumWords(proto) - 1) /\ NumWords(proto) \in Nat
      BY DEF IsPrototype
    <3>2. q \in Pcs(proto)
      BY <2>2, <2>3, <2>4, <3>1
    <3> QED BY <2>2, <3>2
  <2>6. Min(later) = q
    <3>1. later \subseteq Nat
      BY <2>4
    <3> HIDE DEF later
    <3> QED BY <2>4, <2>5, <3>1, MinIs
  <2> QED BY <2>1, <2>3, <2>6 DEF exec, q
<1>5. Leaders(proto, exec) = NextExecutable(exec, 0)
                    \cup (UNION {Targets(proto, pc) \cap exec : pc \in exec})
                    \cup (UNION {NextExecutable(exec, pc + 1) : pc \in Ends})
  BY DEF Leaders
<1> HIDE DEF exec, Ends
<1> QED BY <1>2, <1>3, <1>4, <1>5 DEF exec

LEMMA BlockOfIs ==
    ASSUME NEW proto, IsPrototype(proto), NEW pc \in Pcs(proto)
    PROVE  LET leaders == Leaders(proto, Executable(proto))
               b == BlockOf(leaders, pc)
           IN  /\ b \in leaders /\ b <= pc
               /\ \A l \in leaders : l <= pc => l <= b
               /\ pc \in leaders => b = pc
<1> DEFINE leaders == Leaders(proto, Executable(proto))
           below == {l \in leaders : l <= pc}
<1>1. /\ leaders \subseteq Nat /\ 0 \in leaders /\ pc \in Nat
  BY LeadersAreExecutable
<1> HIDE DEF leaders
<1>2. below \subseteq Nat /\ 0 \in below /\ \A l \in below : l <= pc
  <2>1. 0 <= pc
    BY <1>1
  <2> QED BY <1>1, <2>1
<1>3. Max(below) \in below /\ \A l \in below : l <= Max(below)
  <2> HIDE DEF below
  <2> QED BY <1>1, <1>2, MaxOf
<1>4. BlockOf(leaders, pc) = Max(below)
  BY DEF BlockOf
<1>5. /\ BlockOf(leaders, pc) \in leaders /\ BlockOf(leaders, pc) <= pc
      /\ \A l \in leaders : l <= pc => l <= BlockOf(leaders, pc)
  BY <1>3, <1>4
<1>6. pc \in leaders => BlockOf(leaders, pc) = pc
  <2> DEFINE b == BlockOf(leaders, pc)
  <2>1. b \in Nat /\ b <= pc /\ (pc \in leaders /\ pc <= pc => pc <= b)
    BY <1>1, <1>5
  <2> HIDE DEF b
  <2>2. pc \in leaders => b = pc
    BY <1>1, <2>1
  <2> QED BY <2>2 DEF b
<1> QED BY <1>5, <1>6 DEF leaders

LEMMA SameBlock ==
    ASSUME NEW proto, IsPrototype(proto), NEW pc \in Executable(proto),
           ~EndsBlock(proto, pc)
    PROVE  LET leaders == Leaders(proto, Executable(proto))
           IN  /\ After(proto, pc) \in Executable(proto)
               /\ BlockOf(leaders, After(proto, pc)) = BlockOf(leaders, pc)
<1> DEFINE exec == Executable(proto)
           leaders == Leaders(proto, exec)
           q == After(proto, pc)
           b == BlockOf(leaders, pc)
           c == BlockOf(leaders, q)
<1>1. /\ leaders \subseteq exec /\ leaders \subseteq Nat
      /\ pc \in Pcs(proto) /\ pc \in Nat
  BY LeadersAreExecutable
<1>2. q \in Pcs(proto) /\ q \notin leaders
  BY DEF EndsBlock
<1>3. q \in exec /\ q \in Nat /\ q > pc /\ \A i \in exec : i > pc => i >= q
  <2>1. pc \in Nat /\ Claimed(proto, pc) \in Nat
    BY NextInstruction
  <2>2. q \in Nat /\ q > pc
    BY <2>1 DEF After
  <2> QED BY <1>2, <2>2, NextInstruction
<1>4. b \in leaders /\ b <= pc /\ \A l \in leaders : l <= pc => l <= b
  BY <1>1, BlockOfIs
<1>5. c \in leaders /\ c <= q /\ \A l \in leaders : l <= q => l <= c
  BY <1>2, BlockOfIs
<1> HIDE DEF exec, leaders, q, b, c
<1>6. c <= pc
  <2>1. ~(c >= q)
    BY <1>1, <1>2, <1>3, <1>5
  <2> QED BY <1>1, <1>3, <1>5, <2>1
<1>7. c <= b /\ b <= c
  BY <1>1, <1>3, <1>4, <1>5, <1>6
<1>8. c = b
  BY <1>1, <1>4, <1>5, <1>7
<1> QED BY <1>3, <1>8 DEF exec, leaders, q, b, c

LEMMA LastOfBlock ==
    ASSUME NEW proto, IsPrototype(proto), NEW pc \in Executable(proto),
           EndsBlock(proto, pc)
    PROVE  LET exec == Executable(proto)
               leaders == Leaders(proto, exec)
               b == BlockOf(leaders, pc)
           IN  /\ \A i \in exec : i > pc => BlockOf(leaders, i) # b
               /\ Max(Body(exec, leaders, b)) = pc
               /\ After(proto, pc) \in Pcs(proto) =>
                     Min({l \in leaders : l > b}) = After(proto, pc)
<1> DEFINE exec == Executable(proto)
           leaders == Leaders(proto, exec)
           q == After(proto, pc)
           b == BlockOf(leaders, pc)
           later == {l \in leaders : l > b}
           body == Body(exec, leaders, b)
<1>1. /\ leaders \subseteq exec /\ leaders \subseteq Nat
      /\ exec \subseteq Pcs(proto) /\ exec \subseteq Nat
      /\ pc \in Pcs(proto) /\ pc \in Nat /\ pc \in exec
  BY LeadersAreExecutable
<1>2. \A i \in exec : i > pc => i >= q
  BY NextInstruction
<1>3. q \in Nat /\ q > pc
  <2>1. pc \in Nat /\ Claimed(proto, pc) \in Nat
    BY NextInstruction
  <2> QED BY <2>1 DEF After
<1>4. q \in Pcs(proto) => q \in leaders
  BY DEF EndsBlock
<1>5. b \in leaders /\ b <= pc /\ \A l \in leaders : l <= pc => l <= b
  BY <1>1, BlockOfIs
<1>6. ASSUME NEW i \in exec, i > pc PROVE BlockOf(leaders, i) # b /\ q \in leaders
  <2> DEFINE c == BlockOf(leaders, i)
  <2>1. i \in Pcs(proto) /\ i >= q /\ i \in Nat
    BY <1>1, <1>2, <1>6
  <2>2. \A l \in leaders : l <= i => l <= c
    BY <2>1, BlockOfIs
  <2>3. q \in Pcs(proto)
    <3>1. Pcs(proto) = 0..(NumWords(proto) - 1) /\ NumWords(proto) \in Nat
      BY DEF IsPrototype
    <3> HIDE DEF q
    <3> QED BY <1>3, <2>1, <3>1
  <2>4. c \in leaders
    BY <2>1, BlockOfIs
  <2> HIDE DEF c, b, exec, leaders, q
  <2>5. q <= c
    BY <1>3, <1>4, <2>1, <2>2, <2>3
  <2>6. c # b
    BY <1>1, <1>3, <1>5, <2>4, <2>5
  <2> QED BY <1>4, <2>3, <2>6 DEF c
<1>7. Max(body) = pc
  <2>1. body \subseteq Nat /\ pc \in body /\ \A i \in body : i <= pc
    <3>1. body = {i \in exec : i >= b /\ BlockOf(leaders, i) = b}
      BY DEF Body
    <3> HIDE DEF body, exec, leaders, q, later
    <3>2. pc >= b /\ BlockOf(leaders, pc) = b
      BY <1>1, <1>5
    <3>3. \A i \in body : i \in exec /\ i \in Nat /\ ~(i > pc)
      BY <1>1, <1>6, <3>1
    <3>4. pc \in body
      BY <1>1, <3>1, <3>2
    <3>5. \A i \in body : i <= pc
      BY <1>1, <3>3
    <3> QED BY <3>3, <3>4, <3>5
  <2> HIDE DEF body
  <2> QED BY <2>1, MaxIs
<1>8. ASSUME q \in Pcs(proto) PROVE Min(later) = q
  <2> HIDE DEF b, exec, leaders, q
  <2>1. q \in later
    BY <1>1, <1>3, <1>4, <1>5, <1>8
  <2>2. \A l \in later : q <= l
    <3> SUFFICES ASSUME NEW l \in leaders, l > b PROVE q <= l
      OBVIOUS
    <3>1. l \in Nat /\ l \in exec /\ ~(l <= pc)
      BY <1>1, <1>5
    <3> QED BY <1>1, <1>2, <1>3, <3>1
  <2>3. later \subseteq Nat
    BY <1>1
  <2> HIDE DEF later
  <2> QED BY <2>1, <2>2, <2>3, MinIs
<1> QED BY <1>6, <1>7, <1>8
LEMMA SuccessorsAreLeaders ==
    ASSUME NEW proto, IsPrototype(proto)
    PROVE  LET exec == Executable(proto)
               leaders == Leaders(proto, exec)
           IN  \A b : Successors(proto, exec, leaders, b) \subseteq leaders
<1> DEFINE exec == Executable(proto)
           leaders == Leaders(proto, exec)
<1> SUFFICES ASSUME NEW b, NEW s \in Successors(proto, exec, leaders, b) PROVE s \in leaders
  OBVIOUS
<1> DEFINE last == Max(Body(exec, leaders, b))
           branch == {BlockOf(leaders, t) : t \in Targets(proto, last) \cap Pcs(proto)}
           next == {l \in leaders : l > b}
<1>1. \A t \in Pcs(proto) : BlockOf(leaders, t) \in leaders
  BY BlockOfIs
<1>2. leaders \subseteq Nat
  BY LeadersAreExecutable
<1> HIDE DEF exec, leaders
<1>3. next # {} => Min(next) \in next
  <2>1. next \subseteq Nat
    BY <1>2
  <2> HIDE DEF next
  <2> QED BY <2>1, MinOf
<1>4. s \in branch \/ (next # {} /\ s = Min(next))
  BY DEF Successors
<1>5. branch \subseteq leaders
  BY <1>1
<1> QED BY <1>3, <1>4, <1>5

LEMMA BuiltGraph ==
    ASSUME NEW proto, IsPrototype(proto)
    PROVE  LET h == BuildCfg(proto)
               exec == Executable(proto)
               leaders == Leaders(proto, exec)
           IN  /\ h.nodes = leaders /\ h.entry = 0 /\ 0 \in leaders
               /\ leaders \subseteq Nat /\ IsFiniteSet(leaders)
               /\ h.succ \in [leaders -> SUBSET leaders]
               /\ \A b \in leaders : h.succ[b] = Successors(proto, exec, leaders, b)
<1> DEFINE exec == Executable(proto)
           leaders == Leaders(proto, exec)
<1>1. leaders \subseteq Pcs(proto) /\ leaders \subseteq Nat /\ 0 \in leaders
  BY LeadersAreExecutable
<1>2. IsFiniteSet(leaders)
  <2>1. Pcs(proto) = 0..(NumWords(proto) - 1) /\ 0 \in Int /\ NumWords(proto) - 1 \in Int
    BY DEF IsPrototype
  <2>2. IsFiniteSet(Pcs(proto))
    BY <2>1, FS_Interval
  <2> QED BY <1>1, <2>2, FS_Subset
<1>3. Min(leaders) = 0
  <2>1. \A l \in leaders : 0 <= l
    BY <1>1
  <2> HIDE DEF leaders
  <2> QED BY <1>1, <2>1, MinIs
<1>4. \A b : Successors(proto, exec, leaders, b) \subseteq leaders
  BY SuccessorsAreLeaders
<1>5. BuildCfg(proto) = [nodes |-> leaders, entry |-> Min(leaders),
                         succ |-> [b \in leaders |-> Successors(proto, exec, leaders, b)]]
  BY DEF BuildCfg
<1> HIDE DEF exec, leaders
<1> QED BY <1>1, <1>2, <1>3, <1>4, <1>5 DEF exec, leaders

(* From a word to one it targets there is an edge between their blocks. *)
LEMMA ToTarget ==
    ASSUME NEW proto, IsPrototype(proto), NEW pc \in Executable(proto),
           NEW to \in Targets(proto, pc), to \in Executable(proto)
    PROVE  LET exec == Executable(proto)
               leaders == Leaders(proto, exec)
           IN  /\ EndsBlock(proto, pc) /\ to \in leaders
               /\ to \in Successors(proto, exec, leaders, BlockOf(leaders, pc))
<1> DEFINE exec == Executable(proto)
           leaders == Leaders(proto, exec)
           b == BlockOf(leaders, pc)
           last == Max(Body(exec, leaders, b))
           branch == {BlockOf(leaders, t) : t \in Targets(proto, last) \cap Pcs(proto)}
<1>1. /\ Targets(proto, pc) \cap exec \subseteq leaders /\ exec \subseteq Pcs(proto)
      /\ Targets(proto, pc) # {} => EndsBlock(proto, pc)
  BY LeadersAreExecutable
<1>2. EndsBlock(proto, pc) /\ to \in leaders /\ to \in Pcs(proto)
  BY <1>1
<1>3. last = pc
  BY <1>2, LastOfBlock
<1>4. BlockOf(leaders, to) = to
  BY <1>2, BlockOfIs
<1>5. branch \subseteq Successors(proto, exec, leaders, b)
  BY DEF Successors
<1>6. to \in branch
  <2> HIDE DEF exec, leaders, last
  <2> QED BY <1>2, <1>3, <1>4
<1> QED BY <1>2, <1>5, <1>6

(* From the end of a block that falls through there is an edge to the block
   of the next word. *)
LEMMA ToAfter ==
    ASSUME NEW proto, IsPrototype(proto), NEW pc \in Executable(proto),
           FallsThrough(proto.words[pc]), EndsBlock(proto, pc), After(proto, pc) \in Pcs(proto)
    PROVE  LET exec == Executable(proto)
               leaders == Leaders(proto, exec)
           IN  /\ After(proto, pc) \in leaders
               /\ After(proto, pc) \in
                     Successors(proto, exec, leaders, BlockOf(leaders, pc))
<1> DEFINE exec == Executable(proto)
           leaders == Leaders(proto, exec)
           to == After(proto, pc)
           b == BlockOf(leaders, pc)
           last == Max(Body(exec, leaders, b))
           next == {l \in leaders : l > b}
           fallthrough == IF FallsThrough(proto.words[last]) /\ next # {}
                          THEN {Min(next)} ELSE {}
<1>1. last = pc /\ Min(next) = to
  BY LastOfBlock
<1>2. to \in leaders
  BY DEF EndsBlock
<1>3. to \in next
  <2>1. /\ b <= pc /\ b \in leaders /\ leaders \subseteq Nat
    BY ExecutableAreWords, BlockOfIs, LeadersAreExecutable
  <2>2. pc \in Nat /\ to \in Nat /\ to > pc
    BY NextInstruction DEF After
  <2> HIDE DEF exec, leaders, b, to
  <2>3. b \in Nat
    BY <2>1
  <2>4. to > b
    BY <2>1, <2>2, <2>3
  <2> QED BY <1>2, <2>4
<1>4. to \in fallthrough
  <2> HIDE DEF next, last, to
  <2> QED BY <1>1, <1>3
<1>5. fallthrough \subseteq Successors(proto, exec, leaders, b)
  BY DEF Successors
<1> QED BY <1>2, <1>4, <1>5

-----------------------------------------------------------------------------
(* What the validator guarantees of an instruction *)

LEMMA ValidOperands ==
    ASSUME NEW proto, IsPrototype(proto), NEW exec, NEW pc \in Pcs(proto),
           WordErrors(proto, exec, pc) = {}
    PROVE  LET w == proto.words[pc]
           IN  /\ w.a \in Nat /\ w.b \in Nat /\ w.c \in Nat /\ w.x \in Int
               /\ w.op \in Opcodes
               /\ ARegisterOps(w.op) => w.a < proto.maxstack
               /\ w.op \in BRegisterOps => w.b < proto.maxstack
               /\ w.op = "SELF" => w.a + 1 < proto.maxstack
               /\ w.op = "CALL" /\ w.b > 0 => w.a + w.b - 1 < proto.maxstack
               /\ w.op = "CLOSURE" => w.x \in DOMAIN proto.kids
               /\ JumpTargets(w) \subseteq Pcs(proto)
               /\ (JumpTargets(w) \cup SkipTargets(w, pc)) \cap Pcs(proto) \subseteq exec
<1> DEFINE w == proto.words[pc]
<1>1. w.a \in Nat /\ w.b \in Nat /\ w.c \in Nat /\ w.x \in Int /\ proto.maxstack \in Nat
  BY DEF IsPrototype
<1>2. /\ w.op \in Opcodes
      /\ ARegisterOps(w.op) => ~(w.a >= proto.maxstack)
      /\ \A last \in WindowEnds(w) : ~(last >= proto.maxstack)
      /\ w.op = "CLOSURE" => w.x \in DOMAIN proto.kids
      /\ \A t \in JumpTargets(w) : t \in Pcs(proto)
      /\ \A t \in JumpTargets(w) \cup SkipTargets(w, pc) : t \notin Pcs(proto) \ exec
      /\ OperandErrors(proto, w) = {}
  BY DEF WordErrors
<1>3. w.op \in BRegisterOps => ~(w.b >= proto.maxstack)
  BY <1>2 DEF OperandErrors
<1>4. /\ w.op = "SELF" => w.a + 1 \in WindowEnds(w)
      /\ w.op = "CALL" /\ w.b > 0 => w.a + w.b - 1 \in WindowEnds(w)
  BY DEF WindowEnds
<1> HIDE DEF w
<1>5. w.op = "SELF" => w.a + 1 < proto.maxstack
  BY <1>1, <1>2, <1>4
<1>6. w.op = "CALL" /\ w.b > 0 => w.a + w.b - 1 < proto.maxstack
  BY <1>1, <1>2, <1>4
<1> QED BY <1>1, <1>2, <1>3, <1>5, <1>6 DEF w

-----------------------------------------------------------------------------
(* Where control goes *)

(* Control goes to what an instruction targets, or to the next one. *)
LEMMA NextIsTargetOrAfter ==
    ASSUME NEW proto, IsPrototype(proto), proto.dialect = "5.1",
           NEW pc \in Executable(proto), proto.words[pc].op \in Opcodes,
           NEW to \in NextPcs(proto, pc), to \in Pcs(proto)
    PROVE  \/ to \in Targets(proto, pc)
           \/ to = After(proto, pc) /\ FallsThrough(proto.words[pc])
<1> DEFINE w == proto.words[pc]
<1>1. Targets(proto, pc) = JumpTargets(w) \cup SkipTargets(w, pc)
  BY DEF Targets
<1>2. pc \in Nat /\ Claimed(proto, pc) \in Nat
  BY NextInstruction
<1>3. w.op \notin {"CLOSURE", "SETLIST"} => After(proto, pc) = pc + 1
  BY <1>2 DEF After, Claimed, Span
<1>4. w.op \notin {"JMP", "RETURN"} => FallsThrough(w)
  BY DEF FallsThrough, Returns, Opcodes
<1>5. to # Halted
  BY DEF IsPrototype, Halted
<1>6. CASE w.op \in {"JMP", "FORPREP"}
  BY <1>1, <1>6 DEF NextPcs, JumpTargets, JumpOps, SkipOps
<1>7. CASE w.op = "FORLOOP"
  BY <1>1, <1>3, <1>4, <1>7 DEF NextPcs, JumpTargets, JumpOps, SkipOps
<1>8. CASE w.op \in SkipOps
  BY <1>1, <1>3, <1>4, <1>8 DEF NextPcs, SkipTargets, SkipOps
<1>9. CASE w.op = "LOADBOOL" /\ w.c # 0
  BY <1>1, <1>9 DEF NextPcs, SkipTargets, SkipOps
<1>10. CASE w.op = "RETURN"
  BY <1>5, <1>10 DEF NextPcs, SkipOps
<1>11. CASE w.op = "TAILCALL"
  BY <1>3, <1>4, <1>5, <1>11 DEF NextPcs, SkipOps
<1>12. CASE /\ w.op \notin {"JMP", "FORPREP", "FORLOOP", "RETURN", "TAILCALL"}
            /\ w.op \notin SkipOps /\ ~(w.op = "LOADBOOL" /\ w.c # 0)
  BY <1>4, <1>12 DEF NextPcs, After, Claimed
<1> QED BY <1>6, <1>7, <1>8, <1>9, <1>10, <1>11, <1>12

(* From an accepted instruction, control stays in the block and goes to its
   next instruction, or it is at the end of the block and takes an edge to the
   start of another one. *)
LEMMA Control ==
    ASSUME NEW proto, IsPrototype(proto), proto.dialect = "5.1",
           NEW pc \in Executable(proto), WordErrors(proto, Executable(proto), pc) = {},
           NEW to \in NextPcs(proto, pc), to \in Pcs(proto)
    PROVE  LET exec == Executable(proto)
               leaders == Leaders(proto, exec)
           IN  \/ /\ ~EndsBlock(proto, pc)
                  /\ to = After(proto, pc)
               \/ /\ EndsBlock(proto, pc)
                  /\ to \in leaders
                  /\ to \in Successors(proto, exec, leaders, BlockOf(leaders, pc))
<1>1. pc \in Pcs(proto)
  BY ExecutableAreWords
<1>2. /\ proto.words[pc].op \in Opcodes
      /\ Targets(proto, pc) \cap Pcs(proto) \subseteq Executable(proto)
  BY <1>1, ValidOperands DEF Targets
<1>3. to \in Targets(proto, pc) \/ (to = After(proto, pc) /\ FallsThrough(proto.words[pc]))
  BY <1>2, NextIsTargetOrAfter
<1> QED BY <1>2, <1>3, ToTarget, ToAfter
=============================================================================
