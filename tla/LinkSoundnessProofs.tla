------------------------ MODULE LinkSoundnessProofs ------------------------
(***************************************************************************)
(* Links that rest on no trusted root are true, and what an index misses   *)
(* or a cap takes can be seen: for every corpus of any number of files and *)
(* any caps, along every run of any root.                                  *)
(***************************************************************************)
EXTENDS LinkSoundness, CodeGraphProofs, SequenceTheorems, FunctionTheorems

-----------------------------------------------------------------------------
(* Sequences and orders *)

IsSeq(s) == s \in Seq(ToSet(s))

(* A function on 1..n is a sequence. *)
LEMMA FunctionIsSeq ==
    ASSUME NEW n \in Nat, NEW T, NEW f \in [1..n -> T]
    PROVE  f \in Seq(T) /\ Len(f) = n
<1>1. f \in UNION {[1..m -> T] : m \in Nat}
  OBVIOUS
<1>2. f \in Seq(T)
  BY <1>1, SeqDef, Zenon
<1> QED BY <1>2, LenProperties

(* Appending to a sequence keeps what is there. *)
LEMMA AppendIsSeq ==
    ASSUME NEW s, IsSeq(s), NEW e
    PROVE  /\ IsSeq(Append(s, e))
           /\ Len(Append(s, e)) = Len(s) + 1
           /\ \A i \in 1..Len(s) : Append(s, e)[i] = s[i]
           /\ Append(s, e)[Len(s) + 1] = e
<1> DEFINE S == ToSet(s) \cup {e}
<1>1. s \in Seq(S)
  BY LenProperties, SeqDef DEF IsSeq
<1>2. /\ Append(s, e) \in Seq(S)
      /\ Len(Append(s, e)) = Len(s) + 1
      /\ \A i \in 1..Len(s) : Append(s, e)[i] = s[i]
      /\ Append(s, e)[Len(s) + 1] = e
  BY <1>1, AppendProperties, e \in S
<1>3. Append(s, e) \in [1..Len(Append(s, e)) -> ToSet(Append(s, e))]
  BY <1>2, LenProperties DEF ToSet
<1>4. IsSeq(Append(s, e))
  BY <1>2, <1>3, LenProperties, FunctionIsSeq DEF IsSeq
<1> QED BY <1>2, <1>4

(* A sequence has a finite set of elements, of which each is at a position. *)
LEMMA ToSetOfSeq ==
    ASSUME NEW S, NEW s \in Seq(S)
    PROVE  /\ IsFiniteSet(ToSet(s))
           /\ ToSet(s) \subseteq S
           /\ s \in Seq(ToSet(s))
           /\ s # <<>> => ToSet(s) # {}
<1>1. Len(s) \in Nat /\ DOMAIN s = 1..Len(s) /\ s \in [1..Len(s) -> S]
  BY LenProperties
<1>2. IsFiniteSet(1..Len(s))
  BY <1>1, FS_Interval
<1>3. s \in Surjection(1..Len(s), ToSet(s))
  BY <1>1 DEF Surjection, ToSet
<1>4. s # <<>> => ToSet(s) # {}
  BY <1>1, EmptySeq DEF ToSet
<1>5. IsFiniteSet(ToSet(s))
  BY <1>2, <1>3, FS_Surjection
<1>6. ToSet(s) \subseteq S
  BY <1>1 DEF ToSet
<1>7. s \in [1..Len(s) -> ToSet(s)]
  BY <1>3 DEF Surjection
<1>8. s \in Seq(ToSet(s))
  BY <1>1, <1>7, FunctionIsSeq
<1> QED BY <1>4, <1>5, <1>6, <1>8

Place(S, n) == Cardinality({m \in S : m < n})

(* Of a finite set of numbers, a larger one has a larger rank, and every rank
   is that of some number. *)
LEMMA Places ==
    ASSUME NEW S \in SUBSET Nat, IsFiniteSet(S)
    PROVE  /\ Cardinality(S) \in Nat
           /\ \A p \in S : Place(S, p) \in 0..(Cardinality(S) - 1)
           /\ \A p, r \in S : p < r => Place(S, p) < Place(S, r)
           /\ \A i \in 0..(Cardinality(S) - 1) : \E p \in S : Place(S, p) = i
<1> DEFINE Below(p) == {q \in S : q < p}
           T == 0..(Cardinality(S) - 1)
           rank == [p \in S |-> Place(S, p)]
<1>1. Cardinality(S) \in Nat
  BY FS_CardinalityType
<1>2. \A p \in S : /\ IsFiniteSet(Below(p)) /\ Cardinality(Below(p)) \in Nat
                 /\ Place(S, p) = Cardinality(Below(p))
  BY FS_Subset, FS_CardinalityType DEF Place
<1>3. \A p, r \in S : p < r => Place(S, p) < Place(S, r)
  <2> SUFFICES ASSUME NEW p \in S, NEW r \in S, p < r
               PROVE  Cardinality(Below(p)) < Cardinality(Below(r))
    BY <1>2
  <2>1. p \in Below(r) /\ p \notin Below(p)
    OBVIOUS
  <2>2. \A q \in Below(p) : q \in Below(r)
    OBVIOUS
  <2>3. Below(p) \in SUBSET Below(r) /\ Below(p) # Below(r)
    BY <2>1, <2>2
  <2> QED BY <2>3, <1>2, FS_Subset
<1>4. \A p \in S : Place(S, p) \in T
  <2> SUFFICES ASSUME NEW p \in S PROVE Cardinality(Below(p)) \in T
    BY <1>2
  <2>1. Below(p) \in SUBSET S /\ p \notin Below(p)
    OBVIOUS
  <2>2. Cardinality(Below(p)) < Cardinality(S)
    BY <2>1, <1>1, <1>2, FS_Subset
  <2> QED BY <2>2, <1>1, <1>2
<1>5. rank \in [S -> T]
  BY <1>4
<1>6. rank \in Injection(S, T)
  <2> SUFFICES ASSUME NEW p \in S, NEW r \in S, p # r PROVE rank[p] # rank[r]
    BY <1>5 DEF Injection, IsInjective
  <2>1. p < r \/ r < p
    OBVIOUS
  <2>2. Place(S, p) \in Int /\ Place(S, r) \in Int
    BY <1>2, <1>1, <1>4
  <2>3. Place(S, p) # Place(S, r)
    BY <2>1, <2>2, <1>3
  <2> QED BY <2>3
<1>7. IsFiniteSet(T) /\ Cardinality(T) = Cardinality(S)
  <2>1. Cardinality(S) - 1 \in Int
    BY <1>1
  <2>2. /\ IsFiniteSet(T)
        /\ Cardinality(T) = IF 0 > Cardinality(S) - 1 THEN 0 ELSE Cardinality(S) - 1 - 0 + 1
    BY <2>1, FS_Interval
  <2> QED BY <2>2, <1>1
<1>8. rank \in Surjection(S, T)
  BY <1>6, <1>7, FS_Injection
<1>9. \A i \in T : \E p \in S : Place(S, p) = i
  BY <1>8 DEF Surjection
<1> HIDE DEF T
<1> QED BY <1>1, <1>3, <1>4, <1>9 DEF T

(* A set of numbers in order is a sequence of them, each at its rank. *)
LEMMA InOrderIs ==
    ASSUME NEW S \in SUBSET Nat, IsFiniteSet(S)
    PROVE  /\ Cardinality(S) \in Nat
           /\ InOrder(S) \in Seq(S) /\ Len(InOrder(S)) = Cardinality(S)
           /\ \A i \in 1..Cardinality(S) :
                 InOrder(S)[i] \in S /\ Place(S, InOrder(S)[i]) = i - 1
           /\ \A i \in 1..Cardinality(S), p \in S : Place(S, p) = i - 1 => InOrder(S)[i] = p
<1> DEFINE Nth(i) == CHOOSE n \in S : Cardinality({m \in S : m < n}) = i - 1
<1>1. Cardinality(S) \in Nat
  BY Places
<1>2. \A i \in 1..Cardinality(S) : Nth(i) \in S /\ Place(S, Nth(i)) = i - 1
  <2> SUFFICES ASSUME NEW i \in 1..Cardinality(S) PROVE Nth(i) \in S /\ Place(S, Nth(i)) = i - 1
    OBVIOUS
  <2>1. i - 1 \in 0..(Cardinality(S) - 1)
    BY <1>1
  <2>2. \E p \in S : Place(S, p) = i - 1
    BY <2>1, Places
  <2> QED BY <2>2 DEF Place
<1>3. InOrder(S) = [i \in 1..Cardinality(S) |-> Nth(i)]
  BY DEF InOrder
<1> HIDE DEF Nth
<1>4. InOrder(S) \in [1..Cardinality(S) -> S]
  BY <1>2, <1>3
<1>5. InOrder(S) \in Seq(S) /\ Len(InOrder(S)) = Cardinality(S)
  BY <1>1, <1>4, FunctionIsSeq
<1>6. \A i \in 1..Cardinality(S) : InOrder(S)[i] \in S /\ Place(S, InOrder(S)[i]) = i - 1
  BY <1>2, <1>3
<1>7. ASSUME NEW i \in 1..Cardinality(S), NEW p \in S, Place(S, p) = i - 1
      PROVE  InOrder(S)[i] = p
  <2> DEFINE q == InOrder(S)[i]
  <2>1. q \in S /\ Place(S, q) = i - 1
    BY <1>6
  <2> HIDE DEF q
  <2>2. \A r \in S : r \in Nat /\ Place(S, r) \in Int
    BY <1>1, Places
  <2>3. ~(q < p) /\ ~(p < q)
    BY <1>7, <2>1, <2>2, Places
  <2>4. p \in Nat /\ q \in Nat
    BY <2>1, <2>2
  <2>5. q = p
    BY <2>3, <2>4
  <2> QED BY <2>5 DEF q
<1> QED BY <1>1, <1>5, <1>6, <1>7

(* Every number of the set is in the sequence, in its place. *)
LEMMA InOrderSorts ==
    ASSUME NEW S \in SUBSET Nat, IsFiniteSet(S)
    PROVE  /\ ToSet(InOrder(S)) = S
           /\ \A i, j \in 1..Cardinality(S) : i < j => InOrder(S)[i] < InOrder(S)[j]
<1>1. Cardinality(S) \in Nat /\ InOrder(S) \in Seq(S) /\ Len(InOrder(S)) = Cardinality(S)
  BY InOrderIs
<1>2. DOMAIN InOrder(S) = 1..Cardinality(S)
  BY <1>1, LenProperties
<1>3. ASSUME NEW p \in S PROVE p \in ToSet(InOrder(S))
  <2>1. Place(S, p) \in 0..(Cardinality(S) - 1)
    BY Places
  <2> DEFINE i == Place(S, p) + 1
  <2> HIDE DEF i
  <2>3. i \in 1..Cardinality(S) /\ Place(S, p) = i - 1
    BY <1>1, <2>1 DEF i
  <2>4. InOrder(S)[i] = p
    BY <2>3, InOrderIs
  <2> QED BY <1>2, <2>3, <2>4 DEF ToSet
<1>4. \A i \in 1..Cardinality(S) : InOrder(S)[i] \in S
  BY InOrderIs
<1>5. ToSet(InOrder(S)) = S
  BY <1>2, <1>3, <1>4 DEF ToSet
<1>6. ASSUME NEW i \in 1..Cardinality(S), NEW j \in 1..Cardinality(S), i < j
      PROVE  InOrder(S)[i] < InOrder(S)[j]
  <2> DEFINE p == InOrder(S)[i]
             q == InOrder(S)[j]
  <2>1. p \in S /\ q \in S /\ Place(S, p) = i - 1 /\ Place(S, q) = j - 1
    BY InOrderIs
  <2> HIDE DEF p, q
  <2>2. p # q /\ ~(q < p)
    BY <1>1, <1>6, <2>1, Places
  <2>3. p \in Nat /\ q \in Nat
    BY <2>1
  <2>4. p < q
    BY <2>2, <2>3
  <2> QED BY <2>4 DEF p, q
<1> QED BY <1>5, <1>6


-----------------------------------------------------------------------------
(* Loops *)

(* A chunk is one of its prototypes. *)
LEMMA RootIsAPrototype ==
    ASSUME NEW chunk, MaxNesting \in Nat
    PROVE  chunk \in Prototypes(chunk)
<1> DEFINE N == MaxNesting
           Start == {chunk}
           Turn(v, n) == UNION {{p.kids[i] : i \in DOMAIN p.kids} : p \in v}
           IsLoop(f, k) == f = [n \in 0..k |-> IF n = 0 THEN Start ELSE Turn(f[n - 1], n)]
           upTo == CHOOSE f : IsLoop(f, N)
           S == {k \in Nat : \E f : IsLoop(f, k)}
<1>1. Prototypes(chunk) = UNION {upTo[n] : n \in 0..N}
  BY DEF Prototypes
<1>2. 0 \in S
  <2>1. IsLoop([n \in 0..0 |-> Start], 0)
    <3> HIDE DEF Start, Turn
    <3> QED OBVIOUS
  <2> HIDE DEF IsLoop
  <2> QED BY <2>1
<1>3. ASSUME NEW k \in Nat, k \in S PROVE k + 1 \in S
  <2>1. PICK f : IsLoop(f, k)
    BY <1>3
  <2> DEFINE g == [n \in 0..(k + 1) |-> IF n = k + 1 THEN Turn(f[k], k + 1) ELSE f[n]]
  <2>2. \A n \in 0..k : g[n] = f[n] /\ f[n] = IF n = 0 THEN Start ELSE Turn(f[n - 1], n)
    <3> HIDE DEF Start, Turn
    <3> QED BY <2>1
  <2>3. ASSUME NEW n \in 0..(k + 1)
        PROVE  g[n] = IF n = 0 THEN Start ELSE Turn(g[n - 1], n)
    <3> HIDE DEF Start, Turn
    <3>1. CASE n = k + 1
      <4>1. g[n] = Turn(f[k], k + 1) /\ n - 1 = k /\ n # 0 /\ k \in 0..k
        BY <3>1
      <4> HIDE DEF g
      <4> QED BY <2>2, <3>1, <4>1
    <3>2. CASE n # k + 1
      <4>1. n \in 0..k /\ (n # 0 => n - 1 \in 0..k)
        BY <3>2
      <4> HIDE DEF g
      <4> QED BY <2>2, <4>1
    <3> QED BY <3>1, <3>2
  <2>4. IsLoop(g, k + 1)
    <3>1. g = [n \in 0..(k + 1) |-> g[n]]
      OBVIOUS
    <3> HIDE DEF g, Start, Turn
    <3> QED BY <2>3, <3>1
  <2> HIDE DEF IsLoop
  <2> QED BY <2>4
<1>4. N \in S
  <2> HIDE DEF S
  <2> QED BY <1>2, <1>3, Induction
<1>5. IsLoop(upTo, N)
  <2> HIDE DEF IsLoop
  <2> QED BY <1>4
<1> HIDE DEF upTo
<1>6. \A n \in 0..N : upTo[n] = IF n = 0 THEN Start ELSE Turn(upTo[n - 1], n)
  <2> HIDE DEF Start, Turn
  <2> QED BY <1>5
<1>7. 0 \in 0..N
  OBVIOUS
<1>8. upTo[0] = Start
  <2> HIDE DEF Start, Turn
  <2> QED BY <1>6, <1>7
<1>9. chunk \in Start
  OBVIOUS
<1> HIDE DEF Start, Turn
<1> QED BY <1>1, <1>7, <1>8, <1>9

(* The scan goes through the instructions in order. *)
LEMMA ScannedIs ==
    ASSUME NEW proto, NumWords(proto) \in Nat
    PROVE  /\ Scanned(proto)[0] = StartScan(proto)
           /\ \A n \in 0..(NumWords(proto) - 1) :
                 Scanned(proto)[n + 1] =
                    IF n \in Instructions(proto) THEN Admit(Scanned(proto)[n], proto.words[n])
                    ELSE Scanned(proto)[n]
<1> DEFINE N == NumWords(proto)
           Start == StartScan(proto)
           Turn(v, n) == IF n - 1 \in Instructions(proto)
                         THEN Admit(v, proto.words[n - 1]) ELSE v
           IsLoop(f, k) == f = [n \in 0..k |-> IF n = 0 THEN Start ELSE Turn(f[n - 1], n)]
           upTo == CHOOSE f : IsLoop(f, N)
           S == {k \in Nat : \E f : IsLoop(f, k)}
<1>1. Scanned(proto) = upTo
  BY DEF Scanned
<1>2. 0 \in S
  <2>1. IsLoop([n \in 0..0 |-> Start], 0)
    <3> HIDE DEF Start, Turn
    <3> QED OBVIOUS
  <2> HIDE DEF IsLoop
  <2> QED BY <2>1
<1>3. ASSUME NEW k \in Nat, k \in S PROVE k + 1 \in S
  <2>1. PICK f : IsLoop(f, k)
    BY <1>3
  <2> DEFINE g == [n \in 0..(k + 1) |-> IF n = k + 1 THEN Turn(f[k], k + 1) ELSE f[n]]
  <2>2. \A n \in 0..k : g[n] = f[n] /\ f[n] = IF n = 0 THEN Start ELSE Turn(f[n - 1], n)
    <3> HIDE DEF Start, Turn
    <3> QED BY <2>1
  <2>3. ASSUME NEW n \in 0..(k + 1)
        PROVE  g[n] = IF n = 0 THEN Start ELSE Turn(g[n - 1], n)
    <3> HIDE DEF Start, Turn
    <3>1. CASE n = k + 1
      <4>1. g[n] = Turn(f[k], k + 1) /\ n - 1 = k /\ n # 0 /\ k \in 0..k
        BY <3>1
      <4> HIDE DEF g
      <4> QED BY <2>2, <3>1, <4>1
    <3>2. CASE n # k + 1
      <4>1. n \in 0..k /\ (n # 0 => n - 1 \in 0..k)
        BY <3>2
      <4> HIDE DEF g
      <4> QED BY <2>2, <4>1
    <3> QED BY <3>1, <3>2
  <2>4. IsLoop(g, k + 1)
    <3>1. g = [n \in 0..(k + 1) |-> g[n]]
      OBVIOUS
    <3> HIDE DEF g, Start, Turn
    <3> QED BY <2>3, <3>1
  <2> HIDE DEF IsLoop
  <2> QED BY <2>4
<1>4. N \in S
  <2> HIDE DEF S
  <2> QED BY <1>2, <1>3, Induction
<1>5. IsLoop(upTo, N)
  <2> HIDE DEF IsLoop
  <2> QED BY <1>4
<1> HIDE DEF upTo
<1>6. \A n \in 0..N : upTo[n] = IF n = 0 THEN Start ELSE Turn(upTo[n - 1], n)
  <2> HIDE DEF Start, Turn
  <2> QED BY <1>5
<1>7. ASSUME NEW n \in 0..(N - 1)
      PROVE  upTo[n + 1] = IF n \in Instructions(proto) THEN Admit(upTo[n], proto.words[n])
                           ELSE upTo[n]
  <2>1. n + 1 \in 0..N /\ n + 1 # 0 /\ n + 1 - 1 = n
    OBVIOUS
  <2>2. upTo[n + 1] = Turn(upTo[n], n + 1)
    <3> HIDE DEF Turn, Start
    <3> QED BY <1>6, <2>1
  <2> QED BY <2>1, <2>2
<1> QED
  <2> HIDE DEF Turn
  <2> QED BY <1>1, <1>6, <1>7

(* So does the pass over values and stores. *)
LEMMA RootStatesAre ==
    ASSUME NEW proto, NumWords(proto) \in Nat
    PROVE  /\ RootStates(proto)[0] = StartRoot(proto)
           /\ \A n \in 0..(NumWords(proto) - 1) :
                 RootStates(proto)[n + 1] =
                    IF n \in Instructions(proto) THEN RootStep(proto, RootStates(proto)[n], n)
                    ELSE RootStates(proto)[n]
<1> DEFINE N == NumWords(proto)
           Start == StartRoot(proto)
           Turn(v, n) == IF n - 1 \in Instructions(proto) THEN RootStep(proto, v, n - 1) ELSE v
           IsLoop(f, k) == f = [n \in 0..k |-> IF n = 0 THEN Start ELSE Turn(f[n - 1], n)]
           upTo == CHOOSE f : IsLoop(f, N)
           S == {k \in Nat : \E f : IsLoop(f, k)}
<1>1. RootStates(proto) = upTo
  BY DEF RootStates
<1>2. 0 \in S
  <2>1. IsLoop([n \in 0..0 |-> Start], 0)
    <3> HIDE DEF Start, Turn
    <3> QED OBVIOUS
  <2> HIDE DEF IsLoop
  <2> QED BY <2>1
<1>3. ASSUME NEW k \in Nat, k \in S PROVE k + 1 \in S
  <2>1. PICK f : IsLoop(f, k)
    BY <1>3
  <2> DEFINE g == [n \in 0..(k + 1) |-> IF n = k + 1 THEN Turn(f[k], k + 1) ELSE f[n]]
  <2>2. \A n \in 0..k : g[n] = f[n] /\ f[n] = IF n = 0 THEN Start ELSE Turn(f[n - 1], n)
    <3> HIDE DEF Start, Turn
    <3> QED BY <2>1
  <2>3. ASSUME NEW n \in 0..(k + 1)
        PROVE  g[n] = IF n = 0 THEN Start ELSE Turn(g[n - 1], n)
    <3> HIDE DEF Start, Turn
    <3>1. CASE n = k + 1
      <4>1. g[n] = Turn(f[k], k + 1) /\ n - 1 = k /\ n # 0 /\ k \in 0..k
        BY <3>1
      <4> HIDE DEF g
      <4> QED BY <2>2, <3>1, <4>1
    <3>2. CASE n # k + 1
      <4>1. n \in 0..k /\ (n # 0 => n - 1 \in 0..k)
        BY <3>2
      <4> HIDE DEF g
      <4> QED BY <2>2, <4>1
    <3> QED BY <3>1, <3>2
  <2>4. IsLoop(g, k + 1)
    <3>1. g = [n \in 0..(k + 1) |-> g[n]]
      OBVIOUS
    <3> HIDE DEF g, Start, Turn
    <3> QED BY <2>3, <3>1
  <2> HIDE DEF IsLoop
  <2> QED BY <2>4
<1>4. N \in S
  <2> HIDE DEF S
  <2> QED BY <1>2, <1>3, Induction
<1>5. IsLoop(upTo, N)
  <2> HIDE DEF IsLoop
  <2> QED BY <1>4
<1> HIDE DEF upTo
<1>6. \A n \in 0..N : upTo[n] = IF n = 0 THEN Start ELSE Turn(upTo[n - 1], n)
  <2> HIDE DEF Start, Turn
  <2> QED BY <1>5
<1>7. ASSUME NEW n \in 0..(N - 1)
      PROVE  upTo[n + 1] = IF n \in Instructions(proto) THEN RootStep(proto, upTo[n], n)
                           ELSE upTo[n]
  <2>1. n + 1 \in 0..N /\ n + 1 # 0 /\ n + 1 - 1 = n
    OBVIOUS
  <2>2. upTo[n + 1] = Turn(upTo[n], n + 1)
    <3> HIDE DEF Turn, Start
    <3> QED BY <1>6, <2>1
  <2> QED BY <2>1, <2>2
<1> QED
  <2> HIDE DEF Turn
  <2> QED BY <1>1, <1>6, <1>7

IndexesStores(f, into, identity, chunk, segments, max) ==
    LET last == LastStores(RootStores(chunk))
    IN  /\ f[0] = into
        /\ \A n \in 1..Len(last) :
              f[n] = IndexStore(f[n - 1], identity, segments, last[n], max)
        /\ IndexStrict(into, identity, chunk, segments, max) = f[Len(last)]

(* The stores of a root are indexed one after the other. *)
LEMMA IndexStrictIs ==
    ASSUME NEW into, NEW identity, NEW chunk, NEW segments, NEW max,
           Len(LastStores(RootStores(chunk))) \in Nat
    PROVE  \E f : IndexesStores(f, into, identity, chunk, segments, max)
<1> DEFINE N == Len(LastStores(RootStores(chunk)))
           Start == into
           Turn(v, n) == IndexStore(v, identity, segments, LastStores(RootStores(chunk))[n], max)
           IsLoop(f, k) == f = [n \in 0..k |-> IF n = 0 THEN Start ELSE Turn(f[n - 1], n)]
           upTo == CHOOSE f : IsLoop(f, N)
           S == {k \in Nat : \E f : IsLoop(f, k)}
<1>1. IndexStrict(into, identity, chunk, segments, max) = upTo[N]
  BY DEF IndexStrict
<1>2. 0 \in S
  <2>1. IsLoop([n \in 0..0 |-> Start], 0)
    <3> HIDE DEF Start, Turn
    <3> QED OBVIOUS
  <2> HIDE DEF IsLoop
  <2> QED BY <2>1
<1>3. ASSUME NEW k \in Nat, k \in S PROVE k + 1 \in S
  <2>1. PICK f : IsLoop(f, k)
    BY <1>3
  <2> DEFINE g == [n \in 0..(k + 1) |-> IF n = k + 1 THEN Turn(f[k], k + 1) ELSE f[n]]
  <2>2. \A n \in 0..k : g[n] = f[n] /\ f[n] = IF n = 0 THEN Start ELSE Turn(f[n - 1], n)
    <3> HIDE DEF Start, Turn
    <3> QED BY <2>1
  <2>3. ASSUME NEW n \in 0..(k + 1)
        PROVE  g[n] = IF n = 0 THEN Start ELSE Turn(g[n - 1], n)
    <3> HIDE DEF Start, Turn
    <3>1. CASE n = k + 1
      <4>1. g[n] = Turn(f[k], k + 1) /\ n - 1 = k /\ n # 0 /\ k \in 0..k
        BY <3>1
      <4> HIDE DEF g
      <4> QED BY <2>2, <3>1, <4>1
    <3>2. CASE n # k + 1
      <4>1. n \in 0..k /\ (n # 0 => n - 1 \in 0..k)
        BY <3>2
      <4> HIDE DEF g
      <4> QED BY <2>2, <4>1
    <3> QED BY <3>1, <3>2
  <2>4. IsLoop(g, k + 1)
    <3>1. g = [n \in 0..(k + 1) |-> g[n]]
      OBVIOUS
    <3> HIDE DEF g, Start, Turn
    <3> QED BY <2>3, <3>1
  <2> HIDE DEF IsLoop
  <2> QED BY <2>4
<1>4. N \in S
  <2> HIDE DEF S
  <2> QED BY <1>2, <1>3, Induction
<1>5. IsLoop(upTo, N)
  <2> HIDE DEF IsLoop
  <2> QED BY <1>4
<1> HIDE DEF upTo
<1>6. \A n \in 0..N : upTo[n] = IF n = 0 THEN Start ELSE Turn(upTo[n - 1], n)
  <2> HIDE DEF Start, Turn
  <2> QED BY <1>5
<1>7. upTo[0] = Start /\ \A n \in 1..N : upTo[n] = Turn(upTo[n - 1], n)
  <2>1. \A n \in 1..N : n \in 0..N /\ n # 0
    OBVIOUS
  <2> HIDE DEF Turn, Start
  <2> QED BY <1>6, <2>1
<1> QED BY <1>1, <1>7 DEF IndexesStores

InsertsMarks(f, into, labels, max) ==
    /\ f[0] = into
    /\ \A n \in 1..Len(labels) : f[n] = InsertMark(f[n - 1], labels[n], max)
    /\ IndexMarks(into, labels, max) = f[Len(labels)]

(* The marks of a trusted root come one after the other. *)
LEMMA IndexMarksAre ==
    ASSUME NEW into, NEW labels, NEW max, Len(labels) \in Nat
    PROVE  \E f : InsertsMarks(f, into, labels, max)
<1> DEFINE N == Len(labels)
           Start == into
           Turn(v, n) == InsertMark(v, labels[n], max)
           IsLoop(f, k) == f = [n \in 0..k |-> IF n = 0 THEN Start ELSE Turn(f[n - 1], n)]
           upTo == CHOOSE f : IsLoop(f, N)
           S == {k \in Nat : \E f : IsLoop(f, k)}
<1>1. IndexMarks(into, labels, max) = upTo[N]
  BY DEF IndexMarks
<1>2. 0 \in S
  <2>1. IsLoop([n \in 0..0 |-> Start], 0)
    <3> HIDE DEF Start, Turn
    <3> QED OBVIOUS
  <2> HIDE DEF IsLoop
  <2> QED BY <2>1
<1>3. ASSUME NEW k \in Nat, k \in S PROVE k + 1 \in S
  <2>1. PICK f : IsLoop(f, k)
    BY <1>3
  <2> DEFINE g == [n \in 0..(k + 1) |-> IF n = k + 1 THEN Turn(f[k], k + 1) ELSE f[n]]
  <2>2. \A n \in 0..k : g[n] = f[n] /\ f[n] = IF n = 0 THEN Start ELSE Turn(f[n - 1], n)
    <3> HIDE DEF Start, Turn
    <3> QED BY <2>1
  <2>3. ASSUME NEW n \in 0..(k + 1)
        PROVE  g[n] = IF n = 0 THEN Start ELSE Turn(g[n - 1], n)
    <3> HIDE DEF Start, Turn
    <3>1. CASE n = k + 1
      <4>1. g[n] = Turn(f[k], k + 1) /\ n - 1 = k /\ n # 0 /\ k \in 0..k
        BY <3>1
      <4> HIDE DEF g
      <4> QED BY <2>2, <3>1, <4>1
    <3>2. CASE n # k + 1
      <4>1. n \in 0..k /\ (n # 0 => n - 1 \in 0..k)
        BY <3>2
      <4> HIDE DEF g
      <4> QED BY <2>2, <4>1
    <3> QED BY <3>1, <3>2
  <2>4. IsLoop(g, k + 1)
    <3>1. g = [n \in 0..(k + 1) |-> g[n]]
      OBVIOUS
    <3> HIDE DEF g, Start, Turn
    <3> QED BY <2>3, <3>1
  <2> HIDE DEF IsLoop
  <2> QED BY <2>4
<1>4. N \in S
  <2> HIDE DEF S
  <2> QED BY <1>2, <1>3, Induction
<1>5. IsLoop(upTo, N)
  <2> HIDE DEF IsLoop
  <2> QED BY <1>4
<1> HIDE DEF upTo
<1>6. \A n \in 0..N : upTo[n] = IF n = 0 THEN Start ELSE Turn(upTo[n - 1], n)
  <2> HIDE DEF Start, Turn
  <2> QED BY <1>5
<1>7. upTo[0] = Start /\ \A n \in 1..N : upTo[n] = Turn(upTo[n - 1], n)
  <2>1. \A n \in 1..N : n \in 0..N /\ n # 0
    OBVIOUS
  <2> HIDE DEF Turn, Start
  <2> QED BY <1>6, <2>1
<1> QED BY <1>1, <1>7 DEF InsertsMarks

InsertsExports(f, into, identity, module, max) ==
    /\ f[0] = into
    /\ \A n \in 1..Len(module.exports) : \E d : f[n] = Insert(f[n - 1], d, max)
    /\ IndexExports(into, identity, module, max) = f[Len(module.exports)]

(* So do its exports. *)
LEMMA IndexExportsAre ==
    ASSUME NEW into, NEW identity, NEW module, NEW max, Len(module.exports) \in Nat
    PROVE  \E f : InsertsExports(f, into, identity, module, max)
<1> DEFINE N == Len(module.exports)
           Start == into
           Turn(v, n) == Insert(v, Definition(identity, Append(module.segments, module.exports[n].name),
                                              module.exports[n].value.kind.prototype), max)
           IsLoop(f, k) == f = [n \in 0..k |-> IF n = 0 THEN Start ELSE Turn(f[n - 1], n)]
           upTo == CHOOSE f : IsLoop(f, N)
           S == {k \in Nat : \E f : IsLoop(f, k)}
<1>1. IndexExports(into, identity, module, max) = upTo[N]
  BY DEF IndexExports
<1>2. 0 \in S
  <2>1. IsLoop([n \in 0..0 |-> Start], 0)
    <3> HIDE DEF Start, Turn
    <3> QED OBVIOUS
  <2> HIDE DEF IsLoop
  <2> QED BY <2>1
<1>3. ASSUME NEW k \in Nat, k \in S PROVE k + 1 \in S
  <2>1. PICK f : IsLoop(f, k)
    BY <1>3
  <2> DEFINE g == [n \in 0..(k + 1) |-> IF n = k + 1 THEN Turn(f[k], k + 1) ELSE f[n]]
  <2>2. \A n \in 0..k : g[n] = f[n] /\ f[n] = IF n = 0 THEN Start ELSE Turn(f[n - 1], n)
    <3> HIDE DEF Start, Turn
    <3> QED BY <2>1
  <2>3. ASSUME NEW n \in 0..(k + 1)
        PROVE  g[n] = IF n = 0 THEN Start ELSE Turn(g[n - 1], n)
    <3> HIDE DEF Start, Turn
    <3>1. CASE n = k + 1
      <4>1. g[n] = Turn(f[k], k + 1) /\ n - 1 = k /\ n # 0 /\ k \in 0..k
        BY <3>1
      <4> HIDE DEF g
      <4> QED BY <2>2, <3>1, <4>1
    <3>2. CASE n # k + 1
      <4>1. n \in 0..k /\ (n # 0 => n - 1 \in 0..k)
        BY <3>2
      <4> HIDE DEF g
      <4> QED BY <2>2, <4>1
    <3> QED BY <3>1, <3>2
  <2>4. IsLoop(g, k + 1)
    <3>1. g = [n \in 0..(k + 1) |-> g[n]]
      OBVIOUS
    <3> HIDE DEF g, Start, Turn
    <3> QED BY <2>3, <3>1
  <2> HIDE DEF IsLoop
  <2> QED BY <2>4
<1>4. N \in S
  <2> HIDE DEF S
  <2> QED BY <1>2, <1>3, Induction
<1>5. IsLoop(upTo, N)
  <2> HIDE DEF IsLoop
  <2> QED BY <1>4
<1> HIDE DEF upTo
<1>6. \A n \in 0..N : upTo[n] = IF n = 0 THEN Start ELSE Turn(upTo[n - 1], n)
  <2> HIDE DEF Start, Turn
  <2> QED BY <1>5
<1>7. upTo[0] = Start /\ \A n \in 1..N : upTo[n] = Turn(upTo[n - 1], n)
  <2>1. \A n \in 1..N : n \in 0..N /\ n # 0
    OBVIOUS
  <2> HIDE DEF Turn, Start
  <2> QED BY <1>6, <2>1
<1> QED BY <1>1, <1>7 DEF InsertsExports

IndexesFiles(f, max) ==
    /\ f[0] = EmptyIndex
    /\ \A n \in 1..Len(corpus.files) :
          f[n] = IndexChunk(f[n - 1], Identity(corpus.files[n]), corpus.files[n].chunk,
                            corpus.convention, max)
    /\ BuildIndex(max) = f[Len(corpus.files)]

(* So are the files of a corpus. *)
LEMMA BuildIndexIs ==
    ASSUME NEW max, Len(corpus.files) \in Nat
    PROVE  \E f : IndexesFiles(f, max)
<1> DEFINE N == Len(corpus.files)
           Start == EmptyIndex
           Turn(v, n) == IndexChunk(v, Identity(corpus.files[n]), corpus.files[n].chunk,
                                    corpus.convention, max)
           IsLoop(f, k) == f = [n \in 0..k |-> IF n = 0 THEN Start ELSE Turn(f[n - 1], n)]
           upTo == CHOOSE f : IsLoop(f, N)
           S == {k \in Nat : \E f : IsLoop(f, k)}
<1>1. BuildIndex(max) = upTo[N]
  BY DEF BuildIndex
<1>2. 0 \in S
  <2>1. IsLoop([n \in 0..0 |-> Start], 0)
    <3> HIDE DEF Start, Turn
    <3> QED OBVIOUS
  <2> HIDE DEF IsLoop
  <2> QED BY <2>1
<1>3. ASSUME NEW k \in Nat, k \in S PROVE k + 1 \in S
  <2>1. PICK f : IsLoop(f, k)
    BY <1>3
  <2> DEFINE g == [n \in 0..(k + 1) |-> IF n = k + 1 THEN Turn(f[k], k + 1) ELSE f[n]]
  <2>2. \A n \in 0..k : g[n] = f[n] /\ f[n] = IF n = 0 THEN Start ELSE Turn(f[n - 1], n)
    <3> HIDE DEF Start, Turn
    <3> QED BY <2>1
  <2>3. ASSUME NEW n \in 0..(k + 1)
        PROVE  g[n] = IF n = 0 THEN Start ELSE Turn(g[n - 1], n)
    <3> HIDE DEF Start, Turn
    <3>1. CASE n = k + 1
      <4>1. g[n] = Turn(f[k], k + 1) /\ n - 1 = k /\ n # 0 /\ k \in 0..k
        BY <3>1
      <4> HIDE DEF g
      <4> QED BY <2>2, <3>1, <4>1
    <3>2. CASE n # k + 1
      <4>1. n \in 0..k /\ (n # 0 => n - 1 \in 0..k)
        BY <3>2
      <4> HIDE DEF g
      <4> QED BY <2>2, <4>1
    <3> QED BY <3>1, <3>2
  <2>4. IsLoop(g, k + 1)
    <3>1. g = [n \in 0..(k + 1) |-> g[n]]
      OBVIOUS
    <3> HIDE DEF g, Start, Turn
    <3> QED BY <2>3, <3>1
  <2> HIDE DEF IsLoop
  <2> QED BY <2>4
<1>4. N \in S
  <2> HIDE DEF S
  <2> QED BY <1>2, <1>3, Induction
<1>5. IsLoop(upTo, N)
  <2> HIDE DEF IsLoop
  <2> QED BY <1>4
<1> HIDE DEF upTo
<1>6. \A n \in 0..N : upTo[n] = IF n = 0 THEN Start ELSE Turn(upTo[n - 1], n)
  <2> HIDE DEF Start, Turn
  <2> QED BY <1>5
<1>7. upTo[0] = Start /\ \A n \in 1..N : upTo[n] = Turn(upTo[n - 1], n)
  <2>1. \A n \in 1..N : n \in 0..N /\ n # 0
    OBVIOUS
  <2> HIDE DEF Turn, Start
  <2> QED BY <1>6, <2>1
<1> QED BY <1>1, <1>7 DEF IndexesFiles

-----------------------------------------------------------------------------
(* The scan of a root *)

IsScan(proto, s) ==
    /\ DOMAIN s = {"tokens", "steps", "loads", "uses", "segments", "verdict"}
    /\ DOMAIN s.tokens = Registers(proto) /\ DOMAIN s.steps = Registers(proto)
    /\ s.verdict \in {"open", "returned", "dynamic", "limited"}

IsOver(s) == s.verdict \in {"dynamic", "limited"}

(* Some registers have a new token, and no module is declared. *)
Held(proto, s, t, changed, token) ==
    /\ IsScan(proto, t)
    /\ t.segments = s.segments
    /\ \A r \in Registers(proto) :
          t.tokens[r] = IF r \in changed THEN token ELSE s.tokens[r]

(* What an instruction does to a scan that goes on *)
AdmittedAs(proto, s, w, t) ==
    \/ w.op = "GETGLOBAL" /\ Held(proto, s, t, {w.a}, GlobalToken(w.k))
    \/ /\ w.op = "LOADK"
       /\ Held(proto, s, t, {w.a}, IF w.k \in Strings THEN LiteralToken(w.k) ELSE Other)
    \/ /\ w.op = "GETTABLE" /\ s.tokens[w.b] = Token("package") /\ w.k = "seeall"
       /\ Held(proto, s, t, {w.a}, Token("seeall"))
    \/ /\ w.op = "CALL" /\ IsDeclaration(s, w)
       /\ ~Contains(NameParts[s.tokens[w.a + 1].name], NoPart)
       /\ IsScan(proto, t)
       /\ t.segments = NameParts[s.tokens[w.a + 1].name]
       /\ \A r \in Registers(proto) :
             t.tokens[r] = IF r >= w.a THEN Other ELSE s.tokens[r]
    \/ w.op = "SETGLOBAL" /\ Declared(s) /\ w.k \in Selectors /\ Held(proto, s, t, {}, Other)
    \/ w.op = "LOADBOOL" /\ w.c = 0 /\ Held(proto, s, t, {w.a}, Other)
    \/ w.op = "LOADNIL" /\ w.b >= w.a /\ Held(proto, s, t, w.a..w.b, Other)
    \/ w.op \in {"MOVE", "CLOSURE"} /\ Held(proto, s, t, {w.a}, Other)
    \/ w.op = "RETURN" /\ t.verdict = "returned" /\ Held(proto, s, t, {}, Other)

LEMMA HoldIs ==
    ASSUME NEW proto, NEW s, IsScan(proto, s), NEW changed, NEW token, NEW n
    PROVE  /\ Held(proto, s, Hold(s, changed, token, n), changed, token)
           /\ Hold(s, changed, token, n).verdict = s.verdict
BY DEF IsScan, Held, Hold

LEMMA VerdictsAre ==
    ASSUME NEW proto, NEW s, IsScan(proto, s)
    PROVE  /\ IsScan(proto, Refuse(s)) /\ IsOver(Refuse(s))
           /\ IsScan(proto, Limit(s)) /\ IsOver(Limit(s))
BY DEF IsScan, IsOver, Refuse, Limit

(* An instruction the scan has paid for is admitted, or ends it. *)
LEMMA AdmitWordIs ==
    ASSUME NEW proto, NEW s, IsScan(proto, s), s.verdict = "open", NEW w
    PROVE  /\ IsScan(proto, AdmitWord(s, w))
           /\ \/ IsOver(AdmitWord(s, w))
              \/ AdmittedAs(proto, s, w, AdmitWord(s, w))
<1> DEFINE t == AdmitWord(s, w)
           Goal(u) == IsScan(proto, u) /\ (IsOver(u) \/ AdmittedAs(proto, s, w, u))
<1> SUFFICES Goal(t)
  OBVIOUS
<1>1. IsScan(proto, Refuse(s)) /\ IsOver(Refuse(s)) /\ IsScan(proto, Limit(s)) /\ IsOver(Limit(s))
  BY VerdictsAre
<1>2. Goal(Refuse(s)) /\ Goal(Limit(s))
  BY <1>1
<1>3. \A changed, token, n :
        Held(proto, s, Hold(s, changed, token, n), changed, token)
        /\ IsScan(proto, Hold(s, changed, token, n))
  BY HoldIs DEF Held
<1>4. CASE w.op = "GETGLOBAL"
  <2>1. t = AdmitGetGlobal(s, w)
    BY <1>4 DEF AdmitWord
  <2> DEFINE held == Hold(s, {w.a}, GlobalToken(w.k), 1)
             loaded == [held EXCEPT !.loads = 1]
  <2>2. Held(proto, s, held, {w.a}, GlobalToken(w.k))
    BY <1>3
  <2>3. Held(proto, s, loaded, {w.a}, GlobalToken(w.k))
    <3> HIDE DEF held
    <3> QED BY <2>2 DEF Held, IsScan
  <2>4. Goal(held) /\ Goal(loaded)
    <3> HIDE DEF held, loaded
    <3> QED BY <1>4, <2>2, <2>3 DEF Held, AdmittedAs
  <2>5. t \in {held, loaded, Refuse(s)}
    BY <2>1 DEF AdmitGetGlobal
  <2> HIDE DEF t, held, loaded, Goal
  <2> QED BY <1>2, <2>4, <2>5
<1>5. CASE w.op = "LOADK"
  <2>1. t = AdmitLoadK(s, w)
    BY <1>5 DEF AdmitWord
  <2> QED BY <1>3, <1>5, <2>1 DEF AdmitLoadK, AdmittedAs
<1>6. CASE w.op = "GETTABLE"
  <2>1. t = AdmitGetTable(s, w)
    BY <1>6 DEF AdmitWord
  <2>2. CASE s.tokens[w.b] = Token("package") /\ w.k = "seeall" /\ ~Declared(s)
    BY <1>3, <1>6, <2>1, <2>2 DEF AdmitGetTable, AdmittedAs
  <2>3. CASE ~(s.tokens[w.b] = Token("package") /\ w.k = "seeall" /\ ~Declared(s))
    BY <1>2, <2>1, <2>3 DEF AdmitGetTable
  <2> QED BY <2>2, <2>3
<1>7. CASE w.op = "CALL"
  <2>1. t = AdmitCall(s, w)
    BY <1>7 DEF AdmitWord
  <2> DEFINE parts == NameParts[s.tokens[w.a + 1].name]
             held == Hold(s, {r \in DOMAIN s.tokens : r >= w.a}, Other, 0)
             declared == [held EXCEPT !.segments = parts]
  <2>2. CASE ~IsDeclaration(s, w) \/ Len(parts) >= MaxPathSegments \/ Contains(parts, NoPart)
    <3>1. t \in {Refuse(s), Limit(s)}
      BY <2>1, <2>2 DEF AdmitCall
    <3> HIDE DEF t, Goal
    <3> QED BY <1>2, <3>1
  <2>3. CASE ~(~IsDeclaration(s, w) \/ Len(parts) >= MaxPathSegments \/ Contains(parts, NoPart))
    <3>1. t = declared
      BY <2>1, <2>3 DEF AdmitCall
    <3>2. Held(proto, s, held, {r \in DOMAIN s.tokens : r >= w.a}, Other)
      BY <1>3
    <3>3. DOMAIN s.tokens = Registers(proto)
      BY DEF IsScan
    <3>4. IsScan(proto, declared) /\ declared.segments = parts
          /\ \A r \in Registers(proto) :
                declared.tokens[r] = IF r >= w.a THEN Other ELSE s.tokens[r]
      <4> HIDE DEF held, parts
      <4> QED BY <3>2, <3>3 DEF Held, IsScan
    <3> HIDE DEF declared, t
    <3> QED BY <1>7, <2>3, <3>1, <3>4 DEF AdmittedAs
  <2> QED BY <2>2, <2>3
<1>8. Held(proto, s, s, {}, Other)
  BY DEF Held
<1>9. CASE w.op = "SETGLOBAL"
  <2>1. CASE Declared(s) /\ w.k \in Selectors
    <3>1. t = s
      BY <1>9, <2>1 DEF AdmitWord
    <3> QED BY <1>8, <1>9, <2>1, <3>1 DEF AdmittedAs
  <2>2. CASE ~(Declared(s) /\ w.k \in Selectors)
    <3>1. t = Refuse(s)
      BY <1>9, <2>2 DEF AdmitWord
    <3> QED BY <1>2, <3>1
  <2> QED BY <2>1, <2>2
<1>10. CASE w.op = "LOADBOOL"
  <2>1. CASE w.c = 0
    <3>1. t = Hold(s, {w.a}, Other, 1)
      BY <1>10, <2>1 DEF AdmitWord
    <3> QED BY <1>3, <1>10, <2>1, <3>1 DEF AdmittedAs
  <2>2. CASE w.c # 0
    <3>1. t = Refuse(s)
      BY <1>10, <2>2 DEF AdmitWord
    <3> QED BY <1>2, <3>1
  <2> QED BY <2>1, <2>2
<1>11. CASE w.op = "LOADNIL"
  <2>1. CASE w.b >= w.a
    <3>1. t = Hold(s, w.a..w.b, Other, 1)
      BY <1>11, <2>1 DEF AdmitWord
    <3> QED BY <1>3, <1>11, <2>1, <3>1 DEF AdmittedAs
  <2>2. CASE ~(w.b >= w.a)
    <3>1. t = Refuse(s)
      BY <1>11, <2>2 DEF AdmitWord
    <3> QED BY <1>2, <3>1
  <2> QED BY <2>1, <2>2
<1>12. CASE w.op = "MOVE"
  <2>1. t = AdmitMove(s, w)
    BY <1>12 DEF AdmitWord
  <2>2. CASE s.steps[w.b] + 1 > MaxModuleInitAliasSteps
    BY <1>2, <2>1, <2>2 DEF AdmitMove
  <2>3. CASE ~(s.steps[w.b] + 1 > MaxModuleInitAliasSteps)
    BY <1>3, <1>12, <2>1, <2>3 DEF AdmitMove, AdmittedAs
  <2> QED BY <2>2, <2>3
<1>13. CASE w.op = "CLOSURE"
  <2>1. t = Hold(s, {w.a}, Other, 1)
    BY <1>13 DEF AdmitWord
  <2> QED BY <1>3, <1>13, <2>1 DEF AdmittedAs
<1>14. CASE w.op = "RETURN"
  <2>1. CASE w.b = 1
    <3>1. t = [s EXCEPT !.verdict = "returned"]
      BY <1>14, <2>1 DEF AdmitWord
    <3>2. t.verdict = "returned" /\ Held(proto, s, t, {}, Other)
      BY <3>1 DEF Held, IsScan
    <3> HIDE DEF t
    <3> QED BY <1>14, <3>2 DEF AdmittedAs, Held
  <2>2. CASE w.b # 1
    <3>1. t = Refuse(s)
      BY <1>14, <2>2 DEF AdmitWord
    <3> QED BY <1>2, <3>1
  <2> QED BY <2>1, <2>2
<1>15. CASE w.op \notin {"GETGLOBAL", "LOADK", "GETTABLE", "CALL", "SETGLOBAL", "LOADBOOL",
                         "LOADNIL", "MOVE", "CLOSURE", "RETURN"}
  <2>1. t = Refuse(s)
    BY <1>15 DEF AdmitWord
  <2> QED BY <1>2, <2>1
<1> QED BY <1>4, <1>5, <1>6, <1>7, <1>9, <1>10, <1>11, <1>12, <1>13, <1>14, <1>15

(* So is one that has to be paid for. *)
LEMMA AdmitIs ==
    ASSUME NEW proto, NEW s, IsScan(proto, s), NEW w
    PROVE  /\ IsScan(proto, Admit(s, w))
           /\ s.verdict # "open" => IsOver(Admit(s, w))
           /\ s.verdict = "open" =>
                 IsOver(Admit(s, w)) \/ AdmittedAs(proto, s, w, Admit(s, w))
<1>1. IsScan(proto, Refuse(s)) /\ IsOver(Refuse(s)) /\ IsScan(proto, Limit(s)) /\ IsOver(Limit(s))
  BY VerdictsAre
<1>2. CASE s.verdict = "returned"
  <2>1. Admit(s, w) = Refuse(s)
    BY <1>2 DEF Admit
  <2> QED BY <1>1, <1>2, <2>1
<1>3. CASE s.verdict \in {"dynamic", "limited"}
  <2>1. Admit(s, w) = s
    BY <1>3 DEF Admit
  <2> QED BY <1>3, <2>1 DEF IsOver
<1>4. CASE s.verdict = "open"
  <2> DEFINE paid == Charge(s, w)
             used == [s EXCEPT !.uses = @ + 1]
  <2>1. Admit(s, w) = AdmitCharged(paid, w)
    BY <1>4 DEF Admit
  <2>2. paid \in {s, used, Limit(s)}
    BY DEF Charge
  <2>3. CASE paid = Limit(s)
    <3>1. AdmitCharged(paid, w) = paid
      BY <1>1, <2>3 DEF AdmitCharged, IsOver
    <3> QED BY <1>1, <1>4, <2>1, <2>3, <3>1
  <2>4. CASE paid \in {s, used}
    <3>1. /\ IsScan(proto, paid) /\ paid.verdict = "open" /\ paid.tokens = s.tokens
          /\ paid.segments = s.segments
      <4>1. CASE paid = s
        BY <1>4, <4>1
      <4>2. CASE paid = used
        BY <1>4, <4>2 DEF IsScan
      <4> QED BY <2>4, <4>1, <4>2
    <3> HIDE DEF paid
    <3>2. Admit(s, w) = AdmitWord(paid, w)
      BY <2>1, <3>1 DEF AdmitCharged
    <3>3. /\ IsScan(proto, AdmitWord(paid, w))
          /\ IsOver(AdmitWord(paid, w)) \/ AdmittedAs(proto, paid, w, AdmitWord(paid, w))
      BY <3>1, AdmitWordIs
    <3>4. ASSUME NEW t, AdmittedAs(proto, paid, w, t) PROVE AdmittedAs(proto, s, w, t)
      <4>1. /\ \A changed, token : Held(proto, paid, t, changed, token)
                                   => Held(proto, s, t, changed, token)
        BY <3>1 DEF Held
      <4>2. IsDeclaration(paid, w) => IsDeclaration(s, w)
        BY <3>1 DEF IsDeclaration, Declared
      <4>3. Declared(paid) => Declared(s)
        BY <3>1 DEF Declared
      <4>4. CASE w.op # "CALL"
        BY <3>1, <3>4, <4>1, <4>3, <4>4 DEF AdmittedAs
      <4>5. CASE w.op = "CALL"
        BY <3>1, <3>4, <4>2, <4>5 DEF AdmittedAs
      <4> QED BY <4>4, <4>5
    <3> QED BY <1>4, <3>2, <3>3, <3>4
  <2> QED BY <2>2, <2>3, <2>4
<1> QED BY <1>2, <1>3, <1>4 DEF IsScan

Is51(proto) == IsPrototype(proto) /\ proto.dialect = "5.1" /\ Accepted(proto)

(* What an accepted root of Lua 5.1 looks like *)
LEMMA RootIs ==
    ASSUME NEW proto, Is51(proto)
    PROVE  /\ NumWords(proto) \in Nat /\ Pcs(proto) = 0..(NumWords(proto) - 1)
           /\ Instructions(proto) \subseteq Pcs(proto) /\ 0 \in Instructions(proto)
           /\ Instructions(proto) = Executable(proto)
           /\ \A pc \in Instructions(proto) :
                 WordErrors(proto, Instructions(proto), pc) = {}
<1>1. Instructions(proto) = Executable(proto)
  BY DEF Is51, Executable
<1>2. Executable(proto) \subseteq Pcs(proto) /\ 0 \in Executable(proto)
  BY ExecutableAreWords DEF Is51
<1> QED BY <1>1, <1>2 DEF Is51, IsPrototype, Accepted, ValidForParser

(* Every state of the scan is one. *)
LEMMA ScansAre ==
    ASSUME NEW proto, Is51(proto), NEW n \in 0..NumWords(proto)
    PROVE  IsScan(proto, Scanned(proto)[n])
<1> DEFINE S == {k \in Nat : k <= NumWords(proto) => IsScan(proto, Scanned(proto)[k])}
<1>1. NumWords(proto) \in Nat
  BY RootIs
<1>2. 0 \in S
  <2>1. Scanned(proto)[0] = StartScan(proto)
    BY <1>1, ScannedIs
  <2> QED BY <2>1 DEF StartScan, IsScan
<1>3. ASSUME NEW k \in Nat, k \in S PROVE k + 1 \in S
  <2> SUFFICES ASSUME k + 1 <= NumWords(proto) PROVE IsScan(proto, Scanned(proto)[k + 1])
    OBVIOUS
  <2>1. k \in 0..(NumWords(proto) - 1) /\ IsScan(proto, Scanned(proto)[k])
    BY <1>1, <1>3
  <2>2. Scanned(proto)[k + 1] \in {Admit(Scanned(proto)[k], proto.words[k]), Scanned(proto)[k]}
    BY <1>1, <2>1, ScannedIs
  <2>3. IsScan(proto, Admit(Scanned(proto)[k], proto.words[k]))
    BY <2>1, AdmitIs
  <2> QED BY <2>1, <2>2, <2>3
<1>4. n \in S
  <2> HIDE DEF S
  <2> QED BY <1>1, <1>2, <1>3, Induction
<1> QED BY <1>1, <1>4

(* A scan that is over stays so. *)
LEMMA OverIsOver ==
    ASSUME NEW proto, Is51(proto), NEW n \in 0..NumWords(proto), IsOver(Scanned(proto)[n])
    PROVE  IsOver(Scan(proto))
<1> DEFINE S == {k \in Nat : n <= k /\ k <= NumWords(proto) => IsOver(Scanned(proto)[k])}
<1>1. NumWords(proto) \in Nat
  BY RootIs
<1>2. 0 \in S
  <2>1. n <= 0 => n = 0
    BY <1>1
  <2> QED BY <2>1
<1>3. ASSUME NEW k \in Nat, k \in S PROVE k + 1 \in S
  <2> SUFFICES ASSUME n <= k + 1, k + 1 <= NumWords(proto) PROVE IsOver(Scanned(proto)[k + 1])
    OBVIOUS
  <2>1. CASE n = k + 1
    BY <2>1
  <2>2. CASE n # k + 1
    <3>1. k \in 0..(NumWords(proto) - 1) /\ k \in 0..NumWords(proto) /\ IsOver(Scanned(proto)[k])
      BY <1>1, <1>3, <2>2
    <3>2. Scanned(proto)[k + 1] \in {Admit(Scanned(proto)[k], proto.words[k]), Scanned(proto)[k]}
      BY <1>1, <3>1, ScannedIs
    <3>3. IsOver(Admit(Scanned(proto)[k], proto.words[k]))
      <4>1. IsScan(proto, Scanned(proto)[k])
        BY <3>1, ScansAre
      <4>2. Scanned(proto)[k].verdict # "open"
        BY <3>1 DEF IsOver
      <4> QED BY <4>1, <4>2, AdmitIs
    <3> QED BY <3>1, <3>2, <3>3
  <2> QED BY <2>1, <2>2
<1>4. NumWords(proto) \in S
  <2> HIDE DEF S
  <2> QED BY <1>1, <1>2, <1>3, Induction
<1> QED BY <1>1, <1>4 DEF Scan

(* Where no instruction starts nothing changes. *)
LEMMA NothingBetween ==
    ASSUME NEW proto, Is51(proto), NEW n \in 0..NumWords(proto), NEW m \in n..NumWords(proto),
           \A pc \in Instructions(proto) : ~(n <= pc /\ pc < m)
    PROVE  /\ Scanned(proto)[m] = Scanned(proto)[n]
           /\ RootStates(proto)[m] = RootStates(proto)[n]
<1> DEFINE S == {k \in Nat : n <= k /\ k <= m =>
                    /\ Scanned(proto)[k] = Scanned(proto)[n]
                    /\ RootStates(proto)[k] = RootStates(proto)[n]}
<1>1. NumWords(proto) \in Nat
  BY RootIs
<1>2. 0 \in S
  <2>1. n <= 0 => n = 0
    BY <1>1
  <2> QED BY <2>1
<1>3. ASSUME NEW k \in Nat, k \in S PROVE k + 1 \in S
  <2> SUFFICES ASSUME n <= k + 1, k + 1 <= m
               PROVE  /\ Scanned(proto)[k + 1] = Scanned(proto)[n]
                      /\ RootStates(proto)[k + 1] = RootStates(proto)[n]
    OBVIOUS
  <2>1. CASE n = k + 1
    BY <2>1
  <2>2. CASE n # k + 1
    <3>1. /\ k \in 0..(NumWords(proto) - 1)
          /\ Scanned(proto)[k] = Scanned(proto)[n] /\ RootStates(proto)[k] = RootStates(proto)[n]
          /\ k \notin Instructions(proto)
      BY <1>1, <1>3, <2>2
    <3>2. Scanned(proto)[k + 1] = Scanned(proto)[k]
      BY <1>1, <3>1, ScannedIs
    <3>3. RootStates(proto)[k + 1] = RootStates(proto)[k]
      BY <1>1, <3>1, RootStatesAre
    <3> QED BY <3>1, <3>2, <3>3
  <2> QED BY <2>1, <2>2
<1>4. m \in S
  <2>1. m \in Nat
    BY <1>1
  <2> HIDE DEF S
  <2> QED BY <1>2, <1>3, <2>1, Induction
<1> QED BY <1>1, <1>4

-----------------------------------------------------------------------------
(* Roots that the strict convention admits *)

IsLiteral(proto) ==
    Is51(proto) /\ Scan(proto).verdict = "returned" /\ Declared(Scan(proto))

(* Every instruction of one is scanned while the scan is open. *)
LEMMA OpenBefore ==
    ASSUME NEW proto, IsLiteral(proto), NEW pc \in Instructions(proto)
    PROVE  /\ pc \in 0..(NumWords(proto) - 1) /\ NumWords(proto) \in Nat
           /\ Scanned(proto)[pc].verdict = "open"
           /\ AdmittedAs(proto, Scanned(proto)[pc], proto.words[pc], Scanned(proto)[pc + 1])
           /\ RootStates(proto)[pc + 1] = RootStep(proto, RootStates(proto)[pc], pc)
<1>1. Is51(proto) /\ ~IsOver(Scan(proto))
  BY DEF IsLiteral, IsOver
<1>2. NumWords(proto) \in Nat /\ pc \in 0..(NumWords(proto) - 1)
  BY <1>1, RootIs
<1>3. /\ pc \in 0..NumWords(proto) /\ pc + 1 \in 0..NumWords(proto)
  BY <1>2
<1> DEFINE s == Scanned(proto)[pc]
           t == Scanned(proto)[pc + 1]
<1>4. t = Admit(s, proto.words[pc])
  BY <1>2, ScannedIs
<1>5. RootStates(proto)[pc + 1] = RootStep(proto, RootStates(proto)[pc], pc)
  BY <1>2, RootStatesAre
<1>6. IsScan(proto, s)
  BY <1>1, <1>3, ScansAre
<1>7. ~IsOver(t)
  BY <1>1, <1>3, OverIsOver
<1> HIDE DEF s, t
<1>8. s.verdict = "open" /\ AdmittedAs(proto, s, proto.words[pc], t)
  BY <1>4, <1>6, <1>7, AdmitIs
<1> QED BY <1>2, <1>5, <1>8 DEF s, t

(* From one instruction to the next, and from the return to the end *)
LEMMA LiteralSteps ==
    ASSUME NEW proto, IsLiteral(proto), NEW pc \in Instructions(proto)
    PROVE  LET n == After(proto, pc)
               end == NumWords(proto)
           IN  /\ n \in Nat
               /\ n \in Pcs(proto) =>
                     /\ n \in Instructions(proto)
                     /\ Scanned(proto)[n] = Scanned(proto)[pc + 1]
                     /\ RootStates(proto)[n] = RootStates(proto)[pc + 1]
               /\ proto.words[pc].op = "RETURN" =>
                     /\ Scanned(proto)[end] = Scanned(proto)[pc + 1]
                     /\ RootStates(proto)[end] = RootStates(proto)[pc + 1]
<1> DEFINE n == After(proto, pc)
           end == NumWords(proto)
<1>1. Is51(proto) /\ IsPrototype(proto)
  BY DEF IsLiteral, Is51
<1>2. /\ end \in Nat /\ Pcs(proto) = 0..(end - 1) /\ Instructions(proto) \subseteq Pcs(proto)
      /\ Instructions(proto) = Executable(proto)
  BY <1>1, RootIs
<1>3. /\ pc \in Nat /\ Claimed(proto, pc) \in Nat
      /\ n \in Pcs(proto) => n \in Instructions(proto)
      /\ \A i \in Instructions(proto) : i > pc => i >= n
  BY <1>1, <1>2, NextInstruction
<1>4. n \in Nat /\ n >= pc + 1
  BY <1>3 DEF After
<1> HIDE DEF n
<1>5. pc + 1 \in 0..end
  BY <1>2
<1>6. ASSUME n \in Pcs(proto)
      PROVE  /\ Scanned(proto)[n] = Scanned(proto)[pc + 1]
             /\ RootStates(proto)[n] = RootStates(proto)[pc + 1]
  <2>1. n \in (pc + 1)..end
    BY <1>2, <1>4, <1>6
  <2>2. \A i \in Instructions(proto) : ~(pc + 1 <= i /\ i < n)
    BY <1>2, <1>3, <1>4
  <2> HIDE DEF end
  <2> QED BY <1>1, <1>5, <2>1, <2>2, NothingBetween DEF end
<1>7. ASSUME proto.words[pc].op = "RETURN"
      PROVE  /\ Scanned(proto)[end] = Scanned(proto)[pc + 1]
             /\ RootStates(proto)[end] = RootStates(proto)[pc + 1]
  <2> DEFINE Later == {i \in Instructions(proto) : i > pc}
  <2>1. Scanned(proto)[pc + 1].verdict = "returned"
    <3>1. AdmittedAs(proto, Scanned(proto)[pc], proto.words[pc], Scanned(proto)[pc + 1])
      BY OpenBefore
    <3> QED BY <1>7, <3>1 DEF AdmittedAs
  <2>2. Later = {}
    <3> SUFFICES ASSUME Later # {} PROVE FALSE
      OBVIOUS
    <3>1. Later \subseteq Nat
      BY <1>2
    <3>2. PICK q \in Later : \A y \in Later : q <= y
      <4> HIDE DEF Later
      <4> QED BY <3>1, LeastNumber
    <3>3. q \in (pc + 1)..end /\ q \in Instructions(proto)
      BY <1>2, <1>3
    <3>4. \A i \in Instructions(proto) : ~(pc + 1 <= i /\ i < q)
      BY <1>2, <1>3, <3>2
    <3>5. Scanned(proto)[q] = Scanned(proto)[pc + 1]
      <4> HIDE DEF end, Later
      <4> QED BY <1>1, <1>5, <3>3, <3>4, NothingBetween DEF end
    <3>6. Scanned(proto)[q].verdict = "open"
      BY <3>3, OpenBefore
    <3> QED BY <2>1, <3>5, <3>6
  <2>3. \A i \in Instructions(proto) : ~(pc + 1 <= i /\ i < end)
    BY <1>2, <1>3, <2>2
  <2>4. end \in (pc + 1)..end
    BY <1>2, <1>5
  <2> HIDE DEF end
  <2> QED BY <1>1, <1>5, <2>3, <2>4, NothingBetween DEF end
<1> QED BY <1>3, <1>4, <1>6, <1>7 DEF n

(* What is known of the value a register holds *)
ValueAgrees(v, m) ==
    IsKnown(v) =>
        \/ v.kind.shape \in {"LookupLabel", "SymbolicPath"}
        \/ v.kind.shape = "Closure" /\ m = Function(v.kind.prototype)
        \/ v.kind.shape # "Closure" /\ m.is \in {"number", "literal"}

LEMMA ValuesThatAgree ==
    /\ \A reason, m : ValueAgrees(Unknown(reason), m)
    /\ \A evidence, basis, segments, m : ValueAgrees(Known(Path(basis, segments), evidence), m)
    /\ \A evidence, lookup, key, m : ValueAgrees(Known(Label(lookup, key), evidence), m)
    /\ \A evidence, m : m.is \in {"number", "literal"} => ValueAgrees(Known(NonClosure, evidence), m)
    /\ \A evidence, s, m : m.is \in {"number", "literal"} => ValueAgrees(Known(Literal(s), evidence), m)
    /\ \A evidence, child : ValueAgrees(Known(Closure(child), evidence), Function(child))
    /\ \A m : ValueAgrees(Bottom, m)
BY DEF ValueAgrees, IsKnown, Unknown, Known, Path, Label, NonClosure, Literal, Closure,
       Function, Bottom

(* A known value keeps what is known of it. *)
LEMMA MovedValueAgrees ==
    ASSUME NEW v, NEW m, ValueAgrees(v, m), NEW evidence
    PROVE  ValueAgrees(IF IsKnown(v) THEN Known(v.kind, evidence) ELSE v, m)
BY DEF ValueAgrees, IsKnown, Known

LEMMA LookupAgrees ==
    ASSUME NEW id, NEW lookup, NEW receiver, NEW key, NEW m
    PROVE  ValueAgrees(LookupValue(id, lookup, receiver, key), m)
<1>1. \A reason : ValueAgrees(Unknown(reason), m)
  BY ValuesThatAgree
<1>2. \A evidence, basis, segments : ValueAgrees(Known(Path(basis, segments), evidence), m)
  BY ValuesThatAgree
<1>3. \A evidence, lk, k : ValueAgrees(Known(Label(lk, k), evidence), m)
  BY ValuesThatAgree
<1> QED BY <1>1, <1>2, <1>3 DEF LookupValue

StraightOps ==
    {"GETGLOBAL", "LOADK", "GETTABLE", "CALL", "SETGLOBAL", "LOADBOOL", "LOADNIL", "MOVE",
     "CLOSURE", "RETURN"}

(* The values follow the machine over one instruction. *)
LEMMA ResultAgrees ==
    ASSUME Is51(Root), NEW pc \in Instructions(Root), NEW vs, DOMAIN vs = Registers(Root),
           DOMAIN regs = Registers(Root),
           \A r \in Registers(Root) : ValueAgrees(vs[r], regs[r]),
           Root.words[pc].op \in StraightOps,
           Root.words[pc].op = "CALL" => Root.words[pc].c = 1
    PROVE  LET w == Root.words[pc]
               out == RootTransfer(Root, pc, vs)
           IN  /\ DOMAIN out = Registers(Root)
               /\ \A r \in Registers(Root) :
                     ValueAgrees(out[r], IF Written(w, r) THEN Result(w) ELSE regs[r])
<1> DEFINE w == Root.words[pc]
           out == RootTransfer(Root, pc, vs)
           after == Invalidate(w, vs)
           lost(r) == r \in Writes(w) \/ Clobbers(w, r)
           next(r) == IF Written(w, r) THEN Result(w) ELSE regs[r]
           through == Transfer(Root, [u \in {} |-> Bottom], pc, vs)
           R == Registers(Root)
           Goal(o) == DOMAIN o = R /\ \A r \in R : ValueAgrees(o[r], next(r))
<1> SUFFICES Goal(out)
  OBVIOUS
<1>1. WordErrors(Root, Instructions(Root), pc) = {} /\ pc \in Pcs(Root) /\ IsPrototype(Root)
  BY RootIs DEF Is51
<1>2. /\ w.a \in Nat /\ w.b \in Nat /\ w.c \in Nat
      /\ ARegisterOps(w.op) => w.a < Root.maxstack
      /\ w.op \in BRegisterOps => w.b < Root.maxstack
  BY <1>1, ValidOperands
<1>3. Root.maxstack \in Nat /\ R = 0..(Root.maxstack - 1)
  BY <1>1 DEF IsPrototype, Registers
<1>4. /\ w.op \in StraightOps => w.a \in R
      /\ w.op \in {"MOVE", "GETTABLE"} => w.b \in R
  BY <1>2, <1>3 DEF StraightOps, ARegisterOps, BRegisterOps
<1>5. \A m, reason : ValueAgrees(Unknown(reason), m)
  BY ValuesThatAgree
<1>6. /\ DOMAIN after = R
      /\ \A r \in R : after[r] = IF lost(r) THEN Unknown("Overwritten") ELSE vs[r]
  BY DEF Invalidate, SetAll
<1>7. \A r \in R : Written(w, r) => lost(r)
  BY DEF Written, Clobbers, StraightOps
<1>8. \A r \in R : ~lost(r) => ValueAgrees(after[r], next(r))
  <2> HIDE DEF after, lost
  <2> QED BY <1>6, <1>7
<1>9. \A r \in R : ValueAgrees(after[r], next(r))
  <2> HIDE DEF after, lost, next
  <2> QED BY <1>5, <1>6, <1>8
(* One register is written, and its value agrees with the result. *)
<1>10. ASSUME NEW v, ValueAgrees(v, Result(w)), Writes(w) = {w.a},
              w.op \notin {"CALL", "RETURN", "SETGLOBAL"}
       PROVE  Goal(SetRegister(after, w.a, v))
  <2>1. Written(w, w.a)
    BY <1>10 DEF Written, StraightOps
  <2> DEFINE set == SetRegister(after, w.a, v)
  <2> SUFFICES Goal(set)
    OBVIOUS
  <2>2. DOMAIN set = R /\ set[w.a] = v /\ \A r \in R : r # w.a => set[r] = after[r]
    <3> HIDE DEF after
    <3> QED BY <1>4, <1>6 DEF SetRegister
  <2>3. ValueAgrees(set[w.a], next(w.a))
    <3> HIDE DEF set
    <3> QED BY <1>10, <2>1, <2>2
  <2> HIDE DEF set, after, next
  <2> QED BY <1>9, <2>2, <2>3
<1>11. CASE w.op \in {"LOADBOOL", "LOADNIL"}
  <2>1. through = after
    BY <1>11 DEF Transfer
  <2>2. out = SetAll(after, Writes(w), Known(NonClosure, {Id(Root, pc)}))
    <3> HIDE DEF after
    <3> QED BY <1>11, <2>1 DEF RootTransfer
  <2>3. Result(w) = Number
    BY <1>11 DEF Result
  <2>4. ValueAgrees(Known(NonClosure, {Id(Root, pc)}), Number)
    BY ValuesThatAgree DEF Number
  <2>5. \A r \in R : r \in Writes(w) => Written(w, r)
    BY <1>11 DEF Written
  <2>6. DOMAIN out = R /\ \A r \in R : out[r] = IF r \in Writes(w)
                                                THEN Known(NonClosure, {Id(Root, pc)})
                                                ELSE after[r]
    <3> HIDE DEF after, out
    <3> QED BY <1>6, <2>2 DEF SetAll
  <2> HIDE DEF after, out
  <2> QED BY <1>9, <2>3, <2>4, <2>5, <2>6
<1>12. CASE w.op \notin {"LOADBOOL", "LOADNIL"}
  <2>1. out = through
    BY <1>12 DEF RootTransfer
  <2>2. CASE w.op \in {"SETGLOBAL", "RETURN", "CALL"}
    <3>1. through = after
      BY <2>2 DEF Transfer, IsRequireCall
    <3> HIDE DEF after, out, through
    <3> QED BY <1>6, <1>9, <2>1, <3>1
  <2>3. CASE w.op = "LOADK"
    <3> DEFINE v == Known(IF w.k \in Strings THEN Literal(w.k) ELSE NonClosure, {Id(Root, pc)})
    <3>1. through = SetRegister(after, w.a, v)
      BY <2>3 DEF Transfer
    <3>2. Result(w).is \in {"number", "literal"}
      BY <2>3 DEF Result, Number, LiteralToken
    <3>3. ValueAgrees(v, Result(w))
      BY <3>2, ValuesThatAgree
    <3>4. Writes(w) = {w.a}
      BY <2>3 DEF Writes
    <3> HIDE DEF after, out, through, v, Goal
    <3> QED BY <1>10, <2>1, <2>3, <3>1, <3>3, <3>4
  <2>4. CASE w.op = "GETGLOBAL"
    <3> DEFINE v == Known(Path("global", <<w.k>>), {Id(Root, pc)})
    <3>1. through \in {after, SetRegister(after, w.a, v)}
      BY <2>4 DEF Transfer
    <3>2. ValueAgrees(v, Result(w))
      BY ValuesThatAgree
    <3>3. Writes(w) = {w.a}
      BY <2>4 DEF Writes
    <3>4. Goal(after)
      BY <1>6, <1>9
    <3> HIDE DEF after, out, through, v, Goal
    <3> QED BY <1>10, <2>1, <2>4, <3>1, <3>2, <3>3, <3>4
  <2>5. CASE w.op = "MOVE"
    <3> DEFINE source == vs[w.b]
               v == IF IsKnown(source) THEN Known(source.kind, source.evidence \cup {Id(Root, pc)})
                    ELSE source
    <3>1. GetRegister(vs, w.b) = source
      BY <1>4, <2>5 DEF GetRegister
    <3>2. through = SetRegister(after, w.a, v)
      BY <2>5, <3>1 DEF Transfer
    <3>3. Result(w) = regs[w.b]
      BY <2>5 DEF Result
    <3>4. ValueAgrees(source, regs[w.b])
      BY <1>4, <2>5
    <3>5. ValueAgrees(v, Result(w))
      <4> HIDE DEF source
      <4> QED BY <3>3, <3>4, MovedValueAgrees
    <3>6. Writes(w) = {w.a}
      BY <2>5 DEF Writes
    <3> HIDE DEF after, out, through, v, Goal
    <3> QED BY <1>10, <2>1, <2>5, <3>2, <3>5, <3>6
  <2>6. CASE w.op = "GETTABLE"
    <3> DEFINE v == IF w.k = NoConst THEN Unknown("DynamicKey")
                    ELSE LookupValue(Id(Root, pc), "gettable", GetRegister(vs, w.b), w.k)
    <3>1. through = SetRegister(after, w.a, v)
      BY <2>6 DEF Transfer
    <3>2. ValueAgrees(v, Result(w))
      BY <1>5, LookupAgrees
    <3>3. Writes(w) = {w.a}
      BY <2>6 DEF Writes
    <3> HIDE DEF after, out, through, v, Goal
    <3> QED BY <1>10, <2>1, <2>6, <3>1, <3>2, <3>3
  <2>7. CASE w.op = "CLOSURE"
    <3> DEFINE v == Known(Closure(ChildPath(Root, w.x)), {Id(Root, pc)})
    <3>1. through = SetRegister(after, w.a, v)
      BY <2>7 DEF Transfer
    <3>2. Result(w) = Function(ChildPath(Root, w.x))
      BY <2>7 DEF Result
    <3>3. ValueAgrees(v, Result(w))
      BY <3>2, ValuesThatAgree
    <3>4. Writes(w) = {w.a}
      BY <2>7 DEF Writes
    <3> HIDE DEF after, out, through, v, Goal
    <3> QED BY <1>10, <2>1, <2>7, <3>1, <3>3, <3>4
  <2> HIDE DEF Goal
  <2> QED BY <1>12, <2>2, <2>3, <2>4, <2>5, <2>6, <2>7 DEF StraightOps
<1> HIDE DEF Goal
<1> QED BY <1>11, <1>12

(* What a token says of the value a register holds *)
TokenAgrees(t, m) == t = Other \/ m = t

(* The path of a module, once it is declared *)
IsModulePath(segments) ==
    /\ segments \in Seq(STRING) \ {<<>>}
    /\ \A i \in 1..Len(segments) : segments[i] # NoPart

(* The declaration is one call, and every store comes after it. *)
Declares(s, w, t) ==
    /\ w.op = "CALL" => /\ s.segments = <<>> /\ w.c = 1
                        /\ IsModulePath(t.segments)
    /\ w.op # "CALL" => t.segments = s.segments
    /\ w.op = "SETGLOBAL" => s.segments # <<>> /\ w.k \in Selectors

(* The tokens and the environment follow the machine over one instruction. *)
LEMMA TokensFollow ==
    ASSUME Is51(Root), NEW pc \in Instructions(Root), NEW s, NEW t, IsScan(Root, s),
           AdmittedAs(Root, s, Root.words[pc], t), DOMAIN regs = Registers(Root),
           \A r \in Registers(Root) : TokenAgrees(s.tokens[r], regs[r]),
           env = s.segments
    PROVE  LET w == Root.words[pc]
           IN  /\ w.op \in StraightOps /\ Declares(s, w, t)
               /\ EnvAfter(w) = t.segments
               /\ \A r \in Registers(Root) :
                     TokenAgrees(t.tokens[r], IF Written(w, r) THEN Result(w) ELSE regs[r])
<1> DEFINE w == Root.words[pc]
           R == Registers(Root)
           next(r) == IF Written(w, r) THEN Result(w) ELSE regs[r]
           Tokens == \A r \in R : TokenAgrees(t.tokens[r], next(r))
<1>1. WordErrors(Root, Instructions(Root), pc) = {} /\ pc \in Pcs(Root) /\ IsPrototype(Root)
  BY RootIs DEF Is51
<1>2. /\ w.a \in Nat /\ w.b \in Nat /\ w.c \in Nat
      /\ ARegisterOps(w.op) => w.a < Root.maxstack
      /\ w.op \in BRegisterOps => w.b < Root.maxstack
      /\ w.op = "CALL" /\ w.b > 0 => w.a + w.b - 1 < Root.maxstack
  BY <1>1, ValidOperands
<1>3. Root.maxstack \in Nat /\ R = 0..(Root.maxstack - 1)
  BY <1>1 DEF IsPrototype, Registers
<1>4. w.op \in StraightOps
  BY DEF AdmittedAs, StraightOps
<1>5. CASE w.op = "CALL"
  <2>1. /\ IsDeclaration(s, w)
        /\ ~Contains(NameParts[s.tokens[w.a + 1].name], NoPart)
        /\ t.segments = NameParts[s.tokens[w.a + 1].name]
        /\ \A r \in R : t.tokens[r] = IF r >= w.a THEN Other ELSE s.tokens[r]
    BY <1>5 DEF AdmittedAs
  <2>3. /\ s.segments = <<>> /\ w.c = 1 /\ (w.b = 2 \/ w.b = 3)
        /\ s.tokens[w.a] = Token("module")
        /\ s.tokens[w.a + 1].is = "literal" /\ s.tokens[w.a + 1].name \in Selectors
    <3> HIDE DEF w
    <3> QED BY <2>1 DEF IsDeclaration, Declared
  <2>2. w.a \in R /\ w.a + 1 \in R
    <3>1. w.a < Root.maxstack /\ w.b > 0
      BY <1>2, <1>5, <2>3 DEF ARegisterOps
    <3>2. w.a + w.b - 1 < Root.maxstack
      BY <1>2, <1>5, <3>1
    <3>3. w.a \in Nat /\ w.b >= 2 /\ w.b \in Nat
      BY <1>2, <2>3
    <3> HIDE DEF w
    <3> QED BY <1>3, <3>1, <3>2, <3>3
  <2>10. w.b >= 2
    BY <2>3
  <2>4. regs[w.a] = Token("module")
    BY <2>2, <2>3 DEF TokenAgrees, Token, Other
  <2>5. regs[w.a + 1] = s.tokens[w.a + 1]
    BY <2>2, <2>3 DEF TokenAgrees, Token, Other
  <2>6. EnvAfter(w) = t.segments
    <3>1. Token("module") # Token("environment")
      BY DEF Token
    <3> QED BY <1>5, <2>1, <2>3, <2>4, <2>5, <2>10, <3>1 DEF EnvAfter
  <2>7. IsModulePath(t.segments)
    <3>1. t.segments \in Seq(STRING) \ {<<>>}
      BY <2>1, <2>3, NamesAssumption
    <3> QED BY <2>1, <3>1 DEF IsModulePath, Contains
  <2>8. Tokens
    <3> SUFFICES ASSUME NEW r \in R PROVE TokenAgrees(t.tokens[r], next(r))
      OBVIOUS
    <3>1. CASE r >= w.a
      BY <2>1, <3>1 DEF TokenAgrees
    <3>2. CASE ~(r >= w.a)
      <4>1. ~Written(w, r)
        BY <1>5, <3>2 DEF Written
      <4> QED BY <2>1, <3>2, <4>1
    <3> QED BY <3>1, <3>2
  <2>9. Declares(s, w, t)
    BY <1>5, <2>3, <2>7 DEF Declares
  <2> QED BY <1>4, <2>6, <2>8, <2>9
<1>6. CASE w.op # "CALL"
  <2>1. t.segments = s.segments
    BY <1>6 DEF AdmittedAs, Held
  <2>2. EnvAfter(w) = t.segments
    BY <1>4, <1>6, <2>1 DEF EnvAfter, StraightOps
  <2>3. w.op = "SETGLOBAL" => s.segments # <<>> /\ w.k \in Selectors
    BY DEF AdmittedAs, Declared
  <2>4. Declares(s, w, t)
    BY <1>6, <2>1, <2>3 DEF Declares
  <2>5. PICK changed, token :
           /\ \A r \in R : t.tokens[r] = IF r \in changed THEN token ELSE s.tokens[r]
           /\ \A r \in R : Written(w, r) => r \in changed
           /\ \A r \in R : r \in changed => Written(w, r)
           /\ token = Other \/ token = Result(w)
    <3> DEFINE IsSo(changed, token) ==
                 /\ \A r \in R : t.tokens[r] = IF r \in changed THEN token ELSE s.tokens[r]
                 /\ \A r \in R : Written(w, r) => r \in changed
                 /\ \A r \in R : r \in changed => Written(w, r)
                 /\ token = Other \/ token = Result(w)
    <3> SUFFICES \E changed, token : IsSo(changed, token)
      OBVIOUS
    <3>1. ASSUME NEW changed, NEW token, Held(Root, s, t, changed, token),
                 changed = Writes(w), w.op \notin {"TAILCALL", "VARARG", "TFORLOOP"},
                 token = Other \/ token = Result(w)
          PROVE  \E c, k : IsSo(c, k)
      <4>1. IsSo(changed, token)
        BY <1>6, <3>1 DEF Held, Written
      <4> HIDE DEF IsSo
      <4> QED BY <4>1
    <3> HIDE DEF IsSo
    <3>2. CASE w.op = "GETGLOBAL"
      <4>1. GlobalToken(w.k) = Other \/ GlobalToken(w.k) = Result(w)
        BY <3>2 DEF GlobalToken, Result, GlobalValue
      <4>2. Held(Root, s, t, {w.a}, GlobalToken(w.k)) /\ Writes(w) = {w.a}
        BY <3>2 DEF AdmittedAs, Writes
      <4> QED BY <3>1, <3>2, <4>1, <4>2
    <3>3. CASE w.op = "LOADK"
      <4> DEFINE token == IF w.k \in Strings THEN LiteralToken(w.k) ELSE Other
      <4>1. token = Other \/ token = Result(w)
        BY <3>3 DEF Result
      <4>2. Held(Root, s, t, {w.a}, token) /\ Writes(w) = {w.a}
        BY <3>3 DEF AdmittedAs, Writes
      <4> HIDE DEF token
      <4> QED BY <3>1, <3>3, <4>1, <4>2
    <3>4. CASE w.op = "GETTABLE"
      <4>1. /\ s.tokens[w.b] = Token("package") /\ w.k = "seeall"
            /\ Held(Root, s, t, {w.a}, Token("seeall")) /\ Writes(w) = {w.a}
        BY <3>4 DEF AdmittedAs, Writes
      <4>2. w.b \in R
        BY <1>2, <1>3, <3>4 DEF BRegisterOps
      <4>3. regs[w.b] = Token("package")
        BY <4>1, <4>2 DEF TokenAgrees, Token, Other
      <4>4. Token("seeall") = Result(w)
        BY <3>4, <4>1, <4>3 DEF Result
      <4> QED BY <3>1, <3>4, <4>1, <4>4
    <3>5. CASE w.op \in {"SETGLOBAL", "RETURN"}
      <4>1. Held(Root, s, t, {}, Other) /\ Writes(w) = {}
        BY <3>5 DEF AdmittedAs, Writes
      <4> QED BY <3>1, <3>5, <4>1
    <3>6. CASE w.op = "LOADNIL"
      <4>1. Held(Root, s, t, w.a..w.b, Other) /\ Writes(w) = w.a..w.b
        BY <3>6 DEF AdmittedAs, Writes
      <4> QED BY <3>1, <3>6, <4>1
    <3>7. CASE w.op \in {"LOADBOOL", "MOVE", "CLOSURE"}
      <4>1. Held(Root, s, t, {w.a}, Other) /\ Writes(w) = {w.a}
        BY <3>7 DEF AdmittedAs, Writes
      <4> QED BY <3>1, <3>7, <4>1
    <3> QED BY <1>4, <1>6, <3>2, <3>3, <3>4, <3>5, <3>6, <3>7 DEF StraightOps
  <2>6. Tokens
    <3> SUFFICES ASSUME NEW r \in R PROVE TokenAgrees(t.tokens[r], next(r))
      OBVIOUS
    <3>1. CASE r \in changed
      BY <2>5, <3>1 DEF TokenAgrees
    <3>2. CASE r \notin changed
      BY <2>5, <3>2
    <3> QED BY <3>1, <3>2
  <2> QED BY <1>4, <2>2, <2>4, <2>6
<1> QED BY <1>5, <1>6

-----------------------------------------------------------------------------
(* The stores of a root and what it leaves *)

(* Stores of admitted names, in the order of their pcs *)
StoresAre(stores, n) ==
    /\ IsSeq(stores)
    /\ \A i \in 1..Len(stores) : stores[i].name \in Selectors /\ stores[i].pc \in 0..(n - 1)
    /\ \A i, j \in 1..Len(stores) : i < j => stores[i].pc < stores[j].pc

LEMMA RootStoresAre ==
    ASSUME NEW proto, IsLiteral(proto), NEW n \in 0..NumWords(proto)
    PROVE  StoresAre(RootStates(proto)[n].stores, n)
<1> DEFINE Stores(k) == RootStates(proto)[k].stores
           S == {k \in Nat : k <= NumWords(proto) => StoresAre(Stores(k), k)}
<1>1. NumWords(proto) \in Nat
  BY RootIs DEF IsLiteral
<1>2. 0 \in S
  <2>1. Stores(0) = <<>>
    <3>1. RootStates(proto)[0] = StartRoot(proto)
      BY <1>1, RootStatesAre
    <3> QED BY <3>1 DEF StartRoot
  <2>2. IsSeq(<<>>) /\ Len(<<>>) = 0
    BY DEF IsSeq, ToSet
  <2> HIDE DEF Stores
  <2> QED BY <2>1, <2>2 DEF StoresAre
<1>3. ASSUME NEW k \in Nat, k \in S PROVE k + 1 \in S
  <2> SUFFICES ASSUME k + 1 <= NumWords(proto) PROVE StoresAre(Stores(k + 1), k + 1)
    OBVIOUS
  <2>1. k \in 0..(NumWords(proto) - 1) /\ StoresAre(Stores(k), k)
    BY <1>1, <1>3
  <2>2. StoresAre(Stores(k), k + 1)
    <3> HIDE DEF Stores
    <3> QED BY <2>1 DEF StoresAre
  <2>3. CASE k \notin Instructions(proto)
    <3>1. Stores(k + 1) = Stores(k)
      BY <1>1, <2>1, <2>3, RootStatesAre
    <3> HIDE DEF Stores
    <3> QED BY <2>2, <3>1
  <2>4. CASE k \in Instructions(proto)
    <3> DEFINE w == proto.words[k]
               st == Store(proto, k, RootStates(proto)[k].regs)
    <3>1. Stores(k + 1) = IF w.op = "SETGLOBAL" THEN Append(Stores(k), st) ELSE Stores(k)
      <4>1. RootStates(proto)[k + 1] = RootStep(proto, RootStates(proto)[k], k)
        BY <2>4, OpenBefore
      <4> QED BY <4>1 DEF RootStep
    <3>2. w.op = "SETGLOBAL" => w.k \in Selectors
      <4>1. AdmittedAs(proto, Scanned(proto)[k], proto.words[k], Scanned(proto)[k + 1])
        BY <2>4, OpenBefore
      <4> QED BY <4>1 DEF AdmittedAs
    <3>3. st.name = w.k /\ st.pc = k
      BY DEF Store
    <3>4. CASE w.op # "SETGLOBAL"
      <4> HIDE DEF Stores, w
      <4> QED BY <2>2, <3>1, <3>4
    <3>5. CASE w.op = "SETGLOBAL"
      <4> DEFINE more == Append(Stores(k), st)
                 len == Len(Stores(k))
      <4>1. IsSeq(Stores(k)) /\ len \in Nat
        <5> HIDE DEF Stores
        <5> QED BY <2>1 DEF StoresAre, IsSeq
      <4> HIDE DEF Stores, st, w
      <4>2. /\ IsSeq(more) /\ Len(more) = len + 1
            /\ \A i \in 1..len : more[i] = Stores(k)[i]
            /\ more[len + 1] = st
        BY <4>1, AppendIsSeq
      <4> HIDE DEF more
      <4>3. \A i \in 1..len : Stores(k)[i].pc \in 0..(k - 1) /\ Stores(k)[i].name \in Selectors
        BY <2>1 DEF StoresAre
      <4>4. \A i \in 1..(len + 1) : i = len + 1 \/ i \in 1..len
        BY <4>1
      <4>5. \A i \in 1..(len + 1) :
              more[i].name \in Selectors /\ more[i].pc \in 0..k
        BY <3>2, <3>3, <3>5, <4>2, <4>3, <4>4
      <4>6. ASSUME NEW i \in 1..(len + 1), NEW j \in 1..(len + 1), i < j
            PROVE  more[i].pc < more[j].pc
        <5>1. i \in 1..len
          BY <4>1, <4>6
        <5>2. CASE j = len + 1
          BY <3>3, <4>2, <4>3, <5>1, <5>2
        <5>3. CASE j # len + 1
          <6>1. j \in 1..len
            BY <4>4, <5>3
          <6>2. Stores(k)[i].pc < Stores(k)[j].pc
            BY <2>1, <4>6, <5>1, <6>1 DEF StoresAre
          <6> QED BY <4>2, <5>1, <6>1, <6>2
        <5> QED BY <5>2, <5>3
      <4>7. Stores(k + 1) = more
        BY <3>1, <3>5 DEF more
      <4>8. k + 1 - 1 = k
        OBVIOUS
      <4> HIDE DEF len
      <4>9. StoresAre(more, k + 1)
        BY <4>2, <4>5, <4>6, <4>8 DEF StoresAre
      <4> QED BY <4>7, <4>9
    <3> QED BY <3>4, <3>5
  <2> QED BY <2>3, <2>4
<1>4. n \in S
  <2> HIDE DEF S
  <2> QED BY <1>1, <1>2, <1>3, Induction
<1> QED BY <1>1, <1>4

(* What is known of what a store leaves *)
StoreAgrees(st, m) ==
    IsKnown(st.value) =>
        IF IsClosureStore(st) THEN m = Function(st.value.kind.prototype)
        ELSE m.is \in {"number", "literal"}

IsLast(stores, i) == \A j \in 1..Len(stores) : j > i => stores[j].name # stores[i].name

(* A root leaves what its stores do, and for each name what the last does. *)
LeftAgrees(segments, stores, l) ==
    /\ stores # <<>> => segments # <<>>
    /\ DOMAIN l = {Append(segments, stores[i].name) : i \in 1..Len(stores)}
    /\ \A i \in 1..Len(stores) :
          IsLast(stores, i) => StoreAgrees(stores[i], l[Append(segments, stores[i].name)])

LEMMA StoredValueAgrees ==
    ASSUME NEW proto, NEW pc, NEW vs, NEW m, proto.words[pc].a \in DOMAIN vs,
           ValueAgrees(vs[proto.words[pc].a], m)
    PROVE  /\ StoreAgrees(Store(proto, pc, vs), m)
           /\ Store(proto, pc, vs).name = proto.words[pc].k
<1> DEFINE v == vs[proto.words[pc].a]
           st == Store(proto, pc, vs)
<1>1. st.value = StoreValue(v) /\ st.name = proto.words[pc].k
  BY DEF Store, GetRegister
<1> HIDE DEF st, v
<1>2. ValueAgrees(v, m)
  BY DEF v
<1>3. CASE ~IsKnown(v) \/ v.kind.shape \in {"LookupLabel", "SymbolicPath"}
  <2>1. ~IsKnown(st.value)
    BY <1>1, <1>3 DEF StoreValue, IsKnown, Unknown
  <2> QED BY <1>1, <2>1 DEF st, StoreAgrees
<1>4. CASE /\ ~(~IsKnown(v) \/ v.kind.shape \in {"LookupLabel", "SymbolicPath"})
           /\ v.kind.shape = "Closure"
  <2>1. st.value = v
    BY <1>1, <1>4 DEF StoreValue
  <2>2. m = Function(v.kind.prototype)
    BY <1>2, <1>4 DEF ValueAgrees
  <2>3. StoreAgrees(st, m)
    BY <1>4, <2>1, <2>2 DEF StoreAgrees, IsClosureStore
  <2> QED BY <1>1, <2>3 DEF st
<1>5. CASE /\ ~(~IsKnown(v) \/ v.kind.shape \in {"LookupLabel", "SymbolicPath"})
           /\ v.kind.shape # "Closure"
  <2>1. st.value = Known(NonClosure, v.evidence)
    BY <1>1, <1>5 DEF StoreValue
  <2>2. m.is \in {"number", "literal"}
    BY <1>2, <1>5 DEF ValueAgrees
  <2>3. ~IsClosureStore(st)
    BY <2>1 DEF IsClosureStore, Known, NonClosure
  <2>4. StoreAgrees(st, m)
    BY <2>2, <2>3 DEF StoreAgrees
  <2> QED BY <1>1, <2>4 DEF st
<1> QED BY <1>3, <1>4, <1>5

(* One more store *)
LEMMA LeftFollows ==
    ASSUME NEW segments, IsSeq(segments), segments # <<>>, NEW stores, IsSeq(stores),
           LeftAgrees(segments, stores, left), NEW st, NEW m, StoreAgrees(st, m)
    PROVE  LeftAgrees(segments, Append(stores, st), Leave(Append(segments, st.name), m))
<1> DEFINE more == Append(stores, st)
           len == Len(stores)
           label(name) == Append(segments, name)
           after == Leave(label(st.name), m)
           l == left
<1>1. len \in Nat
  BY DEF IsSeq
<1>2. /\ Len(more) = len + 1
      /\ \A i \in 1..len : more[i] = stores[i]
      /\ more[len + 1] = st
  BY AppendIsSeq
<1>3. \A a, b : label(a) = label(b) => a = b
  <2>1. \A e : label(e)[Len(segments) + 1] = e
    BY AppendIsSeq
  <2> HIDE DEF label
  <2> QED BY <2>1
<1>4. /\ DOMAIN after = {label(st.name)} \cup DOMAIN l
      /\ after[label(st.name)] = m
      /\ \A x \in DOMAIN l : x # label(st.name) => after[x] = l[x]
  BY DEF Leave
<1>5. /\ DOMAIN l = {label(stores[i].name) : i \in 1..len}
      /\ \A i \in 1..len : IsLast(stores, i) => StoreAgrees(stores[i], l[label(stores[i].name)])
  BY DEF LeftAgrees
<1> SUFFICES LeftAgrees(segments, more, after)
  OBVIOUS
<1> HIDE DEF label, more, after
<1>6. DOMAIN after = {label(more[i].name) : i \in 1..(len + 1)}
  <2>1. \A i \in 1..(len + 1) : i \in 1..len \/ i = len + 1
    BY <1>1
  <2>2. 1..len \subseteq 1..(len + 1) /\ len + 1 \in 1..(len + 1)
    BY <1>1
  <2> QED BY <1>2, <1>4, <1>5, <2>1, <2>2
<1>7. ASSUME NEW i \in 1..(len + 1), IsLast(more, i)
      PROVE  StoreAgrees(more[i], after[label(more[i].name)])
  <2>1. CASE i = len + 1
    BY <1>2, <1>4, <2>1
  <2>2. CASE i # len + 1
    <3>1. i \in 1..len /\ len + 1 \in 1..(len + 1) /\ len + 1 > i
      BY <1>1, <2>2
    <3>2. more[i] = stores[i] /\ stores[i].name # st.name
      BY <1>2, <1>7, <3>1 DEF IsLast
    <3>3. IsLast(stores, i)
      <4> SUFFICES ASSUME NEW j \in 1..len, j > i PROVE stores[j].name # stores[i].name
        BY DEF IsLast
      <4>1. j \in 1..(len + 1)
        BY <1>1
      <4> QED BY <1>2, <1>7, <3>2, <4>1 DEF IsLast
    <3>4. label(stores[i].name) \in DOMAIN l
      BY <1>5, <3>1
    <3> QED BY <1>3, <1>4, <1>5, <3>1, <3>2, <3>3, <3>4
  <2> QED BY <2>1, <2>2
<1>8. Len(more) = len + 1
  BY <1>2
<1> QED BY <1>6, <1>7, <1>8 DEF LeftAgrees, label

-----------------------------------------------------------------------------
(* The machine on a root that the strict convention admits *)

(* What is known before pc n is so of the registers, the environment and the
   modules. *)
Follows(proto, n, rs, e, l) ==
    /\ DOMAIN rs = Registers(proto)
    /\ DOMAIN RootStates(proto)[n].regs = Registers(proto)
    /\ e = Scanned(proto)[n].segments
    /\ e = <<>> \/ IsModulePath(e)
    /\ \A r \in Registers(proto) : TokenAgrees(Scanned(proto)[n].tokens[r], rs[r])
    /\ \A r \in Registers(proto) : ValueAgrees(RootStates(proto)[n].regs[r], rs[r])
    /\ LeftAgrees(e, RootStates(proto)[n].stores, l)

LiteralInv(proto, pc, rs, e, l) ==
    /\ pc \in Pcs(proto) => pc \in Instructions(proto)
    /\ pc \in Instructions(proto) => Follows(proto, pc, rs, e, l)
    /\ pc = Halted => Follows(proto, NumWords(proto), rs, e, l)

LEMMA LiteralStarts ==
    ASSUME NEW proto, IsLiteral(proto)
    PROVE  LiteralInv(proto, 0, [r \in Registers(proto) |-> Number], <<>>, [l \in {} |-> 0])
<1> DEFINE s == Scanned(proto)[0]
           v == RootStates(proto)[0]
<1>1. NumWords(proto) \in Nat /\ 0 \in Instructions(proto) /\ 0 # Halted
  BY RootIs DEF IsLiteral, Halted
<1>2. s = StartScan(proto) /\ v = StartRoot(proto)
  BY <1>1, ScannedIs, RootStatesAre
<1> HIDE DEF s, v
<1>3. /\ s.segments = <<>> /\ v.stores = <<>> /\ DOMAIN v.regs = Registers(proto)
      /\ \A r \in Registers(proto) : s.tokens[r] = Other /\ v.regs[r] = Bottom
  BY <1>2 DEF StartScan, StartRoot
<1>4. LeftAgrees(<<>>, v.stores, [l \in {} |-> 0])
  <2>1. Len(v.stores) = 0
    BY <1>3
  <2> QED BY <1>3, <2>1 DEF LeftAgrees
<1>5. ValueAgrees(Bottom, Number)
  BY ValuesThatAgree
<1> QED BY <1>1, <1>3, <1>4, <1>5 DEF LiteralInv, Follows, s, v, TokenAgrees

RegsAfter(w) == [r \in DOMAIN regs |-> IF Written(w, r) THEN Result(w) ELSE regs[r]]
LeftAfter(w) ==
    IF w.op = "SETGLOBAL" THEN Leave(Append(env, w.k), regs[w.a]) ELSE left

LEMMA LiteralFollows ==
    ASSUME IsLiteral(Root), NEW pc \in Instructions(Root), Follows(Root, pc, regs, env, left)
    PROVE  LET w == Root.words[pc]
           IN  /\ w.op \in StraightOps
               /\ w.op = "LOADBOOL" => w.c = 0
               /\ Follows(Root, pc + 1, RegsAfter(w), EnvAfter(w), LeftAfter(w))
<1> DEFINE w == Root.words[pc]
           s == Scanned(Root)[pc]
           t == Scanned(Root)[pc + 1]
           v == RootStates(Root)[pc]
           u == RootStates(Root)[pc + 1]
           R == Registers(Root)
<1>1. /\ Is51(Root) /\ IsPrototype(Root)
  BY DEF IsLiteral, Is51
<1>2. /\ pc \in 0..(NumWords(Root) - 1) /\ NumWords(Root) \in Nat
      /\ AdmittedAs(Root, s, w, t) /\ u = RootStep(Root, v, pc)
  BY OpenBefore
<1>3. IsScan(Root, s)
  <2>1. pc \in 0..NumWords(Root)
    BY <1>2
  <2> QED BY <1>1, <2>1, ScansAre
<1>4. /\ DOMAIN regs = R /\ DOMAIN v.regs = R
      /\ env = s.segments /\ (env = <<>> \/ IsModulePath(env))
      /\ \A r \in R : TokenAgrees(s.tokens[r], regs[r])
      /\ \A r \in R : ValueAgrees(v.regs[r], regs[r])
      /\ LeftAgrees(env, v.stores, left)
  BY DEF Follows
<1>5. w.op = "LOADBOOL" => w.c = 0
  BY <1>2 DEF AdmittedAs
<1> HIDE DEF s, t, v, u
<1>6. /\ w.op \in StraightOps /\ Declares(s, w, t) /\ EnvAfter(w) = t.segments
      /\ \A r \in R : TokenAgrees(t.tokens[r], IF Written(w, r) THEN Result(w) ELSE regs[r])
  BY <1>1, <1>2, <1>3, <1>4, TokensFollow
<1>7. w.op = "CALL" => w.c = 1
  BY <1>6 DEF Declares
<1>8. /\ DOMAIN RootTransfer(Root, pc, v.regs) = R
      /\ \A r \in R : ValueAgrees(RootTransfer(Root, pc, v.regs)[r],
                                  IF Written(w, r) THEN Result(w) ELSE regs[r])
  BY <1>1, <1>4, <1>6, <1>7, ResultAgrees
<1>9. /\ u.regs = RootTransfer(Root, pc, v.regs)
      /\ u.stores = IF w.op = "SETGLOBAL" THEN Append(v.stores, Store(Root, pc, v.regs))
                    ELSE v.stores
  BY <1>2 DEF RootStep
<1>10. EnvAfter(w) = <<>> \/ IsModulePath(EnvAfter(w))
  BY <1>4, <1>6 DEF Declares
<1>11. DOMAIN RegsAfter(w) = R
       /\ \A r \in R : RegsAfter(w)[r] = IF Written(w, r) THEN Result(w) ELSE regs[r]
  BY <1>4 DEF RegsAfter
<1>12. LeftAgrees(EnvAfter(w), u.stores, LeftAfter(w))
  <2>1. CASE w.op = "SETGLOBAL"
    <3> DEFINE st == Store(Root, pc, v.regs)
    <3>1. env # <<>> /\ EnvAfter(w) = env
      BY <1>4, <1>6, <2>1 DEF Declares
    <3>2. IsSeq(env)
      BY <1>4, <3>1, ToSetOfSeq DEF IsSeq, IsModulePath
    <3>3. IsSeq(v.stores)
      <4>1. pc \in 0..NumWords(Root)
        BY <1>2
      <4> QED BY <4>1, RootStoresAre DEF StoresAre, v
    <3>4. w.a \in R
      <4>1. WordErrors(Root, Instructions(Root), pc) = {} /\ pc \in Pcs(Root)
        BY <1>1, RootIs
      <4>2. w.a \in Nat /\ w.a < Root.maxstack
        BY <1>1, <2>1, <4>1, ValidOperands DEF ARegisterOps
      <4> QED BY <1>1, <4>2 DEF Registers, IsPrototype
    <3>5. StoreAgrees(st, regs[w.a]) /\ st.name = w.k
      BY <1>4, <3>4, StoredValueAgrees
    <3>6. u.stores = Append(v.stores, st) /\ LeftAfter(w) = Leave(Append(env, w.k), regs[w.a])
      BY <1>9, <2>1 DEF LeftAfter
    <3> HIDE DEF st, w
    <3> QED BY <1>4, <3>1, <3>2, <3>3, <3>5, <3>6, LeftFollows
  <2>2. CASE w.op # "SETGLOBAL"
    <3>1. u.stores = v.stores /\ LeftAfter(w) = left
      BY <1>9, <2>2 DEF LeftAfter
    <3>2. CASE w.op # "CALL"
      <4>1. EnvAfter(w) = env
        BY <1>4, <1>6, <3>2 DEF Declares
      <4> QED BY <1>4, <3>1, <4>1
    <3>3. CASE w.op = "CALL"
      <4>1. env = <<>>
        BY <1>4, <1>6, <3>3 DEF Declares
      <4>2. v.stores = <<>>
        BY <1>4, <4>1 DEF LeftAgrees
      <4>3. Len(v.stores) = 0
        BY <4>2
      <4> QED BY <1>4, <3>1, <4>2, <4>3 DEF LeftAgrees
    <3> QED BY <3>2, <3>3
  <2> QED BY <2>1, <2>2
<1>13. Follows(Root, pc + 1, RegsAfter(w), EnvAfter(w), LeftAfter(w))
  <2>1. /\ DOMAIN RegsAfter(w) = R /\ DOMAIN u.regs = R
        /\ \A r \in R : TokenAgrees(t.tokens[r], RegsAfter(w)[r])
        /\ \A r \in R : ValueAgrees(u.regs[r], RegsAfter(w)[r])
    BY <1>6, <1>8, <1>9, <1>11
  <2> HIDE DEF w
  <2> QED BY <1>6, <1>10, <1>12, <2>1 DEF Follows, t, u
<1> QED BY <1>5, <1>6, <1>13

(* From one instruction to the next, and to the end *)
LEMMA LiteralGoes ==
    ASSUME IsLiteral(Root), NEW pc \in Pcs(Root), LiteralInv(Root, pc, regs, env, left),
           NEW to \in NextPcs(Root, pc)
    PROVE  LET w == Root.words[pc]
           IN  LiteralInv(Root, to, RegsAfter(w), EnvAfter(w), LeftAfter(w))
<1> DEFINE w == Root.words[pc]
           rs == RegsAfter(w)
           e == EnvAfter(w)
           l == LeftAfter(w)
           end == NumWords(Root)
           n == After(Root, pc)
<1>1. pc \in Instructions(Root) /\ Follows(Root, pc, regs, env, left)
  BY DEF LiteralInv
<1>2. /\ w.op \in StraightOps
      /\ w.op = "LOADBOOL" => w.c = 0
      /\ Follows(Root, pc + 1, rs, e, l)
  BY <1>1, LiteralFollows
<1>3. /\ n \in Nat
      /\ n \in Pcs(Root) =>
            /\ n \in Instructions(Root)
            /\ Scanned(Root)[n] = Scanned(Root)[pc + 1]
            /\ RootStates(Root)[n] = RootStates(Root)[pc + 1]
      /\ w.op = "RETURN" =>
            /\ Scanned(Root)[end] = Scanned(Root)[pc + 1]
            /\ RootStates(Root)[end] = RootStates(Root)[pc + 1]
  BY <1>1, LiteralSteps
<1>4. Instructions(Root) \subseteq Pcs(Root) /\ Pcs(Root) = 0..(end - 1) /\ end \in Nat
  BY RootIs DEF IsLiteral
<1> HIDE DEF rs, e, l
<1>5. \A m : Scanned(Root)[m] = Scanned(Root)[pc + 1] /\ RootStates(Root)[m] = RootStates(Root)[pc + 1]
             => Follows(Root, m, rs, e, l)
  BY <1>2 DEF Follows
<1>6. CASE w.op = "RETURN"
  <2>1. to = Halted
    BY <1>6 DEF NextPcs, SkipOps
  <2>2. to \notin Pcs(Root)
    BY <1>4, <2>1 DEF Halted
  <2>3. Follows(Root, end, rs, e, l)
    BY <1>3, <1>5, <1>6
  <2> QED BY <1>4, <2>2, <2>3 DEF LiteralInv, rs, e, l
<1>7. CASE w.op # "RETURN"
  <2>1. to = pc + 1 + Span(Root, pc)
    BY <1>2, <1>7 DEF NextPcs, SkipOps, StraightOps
  <2>2. to = n
    BY <2>1 DEF After, Claimed, IsLiteral, Is51
  <2>3. to # Halted
    BY <1>3, <2>2 DEF Halted
  <2>4. to \in Pcs(Root) => to \in Instructions(Root) /\ Follows(Root, to, rs, e, l)
    <3> HIDE DEF n
    <3> QED BY <1>3, <1>5, <2>2
  <2> QED BY <1>4, <2>3, <2>4 DEF LiteralInv, rs, e, l
<1> QED BY <1>6, <1>7

-----------------------------------------------------------------------------
(* The machine on a root that reads no module *)

IsPlain(proto) == Is51(proto) /\ ~HasModuleLookup(proto)

(* A label of no member of a module *)
IsPlainLabel(label) == Len(label) = 1 \/ label[1] = NoPart

PlainInv(proto, pc, rs, e, l) ==
    /\ pc \in Pcs(proto) => pc \in Instructions(proto)
    /\ DOMAIN rs = Registers(proto)
    /\ \A r \in Registers(proto) : rs[r].is # "module"
    /\ e \in {<<>>, Nowhere}
    /\ \A label \in DOMAIN l : IsPlainLabel(label)

LEMMA PlainStarts ==
    ASSUME NEW proto, IsPlain(proto)
    PROVE  PlainInv(proto, 0, [r \in Registers(proto) |-> Number], <<>>, [l \in {} |-> 0])
<1>1. 0 \in Instructions(proto)
  BY RootIs DEF IsPlain
<1> QED BY <1>1 DEF PlainInv, Number

(* Control stays on the instructions of an accepted root. *)
LEMMA InstructionsFollow ==
    ASSUME NEW proto, Is51(proto), NEW pc \in Instructions(proto),
           NEW to \in NextPcs(proto, pc), to \in Pcs(proto)
    PROVE  to \in Instructions(proto)
<1>1. /\ IsPrototype(proto) /\ proto.dialect = "5.1"
      /\ Instructions(proto) = Executable(proto) /\ pc \in Pcs(proto)
      /\ WordErrors(proto, Instructions(proto), pc) = {}
  BY RootIs DEF Is51
<1> DEFINE w == proto.words[pc]
<1>2. /\ w.op \in Opcodes
      /\ (JumpTargets(w) \cup SkipTargets(w, pc)) \cap Pcs(proto) \subseteq Instructions(proto)
  BY <1>1, ValidOperands
<1>3. to \in Targets(proto, pc) \/ to = After(proto, pc)
  BY <1>1, <1>2, NextIsTargetOrAfter
<1>4. CASE to \in Targets(proto, pc)
  BY <1>1, <1>2, <1>4 DEF Targets
<1>5. CASE to = After(proto, pc)
  BY <1>1, <1>5, NextInstruction
<1> QED BY <1>3, <1>4, <1>5

(* Nor does it get one. *)
LEMMA PlainGoes ==
    ASSUME IsPlain(Root), NEW pc \in Pcs(Root), PlainInv(Root, pc, regs, env, left),
           NEW to \in NextPcs(Root, pc)
    PROVE  LET w == Root.words[pc]
           IN  PlainInv(Root, to, RegsAfter(w), EnvAfter(w), LeftAfter(w))
<1> DEFINE w == Root.words[pc]
           R == Registers(Root)
<1>1. pc \in Instructions(Root) /\ Is51(Root) /\ IsPrototype(Root)
  BY DEF PlainInv, IsPlain, Is51
<1>2. WordErrors(Root, Instructions(Root), pc) = {}
  BY <1>1, RootIs
<1>3. /\ w.a \in Nat /\ w.b \in Nat
      /\ ARegisterOps(w.op) => w.a < Root.maxstack
      /\ w.op \in BRegisterOps => w.b < Root.maxstack
  BY <1>1, <1>2, ValidOperands
<1>4. /\ w.op \in {"CALL", "TAILCALL"} => w.a \in R
      /\ w.op \in {"MOVE", "GETTABLE"} => w.b \in R
  BY <1>1, <1>3 DEF ARegisterOps, BRegisterOps, Registers, IsPrototype
<1>5. ~(w.op = "GETGLOBAL" /\ w.k = "module")
  <2>1. Root \in Prototypes(Root)
    BY RootIsAPrototype, NamesAssumption
  <2> QED BY <1>1, <2>1 DEF IsPlain, HasModuleLookup
<1>6. to \in Pcs(Root) => to \in Instructions(Root)
  BY <1>1, InstructionsFollow
<1>7. DOMAIN regs = R /\ \A r \in R : regs[r].is # "module"
  BY DEF PlainInv
<1>8. Result(w).is # "module"
  BY <1>4, <1>5, <1>7 DEF Result, GlobalValue, LiteralToken, Number, Token, Opaque, Function
<1>9. DOMAIN RegsAfter(w) = R /\ \A r \in R : RegsAfter(w)[r].is # "module"
  BY <1>7, <1>8 DEF RegsAfter
<1>10. EnvAfter(w) \in {<<>>, Nowhere}
  <2>1. env \in {<<>>, Nowhere}
    BY DEF PlainInv
  <2>2. w.op \in {"CALL", "TAILCALL"} => regs[w.a] # Token("module")
    BY <1>4, <1>7 DEF Token
  <2> QED BY <2>1, <2>2 DEF EnvAfter
<1>11. \A label \in DOMAIN LeftAfter(w) : IsPlainLabel(label)
  <2>1. \A label \in DOMAIN left : IsPlainLabel(label)
    BY DEF PlainInv
  <2>2. IsPlainLabel(Append(env, w.k))
    <3>1. env \in Seq({NoPart}) /\ (Len(env) = 0 \/ (Len(env) = 1 /\ env[1] = NoPart))
      <4>1. env = <<>> \/ env = <<NoPart>>
        BY DEF PlainInv, Nowhere
      <4>2. CASE env = <<>>
        BY <4>2
      <4>3. CASE env = <<NoPart>>
        BY <4>3
      <4> QED BY <4>1, <4>2, <4>3
    <3>2. IsSeq(env)
      BY <3>1, ToSetOfSeq DEF IsSeq
    <3> DEFINE k == w.k
    <3> HIDE DEF k
    <3>3. /\ Len(Append(env, k)) = Len(env) + 1
          /\ \A i \in 1..Len(env) : Append(env, k)[i] = env[i]
      BY <3>2, AppendIsSeq
    <3> QED BY <3>1, <3>3 DEF IsPlainLabel, k
  <2> QED BY <2>1, <2>2 DEF LeftAfter, Leave
<1> QED BY <1>6, <1>9, <1>10, <1>11 DEF PlainInv

-----------------------------------------------------------------------------
(* The last stores of a root *)

LastOf(stores) ==
    {st \in ToSet(stores) :
        \A other \in ToSet(stores) : other.name = st.name => other.pc <= st.pc}

(* A store is the last of its name when no later one has it. *)
LEMMA LastIs ==
    ASSUME NEW n, NEW stores, StoresAre(stores, n), n \in Nat
    PROVE  /\ \A i \in 1..Len(stores) : stores[i] \in LastOf(stores) <=> IsLast(stores, i)
           /\ \A st \in LastOf(stores) : \E i \in 1..Len(stores) : st = stores[i]
           /\ \A i \in 1..Len(stores) : \E j \in 1..Len(stores) :
                 stores[j].name = stores[i].name /\ IsLast(stores, j)
<1> DEFINE len == Len(stores)
<1>1. len \in Nat /\ DOMAIN stores = 1..len
  BY DEF StoresAre, IsSeq
<1>2. /\ \A i \in 1..len : stores[i].pc \in 0..(n - 1)
      /\ \A i, j \in 1..len : i < j => stores[i].pc < stores[j].pc
  BY DEF StoresAre
<1>3. ToSet(stores) = {stores[i] : i \in 1..len}
  BY <1>1 DEF ToSet
<1>4. ASSUME NEW i \in 1..len, stores[i] \in LastOf(stores) PROVE IsLast(stores, i)
  <2> SUFFICES ASSUME NEW j \in 1..len, j > i, stores[j].name = stores[i].name PROVE FALSE
    BY DEF IsLast
  <2>1. stores[j] \in ToSet(stores)
    BY <1>3
  <2>2. stores[j].pc <= stores[i].pc
    BY <1>4, <2>1 DEF LastOf
  <2>3. stores[i].pc < stores[j].pc
    BY <1>2
  <2>4. stores[i].pc \in 0..(n - 1) /\ stores[j].pc \in 0..(n - 1)
    BY <1>2
  <2> QED BY <2>2, <2>3, <2>4
<1>5. ASSUME NEW i \in 1..len, IsLast(stores, i) PROVE stores[i] \in LastOf(stores)
  <2>1. stores[i] \in ToSet(stores)
    BY <1>3
  <2>2. ASSUME NEW j \in 1..len, stores[j].name = stores[i].name
        PROVE  stores[j].pc <= stores[i].pc
    <3>1. ~(j > i)
      BY <1>5, <2>2 DEF IsLast
    <3>2. j = i \/ j < i
      BY <3>1, <1>1
    <3>3. stores[i].pc \in 0..(n - 1) /\ stores[j].pc \in 0..(n - 1)
      BY <1>2
    <3> QED BY <1>2, <3>2, <3>3
  <2> QED BY <1>3, <2>1, <2>2 DEF LastOf
<1>6. ASSUME NEW i \in 1..len
      PROVE  \E j \in 1..len : stores[j].name = stores[i].name /\ IsLast(stores, j)
  <2> DEFINE T == {j \in 1..len : stores[j].name = stores[i].name}
  <2>1. T \subseteq Int /\ i \in T /\ \A x \in T : x <= len
    BY <1>1
  <2>2. PICK j \in T : \A y \in T : y <= j
    <3> HIDE DEF T
    <3>1. T # {} /\ len \in Int
      BY <1>1, <2>1
    <3> QED BY <2>1, <3>1, GreatestNumber
  <2>3. IsLast(stores, j)
    <3> SUFFICES ASSUME NEW k \in 1..len, k > j, stores[k].name = stores[j].name PROVE FALSE
      BY DEF IsLast
    <3>1. k \in T
      OBVIOUS
    <3> QED BY <1>1, <2>2, <3>1
  <2> QED BY <2>3
<1>7. \A st \in LastOf(stores) : \E i \in 1..len : st = stores[i]
  BY <1>3 DEF LastOf
<1> QED BY <1>4, <1>5, <1>6, <1>7

(* The list of the last stores holds exactly them. *)
LEMMA LastStoresAre ==
    ASSUME NEW n, NEW stores, StoresAre(stores, n), n \in Nat
    PROVE  LET last == LastStores(stores)
           IN  /\ Len(last) \in Nat
               /\ \A i \in 1..Len(last) : last[i] \in LastOf(stores)
               /\ \A st \in LastOf(stores) : \E i \in 1..Len(last) : last[i] = st
<1> DEFINE Final == LastOf(stores)
           ranks == {Rank[st.name] : st \in Final}
           last == LastStores(stores)
           k == Cardinality(ranks)
<1>1. /\ IsSeq(stores) /\ DOMAIN stores = 1..Len(stores) /\ Len(stores) \in Nat
      /\ \A i \in 1..Len(stores) : stores[i].name \in Selectors
  BY DEF StoresAre, IsSeq
<1>2. IsFiniteSet(Final)
  <2>1. IsFiniteSet(ToSet(stores))
    BY <1>1, ToSetOfSeq DEF IsSeq
  <2>2. Final \subseteq ToSet(stores)
    BY DEF LastOf
  <2> HIDE DEF Final
  <2> QED BY <2>1, <2>2, FS_Subset
<1>3. \A st \in Final : st.name \in Selectors
  <2>1. \A st \in Final : \E i \in 1..Len(stores) : st = stores[i]
    BY LastIs
  <2> QED BY <1>1, <2>1
<1> HIDE DEF Final
<1>4. /\ \A st \in Final : Rank[st.name] \in Nat
      /\ \A a, b \in Final : Rank[a.name] = Rank[b.name] => a.name = b.name
  BY <1>3, NamesAssumption
<1>5. ranks \in SUBSET Nat /\ IsFiniteSet(ranks)
  <2>1. ranks \in SUBSET Nat
    BY <1>4
  <2>2. IsFiniteSet(ranks)
    <3> DEFINE g == [st \in Final |-> Rank[st.name]]
    <3>1. g \in Surjection(Final, ranks)
      BY DEF Surjection
    <3> HIDE DEF g, ranks
    <3> QED BY <1>2, <3>1, FS_Surjection
  <2> QED BY <2>1, <2>2
<1>6. /\ k \in Nat /\ ToSet(InOrder(ranks)) = ranks
      /\ InOrder(ranks) \in Seq(ranks) /\ Len(InOrder(ranks)) = k
  <2> HIDE DEF ranks
  <2> QED BY <1>5, InOrderIs, InOrderSorts
<1>7. last = [i \in 1..k |-> CHOOSE st \in Final : Rank[st.name] = InOrder(ranks)[i]]
  BY DEF LastStores, Final, LastOf
<1> HIDE DEF k
<1>8. Len(last) = k
  <2> HIDE DEF ranks
  <2> QED BY <1>6, <1>7
<1>9. \A i \in 1..k : InOrder(ranks)[i] \in ranks
  <2> HIDE DEF ranks
  <2> QED BY <1>6
<1>10. \A i \in 1..k : last[i] \in Final /\ Rank[last[i].name] = InOrder(ranks)[i]
  <2> SUFFICES ASSUME NEW i \in 1..k
               PROVE  last[i] \in Final /\ Rank[last[i].name] = InOrder(ranks)[i]
    OBVIOUS
  <2>1. last[i] = CHOOSE st \in Final : Rank[st.name] = InOrder(ranks)[i]
    <3> HIDE DEF last, ranks
    <3> QED BY <1>7
  <2>2. \E st \in Final : Rank[st.name] = InOrder(ranks)[i]
    BY <1>9
  <2> HIDE DEF last, ranks
  <2> QED BY <2>1, <2>2
<1>11. ASSUME NEW st \in Final PROVE \E i \in 1..k : last[i] = st
  <2>1. Rank[st.name] \in ToSet(InOrder(ranks))
    BY <1>6
  <2>2. PICK i \in 1..k : InOrder(ranks)[i] = Rank[st.name]
    <3> HIDE DEF ranks
    <3> QED BY <1>6, <2>1 DEF ToSet
  <2> DEFINE it == last[i]
  <2>3. it \in Final /\ Rank[it.name] = Rank[st.name]
    BY <1>10, <2>2
  <2> HIDE DEF it
  <2>4. it.name = st.name
    BY <1>4, <2>3
  <2>5. PICK a \in 1..Len(stores) : st = stores[a]
    BY LastIs DEF Final
  <2>6. PICK b \in 1..Len(stores) : it = stores[b]
    BY <2>3, LastIs DEF Final
  <2>7. IsLast(stores, a) /\ IsLast(stores, b)
    BY <2>3, <2>5, <2>6, LastIs DEF Final
  <2>8. ~(a > b) /\ ~(b > a)
    BY <2>4, <2>5, <2>6, <2>7 DEF IsLast
  <2>9. a = b
    BY <1>1, <2>8
  <2> QED BY <2>5, <2>6, <2>9 DEF it
<1> HIDE DEF last, ranks
<1>12. /\ Len(last) \in Nat
       /\ \A i \in 1..Len(last) : last[i] \in Final
       /\ \A st \in Final : \E i \in 1..Len(last) : last[i] = st
  BY <1>6, <1>8, <1>10, <1>11
<1> QED BY <1>12 DEF last, Final

-----------------------------------------------------------------------------
(* The index *)

IsIndex(x) ==
    /\ DOMAIN x = {"exports", "dynamic", "limit", "marks", "assumed"}
    /\ IsSeq(x.exports) /\ x.limit \in BOOLEAN

IsOpen(x) == ~x.limit /\ x.dynamic = {}

DefinitionOf(identity, segments, st) ==
    Definition(identity, Append(segments, st.name), st.value.kind.prototype)

(* What a step of the indexing does while no trusted root is admitted: it
   adds nothing but these definitions, and an index that stays open has them
   all and rests on this. *)
Adds(x, y, definitions, settled) ==
    /\ IsIndex(y)
    /\ y.assumed = {} =>
          /\ x.assumed = {} /\ y.marks = x.marks
          /\ ToSet(x.exports) \subseteq ToSet(y.exports)
          /\ ToSet(y.exports) \subseteq ToSet(x.exports) \cup definitions
          /\ ~y.limit => ~x.limit
          /\ IsOpen(y) => IsOpen(x) /\ settled /\ definitions \subseteq ToSet(y.exports)

LEMMA ToSetOfAppend ==
    ASSUME NEW s, IsSeq(s), NEW e
    PROVE  ToSet(Append(s, e)) = ToSet(s) \cup {e}
<1> DEFINE t == Append(s, e)
<1>1. /\ IsSeq(t) /\ Len(t) = Len(s) + 1 /\ t[Len(s) + 1] = e
      /\ \A i \in 1..Len(s) : t[i] = s[i]
  BY AppendIsSeq
<1>2. /\ Len(s) \in Nat /\ DOMAIN s = 1..Len(s) /\ DOMAIN t = 1..(Len(s) + 1)
  BY <1>1 DEF IsSeq
<1>3. \A i \in 1..(Len(s) + 1) : i \in 1..Len(s) \/ i = Len(s) + 1
  BY <1>2
<1>4. 1..Len(s) \subseteq 1..(Len(s) + 1) /\ Len(s) + 1 \in 1..(Len(s) + 1)
  BY <1>2
<1> HIDE DEF t
<1>5. ToSet(t) = ToSet(s) \cup {e}
  BY <1>1, <1>2, <1>3, <1>4 DEF ToSet
<1> QED BY <1>5 DEF t

LEMMA InsertIs ==
    ASSUME NEW x, IsIndex(x), NEW d, NEW max
    PROVE  LET y == Insert(x, d, max)
           IN  /\ IsIndex(y) /\ y.assumed = x.assumed /\ y.marks = x.marks
               /\ y.dynamic = x.dynamic
               /\ \/ y.limit = x.limit /\ ToSet(y.exports) = ToSet(x.exports) \cup {d}
                  \/ y.limit = TRUE /\ ToSet(y.exports) = ToSet(x.exports)
<1> DEFINE y == Insert(x, d, max)
           more == [x EXCEPT !.exports = Append(@, d)]
           Goal(z) == /\ IsIndex(z) /\ z.assumed = x.assumed /\ z.marks = x.marks
                      /\ z.dynamic = x.dynamic
                      /\ \/ z.limit = x.limit /\ ToSet(z.exports) = ToSet(x.exports) \cup {d}
                         \/ z.limit = TRUE /\ ToSet(z.exports) = ToSet(x.exports)
<1>1. y = more \/ y = MarkLimit(x)
  BY DEF Insert
<1>2. IsSeq(Append(x.exports, d)) /\ ToSet(Append(x.exports, d)) = ToSet(x.exports) \cup {d}
  BY AppendIsSeq, ToSetOfAppend DEF IsIndex
<1>3. Goal(more)
  <2>1. /\ DOMAIN more = DOMAIN x /\ more.exports = Append(x.exports, d)
        /\ more.assumed = x.assumed /\ more.marks = x.marks /\ more.dynamic = x.dynamic
        /\ more.limit = x.limit
    BY DEF IsIndex
  <2> HIDE DEF more
  <2> QED BY <1>2, <2>1 DEF IsIndex
<1>4. Goal(MarkLimit(x))
  <2> DEFINE z == MarkLimit(x)
  <2>1. /\ DOMAIN z = DOMAIN x /\ z.exports = x.exports
        /\ z.assumed = x.assumed /\ z.marks = x.marks /\ z.dynamic = x.dynamic
        /\ z.limit = TRUE
    BY DEF IsIndex, MarkLimit
  <2> SUFFICES Goal(z)
    OBVIOUS
  <2> HIDE DEF z
  <2> QED BY <2>1 DEF IsIndex
<1> SUFFICES Goal(y)
  OBVIOUS
<1> HIDE DEF y, more, Goal
<1> QED BY <1>1, <1>3, <1>4

LEMMA MarksAre ==
    ASSUME NEW x, IsIndex(x), NEW identity, NEW definitions, NEW settled
    PROVE  /\ Adds(x, MarkDynamic(x, identity), definitions, settled)
           /\ Adds(x, MarkLimit(x), definitions, settled)
           /\ Adds(x, x, {}, TRUE)
<1>1. Adds(x, MarkDynamic(x, identity), definitions, settled)
  <2> DEFINE y == MarkDynamic(x, identity)
  <2>1. /\ DOMAIN y = DOMAIN x /\ y.exports = x.exports /\ y.assumed = x.assumed
        /\ y.marks = x.marks /\ y.limit = x.limit /\ y.dynamic # {}
    BY DEF MarkDynamic, IsIndex
  <2> SUFFICES Adds(x, y, definitions, settled)
    OBVIOUS
  <2> HIDE DEF y
  <2> QED BY <2>1 DEF Adds, IsIndex, IsOpen
<1>2. Adds(x, MarkLimit(x), definitions, settled)
  <2> DEFINE y == MarkLimit(x)
  <2>1. /\ DOMAIN y = DOMAIN x /\ y.exports = x.exports /\ y.assumed = x.assumed
        /\ y.marks = x.marks /\ y.limit = TRUE
    BY DEF MarkLimit, IsIndex
  <2> SUFFICES Adds(x, y, definitions, settled)
    OBVIOUS
  <2> HIDE DEF y
  <2> QED BY <2>1 DEF Adds, IsIndex, IsOpen
<1>3. Adds(x, x, {}, TRUE)
  BY DEF Adds
<1> QED BY <1>1, <1>2, <1>3

(* What one store adds *)
StoreDefinitions(identity, segments, st) ==
    IF IsClosureStore(st) THEN {DefinitionOf(identity, segments, st)} ELSE {}

LEMMA StoreIndexed ==
    ASSUME NEW x, IsIndex(x), NEW identity, NEW segments, NEW st, NEW max
    PROVE  Adds(x, IndexStore(x, identity, segments, st, max),
                StoreDefinitions(identity, segments, st), IsKnown(st.value))
<1> DEFINE y == IndexStore(x, identity, segments, st, max)
           d == DefinitionOf(identity, segments, st)
<1>1. CASE IsClosureStore(st)
  <2>1. y = Insert(x, d, max) /\ StoreDefinitions(identity, segments, st) = {d}
    <3>1. StoreDefinitions(identity, segments, st) = {d}
      BY <1>1 DEF StoreDefinitions
    <3>2. y = Insert(x, Definition(identity, Append(segments, st.name),
                                   st.value.kind.prototype), max)
      BY <1>1 DEF IndexStore
    <3> QED BY <3>1, <3>2 DEF DefinitionOf
  <2>2. IsKnown(st.value) = TRUE
    BY <1>1 DEF IsClosureStore, IsKnown
  <2>3. Adds(x, Insert(x, d, max), {d}, TRUE)
    <3> DEFINE z == Insert(x, d, max)
    <3>1. /\ IsIndex(z) /\ z.assumed = x.assumed /\ z.marks = x.marks
          /\ z.dynamic = x.dynamic
          /\ \/ z.limit = x.limit /\ ToSet(z.exports) = ToSet(x.exports) \cup {d}
             \/ z.limit = TRUE /\ ToSet(z.exports) = ToSet(x.exports)
      <4> HIDE DEF d
      <4> QED BY InsertIs
    <3> SUFFICES Adds(x, z, {d}, TRUE)
      OBVIOUS
    <3> HIDE DEF z, d
    <3> QED BY <3>1 DEF Adds, IsOpen
  <2> HIDE DEF d, y
  <2> QED BY <2>1, <2>2, <2>3 DEF y
<1>2. CASE ~IsKnown(st.value)
  <2>1. ~IsClosureStore(st)
    BY <1>2 DEF IsClosureStore
  <2>2. y = MarkDynamic(x, identity)
    BY <1>2, <2>1 DEF IndexStore
  <2> QED BY <2>2, MarksAre
<1>3. CASE IsKnown(st.value) /\ ~IsClosureStore(st)
  <2>1. y = x /\ StoreDefinitions(identity, segments, st) = {}
    BY <1>3 DEF IndexStore, StoreDefinitions
  <2>2. IsKnown(st.value) = TRUE
    BY <1>3 DEF IsKnown
  <2> QED BY <2>1, <2>2, MarksAre
<1> QED BY <1>1, <1>2, <1>3

(* Steps add up. *)
LEMMA AddsUp ==
    ASSUME NEW x, NEW y, NEW z, NEW D, NEW E, NEW p, NEW q,
           Adds(x, y, D, p), Adds(y, z, E, q)
    PROVE  Adds(x, z, D \cup E, p /\ q)
BY DEF Adds, IsOpen

LEMMA AddsMeans ==
    ASSUME NEW x, NEW y, NEW D, NEW E, NEW p, NEW q, Adds(x, y, D, p), D = E, p <=> q
    PROVE  Adds(x, y, E, q)
BY DEF Adds

(* What the root of a module adds *)
StrictDefinitions(identity, segments, chunk) ==
    UNION {StoreDefinitions(identity, segments, st) : st \in LastOf(RootStores(chunk))}

AllKnown(chunk) == \A st \in LastOf(RootStores(chunk)) : IsKnown(st.value)

LEMMA StrictIndexed ==
    ASSUME NEW x, IsIndex(x), NEW identity, NEW segments, NEW chunk, IsLiteral(chunk), NEW max
    PROVE  Adds(x, IndexStrict(x, identity, chunk, segments, max),
                StrictDefinitions(identity, segments, chunk), AllKnown(chunk))
<1> DEFINE last == LastStores(RootStores(chunk))
           len == Len(last)
           D(n) == UNION {StoreDefinitions(identity, segments, last[i]) : i \in 1..n}
           K(n) == \A i \in 1..n : IsKnown(last[i].value)
<1>1. NumWords(chunk) \in Nat
  BY RootIs DEF IsLiteral
<1>2. StoresAre(RootStores(chunk), NumWords(chunk))
  <2>1. NumWords(chunk) \in 0..NumWords(chunk)
    BY <1>1
  <2> QED BY <2>1, RootStoresAre DEF RootStores
<1>3. /\ len \in Nat
      /\ \A i \in 1..len : last[i] \in LastOf(RootStores(chunk))
      /\ \A st \in LastOf(RootStores(chunk)) : \E i \in 1..len : last[i] = st
  BY <1>1, <1>2, LastStoresAre
<1>4. PICK f : IndexesStores(f, x, identity, chunk, segments, max)
  BY <1>3, IndexStrictIs
<1>5. /\ f[0] = x
      /\ \A n \in 1..len : f[n] = IndexStore(f[n - 1], identity, segments, last[n], max)
      /\ IndexStrict(x, identity, chunk, segments, max) = f[len]
  BY <1>4 DEF IndexesStores
<1> HIDE DEF last, len
<1>6. D(0) = {} /\ (K(0) <=> TRUE)
  OBVIOUS
<1>7. ASSUME NEW n \in Nat
      PROVE  /\ D(n + 1) = D(n) \cup StoreDefinitions(identity, segments, last[n + 1])
             /\ K(n + 1) <=> (K(n) /\ IsKnown(last[n + 1].value))
  <2>1. \A i : i \in 1..(n + 1) <=> i \in 1..n \/ i = n + 1
    OBVIOUS
  <2> DEFINE d(i) == StoreDefinitions(identity, segments, last[i])
  <2>2. \A m : D(m) = UNION {d(i) : i \in 1..m}
    OBVIOUS
  <2> HIDE DEF d
  <2>3. D(n + 1) = D(n) \cup d(n + 1)
    BY <2>1, <2>2
  <2> QED BY <2>1, <2>3 DEF d
<1> DEFINE Dr == StrictDefinitions(identity, segments, chunk)
           Kr == AllKnown(chunk)
<1>8. D(len) = Dr
  BY <1>3 DEF StrictDefinitions
<1>9. K(len) <=> Kr
  BY <1>3 DEF AllKnown
<1> HIDE DEF D, K, Dr, Kr
<1> DEFINE S == {n \in Nat : n <= len => Adds(x, f[n], D(n), K(n))}
<1>10. 0 \in S
  <2>1. Adds(x, f[0], {}, TRUE)
    BY <1>5, MarksAre
  <2>2. Adds(x, f[0], D(0), K(0))
    BY <1>6, <2>1, AddsMeans
  <2> QED BY <2>2
<1>11. ASSUME NEW n \in Nat, n \in S PROVE n + 1 \in S
  <2> SUFFICES ASSUME n + 1 <= len PROVE Adds(x, f[n + 1], D(n + 1), K(n + 1))
    OBVIOUS
  <2> DEFINE d == StoreDefinitions(identity, segments, last[n + 1])
             k == IsKnown(last[n + 1].value)
  <2>1. Adds(x, f[n], D(n), K(n))
    BY <1>3, <1>11
  <2>2. n + 1 \in 1..len /\ n + 1 - 1 = n
    BY <1>3
  <2>3. f[n + 1] = IndexStore(f[n], identity, segments, last[n + 1], max)
    BY <1>5, <2>2
  <2>4. D(n + 1) = D(n) \cup d /\ (K(n + 1) <=> (K(n) /\ k))
    BY <1>7
  <2>5. Adds(f[n], f[n + 1], d, k)
    <3>1. IsIndex(f[n])
      BY <2>1 DEF Adds
    <3> QED BY <2>3, <3>1, StoreIndexed
  <2> HIDE DEF S, d, k
  <2>6. Adds(x, f[n + 1], D(n) \cup d, K(n) /\ k)
    BY <2>1, <2>5, AddsUp
  <2> QED BY <2>4, <2>6, AddsMeans
<1>12. len \in S
  <2> HIDE DEF S
  <2> QED BY <1>3, <1>10, <1>11, Induction
<1>13. Adds(x, f[len], D(len), K(len))
  BY <1>3, <1>12
<1> HIDE DEF S
<1>14. Adds(x, f[len], Dr, Kr)
  BY <1>8, <1>9, <1>13, AddsMeans
<1> QED BY <1>5, <1>14 DEF Dr, Kr

(* What a chunk declares *)
LEMMA DeclarationIs ==
    ASSUME NEW chunk, IsPrototype(chunk)
    PROVE  LET d == DetectModuleDeclaration(chunk)
           IN  /\ d.is \in {"none", "literal", "dynamic", "limited"}
               /\ d.is = "literal" => IsLiteral(chunk) /\ d.segments = Scan(chunk).segments
               /\ d.is = "none" /\ chunk.dialect = "5.1" => IsPlain(chunk)
<1> DEFINE d == DetectModuleDeclaration(chunk)
<1>1. \A is, segments : /\ Declaration(is, segments).is = is
                        /\ Declaration(is, segments).segments = segments
  BY DEF Declaration
<1>2. CASE chunk.dialect # "5.1"
  <2>1. d = Declaration("none", <<>>)
    BY <1>2 DEF DetectModuleDeclaration
  <2> HIDE DEF d
  <2> QED BY <1>1, <1>2, <2>1 DEF d
<1>3. CASE chunk.dialect = "5.1" /\ ~Accepted(chunk)
  <2>1. d = Declaration("dynamic", <<>>)
    BY <1>3 DEF DetectModuleDeclaration
  <2> HIDE DEF d
  <2> QED BY <1>1, <2>1 DEF d
<1>4. CASE chunk.dialect = "5.1" /\ Accepted(chunk)
  <2>1. Is51(chunk)
    BY <1>4 DEF Is51
  <2>2. CASE ~HasModuleLookup(chunk)
    <3>1. d = Declaration("none", <<>>)
      BY <1>4, <2>2 DEF DetectModuleDeclaration
    <3> HIDE DEF d
    <3> QED BY <1>1, <2>1, <2>2, <3>1 DEF d, IsPlain
  <2>3. CASE HasModuleLookup(chunk) /\ NumWords(chunk) > MaxModuleInitWords
    <3>1. d = Declaration("limited", <<>>)
      BY <1>4, <2>3 DEF DetectModuleDeclaration
    <3> HIDE DEF d
    <3> QED BY <1>1, <3>1 DEF d
  <2>4. CASE HasModuleLookup(chunk) /\ ~(NumWords(chunk) > MaxModuleInitWords)
    <3> DEFINE s == Scan(chunk)
    <3>1. d = ScanResult(s)
      BY <1>4, <2>4 DEF DetectModuleDeclaration
    <3> HIDE DEF d, s
    <3>2. CASE s.verdict = "returned" /\ Declared(s)
      <4>1. d = Declaration("literal", s.segments)
        BY <3>1, <3>2 DEF ScanResult
      <4> QED BY <1>1, <2>1, <3>2, <4>1 DEF d, s, IsLiteral
    <3>3. CASE ~(s.verdict = "returned" /\ Declared(s))
      <4>1. d \in {Declaration("limited", <<>>), Declaration("dynamic", <<>>)}
        BY <3>1, <3>3 DEF ScanResult
      <4> QED BY <1>1, <4>1 DEF d
    <3> QED BY <3>2, <3>3
  <2> QED BY <2>2, <2>3, <2>4
<1> QED BY <1>2, <1>3, <1>4

-----------------------------------------------------------------------------
(* Admitted trusted roots leave their path *)

(* The stores of a root are a sequence, whatever it does. *)
LEMMA StoresAreSeq ==
    ASSUME NEW proto, Is51(proto), NEW n \in 0..NumWords(proto)
    PROVE  IsSeq(RootStates(proto)[n].stores)
<1> DEFINE S == {k \in Nat : k <= NumWords(proto) => IsSeq(RootStates(proto)[k].stores)}
<1>1. NumWords(proto) \in Nat
  BY RootIs
<1>2. 0 \in S
  <2>1. RootStates(proto)[0] = StartRoot(proto)
    BY <1>1, RootStatesAre
  <2>2. RootStates(proto)[0].stores = <<>>
    BY <2>1 DEF StartRoot
  <2>3. IsSeq(<<>>)
    BY DEF IsSeq, ToSet
  <2> QED BY <2>2, <2>3
<1>3. ASSUME NEW k \in Nat, k \in S PROVE k + 1 \in S
  <2> SUFFICES ASSUME k + 1 <= NumWords(proto) PROVE IsSeq(RootStates(proto)[k + 1].stores)
    OBVIOUS
  <2>1. k \in 0..(NumWords(proto) - 1) /\ IsSeq(RootStates(proto)[k].stores)
    BY <1>1, <1>3
  <2>2. RootStates(proto)[k + 1] \in {RootStates(proto)[k], RootStep(proto, RootStates(proto)[k], k)}
    BY <1>1, <2>1, RootStatesAre
  <2>3. IsSeq(RootStep(proto, RootStates(proto)[k], k).stores)
    <3> DEFINE s == RootStates(proto)[k]
               st == Store(proto, k, s.regs)
    <3>1. IsSeq(Append(s.stores, st))
      BY <2>1, AppendIsSeq
    <3> HIDE DEF s, st
    <3> QED BY <2>1, <3>1 DEF RootStep, s, st
  <2> QED BY <2>1, <2>2, <2>3
<1>4. n \in S
  <2> HIDE DEF S
  <2> QED BY <1>1, <1>2, <1>3, Induction
<1> QED BY <1>1, <1>4

(* What is admitted is finite. *)
LEMMA AdmittedIsFinite ==
    ASSUME NEW proto, NEW cfg, NEW pass, NEW segments, NEW stores, IsSeq(stores)
    PROVE  LET m == Admitted(proto, cfg, pass, segments, stores)
           IN  IsFiniteSet(m.marks) /\ Len(m.exports) \in Nat
<1> DEFINE call == pass.declarations[1].pc
           named == {i \in DOMAIN stores : stores[i].name \in Selectors}
           exported == {i \in named : IsExport(proto, cfg, call, stores, stores[i])}
           rest == named \ exported
           marked == {MarksOf(cfg, call, segments, stores[i]) : i \in rest}
           own == IF pass.options THEN {segments} ELSE {}
           m == Admitted(proto, cfg, pass, segments, stores)
<1>1. Len(stores) \in Nat /\ DOMAIN stores = 1..Len(stores)
  BY DEF IsSeq
<1>2. IsFiniteSet(1..Len(stores)) /\ 1..Len(stores) \subseteq Nat
  BY <1>1, FS_Interval
<1>3. /\ IsFiniteSet(exported) /\ exported \in SUBSET Nat
      /\ IsFiniteSet(rest)
  <2>1. exported \subseteq 1..Len(stores) /\ rest \subseteq 1..Len(stores)
    BY <1>1
  <2> HIDE DEF exported, rest
  <2> QED BY <1>2, <2>1, FS_Subset
<1>4. m.marks = own \cup UNION marked /\ m.exports = Subsequence(stores, exported)
  BY DEF Admitted
<1>5. IsFiniteSet(marked)
  <2> DEFINE g == [i \in rest |-> MarksOf(cfg, call, segments, stores[i])]
  <2>1. g \in Surjection(rest, marked)
    BY DEF Surjection
  <2> HIDE DEF g, rest, marked
  <2> QED BY <1>3, <2>1, FS_Surjection
<1>6. \A x \in marked : IsFiniteSet(x)
  <2>1. ASSUME NEW st PROVE IsFiniteSet(MarksOf(cfg, call, segments, st))
    <3>1. \A a : IsFiniteSet({a})
      BY FS_Singleton
    <3>2. IsFiniteSet({})
      BY FS_EmptySet
    <3>3. \A a : IsFiniteSet({a} \cup {})
      BY <3>1, <3>2, FS_Union
    <3>4. \A a, b : IsFiniteSet({a} \cup {b})
      BY <3>1, FS_Union
    <3> QED BY <3>3, <3>4 DEF MarksOf
  <2> QED BY <2>1
<1>7. IsFiniteSet(own)
  BY FS_Singleton, FS_EmptySet
<1>8. IsFiniteSet(UNION marked)
  <2> HIDE DEF marked
  <2> QED BY <1>5, <1>6, FS_UNION
<1>9. IsFiniteSet(m.marks)
  <2> HIDE DEF own, marked, m
  <2> QED BY <1>4, <1>7, <1>8, FS_Union
<1>10. Len(m.exports) \in Nat
  <2>1. Cardinality(exported) \in Nat
    <3> HIDE DEF exported
    <3> QED BY <1>3, FS_CardinalityType
  <2>2. m.exports = [i \in 1..Cardinality(exported) |-> stores[InOrder(exported)[i]]]
    BY <1>4 DEF Subsequence
  <2> DEFINE k == Cardinality(exported)
             e(i) == stores[InOrder(exported)[i]]
  <2>3. k \in Nat /\ m.exports = [i \in 1..k |-> e(i)]
    BY <2>1, <2>2
  <2> HIDE DEF k, e, m
  <2> QED BY <2>3
<1> HIDE DEF m
<1> QED BY <1>9, <1>10 DEF m

(* An admitted module is one of an accepted root. *)
LEMMA AdmittedIs ==
    ASSUME NEW chunk, IsPrototype(chunk), chunk.dialect = "5.1",
           AdmitTrustedModule(chunk).is = "admitted"
    PROVE  LET m == AdmitTrustedModule(chunk)
           IN  IsFiniteSet(m.marks) /\ Len(m.exports) \in Nat
<1> DEFINE m == AdmitTrustedModule(chunk)
           cfg == BuildCfg(chunk)
           pass == Pass(chunk)
           name == pass.declarations[1].name
<1>1. \A is : Outcome(is).is = is
  BY DEF Outcome
<1>2. Accepted(chunk) /\ m = AdmitPassed(chunk, cfg, pass)
  BY <1>1 DEF AdmitTrustedModule
<1> HIDE DEF m, cfg, pass
<1>3. m.is = "admitted"
  BY DEF m
<1>4. m = AdmitNamed(chunk, cfg, pass, name)
  BY <1>1, <1>2, <1>3 DEF AdmitPassed
<1>5. m = Admitted(chunk, cfg, pass, NameParts[name], RootStores(chunk))
  BY <1>1, <1>3, <1>4 DEF AdmitNamed
<1>6. IsSeq(RootStores(chunk))
  <2>1. Is51(chunk)
    BY <1>2 DEF Is51
  <2>2. NumWords(chunk) \in 0..NumWords(chunk)
    BY <2>1, RootIs
  <2> QED BY <2>1, <2>2, StoresAreSeq DEF RootStores
<1>7. IsFiniteSet(m.marks) /\ Len(m.exports) \in Nat
  <2> HIDE DEF name
  <2> QED BY <1>5, <1>6, AdmittedIsFinite
<1> QED BY <1>7 DEF m

InsertedMark(x, y, path) == IsIndex(x) /\ path \in x.assumed => IsIndex(y) /\ path \in y.assumed

LEMMA InsertMarkIs ==
    ASSUME NEW x, NEW label, NEW max, NEW path
    PROVE  InsertedMark(x, InsertMark(x, label, max), path)
<1> DEFINE y == InsertMark(x, label, max)
           more == [x EXCEPT !.marks = @ \cup {label}]
           full == MarkLimit(x)
<1> SUFFICES ASSUME IsIndex(x), path \in x.assumed PROVE IsIndex(y) /\ path \in y.assumed
  BY DEF InsertedMark
<1>1. y \in {x, more, full}
  BY DEF InsertMark
<1>2. DOMAIN more = DOMAIN x /\ more.exports = x.exports /\ more.limit = x.limit
      /\ more.assumed = x.assumed
  BY DEF IsIndex
<1>3. DOMAIN full = DOMAIN x /\ full.exports = x.exports /\ full.limit = TRUE
      /\ full.assumed = x.assumed
  BY DEF IsIndex, MarkLimit
<1> HIDE DEF y, more, full
<1> QED BY <1>1, <1>2, <1>3 DEF IsIndex

(* Whatever of its marks and exports is inserted, its path is in the index. *)
LEMMA AdmittedIsAssumed ==
    ASSUME NEW x, IsIndex(x), NEW identity, NEW module, IsFiniteSet(module.marks),
           Len(module.exports) \in Nat, NEW max
    PROVE  LET y == IndexAdmitted(x, identity, module, max)
           IN  IsIndex(y) /\ identity.path \in y.assumed
<1> DEFINE path == identity.path
           trusting == [x EXCEPT !.assumed = @ \cup {identity.path}]
           labels == Sorted(module.marks)
           marked == IndexMarks(trusting, labels, max)
           y == IndexExports(marked, identity, module, max)
           Is(z) == IsIndex(z) /\ path \in z.assumed
<1>1. Is(trusting)
  <2>1. DOMAIN trusting = DOMAIN x /\ trusting.exports = x.exports /\ trusting.limit = x.limit
        /\ trusting.assumed = x.assumed \cup {path}
    BY DEF IsIndex
  <2> HIDE DEF trusting
  <2> QED BY <2>1 DEF IsIndex
<1>2. Len(labels) \in Nat
  <2> DEFINE k == Cardinality(module.marks)
             e(i) == CHOOSE l \in module.marks :
                        Cardinality({m \in module.marks : Precedes(m, l)}) = i - 1
  <2>1. k \in Nat
    BY FS_CardinalityType
  <2>2. labels = [i \in 1..k |-> e(i)]
    BY DEF Sorted
  <2> HIDE DEF k, e, labels
  <2> QED BY <2>1, <2>2
<1>3. Is(marked)
  <2> HIDE DEF trusting, labels
  <2>0. PICK f : InsertsMarks(f, trusting, labels, max)
    BY <1>2, IndexMarksAre
  <2>1. /\ f[0] = trusting
        /\ \A n \in 1..Len(labels) : f[n] = InsertMark(f[n - 1], labels[n], max)
        /\ marked = f[Len(labels)]
    BY <2>0 DEF InsertsMarks
  <2> DEFINE S == {n \in Nat : n <= Len(labels) => Is(f[n])}
  <2>2. 0 \in S
    BY <1>1, <2>1
  <2>3. ASSUME NEW n \in Nat, n \in S PROVE n + 1 \in S
    <3> SUFFICES ASSUME n + 1 <= Len(labels) PROVE Is(f[n + 1])
      OBVIOUS
    <3>1. Is(f[n]) /\ n + 1 \in 1..Len(labels) /\ n + 1 - 1 = n
      BY <1>2, <2>3
    <3>2. f[n + 1] = InsertMark(f[n], labels[n + 1], max)
      BY <2>1, <3>1
    <3>3. InsertedMark(f[n], InsertMark(f[n], labels[n + 1], max), path)
      BY InsertMarkIs
    <3> QED BY <3>1, <3>2, <3>3 DEF InsertedMark
  <2>4. Len(labels) \in S
    <3> HIDE DEF S
    <3> QED BY <1>2, <2>2, <2>3, Induction
  <2> QED BY <1>2, <2>1, <2>4
<1>4. Is(y)
  <2> HIDE DEF marked
  <2>0. PICK f : InsertsExports(f, marked, identity, module, max)
    BY IndexExportsAre
  <2>1. /\ f[0] = marked
        /\ \A n \in 1..Len(module.exports) : \E d : f[n] = Insert(f[n - 1], d, max)
        /\ y = f[Len(module.exports)]
    BY <2>0 DEF InsertsExports
  <2> DEFINE S == {n \in Nat : n <= Len(module.exports) => Is(f[n])}
  <2>2. 0 \in S
    BY <1>3, <2>1
  <2>3. ASSUME NEW n \in Nat, n \in S PROVE n + 1 \in S
    <3> SUFFICES ASSUME n + 1 <= Len(module.exports) PROVE Is(f[n + 1])
      OBVIOUS
    <3>1. Is(f[n]) /\ n + 1 \in 1..Len(module.exports) /\ n + 1 - 1 = n
      BY <2>3
    <3>2. PICK d : f[n + 1] = Insert(f[n], d, max)
      BY <2>1, <3>1
    <3>3. IsIndex(Insert(f[n], d, max)) /\ Insert(f[n], d, max).assumed = f[n].assumed
      <4> DEFINE u == f[n]
      <4>1. IsIndex(u)
        BY <3>1
      <4> HIDE DEF u
      <4>2. IsIndex(Insert(u, d, max)) /\ Insert(u, d, max).assumed = u.assumed
        BY <4>1, InsertIs
      <4> QED BY <4>2 DEF u
    <3> QED BY <3>1, <3>2, <3>3
  <2>4. Len(module.exports) \in S
    <3> HIDE DEF S
    <3> QED BY <2>2, <2>3, Induction
  <2> QED BY <2>1, <2>4
<1>5. y = IndexAdmitted(x, identity, module, max)
  BY DEF IndexAdmitted
<1> HIDE DEF y
<1> QED BY <1>4, <1>5

-----------------------------------------------------------------------------
(* The files of a corpus *)

IsSettled(chunk) ==
    LET d == DetectModuleDeclaration(chunk)
    IN  d.is = "none" \/ (d.is = "literal" /\ AllKnown(chunk))

FileDefinitions(f) ==
    IF DetectModuleDeclaration(f.chunk).is = "literal"
    THEN StrictDefinitions(Identity(f), Scan(f.chunk).segments, f.chunk) ELSE {}

LEMMA TrustedIs ==
    ASSUME NEW chunk
    PROVE  AdmitTrustedModule(chunk).is \in {"admitted", "refused", "limited"}
<1>1. \A is : Outcome(is).is = is
  BY DEF Outcome
<1>2. \A p, c, pass, segments, stores : Admitted(p, c, pass, segments, stores).is = "admitted"
  BY DEF Admitted
<1>3. \A c, pass, name : AdmitNamed(chunk, c, pass, name).is \in {"admitted", "refused", "limited"}
  BY <1>1, <1>2 DEF AdmitNamed
<1>4. \A c, pass : AdmitPassed(chunk, c, pass).is \in {"admitted", "refused", "limited"}
  BY <1>1, <1>3 DEF AdmitPassed
<1> QED BY <1>1, <1>4 DEF AdmitTrustedModule

LEMMA ChunkIndexed ==
    ASSUME NEW x, IsIndex(x), NEW f, IsPrototype(f.chunk),
           NEW convention \in {Strict, TrustedInit}, NEW max
    PROVE  Adds(x, IndexChunk(x, Identity(f), f.chunk, convention, max),
                FileDefinitions(f), IsSettled(f.chunk))
<1> DEFINE chunk == f.chunk
           identity == Identity(f)
           d == DetectModuleDeclaration(chunk)
           y == IndexChunk(x, identity, chunk, convention, max)
           D == FileDefinitions(f)
           K == IsSettled(f.chunk)
<1> SUFFICES Adds(x, y, D, K)
  OBVIOUS
<1>1. /\ d.is \in {"none", "literal", "dynamic", "limited"}
      /\ d.is = "literal" => IsLiteral(chunk) /\ d.segments = Scan(chunk).segments
  BY DeclarationIs
<1>2. Adds(x, MarkDynamic(x, identity), D, K) /\ Adds(x, MarkLimit(x), D, K) /\ Adds(x, x, {}, TRUE)
  <2> HIDE DEF D, K, identity
  <2> QED BY MarksAre
<1>3. Strict # TrustedInit
  BY DEF Strict, TrustedInit
<1>4. CASE d.is = "literal"
  <2>1. y = IndexStrict(x, identity, chunk, d.segments, max)
    BY <1>4 DEF IndexChunk
  <2>2. Adds(x, IndexStrict(x, identity, chunk, d.segments, max),
             StrictDefinitions(identity, d.segments, chunk), AllKnown(chunk))
    <3> HIDE DEF identity, d
    <3> QED BY <1>1, <1>4, StrictIndexed
  <2>3. StrictDefinitions(identity, d.segments, chunk) = D /\ (AllKnown(chunk) <=> K)
    BY <1>1, <1>4 DEF FileDefinitions, IsSettled
  <2> HIDE DEF y, D, K, d, identity
  <2> QED BY <2>1, <2>2, <2>3, AddsMeans
<1>5. CASE d.is = "limited"
  <2>1. y = MarkLimit(x)
    BY <1>5 DEF IndexChunk
  <2> HIDE DEF y, D, K
  <2> QED BY <1>2, <2>1
<1>6. CASE d.is = "dynamic" /\ convention = Strict
  <2>1. y = MarkDynamic(x, identity)
    BY <1>3, <1>6 DEF IndexChunk
  <2> HIDE DEF y, D, K, identity
  <2> QED BY <1>2, <2>1
<1>7. CASE d.is = "dynamic" /\ convention = TrustedInit
  <2> DEFINE m == AdmitTrustedModule(chunk)
  <2>1. y = IndexTrusted(x, identity, m, max)
    <3> HIDE DEF identity, m
    <3> QED BY <1>3, <1>7 DEF IndexChunk, m
  <2>2. CASE m.is = "admitted"
    <3>1. y = IndexAdmitted(x, identity, m, max)
      BY <2>1, <2>2 DEF IndexTrusted
    <3>2. chunk.dialect = "5.1"
      <4>1. Declaration("none", <<>>).is = "none"
        BY DEF Declaration
      <4> QED BY <1>7, <4>1 DEF DetectModuleDeclaration
    <3>3. IsFiniteSet(m.marks) /\ Len(m.exports) \in Nat
      BY <2>2, <3>2, AdmittedIs
    <3>4. IsIndex(y) /\ y.assumed # {}
      <4> HIDE DEF m, identity, y
      <4> QED BY <3>1, <3>3, AdmittedIsAssumed
    <3> HIDE DEF y, D, K
    <3> QED BY <3>4 DEF Adds
  <2>3. CASE m.is = "refused"
    <3>1. y = MarkDynamic(x, identity)
      BY <2>1, <2>3 DEF IndexTrusted
    <3> HIDE DEF y, D, K, identity
    <3> QED BY <1>2, <3>1
  <2>4. CASE m.is = "limited"
    <3>1. y = MarkLimit(x)
      BY <2>1, <2>4 DEF IndexTrusted
    <3> HIDE DEF y, D, K
    <3> QED BY <1>2, <3>1
  <2>5. m.is \in {"admitted", "refused", "limited"}
    BY TrustedIs
  <2> QED BY <2>2, <2>3, <2>4, <2>5
<1>8. CASE d.is = "none"
  <2>1. y = x
    BY <1>8 DEF IndexChunk
  <2>2. {} = D /\ (TRUE <=> K)
    BY <1>8 DEF FileDefinitions, IsSettled
  <2> HIDE DEF y, D, K
  <2> QED BY <1>2, <2>1, <2>2, AddsMeans
<1> QED BY <1>1, <1>4, <1>5, <1>6, <1>7, <1>8


(* The corpus of a state *)
IsCorpus ==
    /\ chosen \in DOMAIN Corpora
    /\ Len(corpus.files) \in Nat /\ DOMAIN corpus.files = 1..Len(corpus.files)
    /\ \A i, j \in DOMAIN corpus.files : corpus.files[i].path = corpus.files[j].path => i = j
    /\ \A i \in DOMAIN corpus.files : IsPrototype(corpus.files[i].chunk)
    /\ Len(corpus.caller.calls) \in Nat
    /\ DOMAIN corpus.caller.calls = 1..Len(corpus.caller.calls)
    /\ \A n \in DOMAIN corpus.caller.calls :
          /\ corpus.caller.calls[n].label \in Seq(STRING) \ {<<>>}
          /\ corpus.caller.calls[n].lookup \in BOOLEAN
    /\ corpus.maxExports \in Nat /\ corpus.maxLinks \in Nat
    /\ corpus.convention \in {Strict, TrustedInit}

LEMMA CorpusIs ==
    ASSUME chosen \in DOMAIN Corpora
    PROVE  IsCorpus
BY CorporaAssumption DEF corpus, IsCorpus, IsSequence

Found == UNION {FileDefinitions(corpus.files[k]) : k \in 1..Len(corpus.files)}
AllSettled == \A k \in 1..Len(corpus.files) : IsSettled(corpus.files[k].chunk)

LEMMA EmptyIndexIs == IsIndex(EmptyIndex)
<1>1. IsSeq(<<>>)
  BY DEF IsSeq, ToSet
<1> QED BY <1>1 DEF EmptyIndex, IsIndex

(* An index that rests on no trusted root has nothing but what the roots
   define, and one that is open has it all. *)
LEMMA BuildIndexed ==
    ASSUME IsCorpus, NEW max
    PROVE  Adds(EmptyIndex, BuildIndex(max), Found, AllSettled)
<1> DEFINE files == corpus.files
           len == Len(corpus.files)
           D(n) == UNION {FileDefinitions(files[i]) : i \in 1..n}
           K(n) == \A i \in 1..n : IsSettled(files[i].chunk)
<1>1. len \in Nat /\ \A i \in 1..len : IsPrototype(files[i].chunk)
  BY DEF IsCorpus
<1>2. corpus.convention \in {Strict, TrustedInit}
  BY DEF IsCorpus
<1>3. PICK f : IndexesFiles(f, max)
  BY <1>1, BuildIndexIs
<1>4. /\ f[0] = EmptyIndex
      /\ \A n \in 1..len : f[n] = IndexChunk(f[n - 1], Identity(files[n]), files[n].chunk,
                                             corpus.convention, max)
      /\ BuildIndex(max) = f[len]
  BY <1>3 DEF IndexesFiles
<1>5. D(len) = Found /\ (K(len) <=> AllSettled)
  BY DEF Found, AllSettled
<1> HIDE DEF files, len
<1>6. D(0) = {} /\ (K(0) <=> TRUE)
  OBVIOUS
<1>7. ASSUME NEW n \in Nat
      PROVE  /\ D(n + 1) = D(n) \cup FileDefinitions(files[n + 1])
             /\ K(n + 1) <=> (K(n) /\ IsSettled(files[n + 1].chunk))
  <2>1. \A i : i \in 1..(n + 1) <=> i \in 1..n \/ i = n + 1
    OBVIOUS
  <2> DEFINE d(i) == FileDefinitions(files[i])
  <2>2. \A m : D(m) = UNION {d(i) : i \in 1..m}
    OBVIOUS
  <2> HIDE DEF d
  <2>3. D(n + 1) = D(n) \cup d(n + 1)
    BY <2>1, <2>2
  <2> QED BY <2>1, <2>3 DEF d
<1> HIDE DEF D, K
<1> DEFINE S == {n \in Nat : n <= len => Adds(EmptyIndex, f[n], D(n), K(n))}
<1>8. 0 \in S
  <2>1. Adds(EmptyIndex, f[0], {}, TRUE)
    BY <1>4, MarksAre, EmptyIndexIs
  <2>2. Adds(EmptyIndex, f[0], D(0), K(0))
    BY <1>6, <2>1, AddsMeans
  <2> QED BY <2>2
<1>9. ASSUME NEW n \in Nat, n \in S PROVE n + 1 \in S
  <2> SUFFICES ASSUME n + 1 <= len PROVE Adds(EmptyIndex, f[n + 1], D(n + 1), K(n + 1))
    OBVIOUS
  <2> DEFINE it == files[n + 1]
             d == FileDefinitions(it)
             k == IsSettled(it.chunk)
  <2>1. Adds(EmptyIndex, f[n], D(n), K(n))
    BY <1>1, <1>9
  <2>2. n + 1 \in 1..len /\ n + 1 - 1 = n
    BY <1>1
  <2>3. f[n + 1] = IndexChunk(f[n], Identity(it), it.chunk, corpus.convention, max)
    BY <1>4, <2>2
  <2>4. D(n + 1) = D(n) \cup d /\ (K(n + 1) <=> (K(n) /\ k))
    BY <1>7
  <2>5. IsPrototype(it.chunk)
    BY <1>1, <2>2
  <2> HIDE DEF S, it
  <2>6. Adds(f[n], f[n + 1], d, k)
    <3>1. IsIndex(f[n])
      BY <2>1 DEF Adds
    <3> QED BY <1>2, <2>3, <2>5, <3>1, ChunkIndexed
  <2> HIDE DEF d, k
  <2>7. Adds(EmptyIndex, f[n + 1], D(n) \cup d, K(n) /\ k)
    BY <2>1, <2>6, AddsUp
  <2> QED BY <2>4, <2>7, AddsMeans
<1>10. len \in S
  <2> HIDE DEF S
  <2> QED BY <1>1, <1>8, <1>9, Induction
<1>11. Adds(EmptyIndex, f[len], D(len), K(len))
  BY <1>1, <1>10
<1> HIDE DEF S
<1>12. Adds(EmptyIndex, f[len], Found, AllSettled)
  BY <1>5, <1>11, AddsMeans
<1> QED BY <1>4, <1>12

(* The strict convention admits no trusted root. *)
LEMMA StrictKeeps ==
    ASSUME NEW x, IsIndex(x), NEW identity, NEW segments, NEW chunk, IsLiteral(chunk), NEW max
    PROVE  IndexStrict(x, identity, chunk, segments, max).assumed = x.assumed
<1> DEFINE last == LastStores(RootStores(chunk))
           len == Len(last)
<1>1. NumWords(chunk) \in Nat
  BY RootIs DEF IsLiteral
<1>2. StoresAre(RootStores(chunk), NumWords(chunk))
  <2>1. NumWords(chunk) \in 0..NumWords(chunk)
    BY <1>1
  <2> QED BY <2>1, RootStoresAre DEF RootStores
<1>3. len \in Nat
  BY <1>1, <1>2, LastStoresAre
<1>4. PICK f : IndexesStores(f, x, identity, chunk, segments, max)
  BY <1>3, IndexStrictIs
<1>5. /\ f[0] = x
      /\ \A n \in 1..len : f[n] = IndexStore(f[n - 1], identity, segments, last[n], max)
      /\ IndexStrict(x, identity, chunk, segments, max) = f[len]
  BY <1>4 DEF IndexesStores
<1> HIDE DEF last, len
<1> DEFINE S == {n \in Nat : n <= len => IsIndex(f[n]) /\ f[n].assumed = x.assumed}
<1>6. 0 \in S
  BY <1>5
<1>7. ASSUME NEW n \in Nat, n \in S PROVE n + 1 \in S
  <2> SUFFICES ASSUME n + 1 <= len PROVE IsIndex(f[n + 1]) /\ f[n + 1].assumed = x.assumed
    OBVIOUS
  <2> DEFINE u == f[n]
             st == last[n + 1]
             y == IndexStore(u, identity, segments, st, max)
  <2>1. IsIndex(u) /\ u.assumed = x.assumed
    BY <1>3, <1>7
  <2>2. n + 1 \in 1..len /\ n + 1 - 1 = n
    BY <1>3
  <2>3. f[n + 1] = y
    BY <1>5, <2>2
  <2> HIDE DEF S, u, st
  <2>4. IsIndex(y)
    BY <2>1, StoreIndexed DEF Adds
  <2>5. y.assumed = u.assumed
    <3>1. \A d : Insert(u, d, max).assumed = u.assumed
      BY <2>1, InsertIs
    <3>2. MarkDynamic(u, identity).assumed = u.assumed
      BY <2>1 DEF MarkDynamic, IsIndex
    <3> QED BY <3>1, <3>2 DEF IndexStore
  <2> HIDE DEF y
  <2> QED BY <2>1, <2>3, <2>4, <2>5
<1>8. len \in S
  <2> HIDE DEF S
  <2> QED BY <1>3, <1>6, <1>7, Induction
<1> QED BY <1>3, <1>5, <1>8

LEMMA StrictIndexIs ==
    ASSUME IsCorpus, corpus.convention = Strict, NEW max
    PROVE  BuildIndex(max).assumed = {}
<1> DEFINE files == corpus.files
           len == Len(corpus.files)
<1>1. len \in Nat /\ \A i \in 1..len : IsPrototype(files[i].chunk)
  BY DEF IsCorpus
<1>2. PICK f : IndexesFiles(f, max)
  BY <1>1, BuildIndexIs
<1>3. /\ f[0] = EmptyIndex
      /\ \A n \in 1..len : f[n] = IndexChunk(f[n - 1], Identity(files[n]), files[n].chunk,
                                             Strict, max)
      /\ BuildIndex(max) = f[len]
  BY <1>2 DEF IndexesFiles
<1> HIDE DEF files, len
<1> DEFINE S == {n \in Nat : n <= len => IsIndex(f[n]) /\ f[n].assumed = {}}
<1>4. 0 \in S
  BY <1>3, EmptyIndexIs DEF EmptyIndex
<1>5. ASSUME NEW n \in Nat, n \in S PROVE n + 1 \in S
  <2> SUFFICES ASSUME n + 1 <= len PROVE IsIndex(f[n + 1]) /\ f[n + 1].assumed = {}
    OBVIOUS
  <2> DEFINE x == f[n]
             it == files[n + 1]
             chunk == it.chunk
             d == DetectModuleDeclaration(chunk)
             y == IndexChunk(x, Identity(it), chunk, Strict, max)
  <2>1. IsIndex(x) /\ x.assumed = {}
    BY <1>1, <1>5
  <2>2. n + 1 \in 1..len /\ n + 1 - 1 = n
    BY <1>1
  <2>3. f[n + 1] = y
    BY <1>3, <2>2
  <2>4. IsPrototype(chunk)
    BY <1>1, <2>2
  <2> HIDE DEF S, x, it
  <2>5. IsIndex(y)
    <3>1. Adds(x, y, FileDefinitions(it), IsSettled(it.chunk))
      BY <2>1, <2>4, ChunkIndexed
    <3> HIDE DEF y
    <3> QED BY <3>1 DEF Adds
  <2>6. /\ d.is \in {"none", "literal", "dynamic", "limited"}
        /\ d.is = "literal" => IsLiteral(chunk)
    BY <2>4, DeclarationIs
  <2> HIDE DEF chunk, d
  <2>7. /\ MarkDynamic(x, Identity(it)).assumed = {}
        /\ MarkLimit(x).assumed = {}
    BY <2>1 DEF MarkDynamic, MarkLimit, IsIndex
  <2>8. d.is = "literal" => IndexStrict(x, Identity(it), chunk, d.segments, max).assumed = {}
    BY <2>1, <2>6, StrictKeeps
  <2>9. y.assumed = {}
    <3>1. /\ d.is = "literal" => y = IndexStrict(x, Identity(it), chunk, d.segments, max)
          /\ d.is = "limited" => y = MarkLimit(x)
          /\ d.is = "dynamic" => y = MarkDynamic(x, Identity(it))
          /\ d.is = "none" => y = x
      BY DEF IndexChunk, chunk, d, Strict, TrustedInit
    <3> HIDE DEF y
    <3> QED BY <2>1, <2>6, <2>7, <2>8, <3>1
  <2> HIDE DEF y
  <2> QED BY <2>3, <2>5, <2>9
<1>6. len \in S
  <2> HIDE DEF S
  <2> QED BY <1>1, <1>4, <1>5, Induction
<1> QED BY <1>1, <1>3, <1>6

-----------------------------------------------------------------------------
(* An index that no limit cut is that of any larger limit. *)

IsWhole(y) == y.assumed = {} /\ ~y.limit

LEMMA InsertSame ==
    ASSUME NEW x, IsIndex(x), x.marks = {}, NEW d, NEW max \in Nat, NEW more \in Nat,
           max <= more, ~Insert(x, d, max).limit
    PROVE  Insert(x, d, more) = Insert(x, d, max)
<1>1. MarkLimit(x).limit = TRUE
  BY DEF MarkLimit, IsIndex
<1>2. Fits(x, d.label, max)
  BY <1>1 DEF Insert
<1>3. Len(x.exports) + Cardinality(x.marks) \in Int
  <2>1. Cardinality(x.marks) = 0
    BY FS_EmptySet
  <2>2. Len(x.exports) \in Nat
    BY DEF IsIndex, IsSeq
  <2> QED BY <2>1, <2>2
<1>4. Fits(x, d.label, more)
  <2> DEFINE k == Len(x.exports) + Cardinality(x.marks)
  <2>1. k < max
    BY <1>2 DEF Fits
  <2>2. k \in Int
    BY <1>3
  <2> HIDE DEF k
  <2>3. k < more
    BY <2>1, <2>2
  <2> QED BY <1>2, <2>3 DEF Fits, k
<1> QED BY <1>2, <1>4 DEF Insert

LEMMA StoreSame ==
    ASSUME NEW x, IsIndex(x), x.marks = {}, NEW identity, NEW segments, NEW st,
           NEW max \in Nat, NEW more \in Nat, max <= more,
           ~IndexStore(x, identity, segments, st, max).limit
    PROVE  IndexStore(x, identity, segments, st, more) = IndexStore(x, identity, segments, st, max)
<1> DEFINE d == Definition(identity, Append(segments, st.name), st.value.kind.prototype)
<1>1. CASE IsClosureStore(st)
  <2>1. \A m : IndexStore(x, identity, segments, st, m) = Insert(x, d, m)
    BY <1>1 DEF IndexStore
  <2> HIDE DEF d
  <2> QED BY <2>1, InsertSame
<1>2. CASE ~IsClosureStore(st)
  BY <1>2 DEF IndexStore
<1> QED BY <1>1, <1>2

LEMMA StrictSame ==
    ASSUME NEW x, IsIndex(x), x.marks = {}, NEW identity, NEW segments, NEW chunk,
           IsLiteral(chunk), NEW max \in Nat, NEW more \in Nat, max <= more,
           IsWhole(IndexStrict(x, identity, chunk, segments, max))
    PROVE  IndexStrict(x, identity, chunk, segments, more)
              = IndexStrict(x, identity, chunk, segments, max)
<1> DEFINE last == LastStores(RootStores(chunk))
           len == Len(last)
<1>1. NumWords(chunk) \in Nat
  BY RootIs DEF IsLiteral
<1>2. StoresAre(RootStores(chunk), NumWords(chunk))
  <2>1. NumWords(chunk) \in 0..NumWords(chunk)
    BY <1>1
  <2> QED BY <2>1, RootStoresAre DEF RootStores
<1>3. len \in Nat
  BY <1>1, <1>2, LastStoresAre
<1>4. /\ \E f : IndexesStores(f, x, identity, chunk, segments, max)
      /\ \E f : IndexesStores(f, x, identity, chunk, segments, more)
  BY <1>3, IndexStrictIs
<1>5. PICK f : IndexesStores(f, x, identity, chunk, segments, max)
  BY <1>4
<1>6. PICK g : IndexesStores(g, x, identity, chunk, segments, more)
  BY <1>4
<1>7. /\ f[0] = x
      /\ \A n \in 1..len : f[n] = IndexStore(f[n - 1], identity, segments, last[n], max)
      /\ IndexStrict(x, identity, chunk, segments, max) = f[len]
  BY <1>5 DEF IndexesStores
<1>8. /\ g[0] = x
      /\ \A n \in 1..len : g[n] = IndexStore(g[n - 1], identity, segments, last[n], more)
      /\ IndexStrict(x, identity, chunk, segments, more) = g[len]
  BY <1>6 DEF IndexesStores
<1> HIDE DEF last, len
<1> DEFINE Ok(n) == IsIndex(f[n]) /\ (IsWhole(f[n]) => g[n] = f[n] /\ f[n].marks = {})
           S == {n \in Nat : n <= len => Ok(n)}
<1>9. 0 \in S
  BY <1>7, <1>8
<1>10. ASSUME NEW n \in Nat, n \in S PROVE n + 1 \in S
  <2> SUFFICES ASSUME n + 1 <= len PROVE Ok(n + 1)
    OBVIOUS
  <2> DEFINE u == f[n]
             v == g[n]
             st == last[n + 1]
             y == IndexStore(u, identity, segments, st, max)
  <2>1. IsIndex(u) /\ (IsWhole(u) => v = u /\ u.marks = {})
    BY <1>3, <1>10
  <2>2. n + 1 \in 1..len /\ n + 1 - 1 = n
    BY <1>3
  <2>3. f[n + 1] = y /\ g[n + 1] = IndexStore(v, identity, segments, st, more)
    BY <1>7, <1>8, <2>2
  <2> HIDE DEF S, u, v, st
  <2>4. Adds(u, y, StoreDefinitions(identity, segments, st), IsKnown(st.value))
    BY <2>1, StoreIndexed
  <2>5. IsIndex(y) /\ (IsWhole(y) => IsWhole(u) /\ y.marks = u.marks)
    <3> HIDE DEF y
    <3> QED BY <2>4 DEF Adds, IsWhole
  <2>6. ASSUME IsWhole(y) PROVE g[n + 1] = y /\ y.marks = {}
    <3>1. v = u /\ u.marks = {} /\ y.marks = {}
      BY <2>1, <2>5, <2>6
    <3>2. ~y.limit
      BY <2>6 DEF IsWhole
    <3>3. IndexStore(u, identity, segments, st, more) = y
      BY <2>1, <3>1, <3>2, StoreSame
    <3> HIDE DEF y
    <3> QED BY <2>3, <3>1, <3>3
  <2> HIDE DEF y
  <2> QED BY <2>3, <2>5, <2>6
<1>11. len \in S
  <2> HIDE DEF S, Ok
  <2> QED BY <1>3, <1>9, <1>10, Induction
<1>12. Ok(len)
  BY <1>3, <1>11
<1> QED BY <1>7, <1>8, <1>12

LEMMA ChunkSame ==
    ASSUME NEW x, IsIndex(x), x.marks = {}, NEW f, IsPrototype(f.chunk),
           NEW convention \in {Strict, TrustedInit},
           NEW max \in Nat, NEW more \in Nat, max <= more,
           IsWhole(IndexChunk(x, Identity(f), f.chunk, convention, max))
    PROVE  IndexChunk(x, Identity(f), f.chunk, convention, more)
              = IndexChunk(x, Identity(f), f.chunk, convention, max)
<1> DEFINE chunk == f.chunk
           identity == Identity(f)
           d == DetectModuleDeclaration(chunk)
           m == AdmitTrustedModule(chunk)
           y(k) == IndexChunk(x, identity, chunk, convention, k)
<1>1. d.is \in {"none", "literal", "dynamic", "limited"} /\ (d.is = "literal" => IsLiteral(chunk))
  BY DeclarationIs
<1>2. Strict # TrustedInit
  BY DEF Strict, TrustedInit
<1> SUFFICES y(more) = y(max)
  OBVIOUS
<1>3. IsWhole(y(max))
  OBVIOUS
<1> HIDE DEF identity
<1>4. CASE d.is = "literal"
  <2>1. \A k : y(k) = IndexStrict(x, identity, chunk, d.segments, k)
    BY <1>4 DEF IndexChunk
  <2> HIDE DEF y, d, chunk
  <2>2. IsWhole(IndexStrict(x, identity, chunk, d.segments, max))
    BY <1>3, <2>1
  <2>3. IsLiteral(chunk)
    BY <1>1, <1>4
  <2>4. IndexStrict(x, identity, chunk, d.segments, more)
           = IndexStrict(x, identity, chunk, d.segments, max)
    BY <2>2, <2>3, StrictSame
  <2> QED BY <2>1, <2>4
<1>5. CASE d.is = "limited" \/ (d.is = "dynamic" /\ convention = Strict) \/ d.is = "none"
  <2>1. /\ d.is = "limited" => \A k : y(k) = MarkLimit(x)
        /\ d.is = "dynamic" /\ convention = Strict => \A k : y(k) = MarkDynamic(x, identity)
        /\ d.is = "none" => \A k : y(k) = x
    BY <1>2 DEF IndexChunk
  <2> HIDE DEF y
  <2> QED BY <1>5, <2>1
<1>6. CASE d.is = "dynamic" /\ convention = TrustedInit
  <2>1. \A k : y(k) = IndexTrusted(x, identity, m, k)
    <3> HIDE DEF m
    <3> QED BY <1>2, <1>6 DEF IndexChunk, m
  <2>2. CASE m.is = "admitted"
    <3>1. y(max) = IndexAdmitted(x, identity, m, max)
      BY <2>1, <2>2 DEF IndexTrusted
    <3>2. chunk.dialect = "5.1"
      <4>1. Declaration("none", <<>>).is = "none"
        BY DEF Declaration
      <4> QED BY <1>6, <4>1 DEF DetectModuleDeclaration
    <3>3. IsFiniteSet(m.marks) /\ Len(m.exports) \in Nat
      BY <2>2, <3>2, AdmittedIs
    <3>4. y(max).assumed # {}
      <4> HIDE DEF m, y
      <4> QED BY <3>1, <3>3, AdmittedIsAssumed
    <3> HIDE DEF y
    <3> QED BY <1>3, <3>4 DEF IsWhole
  <2>3. CASE m.is # "admitted"
    <3>1. \A k, l : IndexTrusted(x, identity, m, k) = IndexTrusted(x, identity, m, l)
      <4>1. m.is \in {"refused", "limited"}
        BY <2>3, TrustedIs
      <4> HIDE DEF m
      <4> QED BY <4>1 DEF IndexTrusted
    <3> HIDE DEF y, m
    <3> QED BY <2>1, <3>1
  <2> QED BY <2>2, <2>3
<1> QED BY <1>1, <1>4, <1>5, <1>6

LEMMA WholeIs ==
    ASSUME IsCorpus, NEW max \in Nat, NEW more \in Nat, max <= more, IsWhole(BuildIndex(max))
    PROVE  BuildIndex(more) = BuildIndex(max)
<1> DEFINE files == corpus.files
           len == Len(corpus.files)
           convention == corpus.convention
<1>1. len \in Nat /\ \A i \in 1..len : IsPrototype(files[i].chunk)
  BY DEF IsCorpus
<1>2. convention \in {Strict, TrustedInit}
  BY DEF IsCorpus
<1>3. (\E f : IndexesFiles(f, max)) /\ (\E f : IndexesFiles(f, more))
  BY <1>1, BuildIndexIs
<1>4. PICK f : IndexesFiles(f, max)
  BY <1>3
<1>5. PICK g : IndexesFiles(g, more)
  BY <1>3
<1>6. /\ f[0] = EmptyIndex
      /\ \A n \in 1..len : f[n] = IndexChunk(f[n - 1], Identity(files[n]), files[n].chunk,
                                             convention, max)
      /\ BuildIndex(max) = f[len]
  BY <1>4 DEF IndexesFiles
<1>7. /\ g[0] = EmptyIndex
      /\ \A n \in 1..len : g[n] = IndexChunk(g[n - 1], Identity(files[n]), files[n].chunk,
                                             convention, more)
      /\ BuildIndex(more) = g[len]
  BY <1>5 DEF IndexesFiles
<1> HIDE DEF files, len, convention
<1> DEFINE Ok(n) == IsIndex(f[n]) /\ (IsWhole(f[n]) => g[n] = f[n] /\ f[n].marks = {})
           S == {n \in Nat : n <= len => Ok(n)}
<1>8. 0 \in S
  BY <1>6, <1>7, EmptyIndexIs DEF EmptyIndex
<1>9. ASSUME NEW n \in Nat, n \in S PROVE n + 1 \in S
  <2> SUFFICES ASSUME n + 1 <= len PROVE Ok(n + 1)
    OBVIOUS
  <2> DEFINE u == f[n]
             v == g[n]
             it == files[n + 1]
             y == IndexChunk(u, Identity(it), it.chunk, convention, max)
  <2>1. IsIndex(u) /\ (IsWhole(u) => v = u /\ u.marks = {})
    BY <1>1, <1>9
  <2>2. n + 1 \in 1..len /\ n + 1 - 1 = n
    BY <1>1
  <2>3. f[n + 1] = y /\ g[n + 1] = IndexChunk(v, Identity(it), it.chunk, convention, more)
    BY <1>6, <1>7, <2>2
  <2>4. IsPrototype(it.chunk)
    BY <1>1, <2>2
  <2> HIDE DEF S, u, v, it
  <2>5. Adds(u, y, FileDefinitions(it), IsSettled(it.chunk))
    BY <1>2, <2>1, <2>4, ChunkIndexed
  <2>6. IsIndex(y) /\ (IsWhole(y) => IsWhole(u) /\ y.marks = u.marks)
    <3> HIDE DEF y
    <3> QED BY <2>5 DEF Adds, IsWhole
  <2>7. ASSUME IsWhole(y) PROVE g[n + 1] = y /\ y.marks = {}
    <3>1. v = u /\ u.marks = {} /\ y.marks = {}
      BY <2>1, <2>6, <2>7
    <3>2. IndexChunk(u, Identity(it), it.chunk, convention, more) = y
      BY <1>2, <2>1, <2>4, <2>7, <3>1, ChunkSame
    <3> HIDE DEF y
    <3> QED BY <2>3, <3>1, <3>2
  <2> HIDE DEF y
  <2> QED BY <2>3, <2>6, <2>7
<1>10. len \in S
  <2> HIDE DEF S, Ok
  <2> QED BY <1>1, <1>8, <1>9, Induction
<1>11. Ok(len)
  BY <1>1, <1>10
<1> QED BY <1>6, <1>7, <1>11

-----------------------------------------------------------------------------
(* The states of a run *)

(* The answers are those of the corpus from the start of the root on. *)
Answered ==
    /\ file = 0 => env = <<>> /\ left = [l \in {} |-> 0] /\ index = EmptyIndex
    /\ file # 0 =>
          /\ file \in DOMAIN corpus.files /\ Root.dialect = "5.1"
          /\ index = BuildIndex(corpus.maxExports)
          /\ whole = BuildIndex(Unlimited)
          /\ links = ResolveChunkLinks(index, corpus.caller, corpus.maxLinks)

Followed ==
    file # 0 =>
        /\ IsLiteral(Root) => LiteralInv(Root, vmpc, regs, env, left)
        /\ IsPlain(Root) => PlainInv(Root, vmpc, regs, env, left)

LinkInv == chosen \in DOMAIN Corpora /\ Answered /\ Followed

LEMMA CorpusStays ==
    ASSUME chosen' = chosen
    PROVE  /\ corpus' = corpus
           /\ BuildIndex(corpus.maxExports)' = BuildIndex(corpus.maxExports)
           /\ BuildIndex(Unlimited)' = BuildIndex(Unlimited)
<1>1. corpus' = corpus
  BY DEF corpus
<1>2. BuildIndex(corpus.maxExports)' = BuildIndex(corpus.maxExports)
  BY <1>1 DEF BuildIndex
<1>3. BuildIndex(Unlimited)' = BuildIndex(Unlimited)
  BY <1>1 DEF BuildIndex, Unlimited
<1> QED BY <1>1, <1>2, <1>3

LEMMA LinkCorpusKeeps ==
    ASSUME LinkInv, LinkCorpus
    PROVE  LinkInv'
<1>1. /\ file = 0 /\ env = <<>> /\ left = [l \in {} |-> 0]
  BY DEF LinkInv, Answered, LinkCorpus
<1>2. IsCorpus
  BY CorpusIs DEF LinkInv
<1>3. /\ index' = BuildIndex(corpus.maxExports)
      /\ whole' = BuildIndex(Unlimited)
      /\ links' = ResolveChunkLinks(index', corpus.caller, corpus.maxLinks)
      /\ file' \in DOMAIN corpus.files /\ corpus.files[file'].chunk.dialect = "5.1"
      /\ vmpc' = 0
      /\ regs' = [r \in Registers(corpus.files[file'].chunk) |-> Number]
      /\ chosen' = chosen /\ env' = <<>> /\ left' = [l \in {} |-> 0]
  BY <1>1 DEF LinkCorpus
<1>4. /\ corpus' = corpus
      /\ BuildIndex(corpus.maxExports)' = BuildIndex(corpus.maxExports)
      /\ BuildIndex(Unlimited)' = BuildIndex(Unlimited)
  BY <1>3, CorpusStays
<1>5. file' # 0
  BY <1>2, <1>3 DEF IsCorpus
<1>6. Root' = corpus.files[file'].chunk
  BY <1>4 DEF Root
<1>7. Answered'
  BY <1>3, <1>4, <1>5, <1>6 DEF Answered
<1>8. Followed'
  <2>1. regs' = [r \in Registers(Root') |-> Number]
    BY <1>3, <1>6
  <2>2. ASSUME IsLiteral(Root') PROVE LiteralInv(Root, vmpc, regs, env, left)'
    <3>1. LiteralInv(Root', 0, [r \in Registers(Root') |-> Number], <<>>, [l \in {} |-> 0])
      BY <2>2, LiteralStarts
    <3> QED BY <1>3, <2>1, <3>1
  <2>3. ASSUME IsPlain(Root') PROVE PlainInv(Root, vmpc, regs, env, left)'
    <3>1. PlainInv(Root', 0, [r \in Registers(Root') |-> Number], <<>>, [l \in {} |-> 0])
      BY <2>3, PlainStarts
    <3> QED BY <1>3, <2>1, <3>1
  <2> QED BY <2>2, <2>3 DEF Followed
<1> QED BY <1>3, <1>7, <1>8 DEF LinkInv

LEMMA ExecuteKeeps ==
    ASSUME LinkInv, Execute
    PROVE  LinkInv'
<1> DEFINE w == Root.words[vmpc]
<1>1. /\ file # 0 /\ vmpc \in Pcs(Root) /\ vmpc' \in NextPcs(Root, vmpc)
      /\ regs' = RegsAfter(w) /\ env' = EnvAfter(w) /\ left' = LeftAfter(w)
      /\ chosen' = chosen /\ index' = index /\ whole' = whole /\ links' = links
      /\ file' = file
  BY DEF Execute, answers, RegsAfter, LeftAfter
<1>2. /\ corpus' = corpus
      /\ BuildIndex(corpus.maxExports)' = BuildIndex(corpus.maxExports)
      /\ BuildIndex(Unlimited)' = BuildIndex(Unlimited)
  BY <1>1, CorpusStays
<1>3. Root' = Root
  BY <1>1, <1>2 DEF Root
<1>4. Answered'
  BY <1>1, <1>2, <1>3 DEF LinkInv, Answered
<1>5. Followed
  BY DEF LinkInv
<1>6. ASSUME IsLiteral(Root) PROVE LiteralInv(Root, vmpc', RegsAfter(w), EnvAfter(w), LeftAfter(w))
  <2>1. LiteralInv(Root, vmpc, regs, env, left)
    BY <1>1, <1>5, <1>6 DEF Followed
  <2> QED BY <1>1, <1>6, <2>1, LiteralGoes
<1>7. ASSUME IsPlain(Root) PROVE PlainInv(Root, vmpc', RegsAfter(w), EnvAfter(w), LeftAfter(w))
  <2>1. PlainInv(Root, vmpc, regs, env, left)
    BY <1>1, <1>5, <1>7 DEF Followed
  <2> QED BY <1>1, <1>7, <2>1, PlainGoes
<1> HIDE DEF w
<1>8. Followed'
  BY <1>1, <1>3, <1>6, <1>7 DEF Followed
<1> QED BY <1>1, <1>4, <1>8 DEF LinkInv

(* The inductive invariant of the linker and of the root that runs after it: how
   the index was filled, and that the machine follows the linear scan of a root
   that declares its module literally, and stays clear of one that does not. *)
THEOREM LinkInvHolds == Spec => []LinkInv
<1>1. Init => LinkInv
  BY DEF Init, LinkInv, Answered, Followed
<1>2. LinkInv /\ [Next]_vars => LinkInv'
  <2> SUFFICES ASSUME LinkInv, [Next]_vars PROVE LinkInv'
    OBVIOUS
  <2>1. CASE LinkCorpus
    BY <2>1, LinkCorpusKeeps
  <2>2. CASE Execute
    BY <2>2, ExecuteKeeps
  <2>3. CASE UNCHANGED vars
    <3>1. /\ chosen' = chosen /\ file' = file /\ vmpc' = vmpc /\ regs' = regs /\ env' = env
          /\ left' = left /\ index' = index /\ whole' = whole /\ links' = links
      BY <2>3 DEF vars, answers, machine
    <3>2. /\ corpus' = corpus
          /\ BuildIndex(corpus.maxExports)' = BuildIndex(corpus.maxExports)
          /\ BuildIndex(Unlimited)' = BuildIndex(Unlimited)
      BY <3>1, CorpusStays
    <3>3. Root' = Root
      BY <3>1, <3>2 DEF Root
    <3> QED BY <3>1, <3>2, <3>3 DEF LinkInv, Answered, Followed
  <2> QED BY <2>1, <2>2, <2>3 DEF Next
<1> QED BY <1>1, <1>2, PTL DEF Spec

-----------------------------------------------------------------------------
(* What the root of a module leaves *)

(* A module that is admitted has a path. *)
LEMMA SegmentsAre ==
    ASSUME NEW proto, IsLiteral(proto)
    PROVE  IsModulePath(Scan(proto).segments)
<1> DEFINE N == NumWords(proto)
           e(n) == Scanned(proto)[n].segments
           S == {n \in Nat : n <= N => e(n) = <<>> \/ IsModulePath(e(n))}
<1>1. N \in Nat
  BY RootIs DEF IsLiteral
<1>2. 0 \in S
  <2>1. Scanned(proto)[0] = StartScan(proto)
    BY <1>1, ScannedIs
  <2>2. e(0) = <<>>
    BY <2>1 DEF StartScan
  <2> QED BY <2>2
<1>3. ASSUME NEW n \in Nat, n \in S PROVE n + 1 \in S
  <2> SUFFICES ASSUME n + 1 <= N PROVE e(n + 1) = <<>> \/ IsModulePath(e(n + 1))
    OBVIOUS
  <2>1. n \in 0..(N - 1) /\ (e(n) = <<>> \/ IsModulePath(e(n)))
    BY <1>1, <1>3
  <2>2. CASE n \notin Instructions(proto)
    BY <1>1, <2>1, <2>2, ScannedIs
  <2>3. CASE n \in Instructions(proto)
    <3> DEFINE s == Scanned(proto)[n]
               t == Scanned(proto)[n + 1]
               w == proto.words[n]
    <3>1. AdmittedAs(proto, s, w, t)
      BY <2>3, OpenBefore
    <3> HIDE DEF s, t, w
    <3>2. t.segments = s.segments \/ IsModulePath(t.segments)
      <4>1. CASE w.op # "CALL"
        BY <3>1, <4>1 DEF AdmittedAs, Held
      <4>2. CASE w.op = "CALL"
        <5> DEFINE name == s.tokens[w.a + 1].name
        <5>1. /\ IsDeclaration(s, w) /\ ~Contains(NameParts[name], NoPart)
              /\ t.segments = NameParts[name]
          BY <3>1, <4>2 DEF AdmittedAs
        <5>2. name \in Selectors
          BY <5>1 DEF IsDeclaration
        <5> HIDE DEF name
        <5>3. t.segments \in Seq(STRING) \ {<<>>}
          BY <5>1, <5>2, NamesAssumption
        <5> QED BY <5>1, <5>3 DEF IsModulePath, Contains
      <4> QED BY <4>1, <4>2
    <3> QED BY <2>1, <3>2 DEF s, t
  <2> QED BY <2>2, <2>3
<1>4. N \in S
  <2> HIDE DEF S
  <2> QED BY <1>1, <1>2, <1>3, Induction
<1> QED BY <1>1, <1>4 DEF Scan, IsLiteral, Declared

(* A definition is that of a store in a module. *)
LEMMA DefinitionsAre ==
    ASSUME NEW f, IsPrototype(f.chunk), NEW d \in FileDefinitions(f)
    PROVE  /\ IsLiteral(f.chunk) /\ d.artifact = Identity(f) /\ d.label[1] # NoPart
           /\ \E st \in LastOf(RootStores(f.chunk)) :
                 /\ IsClosureStore(st) /\ d.proto = st.value.kind.prototype
                 /\ d.label = Append(Scan(f.chunk).segments, st.name)
<1> DEFINE segments == Scan(f.chunk).segments
<1>1. DetectModuleDeclaration(f.chunk).is = "literal"
  BY DEF FileDefinitions
<1>2. IsLiteral(f.chunk)
  BY <1>1, DeclarationIs
<1>3. PICK st \in LastOf(RootStores(f.chunk)) : d \in StoreDefinitions(Identity(f), segments, st)
  BY <1>1 DEF FileDefinitions, StrictDefinitions
<1>4. IsClosureStore(st) /\ d = DefinitionOf(Identity(f), segments, st)
  BY <1>3 DEF StoreDefinitions
<1>5. /\ d.artifact = Identity(f) /\ d.label = Append(segments, st.name)
      /\ d.proto = st.value.kind.prototype
  BY <1>4 DEF DefinitionOf, Definition
<1>6. IsModulePath(segments)
  BY <1>2, SegmentsAre
<1>7. d.label[1] # NoPart
  <2> HIDE DEF segments
  <2>1. segments \in Seq(STRING) /\ segments # <<>>
    BY <1>6 DEF IsModulePath
  <2>2. IsSeq(segments)
    BY <2>1, ToSetOfSeq DEF IsSeq
  <2>3. 1 \in 1..Len(segments)
    BY <2>1
  <2>4. Append(segments, st.name)[1] = segments[1]
    BY <2>2, <2>3, AppendIsSeq
  <2> QED BY <1>5, <1>6, <2>3, <2>4 DEF IsModulePath
<1> QED BY <1>2, <1>4, <1>5, <1>7

Loaded == LinkInv /\ file # 0 /\ vmpc = Halted

LEMMA LiteralEnds ==
    ASSUME Loaded, IsLiteral(Root)
    PROVE  /\ IsModulePath(Scan(Root).segments)
           /\ LeftAgrees(Scan(Root).segments, RootStores(Root), left)
           /\ StoresAre(RootStores(Root), NumWords(Root)) /\ NumWords(Root) \in Nat
<1>1. LiteralInv(Root, Halted, regs, env, left)
  BY DEF Loaded, LinkInv, Followed
<1>2. Follows(Root, NumWords(Root), regs, env, left)
  BY <1>1 DEF LiteralInv
<1>3. env = Scan(Root).segments /\ LeftAgrees(env, RootStores(Root), left)
  BY <1>2 DEF Follows, Scan, RootStores
<1>4. NumWords(Root) \in Nat
  BY RootIs DEF IsLiteral
<1>5. StoresAre(RootStores(Root), NumWords(Root))
  <2>1. NumWords(Root) \in 0..NumWords(Root)
    BY <1>4
  <2> QED BY <2>1, RootStoresAre DEF RootStores
<1> QED BY <1>3, <1>4, <1>5, SegmentsAre

(* The root leaves the functions it defines. *)
LEMMA LeavesDefinitions ==
    ASSUME Loaded, NEW d \in FileDefinitions(corpus.files[file])
    PROVE  At(d.label) = Function(d.proto)
<1> DEFINE segments == Scan(Root).segments
           stores == RootStores(Root)
<1>1. IsPrototype(Root)
  BY CorpusIs DEF Loaded, LinkInv, Answered, IsCorpus, Root
<1>2. /\ IsLiteral(Root)
      /\ \E st \in LastOf(stores) :
            /\ IsClosureStore(st) /\ d.proto = st.value.kind.prototype
            /\ d.label = Append(segments, st.name)
  BY <1>1, DefinitionsAre DEF Root
<1>3. PICK st \in LastOf(stores) : /\ IsClosureStore(st) /\ d.proto = st.value.kind.prototype
                                   /\ d.label = Append(segments, st.name)
  BY <1>2
<1>4. /\ LeftAgrees(segments, stores, left)
      /\ StoresAre(stores, NumWords(Root)) /\ NumWords(Root) \in Nat
  BY <1>2, LiteralEnds
<1> HIDE DEF segments, stores
<1>5. PICK i \in 1..Len(stores) : st = stores[i] /\ IsLast(stores, i)
  BY <1>4, LastIs
<1>6. d.label \in DOMAIN left /\ StoreAgrees(st, left[d.label])
  BY <1>3, <1>4, <1>5 DEF LeftAgrees
<1>7. left[d.label] = Function(d.proto)
  BY <1>3, <1>6 DEF StoreAgrees, IsClosureStore
<1> QED BY <1>6, <1>7 DEF At

IsUndefined(f, label) == \A d \in FileDefinitions(f) : d.label # label

(* A root that hides nothing leaves no other function in a module. *)
LEMMA LeavesNoOther ==
    ASSUME Loaded, IsSettled(Root), NEW label, ~IsPlainLabel(label),
           IsUndefined(corpus.files[file], label)
    PROVE  IsNoFunction(At(label))
<1> DEFINE segments == Scan(Root).segments
           stores == RootStores(Root)
           d == DetectModuleDeclaration(Root)
<1>1. IsPrototype(Root) /\ Root.dialect = "5.1"
  BY CorpusIs DEF Loaded, LinkInv, Answered, IsCorpus, Root
<1>2. \/ IsPlain(Root)
      \/ d.is = "literal" /\ AllKnown(Root) /\ IsLiteral(Root)
  BY <1>1, DeclarationIs DEF IsSettled
<1>3. CASE label \notin DOMAIN left
  BY <1>3 DEF At, Unset, IsNoFunction
<1>4. CASE label \in DOMAIN left /\ IsPlain(Root)
  <2>1. PlainInv(Root, vmpc, regs, env, left)
    BY <1>4 DEF Loaded, LinkInv, Followed
  <2>2. IsPlainLabel(label)
    BY <1>4, <2>1 DEF PlainInv
  <2> QED BY <2>2
<1>5. CASE label \in DOMAIN left /\ d.is = "literal" /\ AllKnown(Root) /\ IsLiteral(Root)
  <2>1. /\ LeftAgrees(segments, stores, left)
        /\ StoresAre(stores, NumWords(Root)) /\ NumWords(Root) \in Nat
    BY <1>5, LiteralEnds
  <2>2. \A st \in LastOf(stores) : IsKnown(st.value)
    BY <1>5 DEF AllKnown
  <2>3. \A st \in LastOf(stores) :
           IsClosureStore(st) => DefinitionOf(Identity(corpus.files[file]), segments, st)
                                    \in FileDefinitions(corpus.files[file])
    BY <1>5 DEF FileDefinitions, StrictDefinitions, StoreDefinitions, Root
  <2> HIDE DEF segments, stores
  <2>4. PICK i \in 1..Len(stores) : label = Append(segments, stores[i].name)
    BY <1>5, <2>1 DEF LeftAgrees
  <2>5. PICK j \in 1..Len(stores) : stores[j].name = stores[i].name /\ IsLast(stores, j)
    BY <2>1, LastIs
  <2> DEFINE st == stores[j]
  <2>6. st \in LastOf(stores) /\ label = Append(segments, st.name)
    BY <2>1, <2>4, <2>5, LastIs
  <2>7. StoreAgrees(st, left[label])
    BY <2>1, <2>5, <2>6 DEF LeftAgrees
  <2> HIDE DEF st
  <2>8. ~IsClosureStore(st)
    <3>1. DefinitionOf(Identity(corpus.files[file]), segments, st).label = label
      BY <2>6 DEF DefinitionOf, Definition
    <3> QED BY <2>3, <2>6, <3>1 DEF IsUndefined
  <2>9. left[label].is \in {"number", "literal"}
    BY <2>2, <2>6, <2>7, <2>8 DEF StoreAgrees
  <2> QED BY <1>5, <2>9 DEF At, IsNoFunction
<1> QED BY <1>2, <1>3, <1>4, <1>5

-----------------------------------------------------------------------------
(* The links of a chunk *)

(* The candidates are the definitions of the label. *)
LEMMA CandidatesAre ==
    ASSUME NEW x, IsIndex(x), NEW label
    PROVE  LET c == Candidates(x, label)
           IN  /\ Len(c) \in Nat
               /\ ToSet(c) = {d \in ToSet(x.exports) : d.label = label}
               /\ Len(c) = 1 => ToSet(c) = {Head(c)}
               /\ Len(c) = 0 <=> ToSet(c) = {}
               /\ c = <<>> <=> ToSet(c) = {}
<1> DEFINE e == x.exports
           I == {i \in DOMAIN e : e[i].label = label}
           k == Cardinality(I)
           c == Candidates(x, label)
<1>1. Len(e) \in Nat /\ DOMAIN e = 1..Len(e)
  BY DEF IsIndex, IsSeq
<1>2. I \in SUBSET Nat /\ IsFiniteSet(I)
  <2>1. I \subseteq 1..Len(e)
    BY <1>1
  <2>2. IsFiniteSet(1..Len(e)) /\ 1..Len(e) \subseteq Nat
    BY <1>1, FS_Interval
  <2> HIDE DEF I, e
  <2> QED BY <2>1, <2>2, FS_Subset
<1>3. /\ k \in Nat /\ ToSet(InOrder(I)) = I
      /\ Len(InOrder(I)) = k /\ InOrder(I) \in Seq(I)
  <2> HIDE DEF I
  <2> QED BY <1>2, InOrderIs, InOrderSorts
<1>4. c = [i \in 1..k |-> e[InOrder(I)[i]]]
  BY DEF Candidates, Subsequence
<1> DEFINE at == InOrder(I)
<1>5. /\ \A i \in 1..k : at[i] \in I
      /\ \A n \in I : \E i \in 1..k : at[i] = n
  <2> HIDE DEF I
  <2>1. DOMAIN at = 1..k
    BY <1>3
  <2> HIDE DEF at
  <2> QED BY <1>3, <2>1 DEF ToSet, at
<1>6. ToSet(e) = {e[i] : i \in 1..Len(e)}
  BY <1>1 DEF ToSet
<1> HIDE DEF c, k, at
<1>7. /\ DOMAIN c = 1..k /\ Len(c) = k
      /\ \A i \in 1..k : c[i] = e[at[i]]
      /\ c = [i \in 1..k |-> c[i]]
  <2> HIDE DEF e
  <2> QED BY <1>3, <1>4 DEF at
<1>8. ToSet(c) = {c[i] : i \in 1..k}
  BY <1>7 DEF ToSet
<1>9. ToSet(c) = {d \in ToSet(e) : d.label = label}
  <2>1. ASSUME NEW d \in ToSet(c) PROVE d \in ToSet(e) /\ d.label = label
    <3>1. PICK i \in 1..k : d = e[at[i]]
      BY <1>7, <1>8
    <3>2. at[i] \in I
      BY <1>5
    <3> QED BY <1>1, <1>6, <3>1, <3>2
  <2>2. ASSUME NEW d \in ToSet(e), d.label = label PROVE d \in ToSet(c)
    <3>1. PICK n \in 1..Len(e) : d = e[n]
      BY <1>6
    <3>2. n \in I
      BY <1>1, <2>2, <3>1
    <3>3. PICK i \in 1..k : at[i] = n
      BY <1>5, <3>2
    <3> QED BY <1>7, <1>8, <3>1, <3>3
  <2> QED BY <2>1, <2>2
<1>10. k = 1 => ToSet(c) = {Head(c)}
  <2>1. Head(c) = c[1]
    BY DEF Head
  <2>2. k = 1 => \A i \in 1..k : i = 1
    BY <1>3
  <2>3. k = 1 => 1 \in 1..k
    BY <1>3
  <2> QED BY <1>8, <2>1, <2>2, <2>3
<1>11. k = 0 <=> ToSet(c) = {}
  <2>1. k = 0 => 1..k = {}
    BY <1>3
  <2>2. k # 0 => 1 \in 1..k
    BY <1>3
  <2> QED BY <1>8, <2>1, <2>2
<1>12. c = <<>> <=> k = 0
  <2>1. c \in [1..k -> ToSet(c)]
    BY <1>7, <1>8
  <2>2. c \in Seq(ToSet(c))
    BY <1>3, <2>1, FunctionIsSeq
  <2> QED BY <1>7, <2>2, EmptySeq
<1>13. /\ Len(c) \in Nat
       /\ ToSet(c) = {d \in ToSet(e) : d.label = label}
       /\ Len(c) = 1 => ToSet(c) = {Head(c)}
       /\ Len(c) = 0 <=> ToSet(c) = {}
       /\ c = <<>> <=> ToSet(c) = {}
  BY <1>3, <1>7, <1>9, <1>10, <1>11, <1>12
<1> QED BY <1>13 DEF c

Eligible(x, calls) == {n \in 1..Len(calls) : IsEligible(x, calls[n])}

(* One link is that of an eligible call, or marks it. *)
IsFact(x, calls, fact) ==
    \E n \in Eligible(x, calls) :
        \/ fact = LinkOf(x, n, calls[n])
        \/ fact = Link(n, calls[n].label, "limit_exceeded", NoTarget)

(* A call has a link, or is behind the one that marks the cap. *)
IsVisible(links_, n) ==
    \/ \E i \in DOMAIN links_.facts : links_.facts[i].call = n
    \/ /\ "ANA-LIMIT-002" \in links_.diagnostics
       /\ Last(links_.facts).status = "limit_exceeded"
       /\ Last(links_.facts).call < n

LEMMA LinksAre ==
    ASSUME NEW x, IsIndex(x), NEW chunk, Len(chunk.calls) \in Nat, chunk.dialect = "5.1",
           NEW max \in Nat
    PROVE  LET all == ResolveChunkLinks(x, chunk, max)
           IN  /\ \A i \in DOMAIN all.facts : IsFact(x, chunk.calls, all.facts[i])
               /\ \A n \in Eligible(x, chunk.calls) : IsVisible(all, n)
               /\ x.limit => "ANA-LIMIT-001" \in all.diagnostics
<1> DEFINE calls == chunk.calls
           E == Eligible(x, calls)
           k == Cardinality(E)
           at == InOrder(E)
           fact(n) == LinkOf(x, n, calls[n])
           marker(n) == Link(n, calls[n].label, "limit_exceeded", NoTarget)
           propagated == IF x.limit THEN {"ANA-LIMIT-001"} ELSE {}
           all == ResolveChunkLinks(x, chunk, max)
           Goal(r) == /\ \A i \in DOMAIN r.facts : IsFact(x, calls, r.facts[i])
                      /\ \A n \in E : IsVisible(r, n)
                      /\ x.limit => "ANA-LIMIT-001" \in r.diagnostics
<1>1. E \in SUBSET Nat /\ IsFiniteSet(E)
  <2>1. E \subseteq 1..Len(calls)
    BY DEF Eligible
  <2>2. IsFiniteSet(1..Len(calls)) /\ 1..Len(calls) \subseteq Nat
    BY FS_Interval
  <2> HIDE DEF E, calls
  <2> QED BY <2>1, <2>2, FS_Subset
<1>2. /\ k \in Nat /\ Len(at) = k /\ ToSet(at) = E /\ DOMAIN at = 1..k
      /\ \A i, j \in 1..k : i < j => at[i] < at[j]
  <2> HIDE DEF E
  <2>1. /\ k \in Nat /\ Len(at) = k /\ ToSet(at) = E /\ at \in Seq(E)
        /\ \A i, j \in 1..k : i < j => at[i] < at[j]
    BY <1>1, InOrderIs, InOrderSorts
  <2> QED BY <2>1
<1>3. at = LinkedCalls(x, calls)
  BY DEF LinkedCalls, Eligible
<1>4. IF Len(at) <= max
      THEN all = [facts |-> [i \in 1..Len(at) |-> fact(at[i])], diagnostics |-> propagated]
      ELSE all = [facts |-> [i \in 1..(max + 1) |-> IF i <= max THEN fact(at[i])
                                                     ELSE marker(at[i])],
                  diagnostics |-> propagated \cup {"ANA-LIMIT-002"}]
  <2> HIDE DEF at
  <2> QED BY <1>3 DEF ResolveChunkLinks
<1>5. \A n \in E : \E i \in 1..k : at[i] = n
  BY <1>2 DEF ToSet
<1>6. \A i \in 1..k : at[i] \in E
  BY <1>2 DEF ToSet
<1>7. \A n \in E : IsFact(x, calls, fact(n)) /\ IsFact(x, calls, marker(n))
  BY DEF IsFact
<1>8. \A n : fact(n).call = n /\ marker(n).call = n /\ marker(n).status = "limit_exceeded"
  <2>1. \A n : fact(n).call = n
    BY DEF LinkOf, Link
  <2>2. \A n : marker(n).call = n /\ marker(n).status = "limit_exceeded"
    BY DEF Link
  <2> QED BY <2>1, <2>2
<1> SUFFICES Goal(all)
  OBVIOUS
<1> HIDE DEF calls, E, k, at, fact, marker, all
<1>9. x.limit => "ANA-LIMIT-001" \in propagated
  OBVIOUS
<1> HIDE DEF propagated
<1>10. CASE Len(at) <= max
  <2>1. /\ DOMAIN all.facts = 1..k /\ \A i \in 1..k : all.facts[i] = fact(at[i])
        /\ all.diagnostics = propagated
    BY <1>2, <1>4, <1>10
  <2>2. \A i \in DOMAIN all.facts : IsFact(x, calls, all.facts[i])
    BY <1>6, <1>7, <2>1
  <2>3. \A n \in E : IsVisible(all, n)
    <3> SUFFICES ASSUME NEW n \in E PROVE \E i \in DOMAIN all.facts : all.facts[i].call = n
      BY DEF IsVisible
    <3>1. PICK i \in 1..k : at[i] = n
      BY <1>5
    <3> QED BY <1>8, <2>1, <3>1
  <2> QED BY <1>9, <2>1, <2>2, <2>3
<1>11. CASE ~(Len(at) <= max)
  <2>1. k > max /\ max + 1 \in 1..k
    BY <1>2, <1>11
  <2>2. /\ DOMAIN all.facts = 1..(max + 1)
        /\ \A i \in 1..(max + 1) :
              all.facts[i] = IF i <= max THEN fact(at[i]) ELSE marker(at[i])
        /\ all.diagnostics = propagated \cup {"ANA-LIMIT-002"}
        /\ Len(all.facts) = max + 1
    BY <1>4, <1>11
  <2>3. 1..(max + 1) \subseteq 1..k
    BY <1>2, <2>1
  <2>4. \A i \in DOMAIN all.facts : IsFact(x, calls, all.facts[i])
    BY <1>6, <1>7, <2>2, <2>3
  <2>5. \A i \in 1..(max + 1) : all.facts[i].call = at[i]
    BY <1>8, <2>2
  <2>6. Last(all.facts) = marker(at[max + 1])
    <3>1. max + 1 \in 1..(max + 1) /\ ~(max + 1 <= max)
      OBVIOUS
    <3>2. all.facts[max + 1] = marker(at[max + 1])
      BY <2>2, <3>1
    <3> QED BY <2>2, <3>2 DEF Last
  <2>7. \A n \in E : IsVisible(all, n)
    <3> SUFFICES ASSUME NEW n \in E PROVE IsVisible(all, n)
      OBVIOUS
    <3>1. PICK i \in 1..k : at[i] = n
      BY <1>5
    <3>2. CASE i \in 1..(max + 1)
      BY <2>2, <2>5, <3>1, <3>2 DEF IsVisible
    <3>3. CASE i \notin 1..(max + 1)
      <4>1. max + 1 < i
        BY <1>2, <3>3
      <4>2. at[max + 1] < n
        BY <1>2, <2>1, <3>1, <4>1
      <4>3. "ANA-LIMIT-002" \in all.diagnostics
        BY <2>2
      <4> QED BY <1>8, <2>6, <4>2, <4>3 DEF IsVisible
    <3> QED BY <3>2, <3>3
  <2> QED BY <1>9, <2>2, <2>4, <2>7
<1> QED BY <1>10, <1>11

-----------------------------------------------------------------------------
(* Links that rest on no trusted root *)

LEMMA IndexKnown ==
    ASSUME Loaded, index.assumed = {}
    PROVE  /\ IsCorpus /\ IsIndex(index) /\ index.marks = {}
           /\ file \in 1..Len(corpus.files)
           /\ ToSet(index.exports) \subseteq Found
           /\ IsOpen(index) => AllSettled /\ Found \subseteq ToSet(index.exports)
<1>1. IsCorpus
  BY CorpusIs DEF Loaded, LinkInv
<1>2. index = BuildIndex(corpus.maxExports) /\ file \in DOMAIN corpus.files
  BY DEF Loaded, LinkInv, Answered
<1>3. Adds(EmptyIndex, index, Found, AllSettled)
  BY <1>1, <1>2, BuildIndexed
<1>4. EmptyIndex.marks = {} /\ ToSet(EmptyIndex.exports) = {}
  BY DEF EmptyIndex, ToSet
<1> QED BY <1>1, <1>2, <1>3, <1>4 DEF Adds, IsCorpus

(* Of one module there is one file. *)
LEMMA FoundIs ==
    ASSUME IsCorpus, NEW k \in 1..Len(corpus.files), NEW d \in Found
    PROVE  /\ d.label[1] # NoPart
           /\ d.artifact = Identity(corpus.files[k]) <=> d \in FileDefinitions(corpus.files[k])
<1>1. PICK j \in 1..Len(corpus.files) : d \in FileDefinitions(corpus.files[j])
  BY DEF Found
<1>2. \A i \in 1..Len(corpus.files) : IsPrototype(corpus.files[i].chunk)
  BY DEF IsCorpus
<1>3. d.artifact = Identity(corpus.files[j]) /\ d.label[1] # NoPart
  BY <1>1, <1>2, DefinitionsAre
<1>4. ASSUME d \in FileDefinitions(corpus.files[k])
      PROVE  d.artifact = Identity(corpus.files[k])
  BY <1>2, <1>4, DefinitionsAre
<1>5. ASSUME d.artifact = Identity(corpus.files[k]) PROVE d \in FileDefinitions(corpus.files[k])
  <2>1. corpus.files[j].path = corpus.files[k].path
    BY <1>3, <1>5 DEF Identity
  <2>2. j = k
    BY <2>1 DEF IsCorpus
  <2> QED BY <1>1, <2>2
<1> QED BY <1>3, <1>4, <1>5

(* A definite status *)
LEMMA StatusIs ==
    ASSUME NEW x, IsIndex(x), x.marks = {}, NEW call, IsEligible(x, call),
           Status(x, call) \in {"resolved", "absent"}
    PROVE  LET found == Candidates(x, call.label)
           IN  /\ IsOpen(x)
               /\ Status(x, call) = "resolved" => Len(found) = 1
               /\ Status(x, call) = "absent" => Len(found) = 0
               /\ call.lookup => found # <<>>
               /\ ~call.lookup => ~IsEscaped(call.label)
<1> DEFINE found == Candidates(x, call.label)
           first == FirstStatus(x, call)
<1>1. ~IsMarked(x, call.label)
  BY DEF IsMarked
<1>2. Status(x, call) = first /\ first \in {"resolved", "absent"} /\ IsOpen(x)
  <2> HIDE DEF first
  <2>1. x.limit \in BOOLEAN
    BY DEF IsIndex
  <2> QED BY <2>1 DEF Status, first, IsOpen
<1>3. Len(found) \in Nat
  BY CandidatesAre
<1> HIDE DEF found
<1>4. /\ first = "resolved" => Len(found) = 1
      /\ first = "absent" => ~(Len(found) = 1) /\ ~(Len(found) > 1)
      /\ ~(~call.lookup /\ IsEscaped(call.label))
  <2> DEFINE k == Len(found)
             a == ~call.lookup /\ IsEscaped(call.label)
             b == x.dynamic # {}
             c == x.limit
  <2>1. first = IF a THEN "dynamic"
                ELSE IF IsMarked(x, call.label) THEN "dynamic"
                ELSE IF k = 1 THEN "resolved"
                ELSE IF k > 1 THEN "duplicate"
                ELSE IF b THEN "dynamic"
                ELSE IF c THEN "limit_exceeded" ELSE "absent"
    BY DEF FirstStatus, found
  <2>2. c \in BOOLEAN
    BY DEF IsIndex
  <2> HIDE DEF k, a, b, c, first
  <2>3. /\ first = "resolved" => k = 1 /\ ~a
        /\ first = "absent" => ~(k = 1) /\ ~(k > 1) /\ ~a
    BY <1>1, <2>1, <2>2
  <2> QED BY <1>2, <2>3 DEF k, a, first
<1>5. ~(Len(found) = 1) /\ ~(Len(found) > 1) => Len(found) = 0
  <2> DEFINE k == Len(found)
  <2>1. k \in Nat
    BY <1>3
  <2> HIDE DEF k
  <2>2. ~(k = 1) /\ ~(k > 1) => k = 0
    BY <2>1
  <2> QED BY <2>2 DEF k
<1>6. call.lookup => found # <<>>
  BY <1>1 DEF IsEligible, found
<1> HIDE DEF first
<1>7. /\ IsOpen(x)
      /\ Status(x, call) = "resolved" => Len(found) = 1
      /\ Status(x, call) = "absent" => Len(found) = 0
      /\ call.lookup => found # <<>>
      /\ ~call.lookup => ~IsEscaped(call.label)
  BY <1>2, <1>4, <1>5, <1>6
<1> QED BY <1>7 DEF found

LEMMA UnescapedIs ==
    ASSUME NEW label \in Seq(STRING) \ {<<>>}, ~IsEscaped(label)
    PROVE  label[1] # NoPart
<1>1. 1 \in DOMAIN label
  OBVIOUS
<1>2. label[1] \in Selectors
  BY <1>1 DEF IsEscaped
<1> QED BY <1>2, NamesAssumption

LEMMA LongLabels ==
    ASSUME NEW label \in Seq(STRING), Len(label) > 1, label[1] # NoPart
    PROVE  ~IsPlainLabel(label)
<1> DEFINE k == Len(label)
<1>1. k \in Nat /\ k > 1
  OBVIOUS
<1> HIDE DEF k
<1>2. k # 1
  BY <1>1
<1> QED BY <1>2 DEF k, IsPlainLabel

(* What a link of an eligible call says is so. *)
LEMMA LinkIsTrue ==
    ASSUME Loaded, index.assumed = {}, NEW n \in Eligible(index, corpus.caller.calls),
           Len(corpus.caller.calls[n].label) > 1
    PROVE  IsTrueOf(LinkOf(index, n, corpus.caller.calls[n]), Identity(corpus.files[file]),
                    At(corpus.caller.calls[n].label))
<1> DEFINE call == corpus.caller.calls[n]
           label == call.label
           found == Candidates(index, label)
           identity == Identity(corpus.files[file])
           v == At(label)
           status == Status(index, call)
           link == LinkOf(index, n, call)
<1>1. /\ IsCorpus /\ IsIndex(index) /\ index.marks = {}
      /\ file \in 1..Len(corpus.files)
      /\ ToSet(index.exports) \subseteq Found
      /\ IsOpen(index) => AllSettled /\ Found \subseteq ToSet(index.exports)
  BY IndexKnown
<1>2. n \in 1..Len(corpus.caller.calls) /\ IsEligible(index, call)
  BY DEF Eligible
<1>3. label \in Seq(STRING) \ {<<>>}
  BY <1>1, <1>2 DEF IsCorpus
<1>4. /\ ToSet(found) = {d \in ToSet(index.exports) : d.label = label}
      /\ Len(found) = 1 => ToSet(found) = {Head(found)}
      /\ Len(found) = 0 => ToSet(found) = {}
      /\ found # <<>> => ToSet(found) # {}
  BY <1>1, CandidatesAre
<1>5. /\ link.status = status /\ link.label = label
      /\ status = "resolved" => link.target = [artifact |-> Head(found).artifact,
                                               proto |-> Head(found).proto]
  BY DEF LinkOf, Link
<1>6. \A d \in ToSet(found) :
          /\ d \in Found /\ d.label = label /\ label[1] # NoPart
          /\ d.artifact = identity <=> d \in FileDefinitions(corpus.files[file])
  <2> HIDE DEF found, label, identity
  <2>1. \A d \in ToSet(found) : d \in Found /\ d.label = label
    BY <1>1, <1>4
  <2> QED BY <1>1, <2>1, FoundIs DEF identity
<1>7. \A d \in ToSet(found) : d.artifact = identity => v = Function(d.proto)
  <2> HIDE DEF found, label, identity
  <2> SUFFICES ASSUME NEW d \in ToSet(found), d.artifact = identity PROVE v = Function(d.proto)
    OBVIOUS
  <2>1. d \in FileDefinitions(corpus.files[file]) /\ d.label = label
    BY <1>6
  <2> QED BY <2>1, LeavesDefinitions
<1>8. ASSUME status \in {"resolved", "absent"}
      PROVE  /\ Len(found) = IF status = "resolved" THEN 1 ELSE 0
             /\ \/ IsNoFunction(v)
                \/ \E d \in ToSet(found) : d.artifact = identity
  <2> HIDE DEF call, found, identity, v
  <2>1. /\ IsOpen(index)
        /\ status = "resolved" => Len(found) = 1
        /\ status = "absent" => Len(found) = 0
        /\ call.lookup => found # <<>>
        /\ ~call.lookup => ~IsEscaped(label)
    BY <1>1, <1>2, <1>8, StatusIs DEF found
  <2>2. label[1] # NoPart
    <3>1. CASE call.lookup = TRUE
      BY <1>4, <1>6, <2>1, <3>1
    <3>2. CASE ~call.lookup
      BY <1>3, <2>1, <3>2, UnescapedIs
    <3>3. call.lookup \in BOOLEAN
      BY <1>1, <1>2 DEF IsCorpus, call
    <3> QED BY <3>1, <3>2, <3>3
  <2>3. ~IsPlainLabel(label)
    BY <1>3, <2>2, LongLabels DEF call
  <2>4. IsSettled(Root)
    BY <1>1, <2>1 DEF AllSettled, Root
  <2>5. CASE IsUndefined(corpus.files[file], label)
    BY <2>3, <2>4, <2>5, LeavesNoOther, <2>1, <1>8 DEF v
  <2>6. CASE ~IsUndefined(corpus.files[file], label)
    <3>1. PICK d \in FileDefinitions(corpus.files[file]) : d.label = label
      BY <2>6 DEF IsUndefined
    <3>2. d \in Found
      BY <1>1 DEF Found
    <3>3. d \in ToSet(found)
      BY <1>1, <1>4, <2>1, <3>1, <3>2
    <3> QED BY <1>6, <1>8, <2>1, <3>3
  <2> QED BY <2>5, <2>6
<1> HIDE DEF call, label, found, identity, v, status, link
<1>9. CASE status = "resolved"
  <2>1. ToSet(found) = {Head(found)}
    BY <1>4, <1>8, <1>9
  <2>2. link.target.artifact = Head(found).artifact /\ link.target.proto = Head(found).proto
    BY <1>5, <1>9
  <2>3. IF link.target.artifact = identity THEN v = Function(link.target.proto)
        ELSE IsNoFunction(v)
    BY <1>7, <1>8, <1>9, <2>1, <2>2
  <2> QED BY <1>5, <1>9, <2>3 DEF IsTrueOf, link, identity, v, label, call
<1>10. CASE status = "absent"
  <2>1. IsNoFunction(v)
    BY <1>4, <1>8, <1>10
  <2> QED BY <1>5, <1>10, <2>1 DEF IsTrueOf, link, identity, v, label, call
<1>11. CASE status = "duplicate"
  <2>1. \A d \in ToSet(Candidates(index, link.label)) : d.artifact = identity => v = Function(d.proto)
    BY <1>5, <1>7 DEF found
  <2> QED BY <1>5, <1>11, <2>1 DEF IsTrueOf, link, identity, v, label, call
<1>12. CASE status \notin {"resolved", "absent", "duplicate"}
  BY <1>5, <1>12 DEF IsTrueOf, link, identity, v, label, call
<1> QED BY <1>9, <1>10, <1>11, <1>12

LEMMA LinksOfState ==
    ASSUME Loaded, IsCorpus, IsIndex(index), corpus.caller.dialect = "5.1"
    PROVE  /\ \A i \in DOMAIN links.facts : IsFact(index, corpus.caller.calls, links.facts[i])
           /\ \A n \in Eligible(index, corpus.caller.calls) : IsVisible(links, n)
           /\ index.limit => "ANA-LIMIT-001" \in links.diagnostics
<1>1. links = ResolveChunkLinks(index, corpus.caller, corpus.maxLinks)
  BY DEF Loaded, LinkInv, Answered
<1>2. Len(corpus.caller.calls) \in Nat /\ corpus.maxLinks \in Nat
  BY DEF IsCorpus
<1> QED BY <1>1, <1>2, LinksAre

(* A chunk of another dialect has one link, that says so. *)
LEMMA UnsupportedIs ==
    ASSUME Loaded, corpus.caller.dialect # "5.1"
    PROVE  links.facts = <<Link(0, <<>>, "unsupported", NoTarget)>>
<1>1. links = ResolveChunkLinks(index, corpus.caller, corpus.maxLinks)
  BY DEF Loaded, LinkInv, Answered
<1> DEFINE it == Link(0, <<>>, "unsupported", NoTarget)
<1>2. links = [facts |-> <<it>>, diagnostics |-> {}]
  BY <1>1 DEF ResolveChunkLinks
<1> HIDE DEF it
<1>3. links.facts = <<it>>
  BY <1>2
<1> QED BY <1>3 DEF it

LEMMA AllLinksAreTrue ==
    ASSUME LinkInv, index.assumed = {}
    PROVE  LinksAreTrue
<1> SUFFICES ASSUME ModuleIsLoaded, NEW i \in DOMAIN links.facts, Len(links.facts[i].label) > 1
             PROVE  IsTrueOf(links.facts[i], Identity(corpus.files[file]),
                             At(links.facts[i].label))
  BY DEF LinksAreTrue
<1>1. Loaded
  BY DEF Loaded, ModuleIsLoaded
<1>2. IsCorpus /\ IsIndex(index)
  BY <1>1, IndexKnown
<1>3. CASE corpus.caller.dialect = "5.1"
  <2> DEFINE calls == corpus.caller.calls
             fact == links.facts[i]
  <2>1. IsFact(index, calls, fact)
    BY <1>1, <1>2, <1>3, LinksOfState
  <2>2. PICK n \in Eligible(index, calls) :
            \/ fact = LinkOf(index, n, calls[n])
            \/ fact = Link(n, calls[n].label, "limit_exceeded", NoTarget)
    BY <2>1 DEF IsFact
  <2>3. CASE fact = LinkOf(index, n, calls[n])
    <3>1. fact.label = calls[n].label
      BY <2>3 DEF LinkOf, Link
    <3>2. Len(calls[n].label) > 1
      BY <3>1
    <3>3. IsTrueOf(LinkOf(index, n, calls[n]), Identity(corpus.files[file]), At(calls[n].label))
      BY <1>1, <3>2, LinkIsTrue
    <3> QED BY <2>3, <3>1, <3>3
  <2>4. CASE fact = Link(n, calls[n].label, "limit_exceeded", NoTarget)
    <3>1. fact.status = "limit_exceeded"
      BY <2>4 DEF Link
    <3> HIDE DEF fact
    <3>2. IsTrueOf(fact, Identity(corpus.files[file]), At(fact.label))
      BY <3>1 DEF IsTrueOf
    <3> QED BY <3>2 DEF fact
  <2> QED BY <2>2, <2>3, <2>4
<1>4. CASE corpus.caller.dialect # "5.1"
  <2> DEFINE it == Link(0, <<>>, "unsupported", NoTarget)
  <2>1. links.facts = <<it>>
    BY <1>1, <1>4, UnsupportedIs
  <2>2. it.status = "unsupported"
    BY DEF Link
  <2> HIDE DEF it
  <2>3. links.facts[i] = it
    BY <2>1
  <2>4. IsTrueOf(it, Identity(corpus.files[file]), At(it.label))
    BY <2>2 DEF IsTrueOf
  <2> QED BY <2>3, <2>4
<1> QED BY <1>3, <1>4

(* A call of what the root leaves is eligible. *)
LEMMA CallsAreEligible ==
    ASSUME Loaded, index.assumed = {}, NEW n \in DOMAIN corpus.caller.calls,
           ~corpus.caller.calls[n].lookup, Len(corpus.caller.calls[n].label) > 1,
           ~IsNoFunction(At(corpus.caller.calls[n].label))
    PROVE  n \in Eligible(index, corpus.caller.calls)
<1> DEFINE call == corpus.caller.calls[n]
           label == call.label
<1>1. /\ IsCorpus /\ IsIndex(index) /\ index.marks = {}
      /\ file \in 1..Len(corpus.files)
      /\ IsOpen(index) => AllSettled /\ Found \subseteq ToSet(index.exports)
  BY IndexKnown
<1>2. label \in Seq(STRING) \ {<<>>} /\ n \in 1..Len(corpus.caller.calls)
  BY <1>1 DEF IsCorpus
<1> SUFFICES ASSUME ~IsEscaped(label) PROVE IsEligible(index, call)
  BY <1>2 DEF Eligible, IsEligible
<1>3. CASE ~IsOpen(index)
  <2>1. IsUncertain(index)
    BY <1>3 DEF IsOpen, IsUncertain
  <2> QED BY <2>1 DEF IsEligible
<1>4. CASE IsOpen(index)
  <2>1. ~IsPlainLabel(label)
    <3>1. label[1] # NoPart
      <4> HIDE DEF label
      <4> QED BY <1>2, UnescapedIs
    <3>2. Len(label) > 1
      OBVIOUS
    <3> HIDE DEF label
    <3> QED BY <1>2, <3>1, <3>2, LongLabels
  <2>2. IsSettled(Root)
    BY <1>1, <1>4 DEF AllSettled, Root
  <2>3. ~IsUndefined(corpus.files[file], label)
    <3>1. ~IsNoFunction(At(label))
      OBVIOUS
    <3> HIDE DEF label
    <3> QED BY <2>1, <2>2, <3>1, LeavesNoOther
  <2>4. PICK d \in FileDefinitions(corpus.files[file]) : d.label = label
    BY <2>3 DEF IsUndefined
  <2>5. d \in ToSet(index.exports)
    BY <1>1, <1>4 DEF Found
  <2> DEFINE c == Candidates(index, label)
  <2>6. ToSet(c) = {x \in ToSet(index.exports) : x.label = label} /\ (c = <<>> => ToSet(c) = {})
    <3> HIDE DEF label
    <3> QED BY <1>1, CandidatesAre
  <2>7. c # <<>>
    BY <2>4, <2>5, <2>6
  <2> QED BY <2>7 DEF IsEligible
<1> QED BY <1>3, <1>4

LEMMA AllOmissionsAreVisible ==
    ASSUME LinkInv, index.assumed = {}
    PROVE  OmissionsAreVisible
<1> SUFFICES ASSUME ModuleIsLoaded
             PROVE  /\ \A n \in DOMAIN corpus.caller.calls :
                          LET call == corpus.caller.calls[n]
                          IN  (/\ ~call.lookup /\ IsClaimed(call.label)
                               /\ ~IsNoFunction(At(call.label)) /\ ~HasFact(n)) =>
                                  /\ "ANA-LIMIT-002" \in links.diagnostics
                                  /\ Last(links.facts).status = "limit_exceeded"
                                  /\ Last(links.facts).call < n
                    /\ (corpus.caller.dialect = "5.1" /\ index.exports # whole.exports) =>
                          "ANA-LIMIT-001" \in links.diagnostics
  BY DEF OmissionsAreVisible
<1>1. Loaded
  BY DEF Loaded, ModuleIsLoaded
<1>2. IsCorpus /\ IsIndex(index)
  BY <1>1, IndexKnown
<1>3. ASSUME NEW n \in DOMAIN corpus.caller.calls,
             ~corpus.caller.calls[n].lookup, IsClaimed(corpus.caller.calls[n].label),
             ~IsNoFunction(At(corpus.caller.calls[n].label)), ~HasFact(n)
      PROVE  /\ "ANA-LIMIT-002" \in links.diagnostics
             /\ Last(links.facts).status = "limit_exceeded"
             /\ Last(links.facts).call < n
  <2>1. corpus.caller.dialect = "5.1"
    <3> SUFFICES ASSUME corpus.caller.dialect # "5.1" PROVE HasFact(n)
      BY <1>3
    <3> DEFINE it == Link(0, <<>>, "unsupported", NoTarget)
    <3>1. links.facts = <<it>>
      BY <1>1, UnsupportedIs
    <3>2. it.status = "unsupported"
      BY DEF Link
    <3> HIDE DEF it
    <3>3. 1 \in DOMAIN links.facts /\ links.facts[1].status = "unsupported"
      BY <3>1, <3>2
    <3> QED BY <3>3 DEF HasFact
  <2>2. Len(corpus.caller.calls[n].label) > 1
    BY <1>3 DEF IsClaimed
  <2>3. n \in Eligible(index, corpus.caller.calls)
    BY <1>1, <1>3, <2>2, CallsAreEligible
  <2>4. IsVisible(links, n)
    BY <1>1, <1>2, <2>1, <2>3, LinksOfState
  <2> QED BY <1>3, <2>4 DEF IsVisible, HasFact
<1>4. ASSUME corpus.caller.dialect = "5.1", index.exports # whole.exports
      PROVE  "ANA-LIMIT-001" \in links.diagnostics
  <2>1. index = BuildIndex(corpus.maxExports) /\ whole = BuildIndex(Unlimited)
    BY <1>1 DEF Loaded, LinkInv, Answered
  <2>2. index.limit
    <3> SUFFICES ASSUME ~index.limit PROVE FALSE
      OBVIOUS
    <3>1. IsWhole(BuildIndex(corpus.maxExports))
      BY <2>1 DEF IsWhole
    <3>2. /\ corpus.maxExports \in Nat /\ Unlimited \in Nat
          /\ corpus.maxExports <= Unlimited
      <4>1. corpus.maxExports \in Nat
        BY <1>2 DEF IsCorpus
      <4> DEFINE m == corpus.maxExports
      <4>2. Unlimited = m + 1000
        BY DEF Unlimited
      <4> HIDE DEF m
      <4> QED BY <4>1, <4>2 DEF m
    <3>3. BuildIndex(Unlimited) = BuildIndex(corpus.maxExports)
      BY <1>2, <3>1, <3>2, WholeIs
    <3> QED BY <1>4, <2>1, <3>3
  <2> QED BY <1>1, <1>2, <1>4, <2>2, LinksOfState
<1> QED BY <1>3, <1>4

-----------------------------------------------------------------------------
(* The theorems *)

(* index_chunk_module_exports_bounded: an index of the strict convention rests
   on no root that is trusted and not read. *)
THEOREM StrictTrustsNoRoot == Spec => [](corpus.convention = Strict => index.assumed = {})
<1>1. LinkInv => (corpus.convention = Strict => index.assumed = {})
  <2> SUFFICES ASSUME LinkInv, corpus.convention = Strict PROVE index.assumed = {}
    OBVIOUS
  <2>1. CASE file = 0
    BY <2>1 DEF LinkInv, Answered, EmptyIndex
  <2>2. CASE file # 0
    <3>1. IsCorpus
      BY CorpusIs DEF LinkInv
    <3>2. index = BuildIndex(corpus.maxExports)
      BY <2>2 DEF LinkInv, Answered
    <3> QED BY <3>1, <3>2, StrictIndexIs
  <2> QED BY <2>1, <2>2
<1> QED BY <1>1, LinkInvHolds, PTL

(* resolve_chunk_links_bounded: while the index rests on no trusted root, a
   link that is resolved, absent or duplicate is borne out by every root, on
   every path. *)
THEOREM LinksHold == Spec => [](index.assumed = {} => LinksAreTrue)
<1>1. LinkInv => (index.assumed = {} => LinksAreTrue)
  BY AllLinksAreTrue
<1> QED BY <1>1, LinkInvHolds, PTL

(* resolve_chunk_links_bounded and mark_index_limit: while the index rests on
   no trusted root, every call of a function that a root leaves is linked, or
   comes after the link that marks the cap on links, and an index that the
   budget cut says so with every chunk it links. *)
THEOREM OmissionsShow == Spec => [](index.assumed = {} => OmissionsAreVisible)
<1>1. LinkInv => (index.assumed = {} => OmissionsAreVisible)
  BY AllOmissionsAreVisible
<1> QED BY <1>1, LinkInvHolds, PTL

(* Under the strict convention, luci-module-setglobal, no root is taken on trust,
   so that both are so without a condition. *)
THEOREM StrictLinksHold ==
    Spec => [](corpus.convention = Strict => LinksAreTrue /\ OmissionsAreVisible)
BY StrictTrustsNoRoot, LinksHold, OmissionsShow, PTL
=============================================================================
