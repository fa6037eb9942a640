--------------------------- MODULE CaptureProofs ---------------------------
(***************************************************************************)
(* A verified capture implements the snapshot, an export that ran to its   *)
(* end is accepted, and what a cap takes can be seen: for every corpus,    *)
(* all caps and any number of edits.                                       *)
(***************************************************************************)
EXTENDS VerifiedCapture, SequenceTheorems, FiniteSetTheorems, FunctionTheorems,
        WellFoundedInduction, TLAPS

-----------------------------------------------------------------------------
(* The invariant *)

IsSeq(s) == s \in Seq(ToSet(s))

(* Where the second pinning has been, what it found; elsewhere what there is *)
Until(i) == IF after[i] = 0 THEN ver[i] ELSE after[i]

(* Whatever is read of an item between the two pinnings is in its window. *)
Windows == [i \in Items |-> taken[i]..Until(i)]

IsIndexed(c, w, indexes_, paths) ==
    /\ IsSeq(indexes_) /\ Len(indexes_) >= 1
    /\ indexes_[1] = EmptyIndex
    /\ Len(indexes_) <= Len(IndexOrder(paths)) + 1
    /\ \A n \in 1..(Len(indexes_) - 1) :
          \E v \in w[IndexOrder(paths)[n]] :
             indexes_[n + 1] = IndexFile(c, indexes_[n], IndexOrder(paths)[n], v)

IsWritten(c, w, written, index, paths) ==
    /\ IsSeq(written)
    /\ Len(written) <= Len(paths)
    /\ \A k \in 1..Len(written) :
          \E v \in w[paths[k]] : written[k] = Section(c, index, paths[k], v)

IsIdle ==
    /\ pass = "idle"
    /\ indexes = <<EmptyIndex>>
    /\ sections = <<>>

TypeInv ==
    /\ chosen \in DOMAIN Corpora
    /\ ver \in [Items -> 1..MaxVersion]
    /\ before \in [Items -> 0..MaxVersion]
    /\ after \in [Items -> 0..MaxVersion]
    /\ DOMAIN bundle = {"complete", "inputs", "code", "hashed", "kept"}

PinningInv ==
    stage = "pinning" =>
        /\ \A i \in Items : before[i] <= ver[i]
        /\ taken = NotTaken
        /\ after = NotPinned
        /\ IsIdle

(* Between the two pinnings *)
WindowInv ==
    stage \in {"schema", "running", "repinning"} =>
        /\ taken \in [Items -> 1..MaxVersion]
        /\ before[Binary] # 0 /\ before[List] # 0
        /\ \A i \in Inputs : before[i] # 0
        /\ \A i \in Items : before[i] <= taken[i] /\ taken[i] <= Until(i)
        /\ stage # "repinning" => after = NotPinned
        /\ stage = "schema" => IsIdle

RunningInv ==
    stage = "running" =>
        /\ pass \in {"index", "emit", "ended"}
        /\ tool \in Windows[Binary]
        /\ \E v \in Windows[List] : files = corpus.lists[v]
        /\ IsIndexed(corpus, Windows, indexes, files)
        /\ IsWritten(corpus, Windows, sections, Last(indexes), files)
        /\ ~corpus.args.linking => indexes = <<EmptyIndex>>
        /\ pass = "index" =>
              /\ corpus.args.linking
              /\ Len(indexes) <= Len(IndexOrder(files))
              /\ sections = <<>>
        /\ pass # "index" /\ files # <<>> /\ corpus.args.linking =>
              Len(indexes) = Len(IndexOrder(files)) + 1
        /\ pass = "emit" => Len(sections) < Len(files)
        /\ pass = "ended" => Len(sections) = Len(files)

(* A stream that is whole and came with the exit code of the export *)
IsGenuine == bundle.hashed.ended /\ bundle.code \in 0..6

CollectedInv ==
    stage = "repinning" /\ IsGenuine =>
        /\ bundle.hashed.tool \in Windows[Binary]
        /\ \E v \in Windows[List] :
              LET paths == corpus.lists[v]
                  s == bundle.hashed
              IN  /\ IsIndexed(corpus, Windows, s.indexes, paths)
                  /\ IsWritten(corpus, Windows, s.sections, Last(s.indexes), paths)
                  /\ Len(s.sections) = Len(paths)
                  /\ ~corpus.args.linking => s.indexes = <<EmptyIndex>>
                  /\ corpus.args.linking => Len(s.indexes) = Len(IndexOrder(paths)) + 1
                  /\ bundle.code = ExitCode(corpus, Last(s.indexes), s.sections)

HashedReport ==
    [is |-> "report", tool |-> bundle.hashed.tool, indexes |-> bundle.hashed.indexes,
     sections |-> bundle.hashed.sections, code |-> bundle.code]

(* A manifest that says complete is of what was on disk at the snapshot. *)
SealedInv ==
    bundle.complete =>
        /\ stage \in {"sealed", "done", "killed"}
        /\ taken # NotTaken
        /\ IsGenuine => IsReport(corpus, taken, HashedReport)

IInv == TypeInv /\ PinningInv /\ WindowInv /\ RunningInv /\ CollectedInv /\ SealedInv

-----------------------------------------------------------------------------
(* Induction, as the least number that is not in a set *)

LEMMA Induction ==
    ASSUME NEW S, 0 \in S, \A n \in Nat : n \in S => n + 1 \in S
    PROVE  Nat \subseteq S
<1> DEFINE Less == {p \in Nat \X Nat : p[1] < p[2]}
           T == Nat \ S
<1> SUFFICES ASSUME T # {} PROVE FALSE
  OBVIOUS
<1>1. IsWellFoundedOn(Less, Nat)
  BY NatLessThanWellFounded DEF OpToRel
<1>2. PICK x \in T : \A y \in T : ~(<<y, x>> \in Less)
  BY <1>1, WFMin
<1>3. \A y \in T : ~(y < x)
  BY <1>2
<1> HIDE DEF Less
<1>4. x - 1 \in T
  BY <1>3
<1> QED BY <1>3, <1>4

-----------------------------------------------------------------------------
(* Sequences *)

(* A function on 1..n is a sequence. *)
LEMMA FunctionIsSeq ==
    ASSUME NEW n \in Nat, NEW T, NEW f \in [1..n -> T]
    PROVE  f \in Seq(T) /\ Len(f) = n
<1>1. f \in UNION {[1..m -> T] : m \in Nat}
  OBVIOUS
<1>2. f \in Seq(T)
  BY <1>1, SeqDef, Zenon
<1> QED BY <1>2, LenProperties

(* Appending to a sequence keeps what is there. *)
LEMMA AppendIsSeq ==
    ASSUME NEW s, IsSeq(s), NEW e
    PROVE  /\ IsSeq(Append(s, e))
           /\ Len(Append(s, e)) = Len(s) + 1
           /\ \A i \in 1..Len(s) : Append(s, e)[i] = s[i]
           /\ Append(s, e)[Len(s) + 1] = e
<1> DEFINE S == ToSet(s) \cup {e}
<1>1. s \in Seq(S)
  BY LenProperties, SeqDef DEF IsSeq
<1>2. /\ Append(s, e) \in Seq(S)
      /\ Len(Append(s, e)) = Len(s) + 1
      /\ \A i \in 1..Len(s) : Append(s, e)[i] = s[i]
      /\ Append(s, e)[Len(s) + 1] = e
  BY <1>1, AppendProperties, e \in S
<1>3. Append(s, e) \in [1..Len(Append(s, e)) -> ToSet(Append(s, e))]
  BY <1>2, LenProperties DEF ToSet
<1>4. IsSeq(Append(s, e))
  BY <1>2, <1>3, LenProperties, FunctionIsSeq DEF IsSeq
<1> QED BY <1>2, <1>4

(* A sequence has a finite set of elements, of which each is at a position. *)
LEMMA ToSetOfSeq ==
    ASSUME NEW S, NEW s \in Seq(S)
    PROVE  /\ IsFiniteSet(ToSet(s))
           /\ ToSet(s) \subseteq S
           /\ s \in Seq(ToSet(s))
           /\ s # <<>> => ToSet(s) # {}
<1>1. Len(s) \in Nat /\ DOMAIN s = 1..Len(s) /\ s \in [1..Len(s) -> S]
  BY LenProperties
<1>2. IsFiniteSet(1..Len(s))
  BY <1>1, FS_Interval
<1>3. s \in Surjection(1..Len(s), ToSet(s))
  BY <1>1 DEF Surjection, ToSet
<1>4. s # <<>> => ToSet(s) # {}
  BY <1>1, EmptySeq DEF ToSet
<1>5. IsFiniteSet(ToSet(s))
  BY <1>2, <1>3, FS_Surjection
<1>6. ToSet(s) \subseteq S
  BY <1>1 DEF ToSet
<1>7. s \in [1..Len(s) -> ToSet(s)]
  BY <1>3 DEF Surjection
<1>8. s \in Seq(ToSet(s))
  BY <1>1, <1>7, FunctionIsSeq
<1> QED BY <1>4, <1>5, <1>6, <1>8

Rank(S, n) == Cardinality({m \in S : m < n})

(* Of a finite set of numbers, a larger one has a larger rank, and every rank
   is that of some number. *)
LEMMA Ranks ==
    ASSUME NEW S \in SUBSET Nat, IsFiniteSet(S)
    PROVE  /\ Cardinality(S) \in Nat
           /\ \A p \in S : Rank(S, p) \in 0..(Cardinality(S) - 1)
           /\ \A p, r \in S : p < r => Rank(S, p) < Rank(S, r)
           /\ \A i \in 0..(Cardinality(S) - 1) : \E p \in S : Rank(S, p) = i
<1> DEFINE Below(p) == {q \in S : q < p}
           T == 0..(Cardinality(S) - 1)
           rank == [p \in S |-> Rank(S, p)]
<1>1. Cardinality(S) \in Nat
  BY FS_CardinalityType
<1>2. \A p \in S : /\ IsFiniteSet(Below(p)) /\ Cardinality(Below(p)) \in Nat
                 /\ Rank(S, p) = Cardinality(Below(p))
  BY FS_Subset, FS_CardinalityType DEF Rank
<1>3. \A p, r \in S : p < r => Rank(S, p) < Rank(S, r)
  <2> SUFFICES ASSUME NEW p \in S, NEW r \in S, p < r
               PROVE  Cardinality(Below(p)) < Cardinality(Below(r))
    BY <1>2
  <2>1. p \in Below(r) /\ p \notin Below(p)
    OBVIOUS
  <2>2. \A q \in Below(p) : q \in Below(r)
    OBVIOUS
  <2>3. Below(p) \in SUBSET Below(r) /\ Below(p) # Below(r)
    BY <2>1, <2>2
  <2> QED BY <2>3, <1>2, FS_Subset
<1>4. \A p \in S : Rank(S, p) \in T
  <2> SUFFICES ASSUME NEW p \in S PROVE Cardinality(Below(p)) \in T
    BY <1>2
  <2>1. Below(p) \in SUBSET S /\ p \notin Below(p)
    OBVIOUS
  <2>2. Cardinality(Below(p)) < Cardinality(S)
    BY <2>1, <1>1, <1>2, FS_Subset
  <2> QED BY <2>2, <1>1, <1>2
<1>5. rank \in [S -> T]
  BY <1>4
<1>6. rank \in Injection(S, T)
  <2> SUFFICES ASSUME NEW p \in S, NEW r \in S, p # r PROVE rank[p] # rank[r]
    BY <1>5 DEF Injection, IsInjective
  <2>1. p < r \/ r < p
    OBVIOUS
  <2>2. Rank(S, p) \in Int /\ Rank(S, r) \in Int
    BY <1>2, <1>1, <1>4
  <2>3. Rank(S, p) # Rank(S, r)
    BY <2>1, <2>2, <1>3
  <2> QED BY <2>3
<1>7. IsFiniteSet(T) /\ Cardinality(T) = Cardinality(S)
  <2>1. Cardinality(S) - 1 \in Int
    BY <1>1
  <2>2. /\ IsFiniteSet(T)
        /\ Cardinality(T) = IF 0 > Cardinality(S) - 1 THEN 0 ELSE Cardinality(S) - 1 - 0 + 1
    BY <2>1, FS_Interval
  <2> QED BY <2>2, <1>1
<1>8. rank \in Surjection(S, T)
  BY <1>6, <1>7, FS_Injection
<1>9. \A i \in T : \E p \in S : Rank(S, p) = i
  BY <1>8 DEF Surjection
<1> HIDE DEF T
<1> QED BY <1>1, <1>3, <1>4, <1>9 DEF T

(* A set of numbers in order is a sequence of them, each at its rank. *)
LEMMA InOrderIs ==
    ASSUME NEW S \in SUBSET Nat, IsFiniteSet(S)
    PROVE  /\ Cardinality(S) \in Nat
           /\ InOrder(S) \in Seq(S) /\ Len(InOrder(S)) = Cardinality(S)
           /\ \A i \in 1..Cardinality(S) :
                 InOrder(S)[i] \in S /\ Rank(S, InOrder(S)[i]) = i - 1
           /\ \A i \in 1..Cardinality(S), p \in S : Rank(S, p) = i - 1 => InOrder(S)[i] = p
<1> DEFINE Nth(i) == CHOOSE n \in S : Cardinality({m \in S : m < n}) = i - 1
<1>1. Cardinality(S) \in Nat
  BY Ranks
<1>2. \A i \in 1..Cardinality(S) : Nth(i) \in S /\ Rank(S, Nth(i)) = i - 1
  <2> SUFFICES ASSUME NEW i \in 1..Cardinality(S) PROVE Nth(i) \in S /\ Rank(S, Nth(i)) = i - 1
    OBVIOUS
  <2>1. i - 1 \in 0..(Cardinality(S) - 1)
    BY <1>1
  <2>2. \E p \in S : Rank(S, p) = i - 1
    BY <2>1, Ranks
  <2> QED BY <2>2 DEF Rank
<1>3. InOrder(S) = [i \in 1..Cardinality(S) |-> Nth(i)]
  BY DEF InOrder
<1> HIDE DEF Nth
<1>4. InOrder(S) \in [1..Cardinality(S) -> S]
  BY <1>2, <1>3
<1>5. InOrder(S) \in Seq(S) /\ Len(InOrder(S)) = Cardinality(S)
  BY <1>1, <1>4, FunctionIsSeq
<1>6. \A i \in 1..Cardinality(S) : InOrder(S)[i] \in S /\ Rank(S, InOrder(S)[i]) = i - 1
  BY <1>2, <1>3
<1>7. ASSUME NEW i \in 1..Cardinality(S), NEW p \in S, Rank(S, p) = i - 1
      PROVE  InOrder(S)[i] = p
  <2> DEFINE q == InOrder(S)[i]
  <2>1. q \in S /\ Rank(S, q) = i - 1
    BY <1>6
  <2> HIDE DEF q
  <2>2. \A r \in S : r \in Nat /\ Rank(S, r) \in Int
    BY <1>1, Ranks
  <2>3. ~(q < p) /\ ~(p < q)
    BY <1>7, <2>1, <2>2, Ranks
  <2>4. p \in Nat /\ q \in Nat
    BY <2>1, <2>2
  <2>5. q = p
    BY <2>3, <2>4
  <2> QED BY <2>5 DEF q
<1> QED BY <1>1, <1>5, <1>6, <1>7

(* Every number of the set is in the sequence, in its place. *)
LEMMA InOrderSorts ==
    ASSUME NEW S \in SUBSET Nat, IsFiniteSet(S)
    PROVE  /\ ToSet(InOrder(S)) = S
           /\ \A i, j \in 1..Cardinality(S) : i < j => InOrder(S)[i] < InOrder(S)[j]
<1>1. Cardinality(S) \in Nat /\ InOrder(S) \in Seq(S) /\ Len(InOrder(S)) = Cardinality(S)
  BY InOrderIs
<1>2. DOMAIN InOrder(S) = 1..Cardinality(S)
  BY <1>1, LenProperties
<1>3. ASSUME NEW p \in S PROVE p \in ToSet(InOrder(S))
  <2>1. Rank(S, p) \in 0..(Cardinality(S) - 1)
    BY Ranks
  <2> DEFINE i == Rank(S, p) + 1
  <2> HIDE DEF i
  <2>3. i \in 1..Cardinality(S) /\ Rank(S, p) = i - 1
    BY <1>1, <2>1 DEF i
  <2>4. InOrder(S)[i] = p
    BY <2>3, InOrderIs
  <2> QED BY <1>2, <2>3, <2>4 DEF ToSet
<1>4. \A i \in 1..Cardinality(S) : InOrder(S)[i] \in S
  BY InOrderIs
<1>5. ToSet(InOrder(S)) = S
  BY <1>2, <1>3, <1>4 DEF ToSet
<1>6. ASSUME NEW i \in 1..Cardinality(S), NEW j \in 1..Cardinality(S), i < j
      PROVE  InOrder(S)[i] < InOrder(S)[j]
  <2> DEFINE p == InOrder(S)[i]
             q == InOrder(S)[j]
  <2>1. p \in S /\ q \in S /\ Rank(S, p) = i - 1 /\ Rank(S, q) = j - 1
    BY InOrderIs
  <2> HIDE DEF p, q
  <2>2. p # q /\ ~(q < p)
    BY <1>1, <1>6, <2>1, Ranks
  <2>3. p \in Nat /\ q \in Nat
    BY <2>1
  <2>4. p < q
    BY <2>2, <2>3
  <2> QED BY <2>4 DEF p, q
<1> QED BY <1>5, <1>6

(* A number above all others comes last. *)
LEMMA InOrderGrows ==
    ASSUME NEW S \in SUBSET Nat, IsFiniteSet(S), NEW n \in Nat, \A m \in S : m < n
    PROVE  InOrder(S \cup {n}) = Append(InOrder(S), n)
<1> DEFINE T == S \cup {n}
<1>1. T \in SUBSET Nat /\ IsFiniteSet(T) /\ n \notin S
  BY FS_AddElement
<1>2. Cardinality(T) = Cardinality(S) + 1 /\ Cardinality(S) \in Nat
  BY <1>1, FS_AddElement, FS_CardinalityType
<1>3. /\ InOrder(S) \in Seq(T) /\ InOrder(T) \in Seq(T)
      /\ Len(InOrder(S)) = Cardinality(S) /\ Len(InOrder(T)) = Cardinality(T)
  <2>1. /\ InOrder(S) \in Seq(S) /\ InOrder(T) \in Seq(T)
        /\ Len(InOrder(S)) = Cardinality(S) /\ Len(InOrder(T)) = Cardinality(T)
    BY <1>1, InOrderIs
  <2> QED BY <2>1, SeqMonotonic
<1>4. /\ Append(InOrder(S), n) \in Seq(T)
      /\ Len(Append(InOrder(S), n)) = Cardinality(T)
      /\ \A i \in 1..Cardinality(S) : Append(InOrder(S), n)[i] = InOrder(S)[i]
      /\ Append(InOrder(S), n)[Cardinality(T)] = n
  BY <1>2, <1>3, AppendProperties
<1>5. \A p \in S : Rank(T, p) = Rank(S, p)
  <2> SUFFICES ASSUME NEW p \in S PROVE {m \in T : m < p} = {m \in S : m < p}
    BY DEF Rank
  <2>1. ~(n < p)
    BY p < n, p \in Nat
  <2> QED BY <2>1
<1>6. Rank(T, n) = Cardinality(T) - 1
  <2>1. {m \in T : m < n} = S
    BY ~(n < n)
  <2>2. Rank(T, n) = Cardinality(S)
    BY <2>1 DEF Rank
  <2> QED BY <1>2, <2>2
<1>7. ASSUME NEW i \in 1..Cardinality(T)
      PROVE  InOrder(T)[i] = Append(InOrder(S), n)[i]
  <2>1. CASE i = Cardinality(T)
    <3>1. InOrder(T)[i] = n
      BY <1>1, <1>6, <2>1, InOrderIs
    <3> QED BY <1>4, <2>1, <3>1
  <2>2. CASE i # Cardinality(T)
    <3>1. i \in 1..Cardinality(S)
      BY <1>2, <2>2
    <3>2. InOrder(S)[i] \in S /\ Rank(S, InOrder(S)[i]) = i - 1
      BY <3>1, InOrderIs
    <3>3. InOrder(T)[i] = InOrder(S)[i]
      <4>1. InOrder(S)[i] \in T /\ Rank(T, InOrder(S)[i]) = i - 1
        BY <1>5, <3>2
      <4> HIDE DEF T
      <4> QED BY <1>1, <4>1, InOrderIs
    <3> QED BY <1>4, <3>1, <3>3
  <2> QED BY <2>1, <2>2
<1> QED BY <1>3, <1>4, <1>7, SeqEqual

(* What a sequence holds at some of its positions are elements of it. *)
LEMMA SubsequenceIs ==
    ASSUME NEW T, NEW s \in Seq(T), NEW at \in SUBSET (1..Len(s))
    PROVE  /\ Subsequence(s, at) \in Seq(T)
           /\ \A i \in 1..Len(Subsequence(s, at)) : \E n \in at : Subsequence(s, at)[i] = s[n]
<1>1. Len(s) \in Nat /\ s \in [1..Len(s) -> T]
  BY LenProperties
<1>2. at \in SUBSET Nat /\ IsFiniteSet(at)
  <2>1. IsFiniteSet(1..Len(s))
    BY <1>1, FS_Interval
  <2>2. 1..Len(s) \subseteq Nat
    BY <1>1
  <2> QED BY <2>1, <2>2, FS_Subset
<1>3. Cardinality(at) \in Nat /\ \A i \in 1..Cardinality(at) : InOrder(at)[i] \in at
  BY <1>2, InOrderIs
<1>4. Subsequence(s, at) = [i \in 1..Cardinality(at) |-> s[InOrder(at)[i]]]
  BY DEF Subsequence
<1>5. Subsequence(s, at) \in [1..Cardinality(at) -> T]
  BY <1>1, <1>3, <1>4
<1>6. Subsequence(s, at) \in Seq(T) /\ Len(Subsequence(s, at)) = Cardinality(at)
  BY <1>3, <1>5, FunctionIsSeq
<1> QED BY <1>3, <1>4, <1>6

-----------------------------------------------------------------------------
(* Corpora *)

(* The order of the index holds every path of the list and no other. *)
LEMMA IndexOrderIsSeq ==
    ASSUME NEW F \in SUBSET Nat, NEW paths \in Seq(F)
    PROVE  /\ IndexOrder(paths) \in Seq(ToSet(paths))
           /\ paths # <<>> => Len(IndexOrder(paths)) >= 1
<1> DEFINE S == ToSet(paths)
<1>1. IsFiniteSet(S) /\ S \in SUBSET Nat /\ (paths # <<>> => S # {})
  BY ToSetOfSeq
<1>2. Cardinality(S) \in Nat /\ (S # {} => Cardinality(S) # 0)
  BY <1>1, FS_CardinalityType, FS_EmptySet
<1>3. IndexOrder(paths) \in Seq(S) /\ Len(IndexOrder(paths)) = Cardinality(S)
  BY <1>1, InOrderIs DEF IndexOrder
<1> QED BY <1>1, <1>2, <1>3

LEMMA MaxVersionIs == MaxVersion \in Nat \ {0}
BY CorporaAssumption

(* What the assumption says of the corpus that was chosen *)
LEMMA CorpusFacts ==
    ASSUME TypeInv
    PROVE  /\ DOMAIN corpus.contents \in SUBSET Nat
           /\ List # Binary
           /\ List \notin DOMAIN corpus.contents /\ Binary \notin DOMAIN corpus.contents
           /\ List \in Items /\ Binary \in Items
           /\ corpus.editable \subseteq Items
           /\ \A v \in 1..MaxVersion :
                 /\ corpus.lists[v] \in Seq(DOMAIN corpus.contents)
                 /\ ToSet(corpus.lists[v]) \subseteq DOMAIN corpus.contents
           /\ DOMAIN corpus.contents \subseteq Items
           /\ MaxVersion \in Nat \ {0}
<1>1. \A v \in 1..MaxVersion : corpus.lists[v] \in Seq(DOMAIN corpus.contents)
  BY CorporaAssumption DEF TypeInv, corpus
<1>2. \A v \in 1..MaxVersion : ToSet(corpus.lists[v]) \subseteq DOMAIN corpus.contents
  BY <1>1, ToSetOfSeq
<1> QED BY <1>1, <1>2, CorporaAssumption DEF TypeInv, corpus, Items

(* A file that is found with one identity twice was the same file at every
   time between: it is indexed and written the same. *)
LEMMA UnchangedFile ==
    ASSUME NEW name \in DOMAIN Corpora, NEW p \in DOMAIN Corpora[name].contents,
           NEW b \in 1..MaxVersion, NEW a \in 1..MaxVersion,
           IdentityAt(Corpora[name], p, b) = IdentityAt(Corpora[name], p, a),
           NEW v \in b..a, NEW u \in b..a, NEW index
    PROVE  /\ IndexFile(Corpora[name], index, p, v) = IndexFile(Corpora[name], index, p, u)
           /\ Section(Corpora[name], index, p, v) = Section(Corpora[name], index, p, u)
<1> DEFINE c == Corpora[name]
           Unreadable(n) == c.contents[p][n].is = "unreadable"
<1>0. \A n \in b..a : Unreadable(b) /\ Unreadable(a) => Unreadable(n)
  <2>1. \A x, n, y \in 1..MaxVersion :
           x <= n /\ n <= y /\ Unreadable(x) /\ Unreadable(y) => Unreadable(n)
    BY CorporaAssumption
  <2>2. \A n \in b..a : n \in 1..MaxVersion /\ b <= n /\ n <= a
    BY MaxVersionIs
  <2> HIDE DEF Unreadable
  <2> QED BY <2>1, <2>2
<1>1. b <= v /\ v <= a /\ b <= u /\ u <= a
  BY MaxVersionIs
<1>2. CASE Unreadable(b)
  <2>1. Unreadable(a)
    BY <1>2 DEF IdentityAt, NoIdentity
  <2>2. Unreadable(v) /\ Unreadable(u)
    BY <1>0, <1>2, <2>1
  <2>3. \A n : Unreadable(n) =>
            /\ IdentityAt(c, p, n) = NoIdentity
            /\ IndexFile(c, index, p, n) = MarkDynamic(index, [path |-> p])
            /\ Section(c, index, p, n) = FailedRead(c, p, n)
    BY DEF IdentityAt, IndexFile, Section
  <2>4. FailedRead(c, p, v) = FailedRead(c, p, u)
    BY <2>2, <2>3 DEF FailedRead, BareSection
  <2> QED BY <2>2, <2>3, <2>4
<1>3. CASE ~Unreadable(b)
  <2>1. a = b
    BY <1>3 DEF IdentityAt, NoIdentity
  <2> QED BY <2>1, <1>1
<1> QED BY <1>2, <1>3

(* A longer window takes nothing from what was read. *)
LEMMA WindowsGrow ==
    ASSUME NEW c, NEW F \in SUBSET Nat, NEW paths \in Seq(F), NEW w, NEW wider,
           \A p \in ToSet(paths) : w[p] \subseteq wider[p]
    PROVE  /\ \A ix : IsIndexed(c, w, ix, paths) => IsIndexed(c, wider, ix, paths)
           /\ \A s, ix : IsWritten(c, w, s, ix, paths) => IsWritten(c, wider, s, ix, paths)
<1>1. IndexOrder(paths) \in Seq(ToSet(paths)) /\ paths \in Seq(ToSet(paths))
  BY IndexOrderIsSeq, ToSetOfSeq
<1>2. /\ Len(IndexOrder(paths)) \in Nat /\ Len(paths) \in Nat
      /\ \A n \in 1..Len(IndexOrder(paths)) : IndexOrder(paths)[n] \in ToSet(paths)
      /\ \A k \in 1..Len(paths) : paths[k] \in ToSet(paths)
  BY <1>1, LenProperties, ElementOfSeq
<1>3. ASSUME NEW ix, IsIndexed(c, w, ix, paths)
      PROVE  IsIndexed(c, wider, ix, paths)
  <2>1. Len(ix) \in Nat
    BY <1>3, LenProperties DEF IsIndexed, IsSeq
  <2>2. \A n \in 1..(Len(ix) - 1) : n \in 1..Len(IndexOrder(paths))
    BY <1>2, <1>3, <2>1 DEF IsIndexed
  <2>3. \A n \in 1..(Len(ix) - 1) : w[IndexOrder(paths)[n]] \subseteq wider[IndexOrder(paths)[n]]
    BY <1>2, <2>2
  <2> QED BY <1>3, <2>3, Zenon DEF IsIndexed
<1>4. ASSUME NEW s, NEW ix, IsWritten(c, w, s, ix, paths)
      PROVE  IsWritten(c, wider, s, ix, paths)
  <2>1. Len(s) \in Nat
    BY <1>4, LenProperties DEF IsWritten, IsSeq
  <2> QED BY <1>2, <1>4, <2>1 DEF IsWritten
<1> QED BY <1>3, <1>4

-----------------------------------------------------------------------------
(* The steps keep the invariant *)

LEMMA InitInv == Init => IInv
<1> SUFFICES ASSUME Init PROVE IInv
  OBVIOUS
<1> USE DEF Init, ExportInit
<1>1. TypeInv
  BY CorporaAssumption DEF TypeInv, NotPinned, NoBundle, Items, corpus
<1>2. PinningInv
  BY <1>1, CorpusFacts DEF PinningInv, NotPinned, IsIdle, TypeInv
<1>3. SealedInv
  BY DEF SealedInv, NoBundle
<1> QED BY <1>1, <1>2, <1>3 DEF IInv, WindowInv, RunningInv, CollectedInv

(* The corpus does not change. *)
LEMMA SameCorpus ==
    ASSUME chosen' = chosen
    PROVE  corpus' = corpus /\ Items' = Items
BY DEF corpus, Items

LEMMA WindowOf ==
    ASSUME TypeInv, taken \in [Items -> 1..MaxVersion], NEW i \in Items
    PROVE  /\ Until(i) \in 1..MaxVersion
           /\ Windows[i] = taken[i]..Until(i)
           /\ Windows[i] \subseteq 1..MaxVersion
<1>1. Until(i) \in 1..MaxVersion
  BY MaxVersionIs DEF TypeInv, Until
<1> QED BY <1>1, MaxVersionIs DEF Windows

(* A step that at most widens the windows: the disk changes, or an item is
   pinned again *)
LEMMA WideningStep ==
    ASSUME IInv, TypeInv',
           UNCHANGED <<chosen, exporter, stage, before, taken, bundle>>,
           \A i \in Items : ver[i] <= ver'[i],
           \A i \in Items : Until(i) <= Until(i)',
           stage # "repinning" => after' = after
    PROVE  IInv'
<1> USE DEF exporter
<1>1. corpus' = corpus /\ Items' = Items
  BY SameCorpus
<1>2. PinningInv'
  <2> SUFFICES ASSUME stage = "pinning" PROVE PinningInv'
    BY DEF PinningInv
  <2>1. \A i \in Items : before[i] <= ver'[i]
    BY MaxVersionIs DEF IInv, PinningInv, TypeInv
  <2> QED BY <1>1, <2>1 DEF IInv, PinningInv, IsIdle, NotPinned
<1>3. WindowInv'
  <2> SUFFICES ASSUME stage \in {"schema", "running", "repinning"} PROVE WindowInv'
    BY DEF WindowInv
  <2>1. \A i \in Items : taken[i] \in Int /\ Until(i) \in Int /\ Until(i)' \in Int
    BY <1>1, MaxVersionIs DEF IInv, WindowInv, TypeInv, Until
  <2>2. \A i \in Items : taken[i] <= Until(i)'
    BY <2>1 DEF IInv, WindowInv
  <2> QED BY <1>1, <2>2 DEF IInv, WindowInv, IsIdle, Inputs, Paths, NotPinned
<1>4. ASSUME stage \in {"running", "repinning"}
      PROVE  \A i \in Items : Windows[i] \subseteq Windows'[i] /\ Windows[i] \subseteq 1..MaxVersion
  <2>1. taken \in [Items -> 1..MaxVersion]
    BY <1>4 DEF IInv, WindowInv
  <2> SUFFICES ASSUME NEW i \in Items
               PROVE  Windows[i] \subseteq Windows'[i] /\ Windows[i] \subseteq 1..MaxVersion
    OBVIOUS
  <2>2. /\ Windows[i] = taken[i]..Until(i) /\ Windows[i] \subseteq 1..MaxVersion
        /\ Windows'[i] = taken[i]..Until(i)'
    BY <1>1, <2>1, WindowOf DEF IInv, Windows
  <2>3. Until(i) \in Int /\ Until(i)' \in Int /\ Until(i) <= Until(i)'
    BY <1>1, MaxVersionIs DEF IInv, TypeInv, Until
  <2> QED BY <2>2, <2>3
<1>5. ASSUME stage \in {"running", "repinning"}, NEW v \in Windows[List]
      PROVE  LET paths == corpus.lists[v]
             IN  /\ \A ix : IsIndexed(corpus, Windows, ix, paths)
                               => IsIndexed(corpus, Windows', ix, paths)
                 /\ \A s, ix : IsWritten(corpus, Windows, s, ix, paths)
                               => IsWritten(corpus, Windows', s, ix, paths)
  <2>1. v \in 1..MaxVersion
    BY <1>4, <1>5, CorpusFacts DEF IInv
  <2>2. /\ DOMAIN corpus.contents \in SUBSET Nat
        /\ corpus.lists[v] \in Seq(DOMAIN corpus.contents)
        /\ ToSet(corpus.lists[v]) \subseteq Items
    BY <2>1, CorpusFacts DEF IInv
  <2>3. \A p \in ToSet(corpus.lists[v]) : Windows[p] \subseteq Windows'[p]
    BY <1>4, <1>5, <2>2
  <2> QED BY <2>2, <2>3, WindowsGrow
<1>6. List \in Items /\ Binary \in Items
  BY CorpusFacts DEF IInv
<1>7. RunningInv'
  <2> SUFFICES ASSUME stage = "running" PROVE RunningInv'
    BY DEF RunningInv
  <2>1. PICK v \in Windows[List] : files = corpus.lists[v]
    BY DEF IInv, RunningInv
  <2>2. /\ IsIndexed(corpus, Windows', indexes, files)
        /\ IsWritten(corpus, Windows', sections, Last(indexes), files)
    BY <1>5, <2>1 DEF IInv, RunningInv
  <2>3. tool \in Windows'[Binary] /\ v \in Windows'[List]
    BY <1>4, <1>6, <2>1 DEF IInv, RunningInv
  <2> QED BY <1>1, <2>1, <2>2, <2>3 DEF IInv, RunningInv
<1>8. CollectedInv'
  <2> SUFFICES ASSUME stage = "repinning", IsGenuine PROVE CollectedInv'
    BY DEF CollectedInv, IsGenuine
  <2>1. PICK v \in Windows[List] :
           LET paths == corpus.lists[v]
               s == bundle.hashed
           IN  /\ IsIndexed(corpus, Windows, s.indexes, paths)
               /\ IsWritten(corpus, Windows, s.sections, Last(s.indexes), paths)
               /\ Len(s.sections) = Len(paths)
               /\ ~corpus.args.linking => s.indexes = <<EmptyIndex>>
               /\ corpus.args.linking => Len(s.indexes) = Len(IndexOrder(paths)) + 1
               /\ bundle.code = ExitCode(corpus, Last(s.indexes), s.sections)
    BY DEF IInv, CollectedInv
  <2>2. /\ IsIndexed(corpus, Windows', bundle.hashed.indexes, corpus.lists[v])
        /\ IsWritten(corpus, Windows', bundle.hashed.sections, Last(bundle.hashed.indexes),
                     corpus.lists[v])
    BY <1>5, <2>1
  <2>3. bundle.hashed.tool \in Windows'[Binary] /\ v \in Windows'[List]
    BY <1>4, <1>6, <2>1 DEF IInv, CollectedInv
  <2> QED BY <1>1, <2>1, <2>2, <2>3 DEF CollectedInv
<1>9. SealedInv'
  BY <1>1 DEF IInv, SealedInv, IsGenuine, HashedReport, NotTaken
<1> QED BY <1>2, <1>3, <1>7, <1>8, <1>9 DEF IInv

LEMMA EditStep ==
    ASSUME IInv, Edit, UNCHANGED captureVars
    PROVE  IInv'
<1> USE DEF captureVars, exporter
<1>1. PICK i \in corpus.editable : ver[i] < MaxVersion /\ ver' = [ver EXCEPT ![i] = @ + 1]
  BY DEF Edit
<1>2. chosen' = chosen /\ corpus' = corpus /\ Items' = Items
  BY SameCorpus DEF Edit
<1>3. i \in Items /\ ver \in [Items -> 1..MaxVersion] /\ MaxVersion \in Nat
  BY CorpusFacts DEF IInv, TypeInv
<1>4. ver' \in [Items -> 1..MaxVersion] /\ \A j \in Items : ver[j] <= ver'[j]
  BY <1>1, <1>3
<1>5. TypeInv'
  BY <1>2, <1>4 DEF IInv, TypeInv
<1>6. \A j \in Items : Until(j) <= Until(j)'
  BY <1>3, <1>4 DEF IInv, TypeInv, Until
<1> QED BY <1>2, <1>4, <1>5, <1>6, WideningStep DEF Edit

LEMMA PinAgainStep ==
    ASSUME IInv, PinAgain
    PROVE  IInv'
<1> USE DEF PinAgain, exporter
<1>1. PICK i \in LastToPin : after' = [after EXCEPT ![i] = ver[i]]
  OBVIOUS
<1>2. chosen' = chosen /\ corpus' = corpus /\ Items' = Items
  BY SameCorpus
<1>3. before \in [Items -> 0..MaxVersion] /\ before[List] # 0 /\ List \in Items
  BY CorpusFacts DEF IInv, WindowInv, TypeInv
<1>4. before[List] \in 1..MaxVersion
  BY <1>3, MaxVersionIs
<1>5. Inputs \subseteq Items
  BY <1>4, CorpusFacts DEF IInv, Inputs, Paths
<1>6. i \in Items /\ after[i] = 0
  BY <1>5, CorpusFacts DEF IInv, LastToPin
<1>7. TypeInv'
  BY <1>1, <1>2, <1>6, MaxVersionIs DEF IInv, TypeInv
<1>8. \A j \in Items : Until(j) <= Until(j)'
  <2> SUFFICES ASSUME NEW j \in Items PROVE Until(j) <= Until(j)'
    OBVIOUS
  <2>1. Until(j)' = Until(j)
    BY <1>1, <1>6 DEF Until, IInv, TypeInv
  <2>2. Until(j) \in Int
    BY MaxVersionIs DEF IInv, TypeInv, Until
  <2> QED BY <2>1, <2>2
<1>9. \A j \in Items : ver[j] <= ver'[j]
  BY MaxVersionIs DEF IInv, TypeInv
<1> QED BY <1>2, <1>7, <1>8, <1>9, WideningStep

LEMMA PinStep ==
    ASSUME IInv, Pin
    PROVE  IInv'
<1> USE DEF Pin, exporter
<1>1. PICK i \in FirstToPin : before' = [before EXCEPT ![i] = ver[i]]
  OBVIOUS
<1>2. corpus' = corpus /\ Items' = Items
  BY SameCorpus
<1>3. List \in Items /\ Binary \in Items /\ before \in [Items -> 0..MaxVersion]
  BY CorpusFacts DEF IInv, TypeInv
<1>4. i \in Items
  <2>1. CASE before[Binary] = 0
    BY <1>3, <2>1 DEF FirstToPin
  <2>2. CASE before[Binary] # 0 /\ before[List] = 0
    BY <1>3, <2>2 DEF FirstToPin
  <2>3. CASE before[Binary] # 0 /\ before[List] # 0
    <3>1. before[List] \in 1..MaxVersion
      BY <1>3, <2>3, MaxVersionIs
    <3>2. Inputs \subseteq Items
      BY <3>1, CorpusFacts DEF IInv, Inputs, Paths
    <3> QED BY <2>3, <3>2 DEF FirstToPin
  <2> QED BY <2>1, <2>2, <2>3
<1>5. TypeInv'
  <2>1. ver[i] \in 0..MaxVersion
    BY <1>4, MaxVersionIs DEF IInv, TypeInv
  <2>2. before' \in [Items -> 0..MaxVersion]
    BY <1>1, <1>3, <2>1
  <2> QED BY <1>2, <2>2 DEF IInv, TypeInv
<1>6. \A j \in Items : before'[j] <= ver[j]
  BY <1>1, <1>3, <1>4, MaxVersionIs DEF IInv, TypeInv, PinningInv
<1>7. PinningInv'
  BY <1>2, <1>6 DEF IInv, PinningInv, IsIdle, NotPinned
<1>8. SealedInv'
  BY <1>2 DEF IInv, SealedInv, IsGenuine, HashedReport, NotTaken
<1> QED BY <1>5, <1>7, <1>8 DEF IInv, WindowInv, RunningInv, CollectedInv

LEMMA EndPinningStep ==
    ASSUME IInv, EndPinning
    PROVE  IInv'
<1> USE DEF EndPinning, exporter
<1>1. corpus' = corpus /\ Items' = Items
  BY SameCorpus
<1>2. TypeInv'
  BY <1>1 DEF IInv, TypeInv
<1>3. /\ before[Binary] # 0 /\ before[List] # 0
      /\ \A i \in Inputs : before[i] # 0
  BY DEF FirstToPin
<1>4. \A i \in Items : Until(i)' = ver[i]
  BY <1>1 DEF IInv, PinningInv, NotPinned, Until
<1>5. WindowInv'
  <2>1. \A i \in Items : before[i] <= ver[i] /\ ver[i] <= ver[i]
    BY MaxVersionIs DEF IInv, TypeInv, PinningInv
  <2> QED BY <1>1, <1>3, <1>4, <2>1
          DEF IInv, TypeInv, WindowInv, PinningInv, IsIdle, NotPinned, Inputs, Paths
<1>6. SealedInv'
  BY DEF IInv, SealedInv
<1> QED BY <1>2, <1>5, <1>6 DEF IInv, PinningInv, RunningInv, CollectedInv

LEMMA LaunchStep ==
    ASSUME IInv, Launch
    PROVE  IInv'
<1> USE DEF Launch, StartExport
<1>1. corpus' = corpus /\ Items' = Items
  BY SameCorpus
<1>2. TypeInv'
  BY <1>1 DEF IInv, TypeInv
<1>3. /\ taken \in [Items -> 1..MaxVersion]
      /\ after = NotPinned
      /\ indexes = <<EmptyIndex>> /\ sections = <<>>
      /\ List \in Items /\ Binary \in Items
  BY CorpusFacts DEF IInv, WindowInv, IsIdle
<1>4. WindowInv'
  BY <1>1 DEF IInv, WindowInv, Inputs, Paths, NotPinned, Until
<1>5. \A i \in Items : ver[i] \in Windows'[i]
  <2> SUFFICES ASSUME NEW i \in Items PROVE ver[i] \in Windows'[i]
    OBVIOUS
  <2>1. Until(i)' = ver[i] /\ taken[i] <= ver[i] /\ taken[i] \in Int /\ ver[i] \in Int
    BY <1>3, MaxVersionIs DEF IInv, TypeInv, WindowInv, Until, NotPinned
  <2> QED BY <1>1, <2>1 DEF Windows
<1>6. files' = corpus.lists[ver[List]] /\ ver[List] \in 1..MaxVersion
  BY <1>3 DEF IInv, TypeInv
<1>7. /\ IndexOrder(files') \in Seq(ToSet(files'))
      /\ files' # <<>> => Len(IndexOrder(files')) >= 1
      /\ Len(files') \in Nat /\ (files' # <<>> => Len(files') # 0)
      /\ Len(IndexOrder(files')) \in Nat
  <2>1. files' \in Seq(DOMAIN corpus.contents) /\ DOMAIN corpus.contents \in SUBSET Nat
    BY <1>6, CorpusFacts DEF IInv
  <2>2. /\ IndexOrder(files') \in Seq(ToSet(files'))
        /\ files' # <<>> => Len(IndexOrder(files')) >= 1
    BY <2>1, IndexOrderIsSeq
  <2> QED BY <2>1, <2>2, LenProperties, EmptySeq
<1>8. IsIndexed(corpus, Windows', indexes, files')
  <2>1. Len(indexes) = 1 /\ indexes[1] = EmptyIndex /\ IsSeq(indexes)
    BY <1>3 DEF IsSeq, ToSet
  <2> QED BY <1>7, <2>1 DEF IsIndexed
<1>9. IsWritten(corpus, Windows', sections, Last(indexes), files')
  <2>1. Len(sections) = 0 /\ IsSeq(sections)
    BY <1>3, EmptySeq DEF IsSeq
  <2> QED BY <1>7, <2>1 DEF IsWritten
<1>10. RunningInv'
  <2>1. /\ pass' = IF files' = <<>> THEN "ended"
                   ELSE IF corpus.args.linking THEN "index" ELSE "emit"
        /\ tool' \in Windows'[Binary] /\ ver[List] \in Windows'[List]
        /\ Len(indexes) = 1 /\ Len(sections) = 0
    BY <1>3, <1>5
  <2>2. files' = <<>> => Len(files') = 0
    BY EmptySeq
  <2>3. pass' \in {"index", "emit", "ended"}
    BY <2>1
  <2>4. \E v \in Windows'[List] : files' = corpus.lists[v]
    BY <1>6, <2>1
  <2> QED BY <1>1, <1>3, <1>7, <1>8, <1>9, <2>1, <2>2, <2>3, <2>4 DEF RunningInv
<1>11. SealedInv'
  BY DEF IInv, SealedInv
<1> QED BY <1>2, <1>4, <1>10, <1>11 DEF IInv, PinningInv, CollectedInv

(* What is known of the files while the export runs *)
LEMMA RunningFacts ==
    ASSUME IInv, stage = "running"
    PROVE  /\ Len(files) \in Nat
           /\ \A k \in 1..Len(files) : files[k] \in ToSet(files)
           /\ Len(IndexOrder(files)) \in Nat
           /\ \A n \in 1..Len(IndexOrder(files)) : IndexOrder(files)[n] \in ToSet(files)
           /\ ToSet(files) \subseteq Items
           /\ (ToSet(files) # {} => Len(files) # 0)
           /\ \A i \in Items : ver[i] \in Windows[i]
<1>1. taken \in [Items -> 1..MaxVersion] /\ after = NotPinned
  BY DEF IInv, WindowInv
<1>2. List \in Items
  BY CorpusFacts DEF IInv
<1>3. PICK v \in Windows[List] : files = corpus.lists[v]
  BY DEF IInv, RunningInv
<1>4. v \in 1..MaxVersion
  BY <1>1, <1>2, <1>3, WindowOf DEF IInv
<1>5. /\ files \in Seq(DOMAIN corpus.contents)
      /\ DOMAIN corpus.contents \in SUBSET Nat
      /\ DOMAIN corpus.contents \subseteq Items
  BY <1>3, <1>4, CorpusFacts DEF IInv
<1>6. IndexOrder(files) \in Seq(ToSet(files)) /\ files \in Seq(ToSet(files))
  BY <1>5, IndexOrderIsSeq, ToSetOfSeq
<1>7. ToSet(files) \subseteq Items
  BY <1>5, ToSetOfSeq
<1>8. ToSet(files) # {} => Len(files) # 0
  BY <1>6, LenProperties DEF ToSet
<1>9. ASSUME NEW i \in Items PROVE ver[i] \in Windows[i]
  <2>1. Until(i) = ver[i] /\ taken[i] <= ver[i] /\ taken[i] \in Int /\ ver[i] \in Int
    BY <1>1, MaxVersionIs DEF IInv, TypeInv, WindowInv, Until, NotPinned
  <2> QED BY <2>1 DEF Windows
<1> QED BY <1>6, <1>7, <1>8, <1>9, LenProperties, ElementOfSeq

(* A step of the export leaves everything but the export as it is. *)
LEMMA OnlyRunning ==
    ASSUME IInv, stage = "running", UNCHANGED <<chosen, ver, captureVars>>, RunningInv'
    PROVE  IInv'
<1> USE DEF captureVars
<1>1. corpus' = corpus /\ Items' = Items
  BY SameCorpus
<1>2. TypeInv'
  BY <1>1 DEF IInv, TypeInv
<1>3. WindowInv'
  BY <1>1 DEF IInv, WindowInv, Inputs, Paths, NotPinned, Until
<1>4. SealedInv'
  BY DEF IInv, SealedInv
<1> QED BY <1>2, <1>3, <1>4 DEF IInv, PinningInv, CollectedInv

LEMMA IndexStep ==
    ASSUME IInv, stage = "running", IndexNext, UNCHANGED captureVars
    PROVE  IInv'
<1> DEFINE n == Len(indexes)
           p == IndexOrder(files)[n]
           new == IndexFile(corpus, indexes[n], p, ver[p])
<1>1. corpus' = corpus /\ Windows' = Windows
  BY SameCorpus DEF IndexNext, captureVars, Windows, Until
<1>2. /\ pass = "index" /\ corpus.args.linking
      /\ IsIndexed(corpus, Windows, indexes, files)
      /\ n <= Len(IndexOrder(files)) /\ sections = <<>>
      /\ IsWritten(corpus, Windows, sections, Last(indexes), files)
  BY DEF IndexNext, IInv, RunningInv
<1>3. IsSeq(indexes) /\ n \in Nat /\ n >= 1
  BY <1>2, LenProperties DEF IsIndexed, IsSeq
<1>4. /\ n \in 1..Len(IndexOrder(files)) /\ p \in ToSet(files) /\ Len(files) # 0
      /\ ver[p] \in Windows[p]
  BY <1>2, <1>3, RunningFacts
<1>5. /\ indexes' = Append(indexes, new)
      /\ pass' = IF n = Len(IndexOrder(files)) THEN "emit" ELSE "index"
      /\ UNCHANGED <<tool, files, sections>>
  BY DEF IndexNext
<1>6. /\ IsSeq(indexes') /\ Len(indexes') = n + 1
      /\ \A i \in 1..n : indexes'[i] = indexes[i]
      /\ indexes'[n + 1] = new
  BY <1>3, <1>5, AppendIsSeq
<1>7. IsIndexed(corpus, Windows, indexes', files)
  <2>1. ASSUME NEW i \in 1..(Len(indexes') - 1)
        PROVE  \E v \in Windows[IndexOrder(files)[i]] :
                  indexes'[i + 1] = IndexFile(corpus, indexes'[i], IndexOrder(files)[i], v)
    <3>1. CASE i = n
      BY <1>3, <1>4, <1>6, <3>1
    <3>2. CASE i # n
      <4>1. i \in 1..(n - 1) /\ i \in 1..n /\ i + 1 \in 1..n
        BY <1>3, <1>6, <3>2
      <4>2. indexes'[i] = indexes[i] /\ indexes'[i + 1] = indexes[i + 1]
        BY <1>6, <4>1
      <4> QED BY <1>2, <4>1, <4>2 DEF IsIndexed
    <3> QED BY <3>1, <3>2
  <2>2. Len(indexes') <= Len(IndexOrder(files)) + 1
    BY <1>3, <1>4, <1>6, RunningFacts
  <2>3. indexes'[1] = EmptyIndex /\ Len(indexes') >= 1
    BY <1>2, <1>3, <1>6 DEF IsIndexed
  <2> QED BY <1>6, <2>1, <2>2, <2>3 DEF IsIndexed
<1>8. IsWritten(corpus, Windows, sections, Last(indexes'), files)
  BY <1>2, EmptySeq DEF IsWritten
<1>9. RunningInv'
  <2>1. /\ pass' \in {"index", "emit"}
        /\ pass' = "index" => Len(indexes') <= Len(IndexOrder(files))
        /\ pass' # "index" => Len(indexes') = Len(IndexOrder(files)) + 1
        /\ Len(sections) = 0 /\ 0 < Len(files)
    BY <1>2, <1>3, <1>4, <1>5, <1>6, RunningFacts, EmptySeq
  <2>2. tool' \in Windows[Binary] /\ \E v \in Windows[List] : files' = corpus.lists[v]
    BY <1>5 DEF IInv, RunningInv
  <2> QED BY <1>1, <1>2, <1>5, <1>7, <1>8, <2>1, <2>2 DEF RunningInv
<1> QED BY <1>9, OnlyRunning DEF IndexNext

LEMMA ExportStep ==
    ASSUME IInv, stage = "running", ExportNext, UNCHANGED captureVars
    PROVE  IInv'
<1> DEFINE k == Len(sections) + 1
           p == files[k]
           index == Last(indexes)
           new == Section(corpus, index, p, ver[p])
<1>1. corpus' = corpus /\ Windows' = Windows
  BY SameCorpus DEF ExportNext, captureVars, Windows, Until
<1>2. /\ pass = "emit"
      /\ IsWritten(corpus, Windows, sections, index, files)
      /\ Len(sections) < Len(files)
  BY DEF ExportNext, IInv, RunningInv
<1>3. IsSeq(sections) /\ Len(sections) \in Nat /\ k \in Nat
  BY <1>2, LenProperties DEF IsWritten, IsSeq
<1>4. k \in 1..Len(files) /\ p \in ToSet(files) /\ ver[p] \in Windows[p] /\ Len(files) \in Nat
  BY <1>2, <1>3, RunningFacts
<1>5. /\ sections' = Append(sections, new)
      /\ pass' = IF k = Len(files) THEN "ended" ELSE "emit"
      /\ UNCHANGED <<tool, files, indexes>>
  BY DEF ExportNext
<1>6. /\ IsSeq(sections') /\ Len(sections') = k
      /\ \A i \in 1..Len(sections) : sections'[i] = sections[i]
      /\ sections'[k] = new
  BY <1>3, <1>5, AppendIsSeq
<1>7. IsWritten(corpus, Windows, sections', index, files)
  <2>1. ASSUME NEW i \in 1..Len(sections')
        PROVE  \E v \in Windows[files[i]] : sections'[i] = Section(corpus, index, files[i], v)
    <3>1. CASE i = k
      BY <1>4, <1>6, <3>1
    <3>2. CASE i # k
      <4>1. i \in 1..Len(sections)
        BY <1>3, <1>6, <3>2
      <4> QED BY <1>2, <1>6, <4>1 DEF IsWritten
    <3> QED BY <3>1, <3>2
  <2> QED BY <1>4, <1>6, <2>1 DEF IsWritten
<1>8. RunningInv'
  <2>1. /\ pass' \in {"emit", "ended"}
        /\ pass' = "emit" => Len(sections') < Len(files)
        /\ pass' = "ended" => Len(sections') = Len(files)
    BY <1>4, <1>5, <1>6
  <2>2. /\ tool' \in Windows[Binary] /\ \E v \in Windows[List] : files' = corpus.lists[v]
        /\ IsIndexed(corpus, Windows, indexes, files)
        /\ ~corpus.args.linking => indexes = <<EmptyIndex>>
        /\ files # <<>> /\ corpus.args.linking => Len(indexes) = Len(IndexOrder(files)) + 1
    BY <1>2, <1>5 DEF IInv, RunningInv
  <2> QED BY <1>1, <1>5, <1>7, <2>1, <2>2 DEF RunningInv
<1> QED BY <1>8, OnlyRunning DEF ExportNext

(* The end of the export: what is whole is what the export wrote. *)
LEMMA CollectedStep ==
    ASSUME IInv, stage = "running", NEW stream, NEW code, Collected(stream, code),
           stream.ended /\ code \in 0..6 =>
              /\ pass = "ended" /\ files # <<>>
              /\ stream = Received(Len(sections), TRUE)
              /\ code = Code
    PROVE  IInv'
<1> USE DEF Collected, ExportGone
<1>1. corpus' = corpus /\ Items' = Items /\ Windows' = Windows
  BY SameCorpus DEF Windows, Until
<1>2. TypeInv'
  BY <1>1 DEF IInv, TypeInv
<1>3. WindowInv'
  BY <1>1 DEF IInv, WindowInv, Inputs, Paths, Until
<1>4. SealedInv'
  BY DEF IInv, SealedInv
<1>5. CollectedInv'
  <2> SUFFICES ASSUME IsGenuine' PROVE CollectedInv'
    BY DEF CollectedInv
  <2>1. bundle'.hashed = stream /\ bundle'.code = code
    OBVIOUS
  <2>2. /\ pass = "ended" /\ files # <<>>
        /\ stream = Received(Len(sections), TRUE) /\ code = Code
    BY <2>1 DEF IsGenuine
  <2>3. SubSeq(sections, 1, Len(sections)) = sections
    BY SubSeqFull DEF IInv, RunningInv, IsWritten, IsSeq
  <2>4. /\ stream.tool = tool /\ stream.sections = sections /\ stream.indexes = indexes
        /\ code = ExitCode(corpus, Last(indexes), sections)
    BY <2>2, <2>3 DEF Received, Code
  <2>5. PICK v \in Windows[List] : files = corpus.lists[v]
    BY DEF IInv, RunningInv
  <2>6. /\ tool \in Windows[Binary]
        /\ IsIndexed(corpus, Windows, indexes, files)
        /\ IsWritten(corpus, Windows, sections, Last(indexes), files)
        /\ Len(sections) = Len(files)
        /\ ~corpus.args.linking => indexes = <<EmptyIndex>>
        /\ corpus.args.linking => Len(indexes) = Len(IndexOrder(files)) + 1
    BY <2>2 DEF IInv, RunningInv
  <2> QED BY <1>1, <2>1, <2>4, <2>5, <2>6 DEF CollectedInv
<1> QED BY <1>2, <1>3, <1>4, <1>5 DEF IInv, PinningInv, RunningInv

LEMMA CollectStep ==
    ASSUME IInv, Collect
    PROVE  IInv'
<1> DEFINE stream == Received(Len(sections), files # <<>>)
<1>1. stream.ended => files # <<>> /\ stream = Received(Len(sections), TRUE)
  BY DEF Received
<1> QED BY <1>1, CollectedStep DEF Collect

LEMMA CutOffStep ==
    ASSUME IInv, CutOff
    PROVE  IInv'
<1>1. ASSUME NEW k \in 0..Len(sections), NEW code \in {Success, IoError, Killed},
             Collected(Received(k, FALSE), code)
      PROVE  IInv'
  <2>1. ~Received(k, FALSE).ended
    BY DEF Received
  <2> QED BY <1>1, <2>1, CollectedStep DEF CutOff
<1>2. ASSUME Collected(Received(Len(sections), TRUE), Killed)
      PROVE  IInv'
  <2>1. Killed \notin 0..6
    BY DEF Killed
  <2> QED BY <1>2, <2>1, CollectedStep DEF CutOff
<1> QED BY <1>1, <1>2 DEF CutOff

(* When nothing has changed between the pinnings, each window of an item that
   counts is a point, or holds versions of a file that nobody can read. *)
LEMMA SealedReport ==
    ASSUME IInv, Seal, IsGenuine
    PROVE  IsReport(corpus, taken, HashedReport)
<1> DEFINE s == bundle.hashed
           c == corpus
<1>1. stage = "repinning" /\ IsUnchanged /\ LastToPin = {}
  BY DEF Seal
<1>2. taken \in [Items -> 1..MaxVersion] /\ before[List] # 0 /\ before[Binary] # 0
  BY <1>1 DEF IInv, WindowInv
<1>3. /\ List \in Items /\ Binary \in Items
      /\ List \notin DOMAIN c.contents /\ Binary \notin DOMAIN c.contents
      /\ DOMAIN c.contents \subseteq Items /\ DOMAIN c.contents \in SUBSET Nat
      /\ chosen \in DOMAIN Corpora /\ c = Corpora[chosen]
  BY CorpusFacts DEF IInv, TypeInv, corpus
<1>4. /\ before \in [Items -> 0..MaxVersion] /\ after \in [Items -> 0..MaxVersion]
      /\ MaxVersion \in Nat
  BY MaxVersionIs DEF IInv, TypeInv
<1>5. before[List] \in 1..MaxVersion
  BY <1>2, <1>3, <1>4
<1>6. Inputs \subseteq DOMAIN c.contents /\ Paths \in Seq(DOMAIN c.contents)
  BY <1>5, CorpusFacts DEF IInv, Inputs, Paths
<1>7. /\ \A p \in Inputs : after[p] # 0 /\ before[p] # 0
      /\ after[List] # 0 /\ after[Binary] # 0
  <2>1. {p \in Inputs : after[p] = 0} = {}
    BY <1>1 DEF LastToPin
  <2>2. after[List] # 0 /\ after[Binary] # 0
    BY <1>1, <2>1 DEF LastToPin
  <2> QED BY <1>1, <2>1, <2>2 DEF IInv, WindowInv
<1>8. \A i \in Inputs \cup {List, Binary} :
         /\ before[i] \in 1..MaxVersion /\ after[i] \in 1..MaxVersion
         /\ before[i] <= taken[i] /\ taken[i] <= after[i]
         /\ Windows[i] = taken[i]..after[i]
  BY <1>1, <1>2, <1>3, <1>4, <1>6, <1>7 DEF IInv, WindowInv, Windows, Until
<1>9. \A i \in {List, Binary} : before[i] = after[i] /\ Windows[i] = {taken[i]}
  <2> SUFFICES ASSUME NEW i \in {List, Binary}
               PROVE  before[i] = after[i] /\ Windows[i] = {taken[i]}
    OBVIOUS
  <2>1. Seen(i, after[i]) = Seen(i, before[i])
    BY <1>1 DEF IsUnchanged
  <2>2. before[i] = after[i]
    BY <1>3, <2>1 DEF Seen
  <2> QED BY <1>8, <2>2, <1>2, <1>3
<1>10. taken[List] = before[List]
  BY <1>2, <1>3, <1>8, <1>9
<1>11. ASSUME NEW p \in Inputs, NEW v \in Windows[p], NEW index
       PROVE  /\ IndexFile(c, index, p, v) = IndexFile(c, index, p, taken[p])
              /\ Section(c, index, p, v) = Section(c, index, p, taken[p])
  <2>1. p \in DOMAIN c.contents /\ Seen(p, after[p]) = Seen(p, before[p])
    BY <1>1, <1>6 DEF IsUnchanged
  <2>2. IdentityAt(c, p, before[p]) = IdentityAt(c, p, after[p])
    BY <2>1 DEF Seen
  <2>3. /\ before[p] \in 1..MaxVersion /\ after[p] \in 1..MaxVersion
        /\ before[p] <= taken[p] /\ taken[p] <= after[p]
        /\ v \in taken[p]..after[p] /\ taken[p] \in 1..MaxVersion
    BY <1>2, <1>3, <1>8, <2>1
  <2>4. v \in before[p]..after[p] /\ taken[p] \in before[p]..after[p]
    BY <1>4, <2>3
  <2> QED BY <1>3, <2>1, <2>2, <2>3, <2>4, UnchangedFile
<1> DEFINE paths == c.lists[taken[List]]
<1>12. PICK v \in Windows[List] :
          /\ IsIndexed(c, Windows, s.indexes, c.lists[v])
          /\ IsWritten(c, Windows, s.sections, Last(s.indexes), c.lists[v])
          /\ Len(s.sections) = Len(c.lists[v])
          /\ ~c.args.linking => s.indexes = <<EmptyIndex>>
          /\ c.args.linking => Len(s.indexes) = Len(IndexOrder(c.lists[v])) + 1
          /\ bundle.code = ExitCode(c, Last(s.indexes), s.sections)
  BY <1>1 DEF IInv, CollectedInv
<1>13. v = taken[List] /\ paths = Paths /\ ToSet(paths) = Inputs
  BY <1>9, <1>10, <1>12 DEF Paths, Inputs
<1>14. s.tool = taken[Binary]
  BY <1>1, <1>9 DEF IInv, CollectedInv
<1>15. /\ paths \in Seq(ToSet(paths)) /\ IndexOrder(paths) \in Seq(ToSet(paths))
       /\ Len(paths) \in Nat /\ Len(IndexOrder(paths)) \in Nat
       /\ DOMAIN IndexOrder(paths) = 1..Len(IndexOrder(paths))
  BY <1>3, <1>6, <1>13, ToSetOfSeq, IndexOrderIsSeq, LenProperties
<1>16. IsIndexHistory(c, s.indexes, paths, taken)
  <2>1. CASE ~c.args.linking
    BY <1>12, <2>1 DEF IsIndexHistory
  <2>2. CASE c.args.linking
    <3>1. Len(s.indexes) = Len(IndexOrder(paths)) + 1 /\ s.indexes[1] = EmptyIndex
      BY <1>12, <1>13, <2>2 DEF IsIndexed
    <3>2. ASSUME NEW i \in DOMAIN IndexOrder(paths)
          PROVE  s.indexes[i + 1] = IndexFile(c, s.indexes[i], IndexOrder(paths)[i],
                                              taken[IndexOrder(paths)[i]])
      <4>1. IndexOrder(paths)[i] \in Inputs
        BY <1>13, <1>15, <3>2, ElementOfSeq
      <4>2. i \in 1..(Len(s.indexes) - 1)
        BY <1>15, <3>1, <3>2
      <4>3. \E u \in Windows[IndexOrder(paths)[i]] :
               s.indexes[i + 1] = IndexFile(c, s.indexes[i], IndexOrder(paths)[i], u)
        BY <1>12, <1>13, <4>2 DEF IsIndexed
      <4> QED BY <1>11, <4>1, <4>3
    <3> QED BY <2>2, <3>1, <3>2 DEF IsIndexHistory
  <2> QED BY <2>1, <2>2
<1>17. s.sections = [k \in 1..Len(paths) |->
                        Section(c, Last(s.indexes), paths[k], taken[paths[k]])]
  <2>1. /\ Len(s.sections) = Len(paths)
        /\ s.sections \in [1..Len(paths) -> ToSet(s.sections)]
    BY <1>12, <1>13, LenProperties DEF IsWritten, IsSeq
  <2>2. ASSUME NEW k \in 1..Len(paths)
        PROVE  s.sections[k] = Section(c, Last(s.indexes), paths[k], taken[paths[k]])
    <3>1. paths[k] \in Inputs
      BY <1>13, <1>15, <2>2, ElementOfSeq
    <3>2. \E u \in Windows[paths[k]] : s.sections[k] = Section(c, Last(s.indexes), paths[k], u)
      BY <1>12, <1>13, <2>1 DEF IsWritten
    <3> QED BY <1>11, <3>1, <3>2
  <2> QED BY <2>1, <2>2
<1> QED BY <1>12, <1>14, <1>16, <1>17 DEF IsReport, HashedReport

LEMMA SealStep ==
    ASSUME IInv, Seal
    PROVE  IInv'
<1> USE DEF Seal, exporter
<1>1. corpus' = corpus /\ Items' = Items
  BY SameCorpus
<1>2. TypeInv'
  BY <1>1 DEF IInv, TypeInv
<1>3. taken # NotTaken
  <2>1. DOMAIN taken = Items /\ List \in Items
    BY CorpusFacts DEF IInv, WindowInv
  <2> QED BY <2>1 DEF NotTaken
<1>4. SealedInv'
  <2>1. bundle'.hashed = bundle.hashed /\ bundle'.code = bundle.code
    BY DEF IInv, TypeInv
  <2> QED BY <1>1, <1>3, <2>1, SealedReport DEF SealedInv, IsGenuine, HashedReport, NotTaken
<1> QED BY <1>2, <1>4 DEF IInv, PinningInv, WindowInv, RunningInv, CollectedInv

(* After that the manifest only ever loses its word, and the stream that was
   hashed is kept in mind. *)
LEMMA OverStep ==
    ASSUME IInv, UNCHANGED <<chosen, ver, taken>>, TypeInv',
           stage' \in {"done", "killed"},
           bundle'.complete => bundle.complete,
           bundle'.hashed = bundle.hashed, bundle'.code = bundle.code
    PROVE  IInv'
<1>1. corpus' = corpus
  BY SameCorpus
<1>2. SealedInv'
  BY <1>1 DEF IInv, SealedInv, IsGenuine, HashedReport, NotTaken
<1> QED BY <1>2 DEF IInv, PinningInv, WindowInv, RunningInv, CollectedInv

LEMMA LateSteps ==
    ASSUME IInv, Verify \/ Refuse \/ Kill \/ Damage \/ VerifyAgain
    PROVE  IInv'
<1>1. chosen' = chosen /\ ver' = ver /\ taken' = taken /\ Items' = Items
  BY SameCorpus DEF Verify, Refuse, Kill, Damage, VerifyAgain
<1>2. /\ NotPinned' \in [Items -> 0..MaxVersion]
      /\ DOMAIN bundle = {"complete", "inputs", "code", "hashed", "kept"}
  BY <1>1, MaxVersionIs DEF NotPinned, IInv, TypeInv
<1>3. CASE Verify
  <2>1. before' = NotPinned /\ after' = NotPinned /\ NotPinned' = NotPinned
    BY <1>1, <1>3 DEF Verify, CaptureGone, NotPinned
  <2>2. /\ bundle' = [bundle EXCEPT !.complete = IsAccepted] /\ stage' = "done"
        /\ IsAccepted => bundle.complete
    BY <1>3 DEF Verify, IsAccepted
  <2> QED BY <1>1, <1>2, <2>1, <2>2, OverStep DEF IInv, TypeInv
<1>4. CASE Refuse
  <2>1. before' = NotPinned /\ after' = NotPinned /\ NotPinned' = NotPinned
    BY <1>1, <1>4 DEF Refuse, CaptureGone, NotPinned
  <2>2. bundle' = [bundle EXCEPT !.complete = FALSE] /\ stage' = "done"
    BY <1>4 DEF Refuse
  <2> QED BY <1>1, <1>2, <2>1, <2>2, OverStep DEF IInv, TypeInv
<1>5. CASE Kill
  <2>1. before' = NotPinned /\ after' = NotPinned /\ NotPinned' = NotPinned
    BY <1>1, <1>5 DEF Kill, CaptureGone, NotPinned
  <2>2. bundle' = bundle /\ stage' = "killed"
    BY <1>5 DEF Kill
  <2> QED BY <1>1, <1>2, <2>1, <2>2, OverStep DEF IInv, TypeInv
<1>6. CASE Damage
  <2>1. before' = before /\ after' = after /\ stage' = stage /\ stage \in {"done", "killed"}
    BY <1>6 DEF Damage
  <2>2. PICK kept : bundle' = [bundle EXCEPT !.kept = kept]
    BY <1>6, Zenon DEF Damage
  <2> QED BY <1>1, <1>2, <2>1, <2>2, OverStep DEF IInv, TypeInv
<1>7. CASE VerifyAgain
  <2>1. /\ before' = before /\ after' = after /\ bundle' = bundle
        /\ stage' = stage /\ stage \in {"done", "killed"}
    BY <1>7 DEF VerifyAgain
  <2> QED BY <1>1, <2>1, OverStep DEF IInv, TypeInv
<1> QED BY <1>3, <1>4, <1>5, <1>6, <1>7

LEMMA Inductive == IInv /\ [Next]_vars => IInv'
<1> SUFFICES ASSUME IInv, [Next]_vars PROVE IInv'
  OBVIOUS
<1>1. CASE Edit /\ stage \notin {"done", "killed"} /\ UNCHANGED captureVars
  BY <1>1, EditStep
<1>2. CASE Run
  BY <1>2, IndexStep, ExportStep DEF Run, Export
<1>3. CASE Pin \/ EndPinning \/ Launch
  BY <1>3, PinStep, EndPinningStep, LaunchStep
<1>4. CASE Collect \/ CutOff \/ PinAgain \/ Seal
  BY <1>4, CollectStep, CutOffStep, PinAgainStep, SealStep
<1>5. CASE Verify \/ Refuse \/ Kill \/ Damage \/ VerifyAgain
  BY <1>5, LateSteps
<1>6. CASE UNCHANGED vars
  <2>1. corpus' = corpus /\ Items' = Items
    BY <1>6, SameCorpus DEF vars
  <2> QED BY <1>6, <2>1
          DEF vars, exporter, captureVars, IInv, TypeInv, PinningInv, WindowInv, RunningInv,
              CollectedInv, SealedInv, IsIdle, NotPinned, NotTaken, Inputs, Paths, Until,
              Windows, IsGenuine, HashedReport
<1> QED BY <1>1, <1>2, <1>3, <1>4, <1>5, <1>6 DEF Next

-----------------------------------------------------------------------------
(* The refinement *)

(* An accepted report is the one of the snapshot. *)
LEMMA AcceptedIsTaken ==
    ASSUME IInv, IsAccepted
    PROVE  taken # NotTaken /\ IsReport(corpus, taken, Report)
<1>1. /\ bundle.complete /\ bundle.code \in 0..6
      /\ bundle.kept = bundle.hashed /\ bundle.kept.ended
  BY DEF IsAccepted, IsVerified
<1>2. IsGenuine /\ Report = HashedReport
  BY <1>1 DEF IsGenuine, Report, HashedReport
<1> QED BY <1>1, <1>2 DEF IInv, SealedInv

LEMMA StepImplements == IInv /\ [Next]_vars => [Snapshot!Next]_Snapshot!vars
<1> SUFFICES ASSUME IInv, [Next]_vars PROVE [Snapshot!Next]_Snapshot!vars
  OBVIOUS
<1> USE DEF Snapshot!Next, Snapshot!vars
<1>1. CASE Edit /\ UNCHANGED captureVars
  <2>1. corpus.editable \subseteq Items /\ DOMAIN ver = Items
    BY CorpusFacts DEF IInv, TypeInv
  <2>2. Snapshot!Edit
    BY <1>1, <2>1 DEF Snapshot!Edit, Edit, captureVars
  <2> QED BY <2>2
<1>2. CASE EndPinning
  <2>1. taken = NotTaken
    BY <1>2 DEF EndPinning, IInv, PinningInv
  <2>2. Snapshot!TakeSnapshot
    BY <1>2, <2>1 DEF EndPinning, Snapshot!TakeSnapshot, Snapshot!NotTaken, NotTaken
  <2> QED BY <2>2
<1>3. CASE Verify \/ VerifyAgain
  <2>1. verdict' = (IF IsAccepted THEN Report ELSE Refused) /\ UNCHANGED <<chosen, ver, taken>>
    BY <1>3 DEF Verify, VerifyAgain
  <2>2. CASE IsAccepted
    <3>1. taken # NotTaken /\ IsReport(corpus, taken, Report) /\ verdict' = Report
      BY <2>1, <2>2, AcceptedIsTaken
    <3>2. Report.is = "report"
      BY DEF Report
    <3>3. Snapshot!Accept
      BY <2>1, <3>1, <3>2 DEF Snapshot!Accept, Snapshot!NotTaken, NotTaken, corpus
    <3> QED BY <3>3
  <2>3. CASE ~IsAccepted
    BY <2>1, <2>3 DEF Snapshot!Refuse, Refused
  <2> QED BY <2>2, <2>3
<1>4. CASE Refuse
  BY <1>4 DEF Refuse, Refused, Snapshot!Refuse
<1>5. CASE Pin \/ Launch \/ Run \/ Collect \/ CutOff \/ PinAgain \/ Seal \/ Kill \/ Damage
  <2>1. UNCHANGED <<chosen, ver, taken, verdict>>
    BY <1>5 DEF Pin, Launch, StartExport, Run, Export, IndexNext, ExportNext, captureVars,
                Collect, CutOff, Collected, PinAgain, Seal, Kill, Damage
  <2> QED BY <2>1
<1>6. CASE UNCHANGED vars
  BY <1>6 DEF vars, captureVars
<1> QED BY <1>1, <1>2, <1>3, <1>4, <1>5, <1>6 DEF Next

(* Between the two pinnings, whatever the export has read lies in the windows. *)
THEOREM WindowsHold == Spec => []IInv
<1>1. Init => IInv
  BY InitInv
<1>2. IInv /\ [Next]_vars => IInv'
  BY Inductive
<1> QED BY <1>1, <1>2, PTL DEF Spec

(* The capture implements the snapshot: whatever files, lists and executables
   change at whatever time, an accepted report is that of one instant. *)
THEOREM CaptureImplementsSnapshot == Spec => CapturesAreSnapshots
<1>1. Init => Snapshot!Init
  BY DEF Init, ExportInit, Snapshot!Init, Snapshot!NotTaken, NotTaken, Items, corpus
<1>2. IInv /\ [Next]_vars => [Snapshot!Next]_Snapshot!vars
  BY StepImplements
<1> QED BY <1>1, <1>2, WindowsHold, PTL DEF Spec, Snapshot!Spec, CapturesAreSnapshots

-----------------------------------------------------------------------------
(* Complete exports: what a section and an index are made of *)

(* An index of definitions that files of the set of identities make *)
IsIndexOf(index, A) ==
    /\ DOMAIN index = {"exports", "dynamic", "limit", "marks", "assumed"}
    /\ IsSeq(index.exports)
    /\ \A i \in 1..Len(index.exports) : index.exports[i].artifact \in A

LEMMA EmptyIndexIs == ASSUME NEW A PROVE IsIndexOf(EmptyIndex, A)
<1>1. EmptyIndex.exports = <<>> /\ IsSeq(<<>>) /\ Len(<<>>) = 0
  BY EmptySeq DEF EmptyIndex, IsSeq
<1>2. DOMAIN EmptyIndex = {"exports", "dynamic", "limit", "marks", "assumed"}
  BY DEF EmptyIndex
<1> QED BY <1>1, <1>2 DEF IsIndexOf

LEMMA DeclaredIs ==
    ASSUME NEW index, NEW identity, NEW declares, NEW max
    PROVE  /\ declares.is = "literal" =>
                 IndexDeclared(index, identity, declares, max)
                    = Insert(index, Definition(identity, declares.label, declares.proto), max)
           /\ declares.is = "dynamic" =>
                 IndexDeclared(index, identity, declares, max) = MarkDynamic(index, identity)
           /\ declares.is = "limited" =>
                 IndexDeclared(index, identity, declares, max) = MarkLimit(index)
           /\ declares.is = "none" => IndexDeclared(index, identity, declares, max) = index
<1>1. "literal" # "dynamic" /\ "literal" # "limited" /\ "literal" # "none"
      /\ "dynamic" # "limited" /\ "dynamic" # "none" /\ "limited" # "none"
  OBVIOUS
<1> QED BY <1>1 DEF IndexDeclared

(* A file adds a definition of its own, or none. *)
LEMMA IndexFileIs ==
    ASSUME NEW name \in DOMAIN Corpora, NEW p \in DOMAIN Corpora[name].contents,
           NEW v \in 1..MaxVersion, NEW A, IdentityAt(Corpora[name], p, v) \in A,
           NEW index, IsIndexOf(index, A)
    PROVE  IsIndexOf(IndexFile(Corpora[name], index, p, v), A)
<1> DEFINE c == Corpora[name]
           content == c.contents[p][v]
           max == c.args.maxExports
           d == Definition(IdentityAt(c, p, v), content.declares.label, content.declares.proto)
<1>1. IsContent(content)
  BY CorporaAssumption
<1>2. \A x : IsIndexOf(MarkDynamic(index, x), A)
  BY DEF IsIndexOf, MarkDynamic
<1>3. IsIndexOf(MarkLimit(index), A)
  BY DEF IsIndexOf, MarkLimit
<1>4. IsIndexOf([index EXCEPT !.exports = Append(index.exports, d)], A)
  <2>1. d.artifact \in A
    BY DEF Definition
  <2> HIDE DEF d
  <2>2. Len(index.exports) \in Nat
    BY LenProperties DEF IsIndexOf, IsSeq
  <2>3. /\ IsSeq(Append(index.exports, d))
        /\ Len(Append(index.exports, d)) = Len(index.exports) + 1
        /\ \A i \in 1..Len(index.exports) : Append(index.exports, d)[i] = index.exports[i]
        /\ Append(index.exports, d)[Len(index.exports) + 1] = d
    BY AppendIsSeq DEF IsIndexOf
  <2>4. \A i \in 1..(Len(index.exports) + 1) : Append(index.exports, d)[i].artifact \in A
    <3> SUFFICES ASSUME NEW i \in 1..(Len(index.exports) + 1)
                 PROVE  Append(index.exports, d)[i].artifact \in A
      OBVIOUS
    <3>1. i \in 1..Len(index.exports) \/ i = Len(index.exports) + 1
      BY <2>2
    <3> QED BY <2>1, <2>3, <3>1 DEF IsIndexOf
  <2> QED BY <2>3, <2>4 DEF IsIndexOf
<1>5. CASE content.is # "chunk"
  BY <1>2, <1>5 DEF IndexFile
<1>6. CASE content.is = "chunk"
  <2>1. /\ IsDeclaration(content.declares)
        /\ IndexFile(c, index, p, v) = IndexDeclared(index, IdentityAt(c, p, v), content.declares, max)
    BY <1>1, <1>6 DEF IndexFile, IsContent
  <2>2. IsIndexOf(Insert(index, d, max), A)
    BY <1>3, <1>4 DEF Insert
  <2> HIDE DEF c, max
  <2>3. IsIndexOf(IndexDeclared(index, IdentityAt(c, p, v), content.declares, max), A)
    <3>1. CASE content.declares.is = "literal"
      BY <2>2, <3>1, DeclaredIs
    <3>2. CASE content.declares.is = "dynamic"
      BY <1>2, <3>2, DeclaredIs
    <3>3. CASE content.declares.is = "limited"
      BY <1>3, <3>3, DeclaredIs
    <3>4. CASE content.declares.is = "none"
      BY <3>4, DeclaredIs
    <3> QED BY <2>1, <3>1, <3>2, <3>3, <3>4 DEF IsDeclaration
  <2> QED BY <2>1, <2>3 DEF c
<1> QED BY <1>5, <1>6

(* The cap cuts the end of what there is. *)
LEMMA EmittedIs ==
    ASSUME NEW args, args.cap \in Nat \cup {NoCap}, NEW T, NEW s \in Seq(T)
    PROVE  /\ Emitted(args, s) \in Seq(T)
           /\ Len(Emitted(args, s)) <= Len(s)
           /\ \A i \in 1..Len(Emitted(args, s)) : Emitted(args, s)[i] = s[i]
           /\ Len(Emitted(args, s)) = Len(s) => Emitted(args, s) = s
           /\ args.cap # NoCap /\ Len(s) > args.cap => Len(Emitted(args, s)) = args.cap
           /\ args.cap = NoCap \/ Len(s) <= args.cap => Emitted(args, s) = s
<1>1. Len(s) \in Nat
  BY LenProperties
<1>2. CASE args.cap = NoCap \/ Len(s) <= args.cap
  BY <1>1, <1>2 DEF Emitted, NoCap
<1>3. CASE ~(args.cap = NoCap \/ Len(s) <= args.cap)
  <2> DEFINE n == args.cap
  <2>1. n \in Nat /\ n < Len(s) /\ Emitted(args, s) = SubSeq(s, 1, n)
    BY <1>1, <1>3 DEF Emitted
  <2> HIDE DEF n
  <2>2. 1 \in 1..(Len(s) + 1) /\ n \in 0..Len(s) /\ \A i \in 1..n : i \in 1..Len(s)
    BY <1>1, <2>1
  <2>3. /\ SubSeq(s, 1, n) \in Seq(T) /\ Len(SubSeq(s, 1, n)) = n
        /\ \A i \in 1..n : SubSeq(s, 1, n)[i] = s[i]
    <3>1. \A i \in 1..n : s[i] \in T
      BY <2>2, ElementOfSeq
    <3>2. SubSeq(s, 1, n) = [i \in 1..n |-> s[i]]
      BY <2>1, <2>2, SMT
    <3>3. SubSeq(s, 1, n) \in [1..n -> T]
      BY <3>1, <3>2
    <3> QED BY <2>1, <3>2, <3>3, FunctionIsSeq
  <2> QED BY <1>1, <1>3, <2>1, <2>3 DEF n
<1> QED BY <1>2, <1>3

LEMMA CandidatesAre ==
    ASSUME NEW index, IsSeq(index.exports), NEW label
    PROVE  /\ IsSeq(Candidates(index, label)) /\ Len(Candidates(index, label)) \in Nat
           /\ \A i \in 1..Len(Candidates(index, label)) : \E n \in 1..Len(index.exports) :
                 Candidates(index, label)[i] = index.exports[n]
<1> DEFINE T == ToSet(index.exports)
           at == {i \in DOMAIN index.exports : index.exports[i].label = label}
<1>1. index.exports \in Seq(T) /\ DOMAIN index.exports = 1..Len(index.exports)
  BY LenProperties DEF IsSeq
<1>2. at \in SUBSET (1..Len(index.exports))
  BY <1>1
<1>3. Candidates(index, label) = Subsequence(index.exports, at)
  BY DEF Candidates
<1> HIDE DEF at, T
<1>4. /\ Candidates(index, label) \in Seq(T)
      /\ \A i \in 1..Len(Candidates(index, label)) : \E n \in at :
            Candidates(index, label)[i] = index.exports[n]
  BY <1>1, <1>2, <1>3, SubsequenceIs
<1>5. IsSeq(Candidates(index, label)) /\ Len(Candidates(index, label)) \in Nat
  BY <1>4, ToSetOfSeq, LenProperties DEF IsSeq
<1> QED BY <1>2, <1>4, <1>5

(* A resolved link leads to a file of the index. *)
LEMMA LinkTarget ==
    ASSUME NEW A, NEW index, IsIndexOf(index, A), NEW n, NEW call,
           LinkOf(index, n, call).status = "resolved"
    PROVE  LinkOf(index, n, call).target.artifact \in A
<1> DEFINE found == Candidates(index, call.label)
<1>1. /\ LinkOf(index, n, call).status = Status(index, call)
      /\ Status(index, call) = "resolved"
         => LinkOf(index, n, call).target.artifact = Head(found).artifact
  BY DEF LinkOf, Link
<1>2. Status(index, call) = "resolved" => FirstStatus(index, call) = "resolved"
  BY DEF Status
<1>3. FirstStatus(index, call) = "resolved" => Len(found) = 1
  <2> HIDE DEF found
  <2> SUFFICES ASSUME Len(found) # 1 PROVE FirstStatus(index, call) # "resolved"
    OBVIOUS
  <2> QED BY DEF FirstStatus, found
<1>4. Len(found) = 1
  BY <1>1, <1>2, <1>3
<1>5. \E i \in 1..Len(index.exports) : found[1] = index.exports[i]
  BY <1>4, CandidatesAre DEF IsIndexOf
<1>6. Head(found) = found[1]
  <2>1. found \in Seq(ToSet(found))
    BY CandidatesAre DEF IsSeq, IsIndexOf
  <2> HIDE DEF found
  <2>2. found # <<>>
    BY <1>4, EmptySeq
  <2> QED BY <2>1, <2>2, HeadTailProperties
<1> QED BY <1>1, <1>5, <1>6 DEF IsIndexOf

LEMMA LinkedCallsAre ==
    ASSUME NEW index, NEW calls, Len(calls) \in Nat
    PROVE  /\ Len(LinkedCalls(index, calls)) \in 0..Len(calls)
           /\ \A i \in 1..Len(LinkedCalls(index, calls)) :
                 LinkedCalls(index, calls)[i] \in 1..Len(calls)
<1> DEFINE eligible == {n \in 1..Len(calls) : IsEligible(index, calls[n])}
<1>1. IsFiniteSet(1..Len(calls)) /\ Cardinality(1..Len(calls)) = Len(calls)
  <2> DEFINE n == Len(calls)
  <2> HIDE DEF n
  <2>1. n \in Nat
    BY DEF n
  <2>2. IsFiniteSet(1..n) /\ Cardinality(1..n) = IF 1 > n THEN 0 ELSE n - 1 + 1
    BY <2>1, FS_Interval
  <2> QED BY <2>1, <2>2 DEF n
<1>2. IsFiniteSet(eligible) /\ Cardinality(eligible) <= Len(calls) /\ eligible \in SUBSET Nat
  <2>1. eligible \subseteq 1..Len(calls) /\ 1..Len(calls) \subseteq Nat
    OBVIOUS
  <2> HIDE DEF eligible
  <2> QED BY <1>1, <2>1, FS_Subset
<1>3. LinkedCalls(index, calls) = InOrder(eligible)
  BY DEF LinkedCalls
<1>4. \A n \in eligible : n \in 1..Len(calls)
  OBVIOUS
<1> HIDE DEF eligible
<1>5. /\ Cardinality(eligible) \in Nat
      /\ Len(InOrder(eligible)) = Cardinality(eligible)
      /\ \A i \in 1..Cardinality(eligible) : InOrder(eligible)[i] \in eligible
  BY <1>2, InOrderIs
<1>6. Len(InOrder(eligible)) \in 0..Len(calls)
  BY <1>2, <1>5
<1>7. \A i \in 1..Len(InOrder(eligible)) : InOrder(eligible)[i] \in 1..Len(calls)
  BY <1>4, <1>5
<1> QED BY <1>3, <1>6, <1>7

(* The links of a chunk *)
LEMMA ResolvedLinks ==
    ASSUME NEW A, NEW index, IsIndexOf(index, A), NEW chunk, Len(chunk.calls) \in Nat,
           NEW max \in Nat
    PROVE  LET links == ResolveChunkLinks(index, chunk, max).facts
           IN  /\ IsSeq(links)
               /\ \A i \in 1..Len(links) :
                     links[i].status = "resolved" => links[i].target.artifact \in A
<1> DEFINE linked == LinkedCalls(index, chunk.calls)
           fact(n) == LinkOf(index, n, chunk.calls[n])
           marker(n) == Link(n, chunk.calls[n].label, "limit_exceeded", NoTarget)
           links == ResolveChunkLinks(index, chunk, max).facts
           IsGood(l) == l.status = "resolved" => l.target.artifact \in A
<1>1. Len(linked) \in Nat
  BY LinkedCallsAre
<1>2. \A n : IsGood(fact(n))
  BY LinkTarget
<1>3. \A n : IsGood(marker(n))
  BY DEF Link
<1>4. IsGood(Link(0, <<>>, "unsupported", NoTarget))
  BY DEF Link
<1>5. ASSUME NEW n \in Nat, NEW g, g = [i \in 1..n |-> g[i]], \A i \in 1..n : IsGood(g[i])
      PROVE  IsSeq(g) /\ Len(g) = n /\ \A i \in 1..Len(g) : IsGood(g[i])
  <2>1. DOMAIN g = 1..n
    BY <1>5
  <2>2. g \in [1..n -> ToSet(g)]
    BY <1>5, <2>1 DEF ToSet
  <2> HIDE DEF IsGood
  <2> QED BY <1>5, <2>2, FunctionIsSeq DEF IsSeq
<1>6. CASE chunk.dialect # "5.1"
  <2>1. links = <<Link(0, <<>>, "unsupported", NoTarget)>>
    BY <1>6 DEF ResolveChunkLinks
  <2> DEFINE g == Link(0, <<>>, "unsupported", NoTarget)
  <2> HIDE DEF g, IsGood
  <2>2. /\ <<g>> = [i \in 1..1 |-> <<g>>[i]]
        /\ \A i \in 1..1 : IsGood(<<g>>[i])
    BY <1>4 DEF g
  <2>3. IsSeq(<<g>>) /\ \A i \in 1..Len(<<g>>) : IsGood(<<g>>[i])
    BY <1>5, <2>2
  <2> QED BY <2>1, <2>3 DEF g, IsGood
<1>7. CASE chunk.dialect = "5.1" /\ Len(linked) <= max
  <2>1. links = [i \in 1..Len(linked) |-> fact(linked[i])]
    BY <1>7 DEF ResolveChunkLinks
  <2> HIDE DEF linked, links, fact, IsGood
  <2>2. IsSeq(links) /\ \A i \in 1..Len(links) : IsGood(links[i])
    BY <1>1, <1>2, <1>5, <2>1
  <2> QED BY <2>2 DEF links, IsGood
<1>8. CASE chunk.dialect = "5.1" /\ ~(Len(linked) <= max)
  <2>1. links = [i \in 1..(max + 1) |-> IF i <= max THEN fact(linked[i]) ELSE marker(linked[i])]
    BY <1>8 DEF ResolveChunkLinks
  <2> HIDE DEF linked, links, fact, marker, IsGood
  <2>2. IsSeq(links) /\ \A i \in 1..Len(links) : IsGood(links[i])
    BY <1>2, <1>3, <1>5, <2>1
  <2> QED BY <2>2 DEF links, IsGood
<1> QED BY <1>6, <1>7, <1>8

(* What is written of the facts f and the links l after them under one cap *)
IsCut(f, l, written, facts, links) ==
    /\ Len(f) \in Nat /\ Len(l) \in Nat /\ Len(written) \in Nat
    /\ Len(written) <= Len(f) + Len(l)
    /\ Len(written) = Len(facts) + Len(links)
    /\ DOMAIN links = 1..Len(links)
    /\ \A i \in 1..Len(links) : \E n \in 1..Len(l) : links[i] = l[n]
    /\ Len(written) = Len(f) + Len(l) => facts = f /\ links = l

LEMMA WrittenIs ==
    ASSUME NEW args, args.cap \in Nat \cup {NoCap}, NEW f, IsSeq(f), NEW l, IsSeq(l)
    PROVE  LET written == Emitted(args, f \o l)
           IN  IsCut(f, l, written, Emitted(args, f), SubSeq(written, Len(f) + 1, Len(written)))
<1> DEFINE written == Emitted(args, f \o l)
           facts == Emitted(args, f)
           links == SubSeq(written, Len(f) + 1, Len(written))
           T == ToSet(f) \cup ToSet(l)
           F == Len(f)
           L == Len(l)
           W == Len(written)
<1>1. f \in Seq(T) /\ l \in Seq(T)
  BY SeqMonotonic DEF IsSeq
<1>2. F \in Nat /\ L \in Nat
  BY <1>1, LenProperties
<1>3. /\ f \o l \in Seq(T) /\ Len(f \o l) = F + L
      /\ \A i \in 1..(F + L) : (f \o l)[i] = IF i <= F THEN f[i] ELSE l[i - F]
  BY <1>1, ConcatProperties
<1> HIDE DEF T
<1>4. /\ written \in Seq(T) /\ W <= F + L
      /\ \A i \in 1..W : written[i] = (f \o l)[i]
      /\ args.cap # NoCap /\ F + L > args.cap => W = args.cap
      /\ args.cap = NoCap \/ F + L <= args.cap => W = F + L
  <2> DEFINE s == f \o l
  <2>1. s \in Seq(T) /\ Len(s) = F + L
    BY <1>3
  <2> HIDE DEF s
  <2>2. /\ Emitted(args, s) \in Seq(T)
        /\ Len(Emitted(args, s)) <= Len(s)
        /\ \A i \in 1..Len(Emitted(args, s)) : Emitted(args, s)[i] = s[i]
        /\ args.cap # NoCap /\ Len(s) > args.cap => Len(Emitted(args, s)) = args.cap
        /\ args.cap = NoCap \/ Len(s) <= args.cap => Emitted(args, s) = s
    BY <2>1, EmittedIs
  <2> QED BY <2>1, <2>2 DEF s
<1>5. /\ facts \in Seq(T) /\ Len(facts) <= F
      /\ args.cap # NoCap /\ F > args.cap => Len(facts) = args.cap
      /\ args.cap = NoCap \/ F <= args.cap => facts = f
  BY <1>1, EmittedIs
<1> HIDE DEF written, facts, F, L
<1>6. W \in Nat /\ Len(facts) \in Nat
  BY <1>4, <1>5, LenProperties
<1>7. \A i \in (F + 1)..W : i \in 1..W /\ written[i] \in T
  BY <1>2, <1>4, <1>6, ElementOfSeq
<1>8. /\ links \in Seq(T)
      /\ Len(links) = IF F + 1 <= W THEN W - (F + 1) + 1 ELSE 0
      /\ \A i \in 1..(W - (F + 1) + 1) : links[i] = written[F + 1 + i - 1]
  BY <1>2, <1>6, <1>7, SubSeqProperties DEF F
<1> HIDE DEF W, links
<1>9. /\ Len(links) = IF F < W THEN W - F ELSE 0
      /\ DOMAIN links = 1..Len(links) /\ Len(links) \in Nat
  BY <1>2, <1>6, <1>8, LenProperties
<1>10. ASSUME NEW i \in 1..Len(links)
       PROVE  i \in 1..L /\ links[i] = l[i]
  <2>1. i \in Nat /\ 1 <= i /\ i <= W - F /\ F + 1 + i - 1 = F + i
    BY <1>2, <1>6, <1>9
  <2>2. i \in 1..(W - (F + 1) + 1) /\ F + i \in 1..W /\ F + i \in 1..(F + L) /\ i \in 1..L
        /\ ~(F + i <= F) /\ F + i - F = i
    BY <1>2, <1>4, <1>6, <2>1
  <2>3. links[i] = written[F + i]
    BY <1>8, <2>1, <2>2
  <2>4. written[F + i] = (f \o l)[F + i]
    BY <1>4, <2>2
  <2>5. (f \o l)[F + i] = l[i]
    <3> DEFINE j == F + i
    <3>1. j \in 1..(F + L) /\ ~(j <= F) /\ j - F = i
      BY <1>2, <2>1, <2>2
    <3> HIDE DEF j
    <3>2. (f \o l)[j] = l[i]
      BY <1>3, <3>1
    <3> QED BY <3>2 DEF j
  <2> QED BY <2>2, <2>3, <2>4, <2>5
<1>11. W = Len(facts) + Len(links)
  <2>1. CASE args.cap = NoCap \/ F + L <= args.cap
    <3>1. args.cap = NoCap \/ F <= args.cap
      BY <1>2, <2>1 DEF NoCap
    <3> QED BY <1>2, <1>4, <1>5, <1>9, <2>1, <3>1 DEF F
  <2>2. CASE args.cap # NoCap /\ F + L > args.cap
    <3>1. args.cap \in Nat /\ W = args.cap
      BY <1>4, <2>2
    <3>2. CASE F > args.cap
      BY <1>2, <1>5, <1>9, <2>2, <3>1, <3>2
    <3>3. CASE F <= args.cap
      <4>1. Len(facts) = F
        BY <1>5, <3>3 DEF F
      <4>2. F <= W
        BY <3>1, <3>3
      <4>3. CASE F < W
        BY <1>2, <1>6, <1>9, <4>1, <4>3
      <4>4. CASE F = W
        BY <1>2, <1>6, <1>9, <4>1, <4>4
      <4> QED BY <1>2, <1>6, <4>2, <4>3, <4>4
    <3> QED BY <1>2, <3>1, <3>2, <3>3
  <2> QED BY <1>2, <2>1, <2>2
<1>12. ASSUME W = F + L PROVE facts = f /\ links = l
  <2>1. facts = f
    <3>1. args.cap = NoCap \/ F <= args.cap
      BY <1>2, <1>4, <1>12 DEF NoCap
    <3> QED BY <1>5, <3>1
  <2>2. Len(links) = L
    BY <1>2, <1>9, <1>12
  <2>3. links = l
    BY <1>1, <1>8, <1>10, <2>2, SeqEqual DEF L
  <2> QED BY <2>1, <2>3
<1>13. IsCut(f, l, written, facts, links)
  BY <1>2, <1>4, <1>6, <1>9, <1>10, <1>11, <1>12 DEF F, L, W, IsCut
<1> QED BY <1>13 DEF links, facts, written

(* The counts of a section are those of what it holds, and its links lead to
   files of the index. *)
IsSound(section, A) ==
    /\ section.emitted = Len(section.facts) + Len(section.links)
    /\ section.available >= section.emitted
    /\ section.truncated = (section.available > section.emitted)
    /\ section.status = "skipped" => ~section.parsed
    /\ section.status = "succeeded" => section.parsed
    /\ section.status # "succeeded" => section.available = 0 /\ section.diagnostics # <<>>
    /\ \A i \in DOMAIN section.links :
          section.links[i].status = "resolved" => section.links[i].target.artifact \in A

LEMMA EmptySectionIsSound ==
    ASSUME NEW section, NEW A, section.facts = <<>>, section.links = <<>>,
           section.available = 0, section.emitted = 0, section.truncated = FALSE,
           section.status = "failed" \/ (section.status = "skipped" /\ ~section.parsed),
           section.diagnostics # <<>>
    PROVE  IsSound(section, A)
<1>1. Len(<<>>) = 0 /\ DOMAIN <<>> = {}
  OBVIOUS
<1>2. section.emitted = Len(section.facts) + Len(section.links)
  BY <1>1
<1>3. section.available >= section.emitted /\ ~(section.available > section.emitted)
  OBVIOUS
<1>4. section.truncated = (section.available > section.emitted)
  <2>1. (0 > 0) = FALSE
    OBVIOUS
  <2> QED BY <2>1
<1>5. section.status # "succeeded"
  OBVIOUS
<1>6. DOMAIN section.links = {}
  BY <1>1
<1> QED BY <1>2, <1>3, <1>4, <1>5, <1>6 DEF IsSound

LEMMA AvailableIs ==
    ASSUME NEW args, NEW chunk, chunk.facts \in Seq(STRING)
    PROVE  IsSeq(AvailableFacts(args, chunk))
<1> DEFINE isSelected(family) == family \in args.families /\ FamilyAvailable(chunk.dialect, family)
           at == {i \in DOMAIN chunk.facts : isSelected(FamilyOf(chunk.facts[i]))}
<1>1. AvailableFacts(args, chunk) = Subsequence(chunk.facts, at)
  BY DEF AvailableFacts
<1>2. at \in SUBSET (1..Len(chunk.facts))
  BY LenProperties
<1> HIDE DEF at
<1>3. AvailableFacts(args, chunk) \in Seq(STRING)
  BY <1>1, <1>2, SubsequenceIs
<1> QED BY <1>3, ToSetOfSeq DEF IsSeq

(* A section is of the file it names, and its counts are right. *)
LEMMA SectionIs ==
    ASSUME NEW name \in DOMAIN Corpora, NEW p \in DOMAIN Corpora[name].contents,
           NEW v \in 1..MaxVersion, NEW A, NEW index, IsIndexOf(index, A)
    PROVE  LET section == Section(Corpora[name], index, p, v)
           IN  /\ section.path = p
               /\ section.identity = IdentityAt(Corpora[name], p, v)
               /\ section.identity = NoIdentity => section.status = "failed" /\ ~section.parsed
               /\ IsSound(section, A)
<1> DEFINE c == Corpora[name]
           content == c.contents[p][v]
           section == Section(c, index, p, v)
           bare == BareSection(c, p, v)
<1>1. IsContent(content) /\ c.args.cap \in Nat \cup {NoCap} /\ c.args.maxLinks \in Nat
  BY CorporaAssumption
<1>2. \A d : Len(<<>>) = 0 /\ <<d>> # <<>>
  OBVIOUS
<1>3. content.is # "unreadable" => IdentityAt(c, p, v) # NoIdentity
  <2>1. v # 0
    OBVIOUS
  <2> QED BY <2>1 DEF IdentityAt, NoIdentity
<1>4. CASE content.is = "unreadable"
  <2>1. section = [bare EXCEPT !.diagnostics = <<"IO-001">>]
    BY <1>4 DEF Section, FailedRead
  <2> HIDE DEF section, c
  <2>2. /\ section.path = p /\ section.identity = IdentityAt(c, p, v)
        /\ section.facts = <<>> /\ section.links = <<>>
        /\ section.available = 0 /\ section.emitted = 0 /\ section.truncated = FALSE
        /\ section.status = "failed" /\ section.parsed = FALSE /\ section.diagnostics # <<>>
    BY <1>2, <2>1 DEF BareSection
  <2> QED BY <2>2, EmptySectionIsSound DEF section, c
<1>5. CASE content.is \in {"source", "unknown", "broken"}
  <2>1. section = [bare EXCEPT !.status = "skipped", !.diagnostics = <<ParseCode(content)>>]
    BY <1>5 DEF Section, Skipped
  <2> HIDE DEF section, c
  <2>2. /\ section.path = p /\ section.identity = IdentityAt(c, p, v)
        /\ section.facts = <<>> /\ section.links = <<>>
        /\ section.available = 0 /\ section.emitted = 0 /\ section.truncated = FALSE
        /\ section.status = "skipped" /\ section.parsed = FALSE /\ section.diagnostics # <<>>
    BY <1>2, <2>1 DEF BareSection
  <2> QED BY <1>3, <1>5, <2>2, EmptySectionIsSound DEF section, c
<1>6. CASE content.is = "chunk" /\ UnavailableFor(c.args, content.dialect) # {}
  <2>1. section = [bare EXCEPT !.parsed = TRUE,
                               !.diagnostics = Append(content.diagnostics, "ANA-PRECOND-001")]
    BY <1>6 DEF Section, Unavailable
  <2>2. Append(content.diagnostics, "ANA-PRECOND-001") # <<>>
    <3>1. content.diagnostics \in Seq(STRING)
      BY <1>1, <1>6 DEF IsContent
    <3> QED BY <3>1, AppendProperties, EmptySeq
  <2> HIDE DEF section, c
  <2>3. /\ section.path = p /\ section.identity = IdentityAt(c, p, v)
        /\ section.facts = <<>> /\ section.links = <<>>
        /\ section.available = 0 /\ section.emitted = 0 /\ section.truncated = FALSE
        /\ section.status = "failed" /\ section.parsed = TRUE /\ section.diagnostics # <<>>
    BY <2>1, <2>2 DEF BareSection
  <2> QED BY <1>3, <1>6, <2>3, EmptySectionIsSound DEF section, c
<1>7. CASE content.is = "chunk" /\ UnavailableFor(c.args, content.dialect) = {}
  <2> DEFINE f == AvailableFacts(c.args, content)
             links == LinksFor(c, index, content)
             l == links.facts
             written == Emitted(c.args, f \o l)
             kept == SubSeq(written, Len(f) + 1, Len(written))
  <2>1. section = SectionWith(c, p, v, f, links)
    BY <1>7 DEF Section, Succeeded
  <2>2. IsSeq(f)
    BY <1>1, <1>7, AvailableIs DEF IsContent
  <2>3. IsSeq(l) /\ \A i \in 1..Len(l) : l[i].status = "resolved" => l[i].target.artifact \in A
    <3>1. CASE ~c.args.linking
      <4>1. l = <<>>
        BY <3>1 DEF LinksFor, NoLinks
      <4> QED BY <1>2, <4>1, EmptySeq DEF IsSeq
    <3>2. CASE c.args.linking
      <4>1. l = ResolveChunkLinks(index, content, c.args.maxLinks).facts
        BY <3>2 DEF LinksFor
      <4>2. Len(content.calls) \in Nat
        BY <1>1, <1>7, LenProperties DEF IsContent
      <4> QED BY <1>1, <4>1, <4>2, ResolvedLinks
    <3> QED BY <3>1, <3>2
  <2>. c.args.cap \in Nat \cup {NoCap}
    BY <1>1
  <2> DEFINE facts == Emitted(c.args, f)
  <2> HIDE DEF f, l, c
  <2>4. IsCut(f, l, written, facts, kept)
    BY <2>2, <2>3, WrittenIs
  <2> HIDE DEF written, facts, kept
  <2>5. \A i \in DOMAIN kept : kept[i].status = "resolved" => kept[i].target.artifact \in A
    BY <2>3, <2>4 DEF IsCut
  <2>6. section = [bare EXCEPT
            !.parsed = TRUE, !.status = "succeeded", !.facts = facts,
            !.links = kept, !.diagnostics = FileDiagnostics(content, links),
            !.available = Len(f) + Len(l), !.emitted = Len(written),
            !.truncated = Len(written) < Len(f) + Len(l)]
    BY <2>1 DEF SectionWith, kept, written, facts, l
  <2> HIDE DEF links, section
  <2>7. /\ section.path = p /\ section.identity = IdentityAt(c, p, v)
        /\ section.parsed /\ section.status = "succeeded"
        /\ section.facts = facts /\ section.links = kept
        /\ section.available = Len(f) + Len(l) /\ section.emitted = Len(written)
        /\ section.truncated = (Len(written) < Len(f) + Len(l))
    BY <2>6 DEF BareSection
  <2>8. /\ Len(f) + Len(l) >= Len(written)
        /\ (Len(written) < Len(f) + Len(l)) = (Len(f) + Len(l) > Len(written))
    BY <2>4 DEF IsCut
  <2>9. IsSound(section, A)
    BY <2>4, <2>5, <2>7, <2>8 DEF IsSound, IsCut
  <2> QED BY <1>3, <1>7, <2>7, <2>9 DEF section, c
<1> QED BY <1>1, <1>4, <1>5, <1>6, <1>7 DEF IsContent

-----------------------------------------------------------------------------
(* Complete exports: until the bundle is sealed *)

IdleInv == stage # "running" => IsIdle

BundleInv ==
    /\ stage \in {"schema", "running", "repinning", "sealed"} => IsInventoriable
    /\ stage \in {"repinning", "sealed"} =>
          /\ bundle.kept = bundle.hashed
          /\ bundle.inputs = [p \in Inputs |-> Seen(p, before[p])]
          /\ bundle.kept.ended => bundle.kept.total = Len(bundle.kept.sections)
          /\ bundle.kept.ended /\ bundle.code # Killed => bundle.code \in 0..6
    /\ stage = "sealed" =>
          /\ bundle.complete
          /\ before[List] \in 1..MaxVersion /\ taken[List] = before[List]
          /\ \A p \in Inputs : /\ taken[p] \in 1..MaxVersion
                               /\ Seen(p, taken[p]) = Seen(p, before[p])

AInv == IdleInv /\ BundleInv

LEMMA InitAccepts == Init => AInv
BY DEF Init, ExportInit, AInv, IdleInv, IsIdle, BundleInv

LEMMA CodeIsExit == Code \in 0..6
BY DEF Code, ExitCode, UsageError, LimitExceeded, InvalidInput, Success

(* The whole stream has a section for every file it counts. *)
LEMMA CollectedBundle ==
    ASSUME IInv, AInv, Collect \/ CutOff
    PROVE  AInv'
<1>1. stage = "running" /\ stage' = "repinning" /\ ExportGone
  BY DEF Collect, CutOff, Collected
<1>2. /\ chosen' = chosen /\ before' = before /\ corpus' = corpus
      /\ IsInventoriable /\ Inputs' = Inputs
  BY <1>1, SameCorpus DEF Collect, CutOff, Collected, AInv, BundleInv, Inputs, Paths
<1>3. IsInventoriable'
  BY <1>2 DEF IsInventoriable, Paths
<1>4. IdleInv'
  BY <1>1 DEF IdleInv, IsIdle, ExportGone
<1>5. PICK stream, code :
         /\ bundle' = [complete |-> FALSE, inputs |-> [p \in Inputs |-> Seen(p, before[p])],
                        code |-> code, hashed |-> stream, kept |-> stream]
         /\ stream.ended => stream.total = Len(stream.sections)
         /\ stream.ended /\ code # Killed => code \in 0..6
  <2>1. IsSeq(sections) /\ (pass = "ended" => Len(sections) = Len(files))
    BY <1>1 DEF IInv, RunningInv, IsWritten
  <2>2. Len(sections) \in Nat /\ SubSeq(sections, 1, Len(sections)) = sections
    BY <2>1, LenProperties, SubSeqFull DEF IsSeq
  <2>3. CASE Collect
    <3>1. Received(Len(sections), files # <<>>).total = Len(Received(Len(sections), files # <<>>).sections)
      BY <2>1, <2>2, <2>3 DEF Collect, Received
    <3> QED BY <2>3, <3>1, CodeIsExit DEF Collect, Collected
  <2>4. CASE CutOff
    <3>1. \A k : ~Received(k, FALSE).ended
      BY DEF Received
    <3>2. pass = "ended" => Received(Len(sections), TRUE).total
                              = Len(Received(Len(sections), TRUE).sections)
      BY <2>1, <2>2 DEF Received
    <3> QED BY <2>4, <3>1, <3>2 DEF CutOff, Collected
  <2> QED BY <2>3, <2>4
<1>6. \A p : Seen(p, before[p])' = Seen(p, before[p])
  BY <1>2 DEF Seen, IdentityAt
<1>7. BundleInv'
  BY <1>1, <1>2, <1>3, <1>5, <1>6 DEF BundleInv
<1> QED BY <1>4, <1>7 DEF AInv

(* What is found unchanged was so when the first pinning ended. *)
LEMMA SealedBundle ==
    ASSUME IInv, AInv, Seal
    PROVE  AInv'
<1> DEFINE c == corpus
<1>1. stage = "repinning" /\ IsUnchanged /\ LastToPin = {}
  BY DEF Seal
<1>2. /\ taken \in [Items -> 1..MaxVersion] /\ before[List] # 0
      /\ \A i \in Items : before[i] <= taken[i] /\ taken[i] <= Until(i)
      /\ \A i \in Inputs : before[i] # 0
  BY <1>1 DEF IInv, WindowInv
<1>3. /\ List \in Items /\ List \notin DOMAIN c.contents
      /\ DOMAIN c.contents \subseteq Items
      /\ chosen \in DOMAIN Corpora /\ c = Corpora[chosen]
  BY CorpusFacts DEF IInv, TypeInv, corpus
<1>4. /\ before \in [Items -> 0..MaxVersion] /\ after \in [Items -> 0..MaxVersion]
      /\ MaxVersion \in Nat
  BY MaxVersionIs DEF IInv, TypeInv
<1>5. before[List] \in 1..MaxVersion
  BY <1>2, <1>3, <1>4
<1>6. Inputs \subseteq DOMAIN c.contents
  BY <1>5, CorpusFacts DEF IInv, Inputs, Paths
<1>7. after[List] # 0 /\ \A p \in Inputs : after[p] # 0
  <2>1. {p \in Inputs : after[p] = 0} = {}
    BY <1>1 DEF LastToPin
  <2>2. after[List] # 0
    BY <1>1, <2>1 DEF LastToPin
  <2> QED BY <2>1, <2>2
<1>8. taken[List] = before[List]
  <2>1. after[List] = before[List]
    BY <1>1, <1>3 DEF IsUnchanged, Seen
  <2>2. Until(List) = after[List] /\ taken[List] \in Int /\ before[List] \in Int
    BY <1>2, <1>3, <1>4, <1>7 DEF Until
  <2> QED BY <1>2, <1>3, <2>1, <2>2
<1>9. ASSUME NEW p \in Inputs
      PROVE  taken[p] \in 1..MaxVersion /\ Seen(p, taken[p]) = Seen(p, before[p])
  <2>1. /\ p \in DOMAIN c.contents /\ p \in Items
        /\ Seen(p, after[p]) = Seen(p, before[p])
    BY <1>1, <1>3, <1>6 DEF IsUnchanged
  <2>2. IdentityAt(c, p, before[p]) = IdentityAt(c, p, after[p])
    BY <2>1 DEF Seen
  <2>3. /\ before[p] \in 1..MaxVersion /\ after[p] \in 1..MaxVersion
        /\ taken[p] \in 1..MaxVersion
        /\ before[p] <= taken[p] /\ taken[p] <= after[p]
    BY <1>2, <1>4, <1>7, <2>1 DEF Until
  <2>4. taken[p] \in before[p]..after[p] /\ before[p] \in before[p]..after[p]
    BY <1>4, <2>3
  <2>5. Section(c, EmptyIndex, p, taken[p]) = Section(c, EmptyIndex, p, before[p])
    BY <1>3, <2>1, <2>2, <2>3, <2>4, UnchangedFile
  <2>6. \A v \in 1..MaxVersion : Section(c, EmptyIndex, p, v).identity = IdentityAt(c, p, v)
    <3> SUFFICES ASSUME NEW v \in 1..MaxVersion
                 PROVE  Section(c, EmptyIndex, p, v).identity = IdentityAt(c, p, v)
      OBVIOUS
    <3>1. IsIndexOf(EmptyIndex, {})
      BY EmptyIndexIs
    <3>2. Section(Corpora[chosen], EmptyIndex, p, v).identity = IdentityAt(Corpora[chosen], p, v)
      BY <1>3, <2>1, <3>1, SectionIs
    <3> QED BY <1>3, <3>2
  <2>7. IdentityAt(c, p, taken[p]) = IdentityAt(c, p, before[p])
    BY <2>3, <2>5, <2>6
  <2> QED BY <2>1, <2>3, <2>7 DEF Seen
<1>10. /\ chosen' = chosen /\ before' = before /\ taken' = taken /\ corpus' = corpus
       /\ Inputs' = Inputs /\ stage' = "sealed" /\ UNCHANGED exporter
  BY SameCorpus DEF Seal, Inputs, Paths
<1>11. /\ bundle'.complete /\ bundle'.kept = bundle.kept /\ bundle'.hashed = bundle.hashed
       /\ bundle'.inputs = bundle.inputs /\ bundle'.code = bundle.code
  BY DEF Seal, IInv, TypeInv
<1>12. \A p, v : Seen(p, v)' = Seen(p, v)'
  OBVIOUS
<1>13. \A p : /\ Seen(p, before[p])' = Seen(p, before[p])
              /\ Seen(p, taken[p])' = Seen(p, taken[p])
  BY <1>10 DEF Seen, IdentityAt
<1>14. IsInventoriable'
  BY <1>1, <1>10 DEF AInv, BundleInv, IsInventoriable, Paths
<1>15. BundleInv'
  BY <1>1, <1>5, <1>8, <1>9, <1>10, <1>11, <1>13, <1>14 DEF AInv, BundleInv
<1>16. IdleInv'
  BY <1>1, <1>10 DEF AInv, IdleInv, IsIdle, exporter
<1> QED BY <1>15, <1>16 DEF AInv

LEMMA AcceptInductive == IInv /\ AInv /\ [Next]_vars => AInv'
<1> SUFFICES ASSUME IInv, AInv, [Next]_vars PROVE AInv'
  OBVIOUS
<1>1. CASE Edit /\ stage \notin {"done", "killed"} /\ UNCHANGED captureVars
  <2>1. chosen' = chosen /\ corpus' = corpus
    BY <1>1, SameCorpus DEF Edit
  <2> QED BY <1>1, <2>1 DEF Edit, exporter, captureVars, AInv, IdleInv, IsIdle, BundleInv,
                           IsInventoriable, Inputs, Paths, Seen, IdentityAt
<1>2. CASE Pin
  BY <1>2 DEF Pin, exporter, AInv, IdleInv, IsIdle, BundleInv
<1>3. CASE EndPinning
  <2>1. corpus' = corpus
    BY <1>3, SameCorpus DEF EndPinning
  <2> QED BY <1>3, <2>1 DEF EndPinning, exporter, AInv, IdleInv, IsIdle, BundleInv,
                            IsInventoriable, Paths
<1>4. CASE Launch \/ Run
  <2>1. /\ stage \in {"schema", "running"} /\ stage' = "running"
        /\ chosen' = chosen /\ before' = before
    BY <1>4 DEF Launch, StartExport, Run, Export, IndexNext, ExportNext, captureVars
  <2>2. corpus' = corpus
    BY <2>1, SameCorpus
  <2> QED BY <2>1, <2>2 DEF AInv, IdleInv, BundleInv, IsInventoriable, Paths
<1>5. CASE Collect \/ CutOff
  BY <1>5, CollectedBundle
<1>6. CASE PinAgain
  <2>1. corpus' = corpus
    BY <1>6, SameCorpus DEF PinAgain
  <2> QED BY <1>6, <2>1 DEF PinAgain, exporter, AInv, IdleInv, IsIdle, BundleInv,
                            IsInventoriable, Inputs, Paths, Seen, IdentityAt
<1>7. CASE Seal
  BY <1>7, SealedBundle
<1>8. CASE Verify \/ Refuse \/ Kill
  BY <1>8 DEF Verify, Refuse, Kill, CaptureGone, ExportGone, AInv, IdleInv, IsIdle, BundleInv
<1>9. CASE Damage \/ VerifyAgain
  BY <1>9 DEF Damage, VerifyAgain, exporter, AInv, IdleInv, IsIdle, BundleInv
<1>10. CASE UNCHANGED vars
  <2>1. corpus' = corpus
    BY <1>10, SameCorpus DEF vars
  <2> QED BY <1>10, <2>1 DEF vars, exporter, captureVars, AInv, IdleInv, IsIdle, BundleInv,
                             IsInventoriable, Inputs, Paths, Seen, IdentityAt
<1> QED BY <1>1, <1>2, <1>3, <1>4, <1>5, <1>6, <1>7, <1>8, <1>9, <1>10 DEF Next

-----------------------------------------------------------------------------
(* Complete exports are accepted *)

(* The definitions of an index are of the files it was made of. *)
LEMMA HistoryIs ==
    ASSUME NEW name \in DOMAIN Corpora, NEW paths \in Seq(DOMAIN Corpora[name].contents),
           NEW versions, NEW A,
           \A p \in ToSet(paths) : /\ versions[p] \in 1..MaxVersion
                                  /\ IdentityAt(Corpora[name], p, versions[p]) \in A,
           NEW ix, IsIndexHistory(Corpora[name], ix, paths, versions)
    PROVE  IsIndexOf(Last(ix), A)
<1> DEFINE c == Corpora[name]
           order == IndexOrder(paths)
           S == {i \in Nat : i <= Len(order) => IsIndexOf(ix[i + 1], A)}
<1>1. CASE ~c.args.linking
  <2>1. ix = <<EmptyIndex>>
    BY <1>1 DEF IsIndexHistory
  <2>2. Last(ix) = EmptyIndex
    BY <2>1 DEF Last
  <2> QED BY <2>2, EmptyIndexIs
<1>2. CASE c.args.linking
  <2>1. DOMAIN c.contents \in SUBSET Nat /\ ToSet(paths) \subseteq DOMAIN c.contents
    BY CorporaAssumption, ToSetOfSeq
  <2>2. order \in Seq(ToSet(paths))
    BY <2>1, IndexOrderIsSeq
  <2>3. Len(order) \in Nat /\ DOMAIN order = 1..Len(order)
    BY <2>2, LenProperties
  <2>4. /\ Len(ix) = Len(order) + 1 /\ ix[1] = EmptyIndex
        /\ \A i \in 1..Len(order) : ix[i + 1] = IndexFile(c, ix[i], order[i], versions[order[i]])
    BY <1>2, <2>3 DEF IsIndexHistory
  <2> HIDE DEF order
  <2>5. 0 \in S
    BY <2>4, EmptyIndexIs
  <2>6. ASSUME NEW n \in Nat, n \in S PROVE n + 1 \in S
    <3> SUFFICES ASSUME n + 1 <= Len(order) PROVE IsIndexOf(ix[n + 1 + 1], A)
      OBVIOUS
    <3>1. n + 1 \in 1..Len(order) /\ n <= Len(order)
      BY <2>3
    <3>2. order[n + 1] \in ToSet(paths) /\ IsIndexOf(ix[n + 1], A)
      BY <2>2, <2>6, <3>1, ElementOfSeq
    <3>3. ix[n + 1 + 1] = IndexFile(c, ix[n + 1], order[n + 1], versions[order[n + 1]])
      BY <2>4, <3>1
    <3> QED BY <2>1, <3>2, <3>3, IndexFileIs
  <2>7. Nat \subseteq S
    <3> HIDE DEF S
    <3> QED BY <2>5, <2>6, Induction
  <2>8. IsIndexOf(ix[Len(order) + 1], A)
    BY <2>3, <2>7
  <2> QED BY <2>4, <2>8 DEF Last
<1> QED BY <1>1, <1>2

(* A list without repetitions is as long as the set of its paths. *)
LEMMA InjectiveIsCounted ==
    ASSUME NEW T, NEW s \in Seq(T), IsInjective(s)
    PROVE  Cardinality(ToSet(s)) = Len(s)
<1>1. Len(s) \in Nat /\ DOMAIN s = 1..Len(s) /\ s \in [1..Len(s) -> ToSet(s)]
  BY LenProperties, ToSetOfSeq
<1>2. s \in Bijection(1..Len(s), ToSet(s))
  BY <1>1 DEF Bijection, Injection, Surjection, IsInjective, ToSet
<1>3. IsFiniteSet(1..Len(s)) /\ Cardinality(1..Len(s)) = Len(s)
  BY <1>1, FS_Interval
<1>4. ExistsBijection(1..Len(s), ToSet(s))
  BY <1>2 DEF ExistsBijection
<1> QED BY <1>3, <1>4, FS_Bijection

LEMMA SealedIsAccepted ==
    ASSUME IInv, AInv, stage = "sealed", bundle.kept.ended, bundle.code # Killed
    PROVE  IsAccepted
<1> DEFINE c == corpus
           stream == bundle.kept
           sections_ == stream.sections
           index == Last(stream.indexes)
           A == Range(bundle.inputs)
<1>1. /\ bundle.complete /\ bundle.kept = bundle.hashed /\ bundle.code \in 0..6
      /\ bundle.inputs = [p \in Inputs |-> Seen(p, before[p])]
      /\ stream.total = Len(sections_)
      /\ IsInventoriable
      /\ before[List] \in 1..MaxVersion /\ taken[List] = before[List]
      /\ \A p \in Inputs : taken[p] \in 1..MaxVersion /\ Seen(p, taken[p]) = Seen(p, before[p])
  BY DEF AInv, BundleInv
<1>2. IsReport(c, taken, HashedReport)
  BY <1>1 DEF IInv, SealedInv, IsGenuine
<1>3. /\ chosen \in DOMAIN Corpora /\ c = Corpora[chosen]
      /\ Paths \in Seq(DOMAIN c.contents) /\ Inputs \subseteq DOMAIN c.contents
      /\ Paths = c.lists[taken[List]] /\ Inputs = ToSet(Paths)
  BY <1>1, CorpusFacts DEF IInv, TypeInv, corpus, Paths, Inputs
<1>4. /\ IsIndexHistory(c, stream.indexes, Paths, taken)
      /\ sections_ = [k \in 1..Len(Paths) |-> Section(c, index, Paths[k], taken[Paths[k]])]
  BY <1>1, <1>2, <1>3 DEF IsReport, HashedReport
<1>5. \A p \in Inputs : /\ bundle.inputs[p] = IdentityAt(c, p, taken[p])
                       /\ IdentityAt(c, p, taken[p]) \in A
  <2> SUFFICES ASSUME NEW p \in Inputs
               PROVE  /\ bundle.inputs[p] = IdentityAt(c, p, taken[p])
                      /\ bundle.inputs[p] \in A
    OBVIOUS
  <2>1. bundle.inputs[p] = Seen(p, taken[p]) /\ DOMAIN bundle.inputs = Inputs
    BY <1>1
  <2> QED BY <1>3, <2>1 DEF Seen, Range
<1>6. IsIndexOf(index, A)
  BY <1>1, <1>3, <1>4, <1>5, HistoryIs
<1> HIDE DEF c, stream, sections_, index, A
<1>7. Len(Paths) \in Nat /\ DOMAIN Paths = 1..Len(Paths)
  BY <1>3, LenProperties
<1>8. ASSUME NEW k \in 1..Len(Paths)
      PROVE  /\ sections_[k].path = Paths[k]
             /\ IsAccounted(sections_[k])
  <2> DEFINE p == Paths[k]
             section == Section(c, index, p, taken[p])
  <2>1. p \in Inputs
    BY <1>3, <1>7 DEF ToSet
  <2> HIDE DEF p
  <2>2. sections_[k] = section
    BY <1>4 DEF p
  <2>3. /\ section.path = p
        /\ section.identity = IdentityAt(c, p, taken[p])
        /\ section.identity = NoIdentity => section.status = "failed" /\ ~section.parsed
        /\ IsSound(section, A)
    BY <1>1, <1>3, <1>6, <2>1, SectionIs
  <2>4. bundle.inputs[p] = IdentityAt(c, p, taken[p]) /\ DOMAIN bundle.inputs = Inputs
    BY <1>1, <1>5, <2>1
  <2> HIDE DEF section
  <2>5. IsAccounted(section)
    BY <2>1, <2>3, <2>4 DEF IsAccounted, IsSound, A
  <2> QED BY <2>2, <2>3, <2>5 DEF p
<1>9. DOMAIN sections_ = 1..Len(Paths) /\ Len(sections_) = Len(Paths)
  <2> DEFINE section(k) == Section(c, index, Paths[k], taken[Paths[k]])
             T == {section(k) : k \in 1..Len(Paths)}
  <2>1. sections_ \in [1..Len(Paths) -> T]
    BY <1>4
  <2> QED BY <1>7, <2>1, FunctionIsSeq
<1>10. [k \in DOMAIN sections_ |-> sections_[k].path] = Paths
  <2>1. [k \in DOMAIN sections_ |-> sections_[k].path] = [k \in 1..Len(Paths) |-> Paths[k]]
    BY <1>8, <1>9
  <2>2. Paths = [k \in 1..Len(Paths) |-> Paths[k]]
    BY <1>3, <1>7, LenProperties
  <2> QED BY <2>1, <2>2
<1>11. stream.total = Cardinality(DOMAIN bundle.inputs)
  <2>1. DOMAIN bundle.inputs = ToSet(Paths) /\ IsInjective(Paths)
    BY <1>1, <1>3 DEF IsInventoriable
  <2> QED BY <1>1, <1>3, <1>9, <2>1, InjectiveIsCounted
<1>12. IsVerified(stream)
  <2>1. IsInjective(Paths) /\ ToSet(Paths) = DOMAIN bundle.inputs /\ stream.ended
    BY <1>1, <1>3 DEF IsInventoriable, stream
  <2> QED BY <1>8, <1>9, <1>10, <1>11, <2>1 DEF IsVerified, sections_
<1> QED BY <1>1, <1>12 DEF IsAccepted, stream

(* An export that ran to its end over a corpus that is found unchanged is
   accepted: the accounting of handle_export and that of luad_export.py agree
   on every corpus. *)
THEOREM CompleteExportsTheorem == Spec => []CompleteExportsAreAccepted
<1>1. Init => AInv
  BY InitAccepts
<1>2. IInv /\ AInv /\ [Next]_vars => AInv'
  BY AcceptInductive
<1>3. IInv /\ AInv => CompleteExportsAreAccepted
  BY SealedIsAccepted DEF CompleteExportsAreAccepted
<1> QED BY <1>1, <1>2, <1>3, WindowsHold, PTL DEF Spec
-----------------------------------------------------------------------------
(* Limits: the index of a corpus that does not change *)

Declares(p, is) ==
    corpus.contents[p][1].is = "chunk" /\ corpus.contents[p][1].declares.is = is

Modules(P) == InOrder({p \in P : Declares(p, "literal")})

DefinitionOf(p) ==
    Definition(IdentityAt(corpus, p, 1), corpus.contents[p][1].declares.label,
               corpus.contents[p][1].declares.proto)

DefinitionsOf(s) == [i \in DOMAIN s |-> DefinitionOf(s[i])]

LEMMA DeclaredFields ==
    ASSUME NEW P
    PROVE  DeclaredIn(P) =
              [exports |-> DefinitionsOf(Modules(P)),
               dynamic |-> {p \in P : corpus.contents[p][1].is # "chunk"
                                      \/ Declares(p, "dynamic")},
               limit |-> \E p \in P : Declares(p, "limited"),
               marks |-> {}, assumed |-> {}]
<1> DEFINE exports == DefinitionsOf(Modules(P))
           dynamic == {p \in P : corpus.contents[p][1].is # "chunk" \/ Declares(p, "dynamic")}
           limit == \E p \in P : Declares(p, "limited")
<1>1. DeclaredIn(P) = [EmptyIndex EXCEPT !.exports = exports, !.dynamic = dynamic,
                                         !.limit = limit]
  BY Zenon DEF DeclaredIn, Modules, DefinitionsOf, DefinitionOf, Declares
<1> HIDE DEF exports, dynamic, limit
<1>2. DeclaredIn(P) = [exports |-> exports, dynamic |-> dynamic, limit |-> limit,
                       marks |-> {}, assumed |-> {}]
  BY <1>1 DEF EmptyIndex
<1> QED BY <1>2 DEF exports, dynamic, limit

LEMMA NothingDeclared == DeclaredIn({}) = EmptyIndex
<1>1. {p \in {} : Declares(p, "literal")} = {}
  OBVIOUS
<1>2. {} \in SUBSET Nat /\ IsFiniteSet({}) /\ Cardinality({}) = 0
  BY FS_EmptySet
<1>3. Modules({}) \in Seq({}) /\ Len(Modules({})) = 0
  BY <1>1, <1>2, InOrderIs DEF Modules
<1>4. Modules({}) = <<>>
  BY <1>3, EmptySeq
<1>5. DefinitionsOf(<<>>) = <<>>
  <2>1. DOMAIN <<>> = {}
    OBVIOUS
  <2>2. DefinitionsOf(<<>>) = [i \in {} |-> DefinitionOf(<<>>[i])]
    BY <2>1 DEF DefinitionsOf
  <2>3. DefinitionsOf(<<>>) \in [1..0 -> {}]
    <3>1. 1..0 = {}
      OBVIOUS
    <3>2. DefinitionsOf(<<>>) \in [{} -> {}]
      BY <2>2
    <3> QED BY <3>1, <3>2
  <2>4. DefinitionsOf(<<>>) \in Seq({}) /\ Len(DefinitionsOf(<<>>)) = 0
    BY <2>3, FunctionIsSeq
  <2> QED BY <2>4, EmptySeq
<1>6. DeclaredIn({}) = [exports |-> <<>>, dynamic |-> {}, limit |-> FALSE,
                        marks |-> {}, assumed |-> {}]
  <2>1. (\E p \in {} : Declares(p, "limited")) = FALSE
    OBVIOUS
  <2> QED BY <1>4, <1>5, <2>1, DeclaredFields
<1> QED BY <1>6 DEF EmptyIndex

LEMMA DefinitionsGrow ==
    ASSUME NEW S, NEW s \in Seq(S), NEW p
    PROVE  DefinitionsOf(Append(s, p)) = Append(DefinitionsOf(s), DefinitionOf(p))
<1> DEFINE n == Len(s)
           D == {DefinitionOf(q) : q \in S \cup {p}}
           a == Append(s, p)
<1>1. n \in Nat /\ DOMAIN s = 1..n /\ \A i \in 1..n : s[i] \in S
  BY LenProperties, ElementOfSeq
<1>2. s \in Seq(S \cup {p})
  BY SeqMonotonic
<1>3. /\ a \in Seq(S \cup {p}) /\ Len(a) = n + 1
      /\ \A i \in 1..n : a[i] = s[i]
      /\ a[n + 1] = p
  BY <1>2, AppendProperties
<1>4. DOMAIN a = 1..(n + 1) /\ \A i \in 1..(n + 1) : a[i] \in S \cup {p}
  BY <1>1, <1>3, LenProperties, ElementOfSeq
<1> HIDE DEF n, a
<1>5. /\ DefinitionsOf(s) \in [1..n -> D]
      /\ DefinitionsOf(a) \in [1..(n + 1) -> D]
  BY <1>1, <1>4 DEF DefinitionsOf
<1>6. \A q \in S \cup {p} : DefinitionOf(q) \in D
  OBVIOUS
<1> HIDE DEF D
<1>7. /\ DefinitionsOf(s) \in Seq(D) /\ Len(DefinitionsOf(s)) = n
      /\ DefinitionsOf(a) \in Seq(D) /\ Len(DefinitionsOf(a)) = n + 1
  <2>1. n + 1 \in Nat
    BY <1>1
  <2> QED BY <1>1, <1>5, <2>1, FunctionIsSeq
<1>8. /\ Append(DefinitionsOf(s), DefinitionOf(p)) \in Seq(D)
      /\ Len(Append(DefinitionsOf(s), DefinitionOf(p))) = n + 1
      /\ \A i \in 1..n : Append(DefinitionsOf(s), DefinitionOf(p))[i] = DefinitionsOf(s)[i]
      /\ Append(DefinitionsOf(s), DefinitionOf(p))[n + 1] = DefinitionOf(p)
  BY <1>6, <1>7, AppendProperties
<1>9. ASSUME NEW i \in 1..(n + 1)
      PROVE  DefinitionsOf(a)[i] = Append(DefinitionsOf(s), DefinitionOf(p))[i]
  <2>1. DefinitionsOf(a)[i] = DefinitionOf(a[i])
    BY <1>4 DEF DefinitionsOf
  <2>2. CASE i \in 1..n
    BY <1>1, <1>3, <1>8, <2>1, <2>2 DEF DefinitionsOf
  <2>3. CASE i = n + 1
    BY <1>3, <1>8, <2>1, <2>3
  <2>4. i \in 1..n \/ i = n + 1
    BY <1>1
  <2> QED BY <2>2, <2>3, <2>4
<1>10. DefinitionsOf(a) = Append(DefinitionsOf(s), DefinitionOf(p))
  BY <1>7, <1>8, <1>9, SeqEqual
<1> QED BY <1>10 DEF a

(* The index of the files so far, unless a limit took something from it *)
IsDeclared(index, P) ==
    /\ DOMAIN index = {"exports", "dynamic", "limit", "marks", "assumed"}
    /\ index.limit \/ index = DeclaredIn(P)

(* A file that comes after all others adds what it declares, or a limit. *)
LEMMA DeclaredGrows ==
    ASSUME TypeInv, NEW P \in SUBSET DOMAIN corpus.contents, IsFiniteSet(P),
           NEW p \in DOMAIN corpus.contents, \A m \in P : m < p,
           NEW index, IsDeclared(index, P)
    PROVE  IsDeclared(IndexFile(corpus, index, p, 1), P \cup {p})
<1> DEFINE c == corpus
           content == c.contents[p][1]
           max == c.args.maxExports
           d == DefinitionOf(p)
           T == P \cup {p}
           new == IndexFile(c, index, p, 1)
           Literals(Q) == {q \in Q : Declares(q, "literal")}
           Dynamics(Q) == {q \in Q : c.contents[q][1].is # "chunk" \/ Declares(q, "dynamic")}
           Limits(Q) == \E q \in Q : Declares(q, "limited")
           Fields == {"exports", "dynamic", "limit", "marks", "assumed"}
<1>1. /\ IsContent(content) /\ DOMAIN c.contents \in SUBSET Nat
  BY CorporaAssumption DEF TypeInv, corpus
<1>2. content.is # "unreadable" => IdentityAt(c, p, 1).path = p
  BY DEF IdentityAt
<1>3. DOMAIN index = Fields
  BY DEF IsDeclared
<1>4. ASSUME index.limit
      PROVE  IsDeclared(new, T)
  <2> DEFINE stays(x) == DOMAIN x = Fields /\ x.limit
  <2>1. \A x : stays(MarkDynamic(index, x))
    BY <1>3, <1>4 DEF MarkDynamic
  <2>2. stays(MarkLimit(index))
    BY <1>3 DEF MarkLimit
  <2>3. \A x : stays(Insert(index, x, max))
    BY <1>3, <1>4, <2>2 DEF Insert
  <2>4. stays(index)
    BY <1>3, <1>4
  <2>5. CASE content.is # "chunk"
    BY <2>1, <2>5 DEF IndexFile, IsDeclared
  <2>6. CASE content.is = "chunk"
    <3>1. /\ IsDeclaration(content.declares)
          /\ new = IndexDeclared(index, IdentityAt(c, p, 1), content.declares, max)
      BY <1>1, <2>6 DEF IndexFile, IsContent
    <3> HIDE DEF c, max, stays, new
    <3>2. stays(new)
      BY <2>1, <2>2, <2>3, <2>4, <3>1, DeclaredIs DEF IsDeclaration
    <3> QED BY <3>2 DEF stays, IsDeclared
  <2> QED BY <2>5, <2>6
<1>5. ASSUME index = DeclaredIn(P)
      PROVE  IsDeclared(new, T)
  <2>1. index = [exports |-> DefinitionsOf(Modules(P)), dynamic |-> Dynamics(P),
                 limit |-> Limits(P), marks |-> {}, assumed |-> {}]
    BY <1>5, DeclaredFields
  <2>2. DeclaredIn(T) = [exports |-> DefinitionsOf(Modules(T)), dynamic |-> Dynamics(T),
                         limit |-> Limits(T), marks |-> {}, assumed |-> {}]
    BY DeclaredFields
  <2>3. DOMAIN DeclaredIn(T) = Fields
    BY <2>2
  <2>4. /\ ~Declares(p, "literal") => Literals(T) = Literals(P)
        /\ Declares(p, "literal") => Literals(T) = Literals(P) \cup {p}
    OBVIOUS
  <2>5. Dynamics(T) = IF content.is # "chunk" \/ Declares(p, "dynamic")
                      THEN Dynamics(P) \cup {p} ELSE Dynamics(P)
    OBVIOUS
  <2>6. ~Declares(p, "limited") => Limits(T) = Limits(P)
    OBVIOUS
  <2>7. ~Declares(p, "literal") => Modules(T) = Modules(P)
    BY <2>4 DEF Modules
  <2>8. Declares(p, "literal") =>
           DefinitionsOf(Modules(T)) = Append(DefinitionsOf(Modules(P)), d)
    <3> SUFFICES ASSUME Declares(p, "literal")
                 PROVE  DefinitionsOf(Modules(T)) = Append(DefinitionsOf(Modules(P)), d)
      OBVIOUS
    <3>1. /\ Literals(P) \in SUBSET Nat /\ IsFiniteSet(Literals(P)) /\ p \in Nat
          /\ \A m \in Literals(P) : m < p
      BY <1>1, FS_Subset
    <3>2. Modules(T) = Append(Modules(P), p)
      <4> DEFINE S == Literals(P)
      <4>1. Modules(T) = InOrder(S \cup {p}) /\ Modules(P) = InOrder(S)
        BY <2>4 DEF Modules
      <4> HIDE DEF S, T
      <4> QED BY <3>1, <4>1, InOrderGrows DEF S
    <3>3. Modules(P) \in Seq(Nat)
      <4>1. Modules(P) \in Seq(Literals(P))
        BY <3>1, InOrderIs DEF Modules
      <4> QED BY <3>1, <4>1, SeqMonotonic
    <3> QED BY <3>2, <3>3, DefinitionsGrow
  <2> HIDE DEF Dynamics, Limits, Literals, T, d
  <2>9. CASE content.is # "chunk"
    <3>1. new = [index EXCEPT !.dynamic = @ \cup {p}]
      BY <2>9 DEF IndexFile, MarkDynamic
    <3>2. \A is : ~Declares(p, is)
      BY <2>9 DEF Declares
    <3> HIDE DEF new
    <3>3. new = DeclaredIn(T)
      BY <2>1, <2>2, <2>5, <2>6, <2>7, <2>9, <3>1, <3>2
    <3> QED BY <2>3, <3>3 DEF IsDeclared
  <2>10. CASE content.is = "chunk"
    <3>1. /\ IsDeclaration(content.declares)
          /\ new = IndexDeclared(index, IdentityAt(c, p, 1), content.declares, max)
          /\ IdentityAt(c, p, 1).path = p
          /\ \A is : Declares(p, is) = (content.declares.is = is)
      BY <1>1, <1>2, <2>10 DEF IndexFile, IsContent, Declares
    <3>2. d = Definition(IdentityAt(c, p, 1), content.declares.label, content.declares.proto)
      BY DEF DefinitionOf, d
    <3> HIDE DEF c, max, new
    <3>3. CASE content.declares.is = "literal"
      <4>1. new = Insert(index, d, max)
        BY <3>1, <3>2, <3>3, DeclaredIs
      <4>2. ~Declares(p, "limited") /\ ~Declares(p, "dynamic") /\ Declares(p, "literal")
        BY <3>1, <3>3
      <4>3. CASE Fits(index, d.label, max)
        <5>1. new = [index EXCEPT !.exports = Append(@, d)]
          BY <4>1, <4>3 DEF Insert
        <5>2. /\ Dynamics(T) = Dynamics(P) /\ Limits(T) = Limits(P)
              /\ DefinitionsOf(Modules(T)) = Append(DefinitionsOf(Modules(P)), d)
          BY <2>5, <2>6, <2>8, <2>10, <4>2 DEF c
        <5>3. new = DeclaredIn(T)
          <6>1. index.exports = DefinitionsOf(Modules(P))
            BY <2>1
          <6>2. new = [index EXCEPT !.exports = DefinitionsOf(Modules(T))]
            BY <5>1, <5>2, <6>1
          <6>3. DeclaredIn(T) = [exports |-> DefinitionsOf(Modules(T)),
                                 dynamic |-> Dynamics(P), limit |-> Limits(P),
                                 marks |-> {}, assumed |-> {}]
            BY <2>2, <5>2, Zenon
          <6> QED BY <2>1, <6>2, <6>3
        <5> QED BY <2>3, <5>3 DEF IsDeclared
      <4>4. CASE ~Fits(index, d.label, max)
        <5>1. new = [index EXCEPT !.limit = TRUE]
          BY <4>1, <4>4 DEF Insert, MarkLimit
        <5> QED BY <1>3, <5>1 DEF IsDeclared
      <4> QED BY <4>3, <4>4
    <3>4. CASE content.declares.is = "dynamic"
      <4> DEFINE identity == IdentityAt(c, p, 1)
      <4> HIDE DEF identity
      <4>0. new = MarkDynamic(index, identity) /\ identity.path = p
        BY <3>1, <3>4, DeclaredIs DEF identity
      <4>1. new = [index EXCEPT !.dynamic = @ \cup {p}]
        BY <4>0 DEF MarkDynamic
      <4>2. ~Declares(p, "limited") /\ Declares(p, "dynamic") /\ ~Declares(p, "literal")
        BY <3>1, <3>4
      <4>3. new = DeclaredIn(T)
        <5>1. /\ Dynamics(T) = Dynamics(P) \cup {p} /\ Limits(T) = Limits(P)
              /\ Modules(T) = Modules(P)
          BY <2>5, <2>6, <2>7, <4>2
        <5> QED BY <2>1, <2>2, <4>1, <5>1
      <4> QED BY <2>3, <4>3 DEF IsDeclared
    <3>5. CASE content.declares.is = "limited"
      <4>0. new = MarkLimit(index)
        BY <3>1, <3>5, DeclaredIs
      <4>1. new = [index EXCEPT !.limit = TRUE]
        BY <4>0 DEF MarkLimit
      <4> QED BY <1>3, <4>1 DEF IsDeclared
    <3>6. CASE content.declares.is = "none"
      <4>1. new = index
        BY <3>1, <3>6, DeclaredIs
      <4>2. ~Declares(p, "limited") /\ ~Declares(p, "dynamic") /\ ~Declares(p, "literal")
        BY <3>1, <3>6
      <4>3. new = DeclaredIn(T)
        BY <2>1, <2>2, <2>5, <2>6, <2>7, <2>10, <4>1, <4>2
      <4> QED BY <2>3, <4>3 DEF IsDeclared
    <3> QED BY <3>1, <3>3, <3>4, <3>5, <3>6 DEF IsDeclaration
  <2> QED BY <2>9, <2>10 DEF c
<1> QED BY <1>4, <1>5 DEF IsDeclared

(* The index that was filled from files that do not change, path by path *)
LEMMA HistoryDeclares ==
    ASSUME TypeInv, NEW paths \in Seq(DOMAIN corpus.contents), corpus.args.linking,
           NEW versions, \A p \in ToSet(paths) : versions[p] = 1,
           NEW ix, IsIndexHistory(corpus, ix, paths, versions)
    PROVE  IsDeclared(Last(ix), ToSet(paths))
<1> DEFINE order == IndexOrder(paths)
           P == ToSet(paths)
           Before(n) == {order[i] : i \in 1..n}
           S == {n \in Nat : n <= Len(order) => IsDeclared(ix[n + 1], Before(n))}
<1>1. /\ DOMAIN corpus.contents \in SUBSET Nat
      /\ P \subseteq DOMAIN corpus.contents /\ IsFiniteSet(P)
  BY CorpusFacts, ToSetOfSeq
<1>2. P \in SUBSET Nat
  BY <1>1
<1>3. /\ Len(order) \in Nat /\ DOMAIN order = 1..Len(order)
      /\ \A i \in 1..Len(order) : order[i] \in P
      /\ \A i, j \in 1..Len(order) : i < j => order[i] < order[j]
      /\ ToSet(order) = P
  <2>1. order = InOrder(P)
    BY DEF IndexOrder
  <2> HIDE DEF P, order
  <2>2. order \in Seq(P) /\ Len(order) = Cardinality(P)
    BY <1>1, <1>2, <2>1, InOrderIs
  <2> QED BY <1>1, <1>2, <2>1, <2>2, InOrderSorts, LenProperties, ElementOfSeq
<1>4. /\ Len(ix) = Len(order) + 1 /\ ix[1] = EmptyIndex
      /\ \A i \in 1..Len(order) :
            ix[i + 1] = IndexFile(corpus, ix[i], order[i], versions[order[i]])
  BY <1>3 DEF IsIndexHistory
<1> HIDE DEF order, P
<1>5. 0 \in S
  <2>1. Before(0) = {}
    <3>1. 1..0 = {}
      OBVIOUS
    <3> QED BY <3>1
  <2>2. IsDeclared(EmptyIndex, {})
    BY NothingDeclared DEF IsDeclared, EmptyIndex
  <2>3. ix[0 + 1] = EmptyIndex
    BY <1>4
  <2>4. IsDeclared(ix[0 + 1], Before(0))
    BY <2>1, <2>2, <2>3
  <2> HIDE DEF Before
  <2> QED BY <2>4
<1>6. ASSUME NEW n \in Nat, n \in S PROVE n + 1 \in S
  <2> SUFFICES ASSUME n + 1 <= Len(order) PROVE IsDeclared(ix[n + 1 + 1], Before(n + 1))
    OBVIOUS
  <2>1. n + 1 \in 1..Len(order) /\ n <= Len(order) /\ \A i \in 1..n : i \in 1..Len(order) /\ i < n + 1
    BY <1>3
  <2>2. IsDeclared(ix[n + 1], Before(n))
    BY <1>6, <2>1
  <2> DEFINE p == order[n + 1]
             B == Before(n)
             index == ix[n + 1]
  <2>3. p \in DOMAIN corpus.contents
    BY <1>1, <1>3, <2>1
  <2>4. B \in SUBSET P /\ \A m \in B : m < p
    BY <1>3, <2>1
  <2>5. B \in SUBSET DOMAIN corpus.contents /\ IsFiniteSet(B)
    BY <1>1, <2>4, FS_Subset DEF P
  <2>6. Before(n + 1) = B \cup {p}
    <3>1. 1..(n + 1) = 1..n \cup {n + 1}
      OBVIOUS
    <3> QED BY <3>1
  <2>7. ix[n + 1 + 1] = IndexFile(corpus, index, p, 1)
    <3>1. versions[p] = 1
      BY <1>3, <2>1 DEF P
    <3>2. ix[(n + 1) + 1] = IndexFile(corpus, index, p, versions[p])
      BY <1>4, <2>1
    <3> QED BY <3>1, <3>2
  <2> HIDE DEF B, p, index
  <2>8. IsDeclared(IndexFile(corpus, index, p, 1), B \cup {p})
    BY <2>2, <2>3, <2>4, <2>5, DeclaredGrows DEF B, index
  <2> QED BY <2>6, <2>7, <2>8
<1>7. Nat \subseteq S
  <2> HIDE DEF S
  <2> QED BY <1>5, <1>6, Induction
<1>8. IsDeclared(ix[Len(order) + 1], Before(Len(order)))
  <2>1. Len(order) \in S
    <3> HIDE DEF S
    <3> QED BY <1>3, <1>7
  <2>2. Len(order) <= Len(order)
    BY <1>3
  <2> HIDE DEF Before
  <2> QED BY <2>1, <2>2
<1>9. Before(Len(order)) = P
  BY <1>3 DEF ToSet
<1> QED BY <1>4, <1>8, <1>9 DEF Last, P

-----------------------------------------------------------------------------
(* Limits: the section of one file *)

(* Without the limit on links there are those of every call. *)
LEMMA AllLinks ==
    ASSUME NEW index, NEW chunk, Len(chunk.calls) \in Nat, NEW max \in Nat,
           "ANA-LIMIT-002" \notin ResolveChunkLinks(index, chunk, max).diagnostics
    PROVE  ResolveChunkLinks(index, chunk, max).facts
              = ResolveChunkLinks(index, chunk, Len(chunk.calls)).facts
<1> DEFINE linked == LinkedCalls(index, chunk.calls)
           all == Len(chunk.calls)
           Facts == [i \in 1..Len(linked) |-> LinkOf(index, linked[i], chunk.calls[linked[i]])]
<1>1. Len(linked) \in Nat /\ Len(linked) <= all
  BY LinkedCallsAre
<1>2. CASE chunk.dialect # "5.1"
  BY <1>2 DEF ResolveChunkLinks
<1>3. CASE chunk.dialect = "5.1"
  <2>1. \A n : Len(linked) <= n => ResolveChunkLinks(index, chunk, n).facts = Facts
    BY <1>3 DEF ResolveChunkLinks
  <2>2. ~(Len(linked) <= max)
           => ResolveChunkLinks(index, chunk, max).diagnostics
                 = (IF index.limit THEN {"ANA-LIMIT-001"} ELSE {}) \cup {"ANA-LIMIT-002"}
    BY <1>3 DEF ResolveChunkLinks
  <2> HIDE DEF linked, Facts
  <2>3. Len(linked) <= max
    BY <2>2
  <2> QED BY <1>1, <2>1, <2>3
<1> QED BY <1>2, <1>3

(* What is in one of two sequences is in the two together. *)
LEMMA BothInConcat ==
    ASSUME NEW S, NEW s \in Seq(S), NEW t \in Seq(S)
    PROVE  s \o t \in Seq(S) /\ ToSet(s) \cup ToSet(t) \subseteq ToSet(s \o t)
<1>1. /\ s \o t \in Seq(S) /\ Len(s \o t) = Len(s) + Len(t)
      /\ \A i \in 1..(Len(s) + Len(t)) :
            (s \o t)[i] = IF i <= Len(s) THEN s[i] ELSE t[i - Len(s)]
  BY ConcatProperties
<1>2. /\ Len(s) \in Nat /\ Len(t) \in Nat
      /\ DOMAIN s = 1..Len(s) /\ DOMAIN t = 1..Len(t)
      /\ DOMAIN (s \o t) = 1..(Len(s) + Len(t))
  BY <1>1, LenProperties
<1>3. ASSUME NEW x \in ToSet(s) PROVE x \in ToSet(s \o t)
  <2>1. PICK i \in 1..Len(s) : s[i] = x
    BY <1>2 DEF ToSet
  <2>2. i \in 1..(Len(s) + Len(t)) /\ i <= Len(s)
    BY <1>2
  <2>3. (s \o t)[i] = x
    BY <1>1, <2>1, <2>2
  <2> QED BY <1>2, <2>2, <2>3 DEF ToSet
<1>4. ASSUME NEW x \in ToSet(t) PROVE x \in ToSet(s \o t)
  <2>1. PICK i \in 1..Len(t) : t[i] = x
    BY <1>2 DEF ToSet
  <2> DEFINE j == Len(s) + i
  <2>2. j \in 1..(Len(s) + Len(t)) /\ ~(j <= Len(s)) /\ j - Len(s) = i
    BY <1>2
  <2> HIDE DEF j
  <2>3. (s \o t)[j] = x
    BY <1>1, <2>1, <2>2
  <2> QED BY <1>2, <2>2, <2>3 DEF ToSet
<1> QED BY <1>1, <1>3, <1>4

(* A limit on the links of a chunk is among the diagnostics of its file. *)
LEMMA LinkLimitIsTold ==
    ASSUME NEW chunk, chunk.diagnostics \in Seq(STRING), NEW links,
           "ANA-LIMIT-002" \in links.diagnostics
    PROVE  "ANA-LIMIT-002" \in ToSet(FileDiagnostics(chunk, links))
<1> DEFINE code == "ANA-LIMIT-002"
           old == chunk.diagnostics
           new(other) == IF other \in links.diagnostics /\ ~Contains(old, other)
                         THEN <<other>> ELSE <<>>
           one == new("ANA-LIMIT-001")
           two == new(code)
           first == old \o one
           T == STRING \cup {"ANA-LIMIT-001", code}
<1>1. FileDiagnostics(chunk, links) = first \o two
  BY DEF FileDiagnostics
<1>2. old \in Seq(T) /\ one \in Seq(T) /\ two \in Seq(T)
  <2>1. ASSUME NEW other \in T PROVE new(other) \in Seq(T)
    <3>1. <<other>> \in Seq(T) /\ <<>> \in Seq(T)
      OBVIOUS
    <3> QED BY <3>1
  <2>2. "ANA-LIMIT-001" \in T /\ code \in T
    OBVIOUS
  <2>3. STRING \subseteq T
    OBVIOUS
  <2> HIDE DEF new, code, T
  <2> QED BY <2>1, <2>2, <2>3, SeqMonotonic
<1> HIDE DEF T
<1>3. Contains(old, code) => code \in ToSet(old)
  <2>1. DOMAIN old = 1..Len(old)
    BY LenProperties
  <2> QED BY <2>1 DEF Contains, ToSet
<1>4. ~Contains(old, code) => code \in ToSet(two)
  <2> SUFFICES ASSUME ~Contains(old, code) PROVE code \in ToSet(<<code>>)
    OBVIOUS
  <2> QED BY DEF ToSet
<1> HIDE DEF one, two
<1>5. first \in Seq(T) /\ ToSet(old) \subseteq ToSet(first)
  BY <1>2, BothInConcat
<1> HIDE DEF first
<1>6. ToSet(first) \cup ToSet(two) \subseteq ToSet(first \o two)
  BY <1>2, <1>5, BothInConcat
<1> QED BY <1>1, <1>3, <1>4, <1>5, <1>6

(* What is written of a chunk is all there is when nothing is cut. *)
IsUncut(section, c, told, f, l) ==
    /\ section.parsed
    /\ section.diagnostics = told
    /\ ~section.truncated \/ c.args.cap = NoCap => section.facts = f /\ section.links = l

LEMMA NothingIsCut ==
    ASSUME NEW c, c.args.cap \in Nat \cup {NoCap}, NEW p, NEW v, NEW f, IsSeq(f),
           NEW links, IsSeq(links.facts)
    PROVE  IsUncut(SectionWith(c, p, v, f, links), c,
                   FileDiagnostics(c.contents[p][v], links), f, links.facts)
<1> DEFINE section == SectionWith(c, p, v, f, links)
           l == links.facts
           written == Emitted(c.args, f \o l)
           facts == Emitted(c.args, f)
           kept == SubSeq(written, Len(f) + 1, Len(written))
           told == FileDiagnostics(c.contents[p][v], links)
           short == Len(written) < Len(f) + Len(l)
           bare == BareSection(c, p, v)
<1>1. section = [bare EXCEPT
            !.parsed = TRUE, !.status = "succeeded", !.facts = facts, !.links = kept,
            !.diagnostics = told, !.available = Len(f) + Len(l), !.emitted = Len(written),
            !.truncated = short]
  BY DEF SectionWith
<1>2. IsCut(f, l, written, facts, kept)
  BY WrittenIs
<1>3. c.args.cap = NoCap => Len(written) = Len(f) + Len(l)
  <2>1. c.args.cap = NoCap => written = f \o l
    BY DEF Emitted
  <2> DEFINE T == ToSet(f) \cup ToSet(l)
  <2>2. f \in Seq(T) /\ l \in Seq(T)
    BY SeqMonotonic DEF IsSeq
  <2> HIDE DEF T
  <2>3. Len(f \o l) = Len(f) + Len(l)
    BY <2>2, ConcatProperties
  <2> QED BY <2>1, <2>3
<1> HIDE DEF written, facts, kept, told, section, l
<1>4. /\ Len(written) \in Nat /\ Len(f) \in Nat /\ Len(l) \in Nat
      /\ Len(written) <= Len(f) + Len(l)
      /\ Len(written) = Len(f) + Len(l) => facts = f /\ kept = l
  BY <1>2 DEF IsCut
<1>5. ~short \/ c.args.cap = NoCap => facts = f /\ kept = l
  BY <1>3, <1>4
<1> HIDE DEF short
<1>6. /\ section.parsed /\ section.diagnostics = told /\ section.truncated = short
      /\ section.facts = facts /\ section.links = kept
  BY <1>1 DEF BareSection
<1>7. IsUncut(section, c, told, f, l)
  BY <1>5, <1>6 DEF IsUncut
<1> QED BY <1>7 DEF section, told, l

(* A file of which nothing is cut, and of which no limit is told, is written
   as it would be without a cap. *)
LEMMA NothingIsMissing ==
    ASSUME NEW name \in DOMAIN Corpora, NEW p \in DOMAIN Corpora[name].contents,
           NEW A, NEW index, IsIndexOf(index, A),
           NEW other, Corpora[name].args.linking => other = index,
           NEW calls, Corpora[name].contents[p][1].is = "chunk"
                         => calls = Len(Corpora[name].contents[p][1].calls),
           ~Section(Corpora[name], index, p, 1).truncated,
           Section(Corpora[name], index, p, 1).parsed =>
              "ANA-LIMIT-002" \notin ToSet(Section(Corpora[name], index, p, 1).diagnostics)
    PROVE  LET uncapped == [Corpora[name] EXCEPT
                               !.args = [@ EXCEPT !.cap = NoCap, !.maxLinks = calls]]
           IN  IsWhole(Section(Corpora[name], index, p, 1), Section(uncapped, other, p, 1))
<1> DEFINE c == Corpora[name]
           uncapped == [c EXCEPT !.args = [@ EXCEPT !.cap = NoCap, !.maxLinks = calls]]
           content == c.contents[p][1]
           section == Section(c, index, p, 1)
           whole == Section(uncapped, other, p, 1)
<1>1. /\ DOMAIN c = {"contents", "lists", "editable", "args"}
      /\ DOMAIN c.args = {"families", "explicit", "strict", "linking", "cap",
                          "maxExports", "maxLinks"}
      /\ c.args.cap \in Nat \cup {NoCap} /\ c.args.maxLinks \in Nat
      /\ IsContent(content)
  BY CorporaAssumption
<1>2. /\ uncapped.contents = c.contents
      /\ uncapped.args.families = c.args.families
      /\ uncapped.args.explicit = c.args.explicit
      /\ uncapped.args.linking = c.args.linking
      /\ uncapped.args.cap = NoCap
      /\ uncapped.args.maxLinks = calls
  <2> DEFINE args == [c.args EXCEPT !.cap = NoCap, !.maxLinks = calls]
  <2>1. uncapped = [c EXCEPT !.args = args]
    OBVIOUS
  <2>2. /\ args.families = c.args.families /\ args.explicit = c.args.explicit
        /\ args.linking = c.args.linking /\ args.cap = NoCap /\ args.maxLinks = calls
    BY <1>1
  <2> HIDE DEF args, uncapped
  <2>3. uncapped.contents = c.contents /\ uncapped.args = args
    BY <1>1, <2>1
  <2> QED BY <2>2, <2>3
<1> SUFFICES IsWhole(section, whole)
  OBVIOUS
<1> HIDE DEF uncapped
<1>3. BareSection(uncapped, p, 1) = BareSection(c, p, 1)
  BY <1>2 DEF BareSection, IdentityAt
<1>4. CASE content.is # "chunk"
  <2>1. content.is \in {"unreadable", "source", "unknown", "broken"}
    BY <1>1, <1>4 DEF IsContent
  <2>2. CASE content.is = "unreadable"
    <3>1. section = FailedRead(c, p, 1) /\ whole = FailedRead(uncapped, p, 1)
      BY <1>2, <2>2 DEF Section
    <3> QED BY <1>3, <3>1 DEF FailedRead, IsWhole
  <2>3. CASE content.is \in {"source", "unknown", "broken"}
    <3>1. section = Skipped(c, p, 1) /\ whole = Skipped(uncapped, p, 1)
      BY <1>2, <2>3 DEF Section
    <3> QED BY <1>2, <1>3, <3>1 DEF Skipped, IsWhole
  <2> QED BY <2>1, <2>2, <2>3
<1>5. CASE content.is = "chunk"
  <2>1. UnavailableFor(uncapped.args, content.dialect) = UnavailableFor(c.args, content.dialect)
    BY <1>2 DEF UnavailableFor
  <2>2. CASE UnavailableFor(c.args, content.dialect) # {}
    <3>1. section = Unavailable(c, p, 1) /\ whole = Unavailable(uncapped, p, 1)
      BY <1>2, <1>5, <2>1, <2>2 DEF Section
    <3> QED BY <1>2, <1>3, <3>1 DEF Unavailable, IsWhole
  <2>3. CASE UnavailableFor(c.args, content.dialect) = {}
    <3> DEFINE f == AvailableFacts(c.args, content)
               links == LinksFor(c, index, content)
               all == LinksFor(uncapped, other, content)
    <3>1. AvailableFacts(uncapped.args, content) = f
      BY <1>2 DEF AvailableFacts
    <3>2. section = SectionWith(c, p, 1, f, links) /\ whole = SectionWith(uncapped, p, 1, f, all)
      <4>1. section = Succeeded(c, index, p, 1) /\ whole = Succeeded(uncapped, other, p, 1)
        BY <1>2, <1>5, <2>1, <2>3 DEF Section
      <4> QED BY <1>2, <3>1, <4>1 DEF Succeeded
    <3>3. /\ IsSeq(f) /\ Len(content.calls) \in Nat /\ content.diagnostics \in Seq(STRING)
          /\ calls = Len(content.calls)
      BY <1>1, <1>5, AvailableIs, LenProperties DEF IsContent
    <3> HIDE DEF f
    <3>4. IsSeq(links.facts) /\ IsSeq(all.facts)
      <4>1. CASE ~c.args.linking
        <5>1. links.facts = <<>> /\ all.facts = <<>>
          BY <1>2, <4>1 DEF LinksFor, NoLinks
        <5>2. IsSeq(<<>>)
          BY EmptySeq DEF IsSeq
        <5> QED BY <5>1, <5>2
      <4>2. CASE c.args.linking
        <5>1. /\ links = ResolveChunkLinks(index, content, c.args.maxLinks)
              /\ all = ResolveChunkLinks(index, content, calls)
          BY <1>2, <4>2 DEF LinksFor
        <5> HIDE DEF links, all, c
        <5>2. \A max \in Nat : IsSeq(ResolveChunkLinks(index, content, max).facts)
          BY <3>3, ResolvedLinks
        <5> QED BY <1>1, <3>3, <5>1, <5>2
      <4> QED BY <4>1, <4>2
    <3>5. /\ section.parsed /\ section.diagnostics = FileDiagnostics(content, links)
          /\ section.facts = f /\ section.links = links.facts
          /\ whole.facts = f /\ whole.links = all.facts
      <4> HIDE DEF links, all, c
      <4>1. /\ section.parsed /\ section.diagnostics = FileDiagnostics(content, links)
            /\ section.facts = f /\ section.links = links.facts
        <5>1. ~section.truncated
          BY DEF c
        <5> DEFINE s == SectionWith(c, p, 1, f, links)
                   told == FileDiagnostics(content, links)
        <5>2. c.args.cap \in Nat \cup {NoCap} /\ IsSeq(f) /\ IsSeq(links.facts)
          BY <1>1, <3>3, <3>4
        <5>3. IsUncut(s, c, told, f, links.facts)
          BY <5>2, NothingIsCut
        <5> HIDE DEF section, s, told
        <5>4. section = s
          BY <3>2 DEF s
        <5> QED BY <5>1, <5>3, <5>4 DEF told, IsUncut
      <4>2. whole.facts = f /\ whole.links = all.facts
        <5>. uncapped.args.cap \in Nat \cup {NoCap}
          BY <1>2
        <5> DEFINE s == SectionWith(uncapped, p, 1, f, all)
                   told == FileDiagnostics(uncapped.contents[p][1], all)
        <5>1. IsUncut(s, uncapped, told, f, all.facts)
          BY <3>3, <3>4, NothingIsCut
        <5> HIDE DEF whole, s
        <5>2. whole = s
          BY <3>2 DEF s
        <5> QED BY <1>2, <5>1, <5>2 DEF IsUncut
      <4> QED BY <4>1, <4>2
    <3>6. all.facts = links.facts
      <4>1. CASE ~c.args.linking
        BY <1>2, <4>1 DEF LinksFor
      <4>2. CASE c.args.linking
        <5>1. /\ links = ResolveChunkLinks(index, content, c.args.maxLinks)
              /\ all = ResolveChunkLinks(index, content, Len(content.calls))
          BY <1>2, <3>3, <4>2 DEF LinksFor
        <5>2. "ANA-LIMIT-002" \notin ToSet(FileDiagnostics(content, links))
          <6>1. section.parsed => "ANA-LIMIT-002" \notin ToSet(section.diagnostics)
            OBVIOUS
          <6> HIDE DEF section, links
          <6> QED BY <3>5, <6>1
        <5> HIDE DEF links, all, c
        <5>3. "ANA-LIMIT-002" \notin links.diagnostics
          BY <3>3, <5>2, LinkLimitIsTold
        <5> QED BY <1>1, <3>3, <5>1, <5>3, AllLinks
      <4> QED BY <4>1, <4>2
    <3> HIDE DEF section, whole, links, all
    <3> QED BY <3>5, <3>6 DEF IsWhole
  <2> QED BY <2>2, <2>3
<1> QED BY <1>4, <1>5

-----------------------------------------------------------------------------
(* Limits are visible *)

(* Of files that do not change, the first version was read everywhere. *)
LEMMA FirstVersions ==
    ASSUME IInv, stage = "running", \A i \in DOMAIN ver : ver[i] = 1
    PROVE  \A i \in Items : ver[i] = 1 /\ Windows[i] = {1}
<1> SUFFICES ASSUME NEW i \in Items PROVE ver[i] = 1 /\ Windows[i] = {1}
  OBVIOUS
<1>1. ver \in [Items -> 1..MaxVersion] /\ after = NotPinned /\ MaxVersion \in Nat
  BY MaxVersionIs DEF IInv, TypeInv, WindowInv
<1>2. ver[i] = 1
  BY <1>1
<1>3. taken[i] \in 1..MaxVersion /\ taken[i] <= Until(i)
  BY DEF IInv, WindowInv
<1>4. Until(i) = 1
  BY <1>1, <1>2 DEF Until, NotPinned
<1>5. taken[i] = 1
  BY <1>1, <1>3, <1>4
<1>6. Windows[i] = 1..1
  BY <1>4, <1>5 DEF Windows
<1> QED BY <1>2, <1>6

LEMMA LimitsHold ==
    ASSUME IInv, AInv, pass = "ended", files # <<>>, \A i \in DOMAIN ver : ver[i] = 1,
           NEW k \in DOMAIN sections, ~sections[k].truncated, Code # LimitExceeded
    PROVE  IsWhole(sections[k], WholeSection(files[k]))
<1> DEFINE index == Last(indexes)
           declared == DeclaredIn(ToSet(files))
           p == files[k]
           A == {IdentityAt(corpus, q, 1) : q \in ToSet(files)}
<1>1. stage = "running"
  BY DEF AInv, IdleInv, IsIdle
<1>2. /\ chosen \in DOMAIN Corpora /\ corpus = Corpora[chosen]
      /\ \A i \in Items : ver[i] = 1 /\ Windows[i] = {1}
      /\ 1 \in 1..MaxVersion /\ TypeInv
  <2>1. 1 \in 1..MaxVersion
    BY MaxVersionIs
  <2> QED BY <1>1, <2>1, FirstVersions DEF IInv, TypeInv, corpus
<1>3. /\ IsIndexed(corpus, Windows, indexes, files)
      /\ IsWritten(corpus, Windows, sections, index, files)
      /\ ~corpus.args.linking => indexes = <<EmptyIndex>>
      /\ corpus.args.linking => Len(indexes) = Len(IndexOrder(files)) + 1
      /\ Len(sections) = Len(files)
  BY <1>1 DEF IInv, RunningInv
<1>4. /\ files \in Seq(DOMAIN corpus.contents)
      /\ ToSet(files) \subseteq DOMAIN corpus.contents
      /\ DOMAIN corpus.contents \subseteq Items /\ DOMAIN corpus.contents \in SUBSET Nat
  <2>1. PICK v \in Windows[List] : files = corpus.lists[v]
    BY <1>1 DEF IInv, RunningInv
  <2>2. v = 1
    BY <1>2, <2>1, CorpusFacts
  <2> QED BY <1>2, <2>1, <2>2, CorpusFacts
<1>5. IsIndexHistory(corpus, indexes, files, ver)
  <2>1. CASE ~corpus.args.linking
    BY <1>3, <2>1 DEF IsIndexHistory
  <2>2. CASE corpus.args.linking
    <3> DEFINE order == IndexOrder(files)
    <3>1. order \in Seq(ToSet(files))
      BY <1>4, IndexOrderIsSeq
    <3>2. Len(order) \in Nat /\ DOMAIN order = 1..Len(order)
      BY <3>1, LenProperties
    <3>3. Len(indexes) = Len(order) + 1 /\ indexes[1] = EmptyIndex
      BY <1>3, <2>2 DEF IsIndexed
    <3>4. ASSUME NEW i \in 1..Len(order)
          PROVE  indexes[i + 1] = IndexFile(corpus, indexes[i], order[i], ver[order[i]])
      <4>1. order[i] \in Items
        BY <1>4, <3>1, ElementOfSeq
      <4>2. i \in 1..(Len(indexes) - 1)
        BY <3>2, <3>3
      <4>3. PICK v \in Windows[order[i]] :
               indexes[i + 1] = IndexFile(corpus, indexes[i], order[i], v)
        BY <1>3, <4>2 DEF IsIndexed
      <4> QED BY <1>2, <4>1, <4>3
    <3> QED BY <2>2, <3>2, <3>3, <3>4 DEF IsIndexHistory
  <2> QED BY <2>1, <2>2
<1>6. IsIndexOf(index, A)
  <2>1. \A q \in ToSet(files) : /\ ver[q] \in 1..MaxVersion
                               /\ IdentityAt(Corpora[chosen], q, ver[q]) \in A
    BY <1>2, <1>4
  <2> HIDE DEF A
  <2> QED BY <1>2, <1>4, <1>5, <2>1, HistoryIs
<1>7. k \in 1..Len(files) /\ p \in DOMAIN corpus.contents /\ p \in Items
  <2>1. DOMAIN sections = 1..Len(files)
    BY <1>3, LenProperties DEF IsWritten, IsSeq
  <2> QED BY <1>4, <2>1, ElementOfSeq
<1>8. sections[k] = Section(corpus, index, p, 1)
  <2>1. PICK v \in Windows[p] : sections[k] = Section(corpus, index, p, v)
    BY <1>3, <1>7 DEF IsWritten
  <2> QED BY <1>2, <1>7, <2>1
<1>9. /\ ~index.limit
      /\ sections[k].parsed => "ANA-LIMIT-002" \notin ToSet(sections[k].diagnostics)
  <2>1. ~AnyLimitExceeded(index, sections)
    BY DEF Code, ExitCode
  <2>2. "ANA-LIMIT-002" \in LimitCodes
    BY DEF LimitCodes
  <2> QED BY <2>1, <2>2 DEF AnyLimitExceeded
<1>10. corpus.args.linking => declared = index
  <2> SUFFICES ASSUME corpus.args.linking PROVE declared = index
    OBVIOUS
  <2>1. \A q \in ToSet(files) : ver[q] = 1
    BY <1>2, <1>4
  <2>2. IsDeclared(index, ToSet(files))
    BY <1>2, <1>4, <1>5, <2>1, HistoryDeclares
  <2> QED BY <1>9, <2>2 DEF IsDeclared
<1> DEFINE content == corpus.contents[p][1]
           calls == IF content.is = "chunk" THEN Len(content.calls) ELSE 0
           uncapped == [corpus EXCEPT !.args = [@ EXCEPT !.cap = NoCap, !.maxLinks = calls]]
<1>11. WholeSection(p) = Section(uncapped, declared, p, 1)
  BY DEF WholeSection
<1>12. IsWhole(Section(corpus, index, p, 1), Section(uncapped, declared, p, 1))
  <2> HIDE DEF index, declared, p, A
  <2>1. /\ content.is = "chunk" => calls = Len(content.calls)
        /\ ~Section(corpus, index, p, 1).truncated
        /\ Section(corpus, index, p, 1).parsed
              => "ANA-LIMIT-002" \notin ToSet(Section(corpus, index, p, 1).diagnostics)
    BY <1>8, <1>9
  <2> HIDE DEF calls
  <2> QED BY <1>2, <1>6, <1>7, <1>10, <2>1, NothingIsMissing
<1> HIDE DEF index, declared, p, uncapped
<1> QED BY <1>8, <1>11, <1>12 DEF p

(* What a cap takes from a file can be seen, whatever the corpus, the caps and
   the interleaving: export either writes all there is, or marks the file, or
   its exit code tells of the limit (handle_export). *)
THEOREM LimitsTheorem == Spec => []LimitsAreVisible
<1>1. IInv /\ AInv => LimitsAreVisible
  BY LimitsHold DEF LimitsAreVisible
<1> QED BY <1>1, WindowsHold, InitAccepts, AcceptInductive, PTL DEF Spec
=============================================================================
