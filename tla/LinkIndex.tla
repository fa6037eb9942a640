----------------------------- MODULE LinkIndex -----------------------------
(***************************************************************************)
(* Convention-gated linking across chunks (linking.rs): the index of the   *)
(* functions that modules export, filled within a budget, and the links of *)
(* the calls of one chunk against it.                                      *)
(*                                                                         *)
(* A label is a sequence of names, an identity a record [path, content].   *)
(* The calls of a chunk are the resolved ones, a sequence of records       *)
(* [label, lookup] in the order of the analysis, where lookup says that    *)
(* only the key of a lookup is known.                                      *)
(***************************************************************************)
EXTENDS Integers, FiniteSets, SequencesExt

CONSTANTS
    Selectors,             \* the names admitted_selector admits
    MaxModuleIndexLabels   \* stands for MAX_MODULE_INDEX_LABEL_BYTES

Strict == "luci-module-setglobal"
TrustedInit == "luci-module-trusted-init"

-----------------------------------------------------------------------------
(* Selections *)

(* A set of numbers in order; what a sequence holds at some of its positions *)
InOrder(S) ==
    [i \in 1..Cardinality(S) |-> CHOOSE n \in S : Cardinality({m \in S : m < n}) = i - 1]
Subsequence(s, at) == [i \in 1..Cardinality(at) |-> s[InOrder(at)[i]]]

-----------------------------------------------------------------------------
(* The index *)

EmptyIndex ==
    [exports |-> <<>>, dynamic |-> {}, limit |-> FALSE, marks |-> {}, assumed |-> {}]

Definition(identity, label, child) ==
    [artifact |-> identity, label |-> label, proto |-> child]

(* mark_index_limit: the limit, and its diagnostic ANA-LIMIT-001 with it *)
MarkLimit(index) == [index EXCEPT !.limit = TRUE]
MarkDynamic(index, identity) == [index EXCEPT !.dynamic = @ \cup {identity.path}]

(* A label costs its key and its copy. *)
LabelCost(label) == 2 * Len(label)

RetainedCost(index) ==
    FoldSeq(LAMBDA d, sum : sum + LabelCost(d.label), 0, index.exports)
      + FoldSet(LAMBDA l, sum : sum + LabelCost(l), 0, index.marks)

(* ExportBudget::charge *)
Fits(index, label, max) ==
    /\ Len(index.exports) + Cardinality(index.marks) < max
    /\ RetainedCost(index) + LabelCost(label) <= MaxModuleIndexLabels

(* ExportBudget::insert *)
Insert(index, definition, max) ==
    IF Fits(index, definition.label, max)
    THEN [index EXCEPT !.exports = Append(@, definition)]
    ELSE MarkLimit(index)

InsertMark(index, label, max) ==
    IF label \in index.marks THEN index
    ELSE IF Fits(index, label, max) THEN [index EXCEPT !.marks = @ \cup {label}]
    ELSE MarkLimit(index)

-----------------------------------------------------------------------------
(* Links *)

(* dynamic_label_evidence finds something: a mark covers the label. *)
IsMarked(index, label) == \E m \in index.marks : IsPrefix(m, label)

Candidates(index, label) ==
    Subsequence(index.exports, {i \in DOMAIN index.exports : index.exports[i].label = label})

(* Callee segments are escaped; an escaped one matches no raw name. *)
IsEscaped(label) == \E i \in DOMAIN label : label[i] \notin Selectors

IsUncertain(index) == index.dynamic # {} \/ index.limit

(* Mutant: an index that is not complete leaves the other calls out. *)
IsEligibleWhenListed(index, call) ==
    \/ Head(call.label) = "luci"
    \/ Candidates(index, call.label) # <<>>
    \/ IsEscaped(call.label)
    \/ IsMarked(index, call.label)

(* The calls that get a link: a symbolic path into the namespace of modules,
   or one that an incomplete index may be missing; a lookup whose key alone
   is a label. *)
IsEligible(index, call) ==
    IF call.lookup
    THEN IsMarked(index, call.label) \/ Candidates(index, call.label) # <<>>
    ELSE \/ Head(call.label) = "luci"
         \/ Candidates(index, call.label) # <<>>
         \/ IsEscaped(call.label)
         \/ IsMarked(index, call.label)
         \/ IsUncertain(index) /\ Len(call.label) > 1

NoTarget == [artifact |-> "none"]

Link(n, label, status, target) ==
    [call |-> n, label |-> label, status |-> status, target |-> target, assumed |-> FALSE]

(* The status before the index is looked at as a whole *)
FirstStatus(index, call) ==
    LET found == Candidates(index, call.label)
    IN  IF ~call.lookup /\ IsEscaped(call.label) THEN "dynamic"
        ELSE IF IsMarked(index, call.label) THEN "dynamic"
        ELSE IF Len(found) = 1 THEN "resolved"
        ELSE IF Len(found) > 1 THEN "duplicate"
        ELSE IF index.dynamic # {} THEN "dynamic"
        ELSE IF index.limit THEN "limit_exceeded" ELSE "absent"

(* Neither one definition nor none is final when the index may miss some. *)
Status(index, call) ==
    LET first == FirstStatus(index, call)
    IN  IF first \notin {"resolved", "absent"} THEN first
        ELSE IF index.dynamic # {} THEN "dynamic"
        ELSE IF index.limit THEN "limit_exceeded" ELSE first

LinkOf(index, n, call) ==
    LET status == Status(index, call)
        found == Candidates(index, call.label)
        target == IF status = "resolved" THEN [artifact |-> Head(found).artifact,
                                               proto |-> Head(found).proto]
                  ELSE NoTarget
    IN  [Link(n, call.label, status, target) EXCEPT
            !.assumed = index.assumed # {} /\ status \in {"resolved", "absent", "duplicate"}]

(* The numbers of the calls that get a link, in order *)
LinkedCalls(index, calls) ==
    InOrder({n \in 1..Len(calls) : IsEligible(index, calls[n])})

(* resolve_chunk_links_bounded: one call more than the limit is marked, and
   ends the links of the chunk. *)
ResolveChunkLinks(index, chunk, max) ==
    LET linked == LinkedCalls(index, chunk.calls)
        fact(n) == LinkOf(index, n, chunk.calls[n])
        marker(n) == Link(n, chunk.calls[n].label, "limit_exceeded", NoTarget)
        propagated == IF index.limit THEN {"ANA-LIMIT-001"} ELSE {}
    IN  IF chunk.dialect # "5.1"
        THEN [facts |-> <<Link(0, <<>>, "unsupported", NoTarget)>>, diagnostics |-> {}]
        ELSE IF Len(linked) <= max
        THEN [facts |-> [i \in 1..Len(linked) |-> fact(linked[i])],
              diagnostics |-> propagated]
        ELSE [facts |-> [i \in 1..(max + 1) |-> IF i <= max THEN fact(linked[i])
                                                ELSE marker(linked[i])],
              diagnostics |-> propagated \cup {"ANA-LIMIT-002"}]
=============================================================================
