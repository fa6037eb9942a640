--------------------------- MODULE CorpusSnapshot ---------------------------
(***************************************************************************)
(* What a verified capture promises: the files, the input list and the     *)
(* executable may change at any time, and yet a report that is accepted is *)
(* the one of a corpus that stood still, as it was at one instant of the   *)
(* capture. The capture may refuse at any time.                            *)
(***************************************************************************)
EXTENDS Naturals

CONSTANTS
    Corpora,          \* the corpora by name
    List, Binary,     \* the input list and the executable, beside the paths
    MaxVersion,       \* bounds the edits of one item
    IsReport(_, _, _) \* the report of a corpus with its items at given versions

VARIABLES
    chosen,    \* the name of the corpus, fixed
    ver,       \* [items -> 1..MaxVersion]: what is on disk now
    taken,     \* what was on disk at the instant of the snapshot
    verdict    \* the answer, [is |-> "none"] before there is one

vars == <<chosen, ver, taken, verdict>>

NotTaken == [i \in {} |-> 0]

Init ==
    /\ chosen \in DOMAIN Corpora
    /\ ver = [i \in DOMAIN Corpora[chosen].contents \cup {List, Binary} |-> 1]
    /\ taken = NotTaken
    /\ verdict = [is |-> "none"]

Edit ==
    /\ \E i \in DOMAIN ver : ver[i] < MaxVersion /\ ver' = [ver EXCEPT ![i] = @ + 1]
    /\ UNCHANGED <<chosen, taken, verdict>>

TakeSnapshot ==
    /\ taken = NotTaken
    /\ taken' = ver
    /\ UNCHANGED <<chosen, ver, verdict>>

Accept ==
    /\ taken # NotTaken
    /\ verdict'.is = "report"
    /\ IsReport(Corpora[chosen], taken, verdict')
    /\ UNCHANGED <<chosen, ver, taken>>

Refuse ==
    /\ verdict' = [is |-> "refused"]
    /\ UNCHANGED <<chosen, ver, taken>>

Next == Edit \/ TakeSnapshot \/ Accept \/ Refuse

Spec == Init /\ [][Next]_vars
=============================================================================
