-------------------------- MODULE VerifiedCapture --------------------------
(***************************************************************************)
(* The reader that captures an export and verifies it                      *)
(* (examples/export_reader/luad_export.py): it pins the executable, the    *)
(* list and the files, runs the export, pins them all again, writes the    *)
(* manifest when nothing changed, and accepts the stream when its          *)
(* accounting agrees with the pins. A later call verifies the bundle       *)
(* again.                                                                  *)
(*                                                                         *)
(* Everything on disk may change at any time, the export may be cut off    *)
(* with any exit code, the capture may be refused, run out of time or be   *)
(* killed between any two steps, and the bundle may lose its end.          *)
(***************************************************************************)
EXTENDS CorpusExport

VARIABLES
    stage,     \* "pinning", "schema", "running", "repinning", "sealed",
               \* "done" or "killed"
    before,    \* [Items -> versions], 0 for an item that is not pinned
    after,     \* the same, when the export has ended
    taken,     \* what was on disk when the first pinning ended
    bundle,    \* the manifest and the stream that is kept with it
    verdict    \* of the last verification

captureVars == <<stage, before, after, taken, bundle, verdict>>
vars == <<chosen, ver, exporter, captureVars>>

NotPinned == [i \in Items |-> 0]
NotTaken == [i \in {} |-> 0]

EmptyStream ==
    [tool |-> 0, total |-> 0, sections |-> <<>>, indexes |-> <<>>, ended |-> FALSE]

NoBundle ==
    [complete |-> FALSE, inputs |-> <<>>, code |-> 0,
     hashed |-> EmptyStream, kept |-> EmptyStream]

Refused == [is |-> "refused"]

Init ==
    /\ ExportInit
    /\ stage = "pinning"
    /\ before = NotPinned
    /\ after = NotPinned
    /\ taken = NotTaken
    /\ bundle = NoBundle
    /\ verdict = [is |-> "none"]

-----------------------------------------------------------------------------
(* What is pinned *)

Paths == corpus.lists[before[List]]
Inputs == ToSet(Paths)

(* The fields of an inventory entry: all unreadable files look the same. *)
Seen(i, v) == IF i \in DOMAIN corpus.contents THEN IdentityAt(corpus, i, v)
              ELSE [path |-> i, content |-> v]

IsInventoriable == Paths # <<>> /\ IsInjective(Paths)

FirstToPin ==
    CASE before[Binary] = 0 -> {Binary}
      [] before[Binary] # 0 /\ before[List] = 0 -> {List}
      [] OTHER -> {i \in Inputs : IsInventoriable /\ before[i] = 0}

LastToPin ==
    LET inputs == {i \in Inputs : after[i] = 0}
    IN  IF inputs # {} THEN inputs
        ELSE IF after[List] = 0 THEN {List}
        ELSE IF after[Binary] = 0 THEN {Binary} ELSE {}

(* Mutant: the files are compared, the list and the executable are not. *)
InputsAreUnchanged == \A i \in Inputs : Seen(i, after[i]) = Seen(i, before[i])

IsUnchanged == \A i \in Inputs \cup {List, Binary} : Seen(i, after[i]) = Seen(i, before[i])

-----------------------------------------------------------------------------
(* What is verified *)

IsAccounted(section) ==
    /\ section.path \in DOMAIN bundle.inputs
    /\ section.identity = bundle.inputs[section.path]
    /\ section.emitted = Len(section.facts) + Len(section.links)
    /\ section.available >= section.emitted
    /\ section.truncated = (section.available > section.emitted)
    /\ section.identity = NoIdentity => section.status = "failed" /\ ~section.parsed
    /\ section.status = "skipped" => ~section.parsed
    /\ section.status = "succeeded" => section.parsed
    /\ section.status # "succeeded" => section.available = 0 /\ section.diagnostics # <<>>
    /\ \A i \in DOMAIN section.links :
          section.links[i].status = "resolved"
            => section.links[i].target.artifact \in Range(bundle.inputs)

IsVerified(stream) ==
    LET paths == [k \in DOMAIN stream.sections |-> stream.sections[k].path]
    IN  /\ stream.ended
        /\ stream.total = Cardinality(DOMAIN bundle.inputs)
        /\ IsInjective(paths)
        /\ ToSet(paths) = DOMAIN bundle.inputs
        /\ \A k \in DOMAIN stream.sections : IsAccounted(stream.sections[k])

IsAccepted ==
    /\ bundle.complete
    /\ bundle.code \in 0..6
    /\ bundle.kept = bundle.hashed
    /\ IsVerified(bundle.kept)

Report ==
    [is |-> "report", tool |-> bundle.kept.tool, indexes |-> bundle.kept.indexes,
     sections |-> bundle.kept.sections, code |-> bundle.code]

-----------------------------------------------------------------------------
(* Steps of the capture *)

(* A process that has ended leaves nothing but what is on disk. *)
ExportGone ==
    /\ pass' = "idle" /\ tool' = 0 /\ files' = <<>>
    /\ indexes' = <<EmptyIndex>> /\ sections' = <<>>

CaptureGone == ExportGone /\ before' = NotPinned /\ after' = NotPinned

Pin ==
    /\ stage = "pinning"
    /\ \E i \in FirstToPin : before' = [before EXCEPT ![i] = ver[i]]
    /\ UNCHANGED <<chosen, ver, exporter, stage, after, taken, bundle, verdict>>

EndPinning ==
    /\ stage = "pinning"
    /\ FirstToPin = {}
    /\ IsInventoriable
    /\ stage' = "schema"
    /\ taken' = ver
    /\ UNCHANGED <<chosen, ver, exporter, before, after, bundle, verdict>>

(* The schema is captured; the export starts. *)
Launch ==
    /\ stage = "schema"
    /\ StartExport
    /\ stage' = "running"
    /\ UNCHANGED <<before, after, taken, bundle, verdict>>

Run ==
    /\ stage = "running"
    /\ Export
    /\ UNCHANGED captureVars

(* What of the stream has reached the reader after k files *)
Received(k, whole) ==
    [tool |-> tool, total |-> Len(files), sections |-> SubSeq(sections, 1, k),
     indexes |-> indexes, ended |-> whole]

Collected(stream, code) ==
    /\ stage' = "repinning"
    /\ bundle' = [complete |-> FALSE, inputs |-> [p \in Inputs |-> Seen(p, before[p])],
                   code |-> code, hashed |-> stream, kept |-> stream]
    /\ ExportGone
    /\ UNCHANGED <<chosen, ver, before, after, taken, verdict>>

Collect ==
    /\ stage = "running"
    /\ pass = "ended"
    /\ Collected(Received(Len(sections), files # <<>>), Code)

Killed == -9

(* The export is cut off: a closed pipe is a success, a failed write is not. *)
CutOff ==
    /\ stage = "running"
    /\ \/ \E k \in 0..Len(sections), code \in {Success, IoError, Killed} :
             Collected(Received(k, FALSE), code)
       \/ /\ pass = "ended" /\ files # <<>>
          /\ Collected(Received(Len(sections), TRUE), Killed)

PinAgain ==
    /\ stage = "repinning"
    /\ \E i \in LastToPin : after' = [after EXCEPT ![i] = ver[i]]
    /\ UNCHANGED <<chosen, ver, exporter, stage, before, taken, bundle, verdict>>

Seal ==
    /\ stage = "repinning"
    /\ LastToPin = {}
    /\ IsUnchanged
    /\ stage' = "sealed"
    /\ bundle' = [bundle EXCEPT !.complete = TRUE]
    /\ UNCHANGED <<chosen, ver, exporter, before, after, taken, verdict>>

Verify ==
    /\ stage = "sealed"
    /\ stage' = "done"
    /\ verdict' = IF IsAccepted THEN Report ELSE Refused
    /\ bundle' = [bundle EXCEPT !.complete = IsAccepted]
    /\ CaptureGone
    /\ UNCHANGED <<chosen, ver, taken>>

(* An exception at any step, also for a deadline that has passed or pins
   that differ: the manifest says that the capture is not complete. *)
Refuse ==
    /\ stage \notin {"done", "killed"}
    /\ stage' = "done"
    /\ verdict' = Refused
    /\ bundle' = [bundle EXCEPT !.complete = FALSE]
    /\ CaptureGone
    /\ UNCHANGED <<chosen, ver, taken>>

Kill ==
    /\ stage \notin {"done", "killed"}
    /\ stage' = "killed"
    /\ CaptureGone
    /\ UNCHANGED <<chosen, ver, taken, bundle, verdict>>

Damage ==
    /\ stage \in {"done", "killed"}
    /\ \E k \in 0..(Len(bundle.kept.sections) - 1) :
          bundle' = [bundle EXCEPT !.kept =
                        [@ EXCEPT !.sections = SubSeq(@, 1, k), !.ended = FALSE]]
    /\ UNCHANGED <<chosen, ver, exporter, stage, before, after, taken, verdict>>

VerifyAgain ==
    /\ stage \in {"done", "killed"}
    /\ verdict' = IF IsAccepted THEN Report ELSE Refused
    /\ UNCHANGED <<chosen, ver, exporter, stage, before, after, taken, bundle>>

(* What changes when the capture is over is not looked at any more. *)
Next ==
    \/ Edit /\ stage \notin {"done", "killed"} /\ UNCHANGED captureVars
    \/ Pin \/ EndPinning \/ Launch \/ Run \/ Collect \/ CutOff
    \/ PinAgain \/ Seal \/ Verify \/ Refuse \/ Kill \/ Damage \/ VerifyAgain

Spec == Init /\ [][Next]_vars

-----------------------------------------------------------------------------
(* Properties *)

(* The capture implements the snapshot: whatever changes on disk while it
   runs, an accepted report is the one of the files, the list and the
   executable as they were when the first pinning ended. *)
Snapshot == INSTANCE CorpusSnapshot WITH chosen <- chosen, ver <- ver, taken <- taken,
                                         verdict <- verdict
CapturesAreSnapshots == Snapshot!Spec

(* An export that ran to its end over a corpus that is found unchanged is
   accepted, whatever became of its files: the two programs agree on the
   accounting. *)
CompleteExportsAreAccepted ==
    (stage = "sealed" /\ bundle.kept.ended /\ bundle.code # Killed) => IsAccepted
=============================================================================
