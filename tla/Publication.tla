----------------------------- MODULE Publication -----------------------------
(***************************************************************************)
(* scripts/release-publication.sh: rehearsal, publication and withdrawal   *)
(* of releases at a hosting service, one call of gh after the other, while *)
(* calls fail, replies get lost, the run is killed and main moves on.      *)
(*                                                                         *)
(* The workflow runs one job at a time (its concurrency group); a          *)
(* maintainer withdraws from a checkout of main, outside of the group.     *)
(***************************************************************************)
EXTENDS Naturals, FiniteSets

CONSTANTS
    NumRevisions,   \* commits that main goes through
    MaxFaults       \* bound on failures of the service and kills

ASSUME BoundsAssumption == NumRevisions \in Nat \ {0} /\ MaxFaults \in Nat

VARIABLES
    main,       \* the revision at the head of main
    releases,   \* the release of a tag: [target, assets], or NoRelease
    tags,       \* the revision of a tag, or NoRevision
    latest,     \* the tag of the latest release
    procs,      \* what each actor is doing
    faults      \* faults so far

vars == <<main, releases, tags, latest, procs, faults>>

Revisions == 1..NumRevisions
NoRevision == 0

Actors == {"job", "maintainer"}

Version == <<"version", NoRevision>>
Older == <<"older", NoRevision>>
NoTag == <<"none", NoRevision>>
Retained(r) == <<"rehearsal", r>>
FailureProbe(r) == <<"failure-probe", r>>
WithdrawalProbe(r) == <<"withdrawal-probe", r>>

Probes == {FailureProbe(r) : r \in Revisions} \cup {WithdrawalProbe(r) : r \in Revisions}
Tags == {Version} \cup {Retained(r) : r \in Revisions} \cup Probes

NoRelease == [target |-> NoRevision, assets |-> "none"]
Release(r, assets) == [target |-> r, assets |-> assets]

Exists(t) == releases[t] # NoRelease
Tagged(t) == tags[t] # NoRevision

(* Where an actor may be: before it starts and after it ends, *)
Resting == {"idle", "succeeded", "failed", "killed"}
(* in a call that only reads, and *)
Reading == {"preflight", "absentRelease", "absentTag", "latestBefore", "findRetained",
            "retainedTag", "noRetainedTag", "metadata", "tagTarget", "download",
            "tagPresent", "proveRelease", "proveTag", "latestSame", "versionTag",
            "versionRelease", "latestNow", "confirm", "present", "notLatest",
            "exact", "proveGone", "tagKept"}
(* in a call that writes. *)
Writing == {"create", "deleteRelease", "deleteTag", "promote", "withdrawRelease"}
Trapped == {"trapRelease", "trapTag", "trapProve"}

Idle == [mode |-> "none", rev |-> NoRevision, pc |-> "idle", tag |-> NoTag, probe |-> NoTag,
         before |-> NoTag, resumed |-> FALSE, made |-> {}, warned |-> FALSE]

-----------------------------------------------------------------------------
(* Control *)

At(p, pc) == procs[p].pc = pc
Tag(p) == procs[p].tag
Rev(p) == procs[p].rev

(* A process at pc; of one that has failed, the probes it made are kept. *)
Moved(proc, pc) ==
    CASE pc = "failed" -> [Idle EXCEPT !.pc = pc, !.made = proc.made]
      [] pc \in Resting \ {"failed"} -> [Idle EXCEPT !.pc = pc]
      [] OTHER -> [proc EXCEPT !.pc = pc]

Goto(p, pc) == procs' = [procs EXCEPT ![p] = Moved(@, pc)]
GotoTag(p, pc, t) == procs' = [procs EXCEPT ![p] = [@ EXCEPT !.pc = pc, !.tag = t]]

(* die, or a command that fails: the EXIT trap cleans up the active probe. *)
AfterFailure(p) == IF procs[p].probe = NoTag THEN "failed" ELSE "trapRelease"
Die(p) == Goto(p, AfterFailure(p))

Require(p, condition, pc) == IF condition THEN Goto(p, pc) ELSE Die(p)

(* Mutant: nothing tells the trap of the probe. *)
GotoCreateUnarmed(p, t) == GotoTag(p, "create", t)

(* Mutant: every release that is created is cleaned up. *)
GotoCreateArmed(p, t) ==
    procs' = [procs EXCEPT ![p] = [@ EXCEPT !.pc = "create", !.tag = t, !.probe = t]]

(* ACTIVE_PROBE_TAG is set before the release of a probe is created. *)
GotoCreate(p, t) ==
    procs' = [procs EXCEPT ![p] =
                 [@ EXCEPT !.pc = "create", !.tag = t,
                           !.probe = IF t \in Probes THEN t ELSE NoTag]]

Unchanged == UNCHANGED <<main, releases, tags, latest, faults>>

-----------------------------------------------------------------------------

Init ==
    /\ main = 1
    /\ releases = [t \in Tags |-> NoRelease]
    /\ tags = [t \in Tags |-> NoRevision]
    /\ latest = Older
    /\ procs = [p \in Actors |-> Idle]
    /\ faults = 0

Begin(p, mode, r, t) ==
    /\ procs[p].pc \in Resting
    /\ procs' = [procs EXCEPT ![p] =
                    [Idle EXCEPT !.mode = mode, !.rev = r, !.tag = t, !.pc = "preflight"]]
    /\ Unchanged

Start(mode) == \E r \in Revisions : Begin("job", mode, r, NoTag)

StartWithdrawal ==
    \E r \in Revisions : \E t \in {Version, Retained(r)} : Begin("maintainer", "withdraw", r, t)

(* preflight_repository, verify_ci_run and the download of the accepted
   bundle: the head of main is what a job publishes; a withdrawal names any
   revision. *)
Preflight(p) ==
    /\ At(p, "preflight")
    /\ \/ procs[p].mode = "withdraw" /\ Goto(p, "present")
       \/ procs[p].mode # "withdraw" /\ Rev(p) # main /\ Die(p)
       \/ procs[p].mode = "publish" /\ Rev(p) = main /\ GotoTag(p, "versionTag", Version)
       \/ /\ procs[p].mode = "rehearse" /\ Rev(p) = main
          /\ GotoTag(p, "absentRelease", FailureProbe(Rev(p)))
    /\ Unchanged

(* assert_identity_absent *)
AssertAbsent(p) ==
    /\ \/ /\ At(p, "absentRelease")
          /\ Require(p, ~Exists(Tag(p)), "absentTag")
       \/ At(p, "absentTag") /\ Tagged(Tag(p)) /\ Die(p)
       \/ /\ At(p, "absentTag") /\ ~Tagged(Tag(p))
          /\ \/ /\ Tag(p) = FailureProbe(Rev(p))
                /\ GotoTag(p, "absentRelease", WithdrawalProbe(Rev(p)))
             \/ Tag(p) = WithdrawalProbe(Rev(p)) /\ Goto(p, "latestBefore")
             \/ Tag(p) = Version /\ GotoCreate(p, Version)
    /\ Unchanged

(* rehearse: the latest release is remembered, and a retained release of an
   earlier rehearsal is only verified. *)
FindRetained(p) ==
    /\ \/ /\ At(p, "latestBefore")
          /\ procs' = [procs EXCEPT ![p] =
                [@ EXCEPT !.pc = "findRetained", !.tag = Retained(Rev(p)), !.before = latest]]
       \/ /\ At(p, "findRetained")
          /\ Goto(p, IF Exists(Tag(p)) THEN "retainedTag" ELSE "noRetainedTag")
       \/ /\ At(p, "retainedTag")
          /\ Require(p, Tagged(Tag(p)), "metadata")
       \/ /\ At(p, "noRetainedTag")
          /\ IF Tagged(Tag(p)) THEN Die(p) ELSE GotoCreate(p, FailureProbe(Rev(p)))
    /\ Unchanged

(* Mutant: an existing release is never resumed. *)
FindVersionOnce(p) ==
    /\ \/ /\ At(p, "versionTag")
          /\ IF ~Tagged(Version) THEN Goto(p, "absentRelease")
             ELSE Require(p, tags[Version] = Rev(p), "versionRelease")
       \/ /\ At(p, "versionRelease")
          /\ IF Exists(Version) THEN Die(p) ELSE GotoCreate(p, Version)
    /\ Unchanged

(* Mutant: an existing release is taken for verified. *)
FindVersionTrusting(p) ==
    /\ \/ /\ At(p, "versionTag")
          /\ IF ~Tagged(Version) THEN Goto(p, "absentRelease")
             ELSE Require(p, tags[Version] = Rev(p), "versionRelease")
       \/ /\ At(p, "versionRelease")
          /\ IF Exists(Version) THEN Goto(p, "latestNow") ELSE GotoCreate(p, Version)
    /\ Unchanged

(* publish: an existing tag must be the revision, an existing release is
   resumed. *)
FindVersion(p) ==
    /\ \/ /\ At(p, "versionTag")
          /\ IF ~Tagged(Version) THEN Goto(p, "absentRelease")
             ELSE Require(p, tags[Version] = Rev(p), "versionRelease")
       \/ /\ At(p, "versionRelease")
          /\ IF Exists(Version)
             THEN procs' = [procs EXCEPT ![p] = [@ EXCEPT !.pc = "metadata", !.resumed = TRUE]]
             ELSE GotoCreate(p, Version)
    /\ Unchanged

Making(proc, t) == [proc EXCEPT !.made = @ \cup ({t} \cap Probes)]

(* create_release, and how the call ends: as asked, with an asset that was
   changed on its way, or with its reply lost. The failure probe is a draft,
   which makes no tag, of a bundle that was corrupted. *)
Create(p) ==
    /\ At(p, "create")
    /\ IF Exists(Tag(p))
       THEN Die(p) /\ Unchanged
       ELSE \E assets \in {"accepted", "changed"}, answered \in BOOLEAN :
              LET draft == Tag(p) = FailureProbe(Rev(p))
                  harm == (IF assets = "changed" /\ ~draft THEN 1 ELSE 0)
                          + (IF answered THEN 0 ELSE 1)
                  next == IF draft THEN "download" ELSE "metadata"
              IN  /\ draft => assets = "changed"
                  /\ faults + harm <= MaxFaults
                  /\ faults' = faults + harm
                  /\ releases' = [releases EXCEPT ![Tag(p)] = Release(Rev(p), assets)]
                  /\ tags' = [tags EXCEPT ![Tag(p)] = IF draft THEN @ ELSE Rev(p)]
                  /\ procs' = [procs EXCEPT ![p] =
                        Moved(Making(@, Tag(p)), IF answered THEN next ELSE AfterFailure(p))]
                  /\ UNCHANGED <<main, latest>>

(* verify_published_release: metadata, tag, then the bytes of the assets and
   the sources; and what follows for each kind of tag. *)
Verify(p) ==
    /\ \/ /\ At(p, "metadata")
          /\ Require(p, releases[Tag(p)].target = Rev(p), "tagTarget")
       \/ /\ At(p, "tagTarget")
          /\ Require(p, tags[Tag(p)] = Rev(p),
                     IF procs[p].mode # "withdraw" THEN "download"
                     ELSE IF Tag(p) = Version THEN "notLatest" ELSE "exact")
       \/ /\ At(p, "exact")
          /\ Require(p, releases[Tag(p)].target = Rev(p), "deleteRelease")
       \/ /\ At(p, "download")
          /\ LET expected == IF Tag(p) = FailureProbe(Rev(p)) THEN "changed" ELSE "accepted"
             IN  Require(p, releases[Tag(p)].assets = expected,
                         IF Tag(p) \in Probes THEN "deleteRelease"
                         ELSE IF Tag(p) # Version THEN "latestSame"
                         ELSE IF procs[p].resumed THEN "latestNow" ELSE "promote")
    /\ Unchanged

(* Mutant: gh release delete --cleanup-tag. *)
WithoutReleaseAndTag(t) ==
    /\ releases' = [releases EXCEPT ![t] = NoRelease]
    /\ tags' = [tags EXCEPT ![t] = NoRevision]
    /\ latest' = IF latest = t THEN Older ELSE latest
    /\ UNCHANGED main

(* What the service has after the release of t is gone: the latest release
   is then the one before. *)
WithoutRelease(t) ==
    /\ releases' = [releases EXCEPT ![t] = NoRelease]
    /\ latest' = IF latest = t THEN Older ELSE latest
    /\ UNCHANGED <<main, tags>>

WithoutTag(t) ==
    /\ tags' = [tags EXCEPT ![t] = NoRevision]
    /\ UNCHANGED <<main, releases, latest>>

(* A delete may be answered and not done, or done and not answered. *)
Delete(p, present, Effect, next) ==
    IF ~present THEN Die(p) /\ Unchanged
    ELSE \/ Effect /\ Goto(p, next) /\ UNCHANGED faults
         \/ /\ faults < MaxFaults
            /\ faults' = faults + 1
            /\ \/ Effect /\ Die(p)
               \/ Goto(p, next) /\ UNCHANGED <<main, releases, tags, latest>>

(* delete_release_and_tag *)
DeleteIdentity(p) ==
    \/ /\ At(p, "deleteRelease")
       /\ Delete(p, Exists(Tag(p)), WithoutRelease(Tag(p)), "tagPresent")
    \/ /\ At(p, "tagPresent")
       /\ Goto(p, IF Tagged(Tag(p)) THEN "deleteTag" ELSE "proveRelease")
       /\ Unchanged
    \/ /\ At(p, "deleteTag")
       /\ Delete(p, Tagged(Tag(p)), WithoutTag(Tag(p)), "proveRelease")

(* A probe that is gone is no longer active. *)
Proved(p) ==
    procs' = [procs EXCEPT ![p] =
                Moved([@ EXCEPT !.probe = NoTag],
                      IF procs[p].mode = "withdraw" THEN "succeeded" ELSE "latestSame")]

(* Mutant: a delete that was answered is taken for done. *)
ProveAbsentByReply(p) ==
    /\ \/ /\ At(p, "proveRelease")
          /\ Goto(p, "proveTag")
       \/ /\ At(p, "proveTag")
          /\ Proved(p)
    /\ Unchanged

(* prove_identity_absent *)
ProveAbsent(p) ==
    /\ \/ /\ At(p, "proveRelease")
          /\ Require(p, ~Exists(Tag(p)), "proveTag")
       \/ /\ At(p, "proveTag")
          /\ IF Tagged(Tag(p)) THEN Die(p) ELSE Proved(p)
    /\ Unchanged

(* rehearse: the latest release is compared after each step. *)
CompareLatest(p) ==
    /\ At(p, "latestSame")
    /\ \/ latest # procs[p].before /\ Die(p)
       \/ /\ latest = procs[p].before
          /\ \/ Tag(p) = FailureProbe(Rev(p)) /\ GotoCreate(p, WithdrawalProbe(Rev(p)))
             \/ Tag(p) = WithdrawalProbe(Rev(p)) /\ GotoCreate(p, Retained(Rev(p)))
             \/ Tag(p) = Retained(Rev(p)) /\ Goto(p, "succeeded")
    /\ Unchanged

(* publish: a resumed release may be the latest already. A lookup that fails
   inside the comparison reads as another release. *)
Promote(p) ==
    \/ /\ At(p, "latestNow")
       /\ Goto(p, IF latest = Version THEN "succeeded" ELSE "promote")
       /\ Unchanged
    \/ /\ At(p, "promote")
       /\ IF ~Exists(Version) THEN Die(p) /\ Unchanged
          ELSE /\ latest' = Version
               /\ UNCHANGED <<main, releases, tags>>
               /\ \/ Goto(p, "confirm") /\ UNCHANGED faults
                  \/ faults < MaxFaults /\ faults' = faults + 1 /\ Die(p)
    \/ /\ At(p, "confirm")
       /\ Require(p, latest = Version, "succeeded")
       /\ Unchanged

(* withdraw *)
Withdraw(p) ==
    \/ /\ At(p, "present")
       /\ Require(p, Exists(Tag(p)), "tagTarget")
       /\ Unchanged
    \/ /\ At(p, "notLatest")
       /\ Require(p, latest # Tag(p), "withdrawRelease")
       /\ Unchanged
    \/ /\ At(p, "withdrawRelease")
       /\ Delete(p, Exists(Tag(p)), WithoutRelease(Tag(p)), "proveGone")
    \/ /\ At(p, "proveGone")
       /\ Require(p, ~Exists(Tag(p)), "tagKept")
       /\ Unchanged
    \/ /\ At(p, "tagKept")
       /\ Require(p, tags[Tag(p)] = Rev(p), "succeeded")
       /\ Unchanged

(* cleanup_active_probe: the probe is deleted whatever it takes, and what
   cannot be proved absent is reported. *)
Trap(p) ==
    LET probe == procs[p].probe
        harm(done) == IF done THEN 0 ELSE 1
    IN  \/ /\ At(p, "trapRelease")
           /\ \E done \in BOOLEAN :
                /\ faults + harm(done) <= MaxFaults
                /\ faults' = faults + harm(done)
                /\ IF done THEN WithoutRelease(probe) ELSE UNCHANGED <<main, releases, tags, latest>>
           /\ Goto(p, "trapTag")
        \/ /\ At(p, "trapTag")
           /\ \E done \in BOOLEAN :
                /\ faults + harm(done) <= MaxFaults
                /\ faults' = faults + harm(done)
                /\ IF done THEN WithoutTag(probe) ELSE UNCHANGED <<main, releases, tags, latest>>
           /\ Goto(p, "trapProve")
        \/ /\ At(p, "trapProve")
           /\ \E answered \in BOOLEAN :
                /\ faults + harm(answered) <= MaxFaults
                /\ faults' = faults + harm(answered)
                /\ procs' = [procs EXCEPT ![p] =
                      [Moved(@, "failed") EXCEPT
                          !.warned = ~answered \/ Exists(probe) \/ Tagged(probe)]]
           /\ UNCHANGED <<main, releases, tags, latest>>

(* A call fails without effect. The comparisons with the latest release take
   a failed lookup for another release, which lets both of them pass. *)
CallFails(p) ==
    /\ faults < MaxFaults
    /\ faults' = faults + 1
    /\ \/ At(p, "latestNow") /\ Goto(p, "promote")
       \/ At(p, "notLatest") /\ Goto(p, "withdrawRelease")
       \/ procs[p].pc \in (Reading \cup Writing) \ {"latestNow", "notLatest"} /\ Die(p)
    /\ UNCHANGED <<main, releases, tags, latest>>

(* The run is killed, and no trap runs. *)
Kill(p) ==
    /\ procs[p].pc \notin Resting
    /\ faults < MaxFaults
    /\ faults' = faults + 1
    /\ Goto(p, "killed")
    /\ UNCHANGED <<main, releases, tags, latest>>

MoveMain ==
    /\ main < NumRevisions
    /\ main' = main + 1
    /\ UNCHANGED <<releases, tags, latest, procs, faults>>

Work(p) ==
    \/ Preflight(p) \/ AssertAbsent(p) \/ FindRetained(p) \/ FindVersion(p)
    \/ Create(p) \/ Verify(p) \/ DeleteIdentity(p) \/ ProveAbsent(p)
    \/ CompareLatest(p) \/ Promote(p) \/ Withdraw(p) \/ Trap(p)

Next ==
    \/ Start("rehearse") \/ Start("publish") \/ StartWithdrawal \/ MoveMain
    \/ \E p \in Actors : Work(p) \/ CallFails(p) \/ Kill(p)

Spec == Init /\ [][Next]_vars

(* A run goes on until it ends, and whoever publishes tries again. *)
FairSpec ==
    /\ Spec
    /\ \A p \in Actors : WF_vars(Work(p))
    /\ SF_vars(Begin("job", "publish", main, NoTag))

-----------------------------------------------------------------------------
(* Properties *)

Seen == {"accepted", "changed", "none"}

TypeOK ==
    /\ main \in Revisions
    /\ releases \in [Tags -> [target : Revisions \cup {NoRevision}, assets : Seen]]
    /\ tags \in [Tags -> Revisions \cup {NoRevision}]
    /\ latest \in {Older, Version}
    /\ faults \in 0..MaxFaults
    /\ \A p \in Actors :
         /\ procs[p].pc \in Resting \cup Reading \cup Writing \cup Trapped
         /\ procs[p].tag \in Tags \cup {NoTag}
         /\ procs[p].probe \in Probes \cup {NoTag}

(* What users get as the latest release was verified: its assets are the
   accepted ones and its tag is the revision they were built from, whatever
   failed, was killed or was withdrawn meanwhile. *)
LatestIsVerified ==
    latest = Version =>
        /\ Exists(Version)
        /\ releases[Version].assets = "accepted"
        /\ releases[Version].target = tags[Version]

(* A version tag, once it is there, is never moved and never deleted, not
   even by the withdrawal of its release (docs/RELEASING.md: "never move an
   existing version tag"). *)
VersionTagNeverMoves ==
    [][Tagged(Version) => tags'[Version] = tags[Version]]_vars

(* What a run reports as done is so at that moment: the probes of a rehearsal
   are gone and the latest release is the one it found; a published version is
   the latest; a withdrawn rehearsal has neither release nor tag, a withdrawn
   version still has its tag (its release the job may have made again). *)
Done(p) ==
    CASE procs[p].mode = "rehearse" ->
           /\ \A t \in {FailureProbe(Rev(p)), WithdrawalProbe(Rev(p))} : ~Exists(t) /\ ~Tagged(t)
           /\ latest = procs[p].before
      [] procs[p].mode = "publish" -> latest = Version /\ tags[Version] = Rev(p)
      [] procs[p].mode = "withdraw" /\ Tag(p) = Version -> tags[Version] = Rev(p)
      [] OTHER -> ~Exists(Tag(p)) /\ ~Tagged(Tag(p))

SuccessIsProved ==
    [][\A p \in Actors : (procs'[p].pc = "succeeded" /\ procs[p].pc # "succeeded") => Done(p)]_vars

(* A rehearsal that fails leaves no probe that it made, or says so. *)
LeftoverIsReported ==
    \A p \in Actors :
        (procs[p].pc = "failed" /\ ~procs[p].warned) =>
            \A t \in procs[p].made : ~Exists(t) /\ ~Tagged(t)

(* Publishing can be taken up again after any failure: unless the release
   was damaged, its tag is another revision or a maintainer withdraws it, the
   head of main gets to be the latest release. *)
Resumable ==
    /\ releases[Version].assets # "changed"
    /\ tags[Version] \in {NoRevision, main}

PromotionResumes ==
    Resumable ~> (latest = Version \/ ~Resumable
                  \/ (procs["maintainer"].mode = "withdraw" /\ Tag("maintainer") = Version))

(* docs/RELEASING.md of the withdrawal of a version: "It refuses the active
   latest release." *)
ActiveLatestIsNotWithdrawn ==
    [][(At("maintainer", "withdrawRelease") /\ Exists(Version) /\ releases'[Version] = NoRelease)
         => latest # Version]_vars
=============================================================================
