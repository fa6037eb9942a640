-------------------------- MODULE PublicationProofs --------------------------
(***************************************************************************)
(* The latest release is always a verified one, a version tag never moves, *)
(* a failed rehearsal leaves no probe unreported and a success is what it  *)
(* says, for any number of revisions and of failures.                      *)
(***************************************************************************)
EXTENDS Publication, TLAPS

Pcs == Resting \cup Reading \cup Writing \cup Trapped

Proc == [mode : {"none", "rehearse", "publish", "withdraw"},
         rev : Revisions \cup {NoRevision},
         pc : Pcs,
         tag : Tags \cup {NoTag},
         probe : Probes \cup {NoTag},
         before : {Older, Version, NoTag},
         resumed : BOOLEAN,
         made : SUBSET Probes,
         warned : BOOLEAN]

Erasing == {"exact", "deleteRelease", "tagPresent", "deleteTag", "proveRelease", "proveTag"}
Rehearsing == {"latestBefore", "findRetained", "retainedTag", "noRetainedTag"}
Publishing == {"versionTag", "versionRelease", "latestNow", "promote", "confirm"}
WithdrawPcs == Resting \cup Erasing \cup
    {"preflight", "present", "tagTarget", "notLatest", "withdrawRelease", "proveGone", "tagKept"}

(* Which actor may be where, and on which tag: only the job creates and
   promotes, and nobody erases the identity of a version. *)
RoleOK(p, proc) ==
    /\ proc \in Proc
    /\ proc.mode = "none" <=> proc.pc \in Resting
    /\ proc.mode = "withdraw" <=> p = "maintainer" /\ proc.pc \notin Resting
    /\ proc.mode = "withdraw" => proc.pc \in WithdrawPcs
    /\ proc.mode = "publish" /\ proc.pc # "preflight" => proc.tag = Version
    /\ proc.pc \in Publishing => proc.mode = "publish"
    /\ proc.pc \in Rehearsing => proc.mode = "rehearse"
    /\ proc.mode = "rehearse" => proc.tag # Version
    /\ proc.pc \in Erasing => proc.tag # Version
    /\ proc.pc \notin Resting \cup Trapped \cup {"preflight"} =>
           proc.tag \in Tags /\ proc.rev \in Revisions
    /\ proc.pc = "preflight" => proc.rev \in Revisions
    /\ proc.pc = "preflight" /\ proc.mode = "withdraw" => proc.tag \in Tags
    /\ proc.mode # "rehearse" => proc.probe = NoTag
    /\ proc.pc \in Trapped => proc.probe \in Probes

(* What an actor that creates or promotes the version knows of it. *)
KnowledgeOK(proc, rs, ts) ==
    /\ proc.pc = "versionRelease" => ts[Version] = proc.rev
    /\ proc.pc = "create" /\ proc.tag = Version => ts[Version] \in {NoRevision, proc.rev}
    /\ proc.pc \in {"latestNow", "promote"} /\ rs[Version] # NoRelease =>
           rs[Version].assets = "accepted"

StoreInv ==
    /\ main \in Revisions
    /\ releases \in [Tags -> [target : Revisions \cup {NoRevision}, assets : Seen]]
    /\ tags \in [Tags -> Revisions \cup {NoRevision}]
    /\ latest \in {Older, Version}
    /\ faults \in 0..MaxFaults

(* A release of the version is of the revision its tag names. *)
TargetInv == Exists(Version) => releases[Version].target = tags[Version]

IInv ==
    /\ StoreInv
    /\ DOMAIN procs = Actors
    /\ \A p \in Actors : RoleOK(p, procs[p]) /\ KnowledgeOK(procs[p], releases, tags)
    /\ TargetInv
    /\ LatestIsVerified

VersionStays == Tagged(Version) => tags'[Version] = tags[Version]

-----------------------------------------------------------------------------

LEMMA TagFacts ==
    /\ Version \in Tags /\ Version \notin Probes /\ NoTag \notin Tags /\ Older \notin Tags
    /\ Version # NoTag /\ Version # Older /\ NoTag \notin Probes
    /\ Probes \subseteq Tags
    /\ \A r \in Revisions : /\ FailureProbe(r) \in Probes
                            /\ WithdrawalProbe(r) \in Probes
                            /\ Retained(r) \in Tags
                            /\ Retained(r) \notin Probes
                            /\ Version \notin {FailureProbe(r), WithdrawalProbe(r), Retained(r)}
BY DEF Tags, Probes, Version, NoTag, Older, FailureProbe, WithdrawalProbe, Retained, NoRevision

(* A step of one actor *)
LEMMA OneMoves ==
    ASSUME IInv, NEW p \in Actors, NEW q,
           procs' = [procs EXCEPT ![p] = q], RoleOK(p, q), KnowledgeOK(q, releases', tags'),
           StoreInv', TargetInv', LatestIsVerified',
           \A o \in Actors \ {p} : KnowledgeOK(procs[o], releases', tags')
    PROVE  IInv'
<1>1. DOMAIN procs' = Actors
  BY DEF IInv
<1>2. \A o \in Actors : RoleOK(o, procs'[o]) /\ KnowledgeOK(procs'[o], releases', tags')
  BY DEF IInv
<1> QED BY <1>1, <1>2 DEF IInv, RoleOK

(* A step of one actor that leaves the version alone *)
LEMMA ElsewhereStep ==
    ASSUME IInv, NEW p \in Actors, NEW q,
           procs' = [procs EXCEPT ![p] = q], RoleOK(p, q), KnowledgeOK(q, releases, tags),
           StoreInv', UNCHANGED latest,
           releases'[Version] = releases[Version], tags'[Version] = tags[Version]
    PROVE  IInv' /\ VersionStays
<1>1. TargetInv' /\ LatestIsVerified' /\ VersionStays
  BY DEF IInv, TargetInv, LatestIsVerified, Exists, VersionStays
<1>2. \A proc : KnowledgeOK(proc, releases, tags) <=> KnowledgeOK(proc, releases', tags')
  BY DEF KnowledgeOK
<1> QED BY <1>1, <1>2, OneMoves DEF IInv

Still == UNCHANGED <<main, releases, tags, latest>> /\ faults' \in 0..MaxFaults

LEMMA UnchangedIsStill == IInv /\ Unchanged => Still
BY DEF IInv, StoreInv, Unchanged, Still

(* A step of one actor that leaves the service as it is *)
LEMMA QuietStep ==
    ASSUME IInv, Still, NEW p \in Actors, NEW q,
           procs' = [procs EXCEPT ![p] = q], RoleOK(p, q), KnowledgeOK(q, releases, tags)
    PROVE  IInv' /\ VersionStays
<1>1. StoreInv'
  BY DEF IInv, StoreInv, Still
<1> QED BY <1>1, ElsewhereStep DEF Still

(* Where a process may go, with which tag *)
CanBe(proc, t, pc) ==
    /\ pc \in Pcs \ {"preflight"}
    /\ proc.pc \notin Resting
    /\ proc.mode = "withdraw" => pc \in WithdrawPcs
    /\ proc.mode = "publish" /\ pc \notin Resting => t = Version
    /\ pc \in Publishing => proc.mode = "publish"
    /\ pc \in Rehearsing => proc.mode = "rehearse"
    /\ pc \in Erasing => t # Version
    /\ pc \notin Resting \cup Trapped => t \in Tags /\ proc.rev \in Revisions
    /\ pc \in Trapped => proc.probe \in Probes

(* The places where an actor knows more than its role *)
Knowing == {"create", "versionRelease", "latestNow", "promote"}

USE DEF NoRevision

LEMMA MovedKeepsRole ==
    ASSUME NEW p \in Actors, NEW proc, RoleOK(p, proc), NEW pc, CanBe(proc, proc.tag, pc)
    PROVE  /\ RoleOK(p, Moved(proc, pc))
           /\ Moved(proc, pc).pc = pc
           /\ pc \notin Resting => Moved(proc, pc) = [proc EXCEPT !.pc = pc]
<1>1. CASE pc \in Resting
  <2>1. Idle \in Proc /\ Idle.mode = "none" /\ Idle.tag = NoTag /\ Idle.probe = NoTag
    BY DEF Idle, Proc, Pcs, Resting
  <2>2. Moved(proc, pc) \in Proc /\ Moved(proc, pc).pc = pc /\ Moved(proc, pc).mode = "none"
        /\ Moved(proc, pc).tag = NoTag /\ Moved(proc, pc).probe = NoTag
    BY <1>1, <2>1 DEF Moved, RoleOK, CanBe, Proc, Idle, Resting
  <2>3. pc \notin Publishing \cup Rehearsing \cup Erasing \cup Trapped \cup {"preflight"}
    BY <1>1 DEF Resting, Publishing, Rehearsing, Erasing, Trapped
  <2> QED BY <1>1, <2>2, <2>3 DEF RoleOK
<1>2. CASE pc \notin Resting
  <2>1. Moved(proc, pc) = [proc EXCEPT !.pc = pc]
    BY <1>2 DEF Moved, Resting
  <2>2. [proc EXCEPT !.pc = pc] \in Proc
    BY DEF RoleOK, CanBe, Proc
  <2> QED BY <1>2, <2>1, <2>2 DEF RoleOK, CanBe, Proc
<1> QED BY <1>1, <1>2

LEMMA GotoStep ==
    ASSUME IInv, Still, NEW p \in Actors, NEW pc, Goto(p, pc),
           CanBe(procs[p], Tag(p), pc),
           pc \in Knowing => KnowledgeOK([procs[p] EXCEPT !.pc = pc], releases, tags)
    PROVE  IInv' /\ VersionStays
<1> DEFINE q == Moved(procs[p], pc)
<1>1. RoleOK(p, q) /\ q.pc = pc /\ (pc \notin Resting => q = [procs[p] EXCEPT !.pc = pc])
  BY MovedKeepsRole DEF IInv, Tag
<1>2. KnowledgeOK(q, releases, tags)
  <2>1. CASE pc \in Knowing
    BY <1>1, <2>1 DEF Knowing, Resting
  <2>2. CASE pc \notin Knowing
    BY <1>1, <2>2 DEF Knowing, KnowledgeOK
  <2> QED BY <2>1, <2>2
<1>3. procs' = [procs EXCEPT ![p] = q]
  BY DEF Goto
<1> QED BY <1>1, <1>2, <1>3, QuietStep

LEMMA FailureCanBe ==
    ASSUME IInv, NEW p \in Actors, procs[p].pc \notin Resting
    PROVE  CanBe(procs[p], Tag(p), AfterFailure(p)) /\ AfterFailure(p) \notin Knowing
BY DEF IInv, RoleOK, CanBe, AfterFailure, Proc, Pcs, Resting, Trapped, WithdrawPcs, Erasing,
       Publishing, Rehearsing, Knowing

LEMMA DieStep ==
    ASSUME IInv, Still, NEW p \in Actors, procs[p].pc \notin Resting, Die(p)
    PROVE  IInv' /\ VersionStays
BY FailureCanBe, GotoStep DEF Die

LEMMA RequireStep ==
    ASSUME IInv, Unchanged, NEW p \in Actors, NEW condition, NEW pc,
           Require(p, condition, pc), procs[p].pc \notin Resting,
           condition => CanBe(procs[p], Tag(p), pc), pc \notin Knowing
    PROVE  IInv' /\ VersionStays
BY UnchangedIsStill, DieStep, GotoStep DEF Require

(* A process that goes to another tag *)
LEMMA TagStep ==
    ASSUME IInv, Unchanged, NEW p \in Actors, NEW t \in Tags, NEW pc, NEW b,
           procs' = [procs EXCEPT ![p] = [procs[p] EXCEPT !.pc = pc, !.tag = t, !.probe = b]],
           CanBe(procs[p], t, pc), pc \notin Resting \cup Trapped,
           b \in Probes \cup {NoTag}, procs[p].mode # "rehearse" => b = NoTag,
           procs[p].mode = "rehearse" => t # Version,
           pc \notin Knowing \ {"create"},
           pc = "create" /\ t = Version => tags[Version] \in {NoRevision, Rev(p)}
    PROVE  IInv' /\ VersionStays
<1> DEFINE q == [procs[p] EXCEPT !.pc = pc, !.tag = t, !.probe = b]
<1>1. RoleOK(p, procs[p]) /\ procs[p] \in Proc
  BY DEF IInv, RoleOK
<1>2. pc \in Pcs
  BY DEF CanBe
<1>3. q \in Proc /\ q.pc = pc /\ q.tag = t /\ q.probe = b /\ q.mode = procs[p].mode
      /\ q.rev = procs[p].rev
  BY <1>1, <1>2 DEF Proc
<1>4. RoleOK(p, q)
  BY <1>1, <1>3 DEF RoleOK, CanBe
<1>5. KnowledgeOK(q, releases, tags)
  BY <1>3 DEF KnowledgeOK, Knowing, Rev
<1> QED BY <1>4, <1>5, UnchangedIsStill, QuietStep

LEMMA GotoTagStep ==
    ASSUME IInv, Unchanged, NEW p \in Actors, NEW t \in Tags, NEW pc, GotoTag(p, pc, t),
           CanBe(procs[p], t, pc), pc \notin Resting \cup Trapped, pc \notin Knowing,
           procs[p].mode = "rehearse" => t # Version
    PROVE  IInv' /\ VersionStays
<1>1. procs[p] \in Proc /\ procs[p].probe \in Probes \cup {NoTag}
      /\ (procs[p].mode # "rehearse" => procs[p].probe = NoTag)
  BY DEF IInv, RoleOK, Proc
<1>2. [procs[p] EXCEPT !.pc = pc, !.tag = t]
        = [procs[p] EXCEPT !.pc = pc, !.tag = t, !.probe = procs[p].probe]
  BY <1>1 DEF Proc
<1>3. procs' = [procs EXCEPT ![p] =
                  [procs[p] EXCEPT !.pc = pc, !.tag = t, !.probe = procs[p].probe]]
  BY <1>2 DEF GotoTag
<1>4. pc # "create"
  BY DEF Knowing
<1> QED BY <1>1, <1>3, <1>4, TagStep

LEMMA GotoCreateStep ==
    ASSUME IInv, Unchanged, NEW p \in Actors, NEW t \in Tags, GotoCreate(p, t),
           procs[p].pc \notin Resting, procs[p].mode # "withdraw", Rev(p) \in Revisions,
           procs[p].mode = "rehearse" => t # Version,
           procs[p].mode # "rehearse" => t = Version,
           t = Version => tags[Version] \in {NoRevision, Rev(p)}
    PROVE  IInv' /\ VersionStays
<1> DEFINE b == IF t \in Probes THEN t ELSE NoTag
<1>1. CanBe(procs[p], t, "create") /\ "create" \notin Resting \cup Trapped
  BY DEF CanBe, Pcs, Resting, Writing, Trapped, Publishing, Rehearsing, Erasing, Rev
<1>2. b \in Probes \cup {NoTag} /\ (procs[p].mode # "rehearse" => b = NoTag)
  BY TagFacts
<1>3. procs' = [procs EXCEPT ![p] = [procs[p] EXCEPT !.pc = "create", !.tag = t, !.probe = b]]
  BY DEF GotoCreate
<1> HIDE DEF b
<1> QED BY <1>1, <1>2, <1>3, TagStep

-----------------------------------------------------------------------------
(* Actions that only read *)

USE DEF Resting, Trapped, Reading, Writing, Pcs, Erasing, Publishing, Rehearsing, WithdrawPcs, Knowing

LEMMA PreflightStep ==
    ASSUME IInv, NEW p \in Actors, Preflight(p)
    PROVE  IInv' /\ VersionStays
<1> USE DEF At, Rev, Tag
<1>1. procs[p].pc = "preflight" /\ Unchanged /\ Still /\ RoleOK(p, procs[p])
  BY UnchangedIsStill DEF Preflight, IInv
<1>2. CASE procs[p].mode = "withdraw" /\ Goto(p, "present")
  <2>1. CanBe(procs[p], Tag(p), "present")
    BY <1>1, <1>2 DEF CanBe, RoleOK
  <2> QED BY <1>1, <1>2, <2>1, GotoStep
<1>3. CASE Die(p)
  BY <1>1, <1>3, DieStep
<1>4. CASE procs[p].mode = "publish" /\ GotoTag(p, "versionTag", Version)
  <2>1. CanBe(procs[p], Version, "versionTag")
    BY <1>1, <1>4, TagFacts DEF CanBe, RoleOK
  <2> QED BY <1>1, <1>4, <2>1, GotoTagStep, TagFacts
<1>5. CASE procs[p].mode = "rehearse" /\ GotoTag(p, "absentRelease", FailureProbe(Rev(p)))
  <2>1. Rev(p) \in Revisions /\ FailureProbe(Rev(p)) \in Tags /\ FailureProbe(Rev(p)) # Version
    BY <1>1, TagFacts DEF RoleOK
  <2>2. CanBe(procs[p], FailureProbe(Rev(p)), "absentRelease")
    BY <1>1, <1>5, <2>1 DEF CanBe
  <2> QED BY <1>1, <1>5, <2>1, <2>2, GotoTagStep
<1> QED BY <1>2, <1>3, <1>4, <1>5 DEF Preflight

LEMMA AssertAbsentStep ==
    ASSUME IInv, NEW p \in Actors, AssertAbsent(p)
    PROVE  IInv' /\ VersionStays
<1> USE DEF At, Rev, Tag
<1>1. procs[p].pc \in {"absentRelease", "absentTag"} /\ Unchanged /\ Still /\ RoleOK(p, procs[p])
  BY UnchangedIsStill DEF AssertAbsent, IInv
<1>2. Rev(p) \in Revisions /\ procs[p].mode # "withdraw" /\ procs[p].pc \notin Resting
  BY <1>1 DEF RoleOK
<1>3. CASE Require(p, ~Exists(Tag(p)), "absentTag")
  <2>1. CanBe(procs[p], Tag(p), "absentTag")
    BY <1>1, <1>2 DEF CanBe, RoleOK
  <2> QED BY <1>1, <1>2, <1>3, <2>1, RequireStep
<1>4. CASE Die(p)
  BY <1>1, <1>2, <1>4, DieStep
<1>5. CASE Tag(p) = FailureProbe(Rev(p))
           /\ GotoTag(p, "absentRelease", WithdrawalProbe(Rev(p)))
  <2>1. /\ WithdrawalProbe(Rev(p)) \in Tags /\ WithdrawalProbe(Rev(p)) # Version
        /\ procs[p].mode # "publish"
    BY <1>1, <1>2, <1>5, TagFacts DEF RoleOK
  <2>2. CanBe(procs[p], WithdrawalProbe(Rev(p)), "absentRelease")
    BY <1>2, <2>1 DEF CanBe
  <2> QED BY <1>1, <1>5, <2>1, <2>2, GotoTagStep
<1>6. CASE Tag(p) = WithdrawalProbe(Rev(p)) /\ Goto(p, "latestBefore")
  <2>1. procs[p].mode = "rehearse"
    BY <1>1, <1>2, <1>6, TagFacts DEF RoleOK, Proc
  <2>2. CanBe(procs[p], Tag(p), "latestBefore")
    BY <1>1, <1>2, <2>1 DEF CanBe, RoleOK
  <2> QED BY <1>1, <1>6, <2>2, GotoStep
<1>7. CASE Tag(p) = Version /\ ~Tagged(Tag(p)) /\ GotoCreate(p, Version)
  <2>1. procs[p].mode # "rehearse" /\ tags[Version] = NoRevision
    BY <1>1, <1>7 DEF RoleOK, Tagged
  <2> QED BY <1>1, <1>2, <1>7, <2>1, GotoCreateStep, TagFacts
<1> QED BY <1>3, <1>4, <1>5, <1>6, <1>7 DEF AssertAbsent

LEMMA FindRetainedStep ==
    ASSUME IInv, NEW p \in Actors, FindRetained(p)
    PROVE  IInv' /\ VersionStays
<1> USE DEF At, Rev, Tag
<1>1. procs[p].pc \in {"latestBefore", "findRetained", "retainedTag", "noRetainedTag"}
      /\ Unchanged /\ Still /\ RoleOK(p, procs[p]) /\ procs[p] \in Proc
  BY UnchangedIsStill DEF FindRetained, IInv, RoleOK
<1>2. Rev(p) \in Revisions /\ procs[p].mode = "rehearse" /\ procs[p].pc \notin Resting
      /\ Tag(p) \in Tags
  BY <1>1 DEF RoleOK
<1>3. \A pc \in {"retainedTag", "noRetainedTag", "metadata", "findRetained"} :
          CanBe(procs[p], Tag(p), pc)
  BY <1>1, <1>2 DEF CanBe
<1>4. CASE At(p, "latestBefore")
           /\ procs' = [procs EXCEPT ![p] = [@ EXCEPT !.pc = "findRetained",
                            !.tag = Retained(Rev(p)), !.before = latest]]
  <2> DEFINE q == [procs[p] EXCEPT !.pc = "findRetained", !.tag = Retained(Rev(p)),
                                   !.before = latest]
  <2>1. Retained(Rev(p)) \in Tags /\ Retained(Rev(p)) # Version /\ latest \in {Older, Version}
    BY <1>2, TagFacts DEF IInv, StoreInv
  <2>2. q \in Proc /\ q.pc = "findRetained" /\ q.tag = Retained(Rev(p)) /\ q.mode = procs[p].mode
        /\ q.rev = Rev(p) /\ q.probe = procs[p].probe
    BY <1>1, <2>1 DEF Proc
  <2>3. RoleOK(p, q) /\ KnowledgeOK(q, releases, tags)
    BY <1>1, <1>2, <2>1, <2>2 DEF RoleOK, KnowledgeOK
  <2>4. procs' = [procs EXCEPT ![p] = q]
    BY <1>4
  <2> QED BY <1>1, <2>3, <2>4, QuietStep
<1>5. CASE Goto(p, IF Exists(Tag(p)) THEN "retainedTag" ELSE "noRetainedTag")
  BY <1>1, <1>3, <1>5, GotoStep
<1>6. CASE Require(p, Tagged(Tag(p)), "metadata")
  BY <1>1, <1>2, <1>3, <1>6, RequireStep
<1>7. CASE Die(p)
  BY <1>1, <1>2, <1>7, DieStep
<1>8. CASE At(p, "noRetainedTag") /\ GotoCreate(p, FailureProbe(Rev(p)))
  <2>1. FailureProbe(Rev(p)) \in Tags /\ FailureProbe(Rev(p)) # Version
    BY <1>2, TagFacts
  <2> QED BY <1>1, <1>2, <1>8, <2>1, GotoCreateStep
<1> QED BY <1>4, <1>5, <1>6, <1>7, <1>8 DEF FindRetained

LEMMA FindVersionStep ==
    ASSUME IInv, NEW p \in Actors, FindVersion(p)
    PROVE  IInv' /\ VersionStays
<1> USE DEF At, Rev, Tag
<1>1. procs[p].pc \in {"versionTag", "versionRelease"} /\ Unchanged /\ Still
      /\ RoleOK(p, procs[p]) /\ KnowledgeOK(procs[p], releases, tags) /\ procs[p] \in Proc
  BY UnchangedIsStill DEF FindVersion, IInv, RoleOK
<1>2. Rev(p) \in Revisions /\ procs[p].mode = "publish" /\ procs[p].pc \notin Resting
      /\ Tag(p) = Version
  BY <1>1 DEF RoleOK
<1>3. CanBe(procs[p], Tag(p), "absentRelease") /\ CanBe(procs[p], Tag(p), "versionRelease")
      /\ CanBe(procs[p], Tag(p), "metadata")
  BY <1>1, <1>2, TagFacts DEF CanBe
<1>4. CASE Goto(p, "absentRelease")
  BY <1>1, <1>3, <1>4, GotoStep
<1>5. CASE At(p, "versionTag") /\ Require(p, tags[Version] = Rev(p), "versionRelease")
  <2>1. CASE tags[Version] = Rev(p)
    <3> DEFINE q == [procs[p] EXCEPT !.pc = "versionRelease"]
    <3>1. q.pc = "versionRelease" /\ q.rev = Rev(p)
      BY <1>1 DEF Proc
    <3>2. KnowledgeOK(q, releases, tags)
      BY <2>1, <3>1 DEF KnowledgeOK
    <3>3. Goto(p, "versionRelease")
      BY <1>5, <2>1 DEF Require
    <3> QED BY <1>1, <1>3, <3>2, <3>3, GotoStep
  <2>2. CASE tags[Version] # Rev(p)
    BY <1>1, <1>2, <1>5, <2>2, DieStep DEF Require
  <2> QED BY <2>1, <2>2
<1>6. CASE procs' = [procs EXCEPT ![p] = [@ EXCEPT !.pc = "metadata", !.resumed = TRUE]]
  <2> DEFINE q == [procs[p] EXCEPT !.pc = "metadata", !.resumed = TRUE]
  <2>1. q \in Proc /\ q.pc = "metadata" /\ q.tag = Version /\ q.mode = procs[p].mode
        /\ q.rev = Rev(p) /\ q.probe = procs[p].probe
    BY <1>1, <1>2 DEF Proc
  <2>2. RoleOK(p, q) /\ KnowledgeOK(q, releases, tags)
    BY <1>1, <1>2, <2>1, TagFacts DEF RoleOK, KnowledgeOK
  <2>3. procs' = [procs EXCEPT ![p] = q]
    BY <1>6
  <2> QED BY <1>1, <2>2, <2>3, QuietStep
<1>7. CASE At(p, "versionRelease") /\ GotoCreate(p, Version)
  BY <1>1, <1>2, <1>7, GotoCreateStep, TagFacts DEF KnowledgeOK
<1> QED BY <1>4, <1>5, <1>6, <1>7 DEF FindVersion

LEMMA VerifyStep ==
    ASSUME IInv, NEW p \in Actors, Verify(p)
    PROVE  IInv' /\ VersionStays
<1> USE DEF At, Rev, Tag
<1>1. procs[p].pc \in {"metadata", "tagTarget", "exact", "download"} /\ Unchanged /\ Still
      /\ RoleOK(p, procs[p]) /\ procs[p] \in Proc
  BY UnchangedIsStill DEF Verify, IInv, RoleOK
<1>2. Rev(p) \in Revisions /\ procs[p].pc \notin Resting /\ Tag(p) \in Tags
      /\ (procs[p].mode = "publish" => Tag(p) = Version)
  BY <1>1 DEF RoleOK
<1>3. CASE At(p, "metadata") /\ Require(p, releases[Tag(p)].target = Rev(p), "tagTarget")
  <2>1. CanBe(procs[p], Tag(p), "tagTarget")
    BY <1>1, <1>2 DEF CanBe
  <2> QED BY <1>1, <1>2, <1>3, <2>1, RequireStep
<1>4. CASE /\ At(p, "tagTarget")
           /\ Require(p, tags[Tag(p)] = Rev(p),
                      IF procs[p].mode # "withdraw" THEN "download"
                      ELSE IF Tag(p) = Version THEN "notLatest" ELSE "exact")
  <2> DEFINE pc == IF procs[p].mode # "withdraw" THEN "download"
                   ELSE IF Tag(p) = Version THEN "notLatest" ELSE "exact"
  <2>1. CanBe(procs[p], Tag(p), pc) /\ pc \notin Knowing
    BY <1>1, <1>2 DEF CanBe
  <2> HIDE DEF pc
  <2>2. Require(p, tags[Tag(p)] = Rev(p), pc)
    BY <1>4 DEF pc
  <2> QED BY <1>1, <1>2, <2>1, <2>2, RequireStep
<1>5. CASE At(p, "exact") /\ Require(p, releases[Tag(p)].target = Rev(p), "deleteRelease")
  <2>1. CanBe(procs[p], Tag(p), "deleteRelease")
    BY <1>1, <1>2, <1>5 DEF CanBe, RoleOK
  <2> QED BY <1>1, <1>2, <1>5, <2>1, RequireStep
<1>6. ASSUME NEW pc, NEW expected, At(p, "download"),
             Require(p, releases[Tag(p)].assets = expected, pc),
             expected = IF Tag(p) = FailureProbe(Rev(p)) THEN "changed" ELSE "accepted",
             pc = IF Tag(p) \in Probes THEN "deleteRelease"
                  ELSE IF Tag(p) # Version THEN "latestSame"
                  ELSE IF procs[p].resumed THEN "latestNow" ELSE "promote"
      PROVE  IInv' /\ VersionStays
  <2>1. procs[p].mode # "withdraw"
    BY <1>1, <1>6 DEF RoleOK
  <2>2. CASE Tag(p) # Version
    <3>1. CanBe(procs[p], Tag(p), pc) /\ pc \notin Knowing
      BY <1>2, <1>6, <2>1, <2>2 DEF CanBe
    <3> QED BY <1>1, <1>2, <1>6, <3>1, RequireStep
  <2>3. CASE Tag(p) = Version /\ releases[Version].assets # expected
    BY <1>1, <1>2, <1>6, <2>3, DieStep DEF Require
  <2>4. CASE Tag(p) = Version /\ releases[Version].assets = expected
    <3>1. procs[p].mode = "publish"
      BY <1>1, <1>2, <2>1, <2>4 DEF RoleOK, Proc
    <3>2. pc \in {"latestNow", "promote"} /\ expected = "accepted" /\ Goto(p, pc)
      BY <1>2, <1>6, <2>4, TagFacts DEF Require
    <3>3. CanBe(procs[p], Tag(p), pc)
      BY <1>2, <2>1, <2>4, <3>1, <3>2, TagFacts DEF CanBe
    <3>4. [procs[p] EXCEPT !.pc = pc].pc = pc
      BY <1>1 DEF Proc
    <3>5. KnowledgeOK([procs[p] EXCEPT !.pc = pc], releases, tags)
      BY <2>4, <3>2, <3>4 DEF KnowledgeOK
    <3> QED BY <1>1, <3>2, <3>3, <3>5, GotoStep
  <2> QED BY <2>2, <2>3, <2>4
<1> QED BY <1>3, <1>4, <1>5, <1>6 DEF Verify

LEMMA ProveAbsentStep ==
    ASSUME IInv, NEW p \in Actors, ProveAbsent(p)
    PROVE  IInv' /\ VersionStays
<1> USE DEF At, Rev, Tag
<1>1. procs[p].pc \in {"proveRelease", "proveTag"} /\ Unchanged /\ Still
      /\ RoleOK(p, procs[p]) /\ procs[p] \in Proc
  BY UnchangedIsStill DEF ProveAbsent, IInv, RoleOK
<1>2. Rev(p) \in Revisions /\ procs[p].pc \notin Resting /\ Tag(p) \in Tags
      /\ Tag(p) # Version /\ procs[p].mode # "publish"
  BY <1>1 DEF RoleOK
<1>3. CASE Require(p, ~Exists(Tag(p)), "proveTag")
  <2>1. CanBe(procs[p], Tag(p), "proveTag")
    BY <1>1, <1>2 DEF CanBe
  <2> QED BY <1>1, <1>2, <1>3, <2>1, RequireStep
<1>4. CASE Die(p)
  BY <1>1, <1>2, <1>4, DieStep
<1>5. CASE Proved(p)
  <2> DEFINE r == [procs[p] EXCEPT !.probe = NoTag]
             pc == IF procs[p].mode = "withdraw" THEN "succeeded" ELSE "latestSame"
  <2>1. r \in Proc /\ r.mode = procs[p].mode /\ r.pc = procs[p].pc /\ r.tag = Tag(p)
        /\ r.rev = Rev(p) /\ r.probe = NoTag
    BY <1>1 DEF Proc
  <2>2. RoleOK(p, r)
    BY <1>1, <1>2, <2>1 DEF RoleOK
  <2>3. CanBe(r, r.tag, pc) /\ pc \notin Knowing
    BY <1>2, <2>1 DEF CanBe
  <2> HIDE DEF pc, r
  <2>4. RoleOK(p, Moved(r, pc)) /\ Moved(r, pc).pc = pc
    BY <2>2, <2>3, MovedKeepsRole
  <2>5. KnowledgeOK(Moved(r, pc), releases, tags)
    BY <2>3, <2>4 DEF KnowledgeOK
  <2>6. procs' = [procs EXCEPT ![p] = Moved(r, pc)]
    BY <1>5 DEF Proved, r, pc
  <2> QED BY <1>1, <2>4, <2>5, <2>6, QuietStep
<1> QED BY <1>3, <1>4, <1>5 DEF ProveAbsent

LEMMA CompareLatestStep ==
    ASSUME IInv, NEW p \in Actors, CompareLatest(p)
    PROVE  IInv' /\ VersionStays
<1> USE DEF At, Rev, Tag
<1>1. procs[p].pc = "latestSame" /\ Unchanged /\ Still /\ RoleOK(p, procs[p])
      /\ procs[p] \in Proc
  BY UnchangedIsStill DEF CompareLatest, IInv, RoleOK
<1>2. Rev(p) \in Revisions /\ procs[p].mode # "withdraw" /\ procs[p].mode # "none"
      /\ (procs[p].mode = "publish" => Tag(p) = Version)
  BY <1>1 DEF RoleOK
<1>3. CASE Die(p)
  BY <1>1, <1>3, DieStep
<1>4. ASSUME NEW t \in Tags \ {Version}, Tag(p) # Version, GotoCreate(p, t)
      PROVE  IInv' /\ VersionStays
  <2>1. procs[p].mode = "rehearse"
    BY <1>1, <1>2, <1>4 DEF Proc
  <2> QED BY <1>1, <1>2, <1>4, <2>1, GotoCreateStep
<1>5. CASE Goto(p, "succeeded")
  <2>1. CanBe(procs[p], Tag(p), "succeeded")
    BY <1>1, <1>2 DEF CanBe
  <2> QED BY <1>1, <1>5, <2>1, GotoStep
<1>6. /\ FailureProbe(Rev(p)) # Version /\ WithdrawalProbe(Rev(p)) \in Tags \ {Version}
      /\ WithdrawalProbe(Rev(p)) # Version /\ Retained(Rev(p)) \in Tags \ {Version}
  BY <1>2, TagFacts
<1> QED BY <1>3, <1>4, <1>5, <1>6 DEF CompareLatest

(* A call that fails, also where its failure reads as an answer *)
LEMMA CallFailsStep ==
    ASSUME IInv, NEW p \in Actors, CallFails(p)
    PROVE  IInv' /\ VersionStays
<1> USE DEF At, Rev, Tag
<1>1. Still /\ RoleOK(p, procs[p]) /\ KnowledgeOK(procs[p], releases, tags) /\ procs[p] \in Proc
  BY BoundsAssumption DEF CallFails, IInv, StoreInv, Still, RoleOK
<1>2. CASE At(p, "latestNow") /\ Goto(p, "promote")
  <2>1. CanBe(procs[p], Tag(p), "promote")
    BY <1>1, <1>2 DEF CanBe, RoleOK
  <2>2. [procs[p] EXCEPT !.pc = "promote"].pc = "promote"
    BY <1>1 DEF Proc
  <2>3. KnowledgeOK([procs[p] EXCEPT !.pc = "promote"], releases, tags)
    BY <1>1, <1>2, <2>2 DEF KnowledgeOK
  <2> QED BY <1>1, <1>2, <2>1, <2>3, GotoStep
<1>3. CASE At(p, "notLatest") /\ Goto(p, "withdrawRelease")
  <2>1. CanBe(procs[p], Tag(p), "withdrawRelease")
    BY <1>1, <1>3 DEF CanBe, RoleOK
  <2> QED BY <1>1, <1>3, <2>1, GotoStep
<1>4. CASE procs[p].pc \in (Reading \cup Writing) /\ Die(p)
  BY <1>1, <1>4, DieStep
<1> QED BY <1>2, <1>3, <1>4 DEF CallFails

LEMMA KillStep ==
    ASSUME IInv, NEW p \in Actors, Kill(p)
    PROVE  IInv' /\ VersionStays
<1>1. Still
  BY BoundsAssumption DEF Kill, IInv, StoreInv, Still
<1>2. CanBe(procs[p], Tag(p), "killed")
  BY DEF Kill, CanBe
<1> QED BY <1>1, <1>2, GotoStep DEF Kill

LEMMA BeginStep ==
    ASSUME IInv, NEW p \in Actors, NEW mode \in {"rehearse", "publish", "withdraw"},
           NEW r \in Revisions, NEW t \in Tags \cup {NoTag}, Begin(p, mode, r, t),
           mode = "withdraw" <=> p = "maintainer",
           mode = "withdraw" => t \in Tags,
           mode # "withdraw" => t = NoTag
    PROVE  IInv' /\ VersionStays
<1> DEFINE q == [Idle EXCEPT !.mode = mode, !.rev = r, !.tag = t, !.pc = "preflight"]
<1>1. Still /\ procs' = [procs EXCEPT ![p] = q]
  BY UnchangedIsStill DEF Begin
<1>2. q \in Proc /\ q.mode = mode /\ q.rev = r /\ q.tag = t /\ q.pc = "preflight"
      /\ q.probe = NoTag
  BY DEF Idle, Proc
<1>3. RoleOK(p, q) /\ KnowledgeOK(q, releases, tags)
  BY <1>2, TagFacts DEF RoleOK, KnowledgeOK
<1> QED BY <1>1, <1>3, QuietStep

LEMMA MoveMainStep ==
    ASSUME IInv, MoveMain
    PROVE  IInv' /\ VersionStays
<1>1. main' \in Revisions
  BY BoundsAssumption DEF MoveMain, IInv, StoreInv, Revisions
<1>2. StoreInv'
  BY <1>1 DEF MoveMain, IInv, StoreInv
<1> QED BY <1>2 DEF MoveMain, IInv, TargetInv, LatestIsVerified, Exists, VersionStays,
                    RoleOK, KnowledgeOK

-----------------------------------------------------------------------------
(* Actions that write *)

Elsewhere ==
    /\ StoreInv'
    /\ UNCHANGED latest
    /\ releases'[Version] = releases[Version]
    /\ tags'[Version] = tags[Version]

LEMMA ElsewhereGoto ==
    ASSUME IInv, Elsewhere, NEW p \in Actors, NEW pc, Goto(p, pc),
           CanBe(procs[p], Tag(p), pc), pc \notin Knowing
    PROVE  IInv' /\ VersionStays
<1>1. RoleOK(p, Moved(procs[p], pc)) /\ Moved(procs[p], pc).pc = pc
  BY MovedKeepsRole DEF IInv, Tag
<1>2. KnowledgeOK(Moved(procs[p], pc), releases, tags)
  BY <1>1 DEF KnowledgeOK
<1>3. procs' = [procs EXCEPT ![p] = Moved(procs[p], pc)]
  BY DEF Goto
<1> QED BY <1>1, <1>2, <1>3, ElsewhereStep DEF Elsewhere

LEMMA ElsewhereDie ==
    ASSUME IInv, Elsewhere, NEW p \in Actors, procs[p].pc \notin Resting, Die(p)
    PROVE  IInv' /\ VersionStays
BY FailureCanBe, ElsewhereGoto DEF Die

LEMMA StillIsElsewhere == IInv /\ Still => Elsewhere
BY DEF IInv, StoreInv, Still, Elsewhere

LEMMA WithoutReleaseElsewhere ==
    ASSUME IInv, NEW t \in Tags \ {Version}, WithoutRelease(t), faults' \in 0..MaxFaults
    PROVE  Elsewhere
<1>1. latest' = latest
  BY TagFacts DEF WithoutRelease, IInv, StoreInv
<1>2. NoRelease \in [target : Revisions \cup {NoRevision}, assets : Seen]
  BY DEF NoRelease, Seen
<1> QED BY <1>1, <1>2, TagFacts DEF WithoutRelease, IInv, StoreInv, Elsewhere

LEMMA WithoutTagElsewhere ==
    ASSUME IInv, NEW t \in Tags \ {Version}, WithoutTag(t), faults' \in 0..MaxFaults
    PROVE  Elsewhere
BY TagFacts DEF WithoutTag, IInv, StoreInv, Elsewhere

LEMMA DeleteStep ==
    ASSUME IInv, NEW p \in Actors, procs[p].pc \notin Resting,
           NEW t \in Tags \ {Version}, NEW pc, NEW present,
           \/ Delete(p, present, WithoutRelease(t), pc)
           \/ Delete(p, present, WithoutTag(t), pc),
           CanBe(procs[p], Tag(p), pc), pc \notin Knowing
    PROVE  IInv' /\ VersionStays
<1>1. CASE Die(p) /\ Unchanged
  BY <1>1, UnchangedIsStill, DieStep
<1>2. (Goto(p, pc) /\ UNCHANGED faults) \/ (faults < MaxFaults /\ faults' = faults + 1)
      => faults' \in 0..MaxFaults
  BY BoundsAssumption DEF IInv, StoreInv
<1>3. CASE (WithoutRelease(t) \/ WithoutTag(t)) /\ faults' \in 0..MaxFaults
           /\ (Goto(p, pc) \/ Die(p))
  BY <1>3, WithoutReleaseElsewhere, WithoutTagElsewhere, ElsewhereGoto, ElsewhereDie
<1>4. CASE UNCHANGED <<main, releases, tags, latest>> /\ faults' \in 0..MaxFaults /\ Goto(p, pc)
  BY <1>4, StillIsElsewhere, ElsewhereGoto DEF Still
<1> QED BY <1>1, <1>2, <1>3, <1>4 DEF Delete

LEMMA DeleteIdentityStep ==
    ASSUME IInv, NEW p \in Actors, DeleteIdentity(p)
    PROVE  IInv' /\ VersionStays
<1> USE DEF At, Rev, Tag
<1>1. procs[p].pc \in {"deleteRelease", "tagPresent", "deleteTag"} /\ RoleOK(p, procs[p])
  BY DEF DeleteIdentity, IInv
<1>2. Rev(p) \in Revisions /\ procs[p].pc \notin Resting /\ Tag(p) \in Tags \ {Version}
      /\ procs[p].mode # "publish"
  BY <1>1 DEF RoleOK
<1>3. \A pc \in {"tagPresent", "deleteTag", "proveRelease"} :
          CanBe(procs[p], Tag(p), pc) /\ pc \notin Knowing
  BY <1>1, <1>2 DEF CanBe
<1>4. CASE Delete(p, Exists(Tag(p)), WithoutRelease(Tag(p)), "tagPresent")
  BY <1>2, <1>3, <1>4, DeleteStep
<1>5. CASE Goto(p, IF Tagged(Tag(p)) THEN "deleteTag" ELSE "proveRelease") /\ Unchanged
  BY <1>3, <1>5, UnchangedIsStill, GotoStep
<1>6. CASE Delete(p, Tagged(Tag(p)), WithoutTag(Tag(p)), "proveRelease")
  BY <1>2, <1>3, <1>6, DeleteStep
<1> QED BY <1>4, <1>5, <1>6 DEF DeleteIdentity

LEMMA TrapStep ==
    ASSUME IInv, NEW p \in Actors, Trap(p)
    PROVE  IInv' /\ VersionStays
<1> USE DEF At, Tag
<1> DEFINE probe == procs[p].probe
<1>1. procs[p].pc \in Trapped /\ RoleOK(p, procs[p]) /\ procs[p] \in Proc
  BY DEF Trap, IInv, RoleOK
<1>2. probe \in Tags \ {Version} /\ procs[p].mode # "withdraw" /\ procs[p].pc \notin Resting
      /\ (procs[p].mode = "publish" => Tag(p) = Version)
  BY <1>1, TagFacts DEF RoleOK
<1>3. faults' \in 0..MaxFaults
  BY BoundsAssumption DEF Trap, IInv, StoreInv
<1>4. CASE (WithoutRelease(probe) \/ WithoutTag(probe)
            \/ UNCHANGED <<main, releases, tags, latest>>)
           /\ (Goto(p, "trapTag") \/ Goto(p, "trapProve"))
  <2>1. Elsewhere
    BY <1>2, <1>3, <1>4, WithoutReleaseElsewhere, WithoutTagElsewhere, StillIsElsewhere DEF Still
  <2>2. CanBe(procs[p], Tag(p), "trapTag") /\ CanBe(procs[p], Tag(p), "trapProve")
    BY <1>1, <1>2 DEF CanBe, RoleOK
  <2> QED BY <1>4, <2>1, <2>2, ElsewhereGoto
<1>5. ASSUME NEW w \in BOOLEAN, UNCHANGED <<main, releases, tags, latest>>,
             procs' = [procs EXCEPT ![p] = [Moved(@, "failed") EXCEPT !.warned = w]]
      PROVE  IInv' /\ VersionStays
  <2> DEFINE m == Moved(procs[p], "failed")
             q == [m EXCEPT !.warned = w]
  <2>1. CanBe(procs[p], Tag(p), "failed")
    BY <1>1, <1>2 DEF CanBe
  <2>2. RoleOK(p, m) /\ m.pc = "failed" /\ m \in Proc
    BY <1>1, <2>1, MovedKeepsRole DEF RoleOK
  <2> HIDE DEF m
  <2>3. q \in Proc /\ q.pc = "failed" /\ q.mode = m.mode /\ q.tag = m.tag /\ q.probe = m.probe
    BY <2>2 DEF Proc
  <2>4. RoleOK(p, q) /\ KnowledgeOK(q, releases, tags)
    BY <2>2, <2>3 DEF RoleOK, KnowledgeOK
  <2>5. procs' = [procs EXCEPT ![p] = q]
    BY <1>5 DEF m
  <2> HIDE DEF q
  <2> QED BY <1>3, <1>5, <2>4, <2>5, QuietStep DEF Still
<1>6. CASE /\ At(p, "trapProve")
           /\ \E w \in BOOLEAN :
                procs' = [procs EXCEPT ![p] = [Moved(@, "failed") EXCEPT !.warned = w]]
           /\ UNCHANGED <<main, releases, tags, latest>>
  BY <1>5, <1>6
<1>7. \A answered \in BOOLEAN : (~answered \/ Exists(probe) \/ Tagged(probe)) \in BOOLEAN
  BY DEF Exists, Tagged
<1> QED BY <1>4, <1>6, <1>7 DEF Trap

(* The version becomes the latest release only where its assets were
   verified and its tag was. *)
LEMMA PromoteStep ==
    ASSUME IInv, NEW p \in Actors, Promote(p)
    PROVE  IInv' /\ VersionStays
<1> USE DEF At, Tag
<1>1. procs[p].pc \in {"latestNow", "promote", "confirm"} /\ RoleOK(p, procs[p])
      /\ KnowledgeOK(procs[p], releases, tags) /\ procs[p] \in Proc
  BY DEF Promote, IInv, RoleOK
<1>2. procs[p].mode = "publish" /\ Tag(p) = Version /\ procs[p].pc \notin Resting
      /\ procs[p].rev \in Revisions
  BY <1>1 DEF RoleOK
<1>3. \A pc \in {"succeeded", "promote", "confirm"} : CanBe(procs[p], Tag(p), pc)
  BY <1>2, TagFacts DEF CanBe
<1>4. CASE At(p, "latestNow") /\ Unchanged
           /\ Goto(p, IF latest = Version THEN "succeeded" ELSE "promote")
  <2>1. [procs[p] EXCEPT !.pc = "promote"].pc = "promote"
    BY <1>1 DEF Proc
  <2>2. KnowledgeOK([procs[p] EXCEPT !.pc = "promote"], releases, tags)
    BY <1>1, <1>4, <2>1 DEF KnowledgeOK
  <2>3. CASE latest = Version
    BY <1>3, <1>4, <2>3, UnchangedIsStill, GotoStep
  <2>4. CASE latest # Version
    BY <1>3, <1>4, <2>2, <2>4, UnchangedIsStill, GotoStep
  <2> QED BY <2>3, <2>4
<1>5. CASE Die(p) /\ Unchanged
  BY <1>2, <1>5, UnchangedIsStill, DieStep
<1>6. CASE /\ At(p, "promote") /\ Exists(Version) /\ latest' = Version
           /\ UNCHANGED <<main, releases, tags>>
           /\ \/ Goto(p, "confirm") /\ UNCHANGED faults
              \/ faults < MaxFaults /\ faults' = faults + 1 /\ Die(p)
  <2>1. StoreInv' /\ TargetInv' /\ VersionStays
    BY <1>6, BoundsAssumption DEF IInv, StoreInv, TargetInv, Exists, VersionStays
  <2>2. LatestIsVerified'
    BY <1>1, <1>6 DEF IInv, TargetInv, LatestIsVerified, KnowledgeOK, Exists
  <2>3. PICK pc \in {"confirm", AfterFailure(p)} : procs' = [procs EXCEPT ![p] = Moved(@, pc)]
    BY <1>6 DEF Goto, Die
  <2>4. CanBe(procs[p], Tag(p), pc) /\ pc \notin Knowing
    BY <1>2, <1>3, FailureCanBe
  <2> DEFINE q == Moved(procs[p], pc)
  <2>5. RoleOK(p, q) /\ q.pc = pc
    BY <1>1, <2>4, MovedKeepsRole
  <2>6. KnowledgeOK(q, releases', tags')
    BY <2>4, <2>5 DEF KnowledgeOK
  <2>7. \A o \in Actors \ {p} : KnowledgeOK(procs[o], releases', tags')
    BY <1>6 DEF IInv
  <2>8. procs' = [procs EXCEPT ![p] = q]
    BY <2>3
  <2> HIDE DEF q
  <2> QED BY <2>1, <2>2, <2>5, <2>6, <2>7, <2>8, OneMoves
<1>7. CASE Require(p, latest = Version, "succeeded") /\ Unchanged
  BY <1>2, <1>3, <1>7, RequireStep
<1> QED BY <1>4, <1>5, <1>6, <1>7 DEF Promote

(* The release of a version may go, also while the job has it in hand. *)
LEMMA WithdrawVersionStep ==
    ASSUME IInv, NEW p \in Actors, WithoutRelease(Version), faults' \in 0..MaxFaults,
           NEW pc, Goto(p, pc), CanBe(procs[p], Tag(p), pc), pc \notin Knowing
    PROVE  IInv' /\ VersionStays
<1>1. NoRelease \in [target : Revisions \cup {NoRevision}, assets : Seen]
  BY DEF NoRelease, Seen
<1>2. releases' = [releases EXCEPT ![Version] = NoRelease] /\ tags' = tags /\ main' = main
      /\ latest' = (IF latest = Version THEN Older ELSE latest)
  BY DEF WithoutRelease
<1>3. releases'[Version] = NoRelease /\ latest' # Version
  BY <1>2, TagFacts DEF IInv, StoreInv
<1>4. StoreInv' /\ TargetInv' /\ LatestIsVerified' /\ VersionStays
  BY <1>1, <1>2, <1>3 DEF IInv, StoreInv, TargetInv, LatestIsVerified, Exists, VersionStays
<1>5. \A o \in Actors : KnowledgeOK(procs[o], releases', tags')
  BY <1>2, <1>3 DEF IInv, KnowledgeOK
<1>6. RoleOK(p, Moved(procs[p], pc)) /\ Moved(procs[p], pc).pc = pc
  BY MovedKeepsRole DEF IInv, Tag
<1>7. KnowledgeOK(Moved(procs[p], pc), releases', tags')
  BY <1>6 DEF KnowledgeOK
<1>8. procs' = [procs EXCEPT ![p] = Moved(procs[p], pc)]
  BY DEF Goto
<1> QED BY <1>4, <1>5, <1>6, <1>7, <1>8, OneMoves

LEMMA WithdrawStep ==
    ASSUME IInv, NEW p \in Actors, Withdraw(p)
    PROVE  IInv' /\ VersionStays
<1> USE DEF At, Rev, Tag
<1>1. procs[p].pc \in {"present", "notLatest", "withdrawRelease", "proveGone", "tagKept"}
      /\ RoleOK(p, procs[p])
  BY DEF Withdraw, IInv
<1>2. Rev(p) \in Revisions /\ procs[p].pc \notin Resting /\ Tag(p) \in Tags
      /\ (procs[p].mode = "publish" => Tag(p) = Version)
  BY <1>1 DEF RoleOK
<1>3. \A pc \in {"tagTarget", "withdrawRelease", "tagKept", "succeeded", "proveGone"} :
          CanBe(procs[p], Tag(p), pc) /\ pc \notin Knowing
  BY <1>1, <1>2 DEF CanBe
<1>4. ASSUME NEW condition, NEW pc \in {"tagTarget", "withdrawRelease", "tagKept", "succeeded"},
             Require(p, condition, pc), Unchanged
      PROVE  IInv' /\ VersionStays
  BY <1>2, <1>3, <1>4, RequireStep
<1>5. CASE Delete(p, Exists(Tag(p)), WithoutRelease(Tag(p)), "proveGone")
  <2>1. CASE Tag(p) # Version
    BY <1>2, <1>3, <1>5, <2>1, DeleteStep
  <2>2. CASE Tag(p) = Version
    <3>1. CASE Die(p) /\ Unchanged
      BY <1>2, <3>1, UnchangedIsStill, DieStep
    <3>2. (Goto(p, "proveGone") /\ UNCHANGED faults) \/ (faults < MaxFaults /\ faults' = faults + 1)
          => faults' \in 0..MaxFaults
      BY BoundsAssumption DEF IInv, StoreInv
    <3>3. CASE WithoutRelease(Version) /\ faults' \in 0..MaxFaults
               /\ (Goto(p, "proveGone") \/ Die(p))
      BY <1>2, <1>3, <3>3, FailureCanBe, WithdrawVersionStep DEF Die
    <3>4. CASE UNCHANGED <<main, releases, tags, latest>> /\ faults' \in 0..MaxFaults
               /\ Goto(p, "proveGone")
      BY <1>3, <3>4, StillIsElsewhere, ElsewhereGoto DEF Still
    <3> QED BY <1>5, <2>2, <3>1, <3>2, <3>3, <3>4 DEF Delete
  <2> QED BY <2>1, <2>2
<1> QED BY <1>4, <1>5 DEF Withdraw

(* A release of the version is created only where there is none, with the tag
   its creator saw or none: nobody else knows anything of it. *)
LEMMA CreateStep ==
    ASSUME IInv, NEW p \in Actors, Create(p)
    PROVE  IInv' /\ VersionStays
<1> USE DEF At, Rev, Tag
<1> DEFINE t == Tag(p)
<1>1. procs[p].pc = "create" /\ RoleOK(p, procs[p]) /\ procs[p] \in Proc
      /\ KnowledgeOK(procs[p], releases, tags)
  BY DEF Create, IInv, RoleOK
<1>2. Rev(p) \in Revisions /\ t \in Tags /\ procs[p].mode # "withdraw" /\ p = "job"
      /\ (procs[p].mode = "publish" => t = Version)
  BY <1>1 DEF RoleOK, Actors
<1>3. CASE Exists(t)
  BY <1>1, <1>3, UnchangedIsStill, DieStep DEF Create
<1>4. ASSUME ~Exists(t), NEW assets \in {"accepted", "changed"}, NEW rev \in {tags[t], Rev(p)},
             NEW pc \in {"download", "metadata", AfterFailure(p)},
             t = Version => rev = Rev(p),
             UNCHANGED <<main, latest>>, faults' \in 0..MaxFaults,
             releases' = [releases EXCEPT ![t] = Release(Rev(p), assets)],
             tags' = [tags EXCEPT ![t] = rev],
             procs' = [procs EXCEPT ![p] = Moved(Making(@, t), pc)]
      PROVE  IInv' /\ VersionStays
  <2> DEFINE r == Making(procs[p], t)
             q == Moved(r, pc)
  <2>1. r \in Proc /\ r.mode = procs[p].mode /\ r.pc = procs[p].pc /\ r.tag = t
        /\ r.rev = Rev(p) /\ r.probe = procs[p].probe
    BY <1>1 DEF Making, Proc
  <2>2. CanBe(procs[p], Tag(p), pc) /\ pc \notin Knowing
    BY <1>1, <1>2, <1>4, FailureCanBe DEF CanBe
  <2>3. RoleOK(p, r) /\ CanBe(r, r.tag, pc)
    BY <1>1, <2>1, <2>2 DEF RoleOK, CanBe
  <2> HIDE DEF r
  <2>4. RoleOK(p, q) /\ q.pc = pc
    BY <2>3, MovedKeepsRole
  <2>5. \A rs, ts : KnowledgeOK(q, rs, ts)
    BY <2>2, <2>4 DEF KnowledgeOK
  <2>6. \A o \in Actors \ {p} : KnowledgeOK(procs[o], releases', tags')
    <3> SUFFICES ASSUME NEW o \in Actors \ {p} PROVE KnowledgeOK(procs[o], releases', tags')
      OBVIOUS
    <3>1. o = "maintainer" /\ RoleOK(o, procs[o])
      BY <1>2 DEF Actors, IInv
    <3>2. procs[o].pc \notin Knowing
      BY <3>1 DEF RoleOK
    <3> QED BY <3>2 DEF KnowledgeOK
  <2>7. StoreInv'
    BY <1>2, <1>4 DEF IInv, StoreInv, Release, Seen
  <2>8. VersionStays
    BY <1>1, <1>2, <1>4 DEF VersionStays, KnowledgeOK, Tagged, IInv, StoreInv
  <2>9. TargetInv' /\ LatestIsVerified'
    <3>1. CASE t = Version
      <4>1. latest' # Version
        BY <1>4, <3>1 DEF IInv, LatestIsVerified
      <4>2. releases'[Version].target = Rev(p) /\ tags'[Version] = Rev(p)
        BY <1>2, <1>4, <3>1 DEF IInv, StoreInv, Release
      <4> QED BY <4>1, <4>2 DEF TargetInv, LatestIsVerified
    <3>2. CASE t # Version
      <4>1. releases'[Version] = releases[Version] /\ tags'[Version] = tags[Version]
        BY <1>4, <3>2
      <4> QED BY <1>4, <4>1 DEF IInv, TargetInv, LatestIsVerified, Exists
    <3> QED BY <3>1, <3>2
  <2>10. procs' = [procs EXCEPT ![p] = q]
    BY <1>4 DEF r
  <2> HIDE DEF q
  <2> QED BY <2>4, <2>5, <2>6, <2>7, <2>8, <2>9, <2>10, OneMoves
<1>5. CASE ~Exists(t)
  <2>1. PICK assets \in {"accepted", "changed"}, answered \in BOOLEAN :
          LET draft == t = FailureProbe(Rev(p))
              harm == (IF assets = "changed" /\ ~draft THEN 1 ELSE 0) + (IF answered THEN 0 ELSE 1)
              next == IF draft THEN "download" ELSE "metadata"
          IN  /\ faults + harm <= MaxFaults
              /\ faults' = faults + harm
              /\ releases' = [releases EXCEPT ![t] = Release(Rev(p), assets)]
              /\ tags' = [tags EXCEPT ![t] = IF draft THEN @ ELSE Rev(p)]
              /\ procs' = [procs EXCEPT ![p] =
                    Moved(Making(@, t), IF answered THEN next ELSE AfterFailure(p))]
              /\ UNCHANGED <<main, latest>>
    BY <1>5 DEF Create
  <2> DEFINE rev == IF t = FailureProbe(Rev(p)) THEN tags[t] ELSE Rev(p)
             next == IF t = FailureProbe(Rev(p)) THEN "download" ELSE "metadata"
             pc == IF answered THEN next ELSE AfterFailure(p)
  <2>2. faults' \in 0..MaxFaults
    BY <2>1, BoundsAssumption DEF IInv, StoreInv
  <2>3. t = Version => rev = Rev(p)
    BY <1>2, TagFacts
  <2>4. tags' = [tags EXCEPT ![t] = rev]
    BY <2>1
  <2>5. procs' = [procs EXCEPT ![p] = Moved(Making(@, t), pc)]
    BY <2>1
  <2>6. rev \in {tags[t], Rev(p)} /\ pc \in {"download", "metadata", AfterFailure(p)}
    OBVIOUS
  <2>7. releases' = [releases EXCEPT ![t] = Release(Rev(p), assets)] /\ UNCHANGED <<main, latest>>
    BY <2>1
  <2> HIDE DEF rev, pc, next, t
  <2> QED BY <1>4, <1>5, <2>2, <2>3, <2>4, <2>5, <2>6, <2>7
<1> QED BY <1>3, <1>5

-----------------------------------------------------------------------------

LEMMA InitIInv == Init => IInv
<1> SUFFICES ASSUME Init PROVE IInv
  OBVIOUS
<1>1. StoreInv
  BY BoundsAssumption, TagFacts DEF Init, StoreInv, NoRelease, Revisions, Seen
<1>2. Idle \in Proc /\ Idle.mode = "none" /\ Idle.pc = "idle" /\ Idle.probe = NoTag
  BY DEF Idle, Proc
<1>3. \A p \in Actors : procs[p] = Idle /\ RoleOK(p, Idle) /\ KnowledgeOK(Idle, releases, tags)
  BY <1>2 DEF Init, RoleOK, KnowledgeOK
<1>4. TargetInv /\ LatestIsVerified
  BY TagFacts DEF Init, TargetInv, LatestIsVerified, Exists
<1> QED BY <1>1, <1>3, <1>4 DEF Init, IInv

LEMMA NextKeepsIInv == IInv /\ [Next]_vars => IInv' /\ [VersionStays]_vars
<1> SUFFICES ASSUME IInv, [Next]_vars PROVE IInv' /\ VersionStays
  OBVIOUS
<1>1. CASE UNCHANGED vars
  BY <1>1 DEF vars, IInv, StoreInv, TargetInv, LatestIsVerified, Exists, VersionStays
<1>2. CASE Start("rehearse") \/ Start("publish")
  BY <1>2, BeginStep DEF Start, Actors
<1>3. CASE StartWithdrawal
  BY <1>3, BeginStep, TagFacts DEF StartWithdrawal, Actors
<1>4. CASE MoveMain
  BY <1>4, MoveMainStep
<1>5. ASSUME NEW p \in Actors, Work(p) \/ CallFails(p) \/ Kill(p) PROVE IInv' /\ VersionStays
  BY <1>5, PreflightStep, AssertAbsentStep, FindRetainedStep, FindVersionStep, CreateStep,
     VerifyStep, DeleteIdentityStep, ProveAbsentStep, CompareLatestStep, PromoteStep,
     WithdrawStep, TrapStep, CallFailsStep, KillStep DEF Work
<1> QED BY <1>1, <1>2, <1>3, <1>4, <1>5 DEF Next

THEOREM InductiveInvariant == Spec => []IInv
BY InitIInv, NextKeepsIInv, PTL DEF Spec

(* Every actor is where the script may be, on a tag there is. *)
THEOREM TypeCorrect == Spec => []TypeOK
<1>1. IInv => TypeOK
  BY DEF IInv, StoreInv, RoleOK, Proc, TypeOK
<1> QED BY <1>1, InductiveInvariant, PTL

(* Whatever fails, is killed or is withdrawn, the latest release has the
   accepted assets and the tag of the revision they were built from. *)
THEOREM LatestVerified == Spec => []LatestIsVerified
<1>1. IInv => LatestIsVerified
  BY DEF IInv
<1> QED BY <1>1, InductiveInvariant, PTL

(* No step of the job, of a maintainer or of a trap moves or deletes a
   version tag. *)
THEOREM TagStays == Spec => VersionTagNeverMoves
<1>1. VersionStays <=> (Tagged(Version) => tags'[Version] = tags[Version])
  BY DEF VersionStays
<1> QED BY <1>1, InductiveInvariant, NextKeepsIInv, PTL DEF Spec, VersionTagNeverMoves
-----------------------------------------------------------------------------
(* What a rehearsal leaves, and what a run that succeeds has shown *)

Gone(t, rs, ts) == rs[t] = NoRelease /\ ts[t] = NoRevision

OwnProbes(proc) == {FailureProbe(proc.rev), WithdrawalProbe(proc.rev)}

Early == {"preflight", "absentRelease", "absentTag"}
Between == {"latestBefore", "findRetained", "retainedTag", "noRetainedTag", "latestSame"}
Deleting == {"deleteRelease", "tagPresent", "deleteTag", "proveRelease", "proveTag"}
Handling == {"create", "metadata", "tagTarget", "download"} \cup Deleting
Withdrawing == {"present", "notLatest", "withdrawRelease", "proveGone", "tagKept", "exact"}

(* A rehearsal has at most one probe at a time, which its trap knows of; the
   other is gone. *)
RehearsalOK(proc, rs, ts) ==
    /\ proc.rev \in Revisions
    /\ proc.pc \in Early => proc.made = {} /\ proc.probe = NoTag
    /\ proc.pc \in Early \ {"preflight"} =>
          /\ proc.tag \in OwnProbes(proc)
          /\ proc.tag = WithdrawalProbe(proc.rev) => Gone(FailureProbe(proc.rev), rs, ts)
    /\ proc.pc \in {"absentTag", "proveTag"} => rs[proc.tag] = NoRelease
    /\ proc.pc \notin Early =>
          /\ proc.made \subseteq OwnProbes(proc)
          /\ \A t \in OwnProbes(proc) \ {proc.probe} : Gone(t, rs, ts)
    /\ proc.probe \in OwnProbes(proc) \cup {NoTag}
    /\ proc.pc \in Between => proc.probe = NoTag
    /\ proc.pc \in {"findRetained", "retainedTag", "noRetainedTag"} => proc.tag \notin Probes
    /\ proc.pc \in Handling =>
          proc.probe = IF proc.tag \in Probes THEN proc.tag ELSE NoTag
    /\ proc.pc \in Deleting => proc.tag \in Probes

OwnOK(p, proc, rs, ts) ==
    /\ p = "maintainer" => proc.made = {} /\ proc.tag \notin Probes
    /\ proc.pc = "failed" /\ ~proc.warned => \A t \in proc.made : Gone(t, rs, ts)
    /\ proc.pc \in Withdrawing => proc.mode = "withdraw"
    /\ proc.mode = "withdraw" =>
          /\ proc.pc \in Withdrawing \ {"present", "exact"} => proc.tag = Version
          /\ proc.pc = "proveTag" => rs[proc.tag] = NoRelease \/ ts[proc.tag] # NoRevision
    /\ proc.mode = "publish" =>
          /\ proc.made = {}
          /\ proc.pc \in {"download", "latestNow", "promote", "confirm"} => ts[Version] = proc.rev
    /\ proc.mode = "rehearse" => RehearsalOK(proc, rs, ts)

OwnInv == \A p \in Actors : OwnOK(p, procs[p], releases, tags)

(* What a step of p may do to releases and tags: the job leaves those of a
   retained rehearsal alone or makes them, and a maintainer those of probes. *)
Touches(p) ==
    IF p = "job"
    THEN \A t \in Tags \ Probes :
            (releases'[t] = releases[t] /\ tags'[t] = tags[t]) \/ tags'[t] # NoRevision
    ELSE \A t \in Probes : releases'[t] = releases[t] /\ tags'[t] = tags[t]

Shown == \A p \in Actors :
            (procs'[p].pc = "succeeded" /\ procs[p].pc # "succeeded") => Done(p)

(* A step of one actor, which the other does not notice *)
LEMMA OneActs ==
    ASSUME IInv, OwnInv, IInv', VersionStays, NEW p \in Actors, NEW q,
           procs' = [procs EXCEPT ![p] = q], OwnOK(p, q, releases', tags'), Touches(p),
           q.pc = "succeeded" => Done(p)
    PROVE  OwnInv' /\ Shown
<1>1. /\ procs'[p] = q /\ \A o \in Actors \ {p} : procs'[o] = procs[o]
      /\ \A o \in Actors : RoleOK(o, procs[o]) /\ OwnOK(o, procs[o], releases, tags)
  BY DEF IInv, OwnInv
<1>2. ASSUME NEW o \in Actors \ {p} PROVE OwnOK(o, procs[o], releases', tags')
  <2>1. RoleOK(o, procs[o]) /\ OwnOK(o, procs[o], releases, tags) /\ procs[o] \in Proc
    BY <1>1 DEF RoleOK
  <2>2. CASE o = "maintainer"
    <3>1. p = "job"
      BY <2>2 DEF Actors
    <3>2. procs[o].mode = "none" \/ procs[o].mode = "withdraw"
      BY <2>1, <2>2 DEF RoleOK
    <3>3. procs[o].pc = "proveTag" => procs[o].tag \in Tags \ Probes
      BY <2>1, <2>2 DEF RoleOK, OwnOK
    <3>4. procs[o].mode = "withdraw" /\ procs[o].pc = "proveTag" =>
             releases'[procs[o].tag] = NoRelease \/ tags'[procs[o].tag] # NoRevision
      BY <2>1, <3>1, <3>3 DEF Touches, OwnOK
    <3> QED BY <2>1, <2>2, <3>2, <3>4 DEF OwnOK
  <2>3. CASE o = "job"
    <3>1. \A t \in Probes : releases'[t] = releases[t] /\ tags'[t] = tags[t]
      BY <2>3 DEF Actors, Touches
    <3>2. \A t \in Probes : Gone(t, releases, tags) => Gone(t, releases', tags')
      BY <3>1 DEF Gone
    <3>3. procs[o].made \subseteq Probes
      BY <2>1 DEF Proc
    <3>4. procs[o].mode = "rehearse" => procs[o].rev \in Revisions
      BY <2>1 DEF OwnOK, RehearsalOK
    <3>5. procs[o].mode = "rehearse" => OwnProbes(procs[o]) \subseteq Probes
      BY <3>4, TagFacts DEF OwnProbes
    <3>6. procs[o].mode # "withdraw"
      BY <2>1, <2>3 DEF RoleOK
    <3>7. procs[o].mode = "publish" /\ procs[o].pc \in {"download", "latestNow", "promote", "confirm"}
          => tags'[Version] = procs[o].rev
      <4>1. procs[o].mode = "publish" /\ procs[o].pc \in {"download", "latestNow", "promote", "confirm"}
            => procs[o].rev \in Revisions /\ tags[Version] = procs[o].rev
        BY <2>1 DEF RoleOK, OwnOK
      <4> QED BY <4>1 DEF VersionStays, Tagged, Revisions
    <3>8. procs[o].mode = "rehearse" => RehearsalOK(procs[o], releases', tags')
      <4> SUFFICES ASSUME procs[o].mode = "rehearse" PROVE RehearsalOK(procs[o], releases', tags')
        OBVIOUS
      <4>1. RehearsalOK(procs[o], releases, tags)
        BY <2>1 DEF OwnOK
      <4>2. FailureProbe(procs[o].rev) \in Probes
        BY <3>4, TagFacts
      <4>3. procs[o].pc \in {"absentTag", "proveTag"} => procs[o].tag \in Probes
        BY <3>5, <4>1 DEF RehearsalOK, Early, Deleting
      <4>4. procs[o].pc \in {"absentTag", "proveTag"} => releases'[procs[o].tag] = NoRelease
        BY <3>1, <4>1, <4>3 DEF RehearsalOK
      <4>5. procs[o].pc \notin Early =>
               \A t \in OwnProbes(procs[o]) \ {procs[o].probe} : Gone(t, releases', tags')
        BY <3>2, <3>5, <4>1 DEF RehearsalOK
      <4>6. procs[o].pc \in Early \ {"preflight"} /\ procs[o].tag = WithdrawalProbe(procs[o].rev)
            => Gone(FailureProbe(procs[o].rev), releases', tags')
        BY <3>2, <4>1, <4>2 DEF RehearsalOK
      <4> HIDE DEF Early, Between, Handling, Deleting
      <4> QED BY <4>1, <4>4, <4>5, <4>6 DEF RehearsalOK
    <3> QED BY <2>1, <2>3, <3>2, <3>3, <3>6, <3>7, <3>8 DEF OwnOK
  <2> QED BY <2>2, <2>3 DEF Actors
<1>3. OwnInv'
  BY <1>1, <1>2 DEF OwnInv
<1> QED BY <1>1, <1>3 DEF Shown

LEMMA QuietActs ==
    ASSUME IInv, OwnInv, IInv', VersionStays, NEW p \in Actors, NEW q,
           procs' = [procs EXCEPT ![p] = q], UNCHANGED <<releases, tags>>,
           OwnOK(p, q, releases, tags), q.pc = "succeeded" => Done(p)
    PROVE  OwnInv' /\ Shown
BY OneActs DEF Touches

(* A run that is over and has not failed knows nothing. *)
LEMMA RestingOwn ==
    ASSUME NEW p \in Actors, NEW proc, NEW pc \in Resting \ {"failed"}, NEW rs, NEW ts
    PROVE  OwnOK(p, Moved(proc, pc), rs, ts) /\ Moved(proc, pc).pc = pc
<1>1. Moved(proc, pc) = [Idle EXCEPT !.pc = pc]
  BY DEF Moved
<1>2. /\ Moved(proc, pc).pc = pc /\ Moved(proc, pc).mode = "none" /\ Moved(proc, pc).made = {}
      /\ Moved(proc, pc).tag = NoTag
  BY <1>1 DEF Idle
<1> QED BY <1>2, TagFacts DEF OwnOK, Withdrawing

(* Whatever fails, the trap has the probe that may be left. *)
LEMMA DieOwn ==
    ASSUME NEW p \in Actors, NEW proc, RoleOK(p, proc), proc.pc \notin Resting,
           NEW rs, NEW ts, OwnOK(p, proc, rs, ts)
    PROVE  LET pc == IF proc.probe = NoTag THEN "failed" ELSE "trapRelease"
           IN  OwnOK(p, Moved(proc, pc), rs, ts) /\ Moved(proc, pc).pc # "succeeded"
<1>1. proc \in Proc /\ proc.mode \in {"rehearse", "publish", "withdraw"}
  BY DEF RoleOK, Proc
<1>2. CASE proc.probe = NoTag
  <2> DEFINE q == Moved(proc, "failed")
  <2>1. q.pc = "failed" /\ q.mode = "none" /\ q.made = proc.made /\ q.tag = NoTag
    <3>1. q = [Idle EXCEPT !.pc = "failed", !.made = proc.made]
      BY DEF Moved
    <3> HIDE DEF q
    <3> QED BY <3>1 DEF Idle
  <2>2. \A t \in proc.made : Gone(t, rs, ts)
    <3>1. CASE proc.mode = "rehearse"
      <4>1. RehearsalOK(proc, rs, ts)
        BY <3>1 DEF OwnOK
      <4>2. NoTag \notin OwnProbes(proc)
        BY DEF OwnProbes, NoTag, FailureProbe, WithdrawalProbe
      <4> QED BY <1>2, <4>1, <4>2 DEF RehearsalOK
    <3>2. CASE proc.mode = "publish"
      BY <3>2 DEF OwnOK
    <3>3. CASE proc.mode = "withdraw"
      BY <3>3 DEF OwnOK, RoleOK
    <3> QED BY <1>1, <3>1, <3>2, <3>3
  <2>3. p = "maintainer" => proc.made = {}
    BY DEF OwnOK
  <2> HIDE DEF q
  <2>4. OwnOK(p, q, rs, ts)
    BY <2>1, <2>2, <2>3, TagFacts DEF OwnOK, Withdrawing
  <2> QED BY <1>2, <2>1, <2>4 DEF q
<1>3. CASE proc.probe # NoTag
  <2> DEFINE q == Moved(proc, "trapRelease")
  <2>1. q = [proc EXCEPT !.pc = "trapRelease"]
    BY DEF Moved
  <2>2. /\ q.pc = "trapRelease" /\ q.mode = proc.mode /\ q.made = proc.made /\ q.tag = proc.tag
        /\ q.probe = proc.probe /\ q.rev = proc.rev
    BY <1>1, <2>1 DEF Proc
  <2>3. proc.mode = "rehearse"
    BY <1>3 DEF RoleOK
  <2>4. RehearsalOK(proc, rs, ts) /\ OwnProbes(q) = OwnProbes(proc)
    BY <2>2, <2>3 DEF OwnOK, OwnProbes
  <2> HIDE DEF q
  <2>5. RehearsalOK(q, rs, ts)
    BY <1>3, <2>2, <2>4 DEF RehearsalOK, Early, Between, Handling, Deleting
  <2>6. OwnOK(p, q, rs, ts)
    BY <2>2, <2>3, <2>5 DEF OwnOK, Withdrawing
  <2> QED BY <1>3, <2>2, <2>6 DEF q
<1> QED BY <1>2, <1>3

LEMMA DieActs ==
    ASSUME IInv, OwnInv, IInv', VersionStays, NEW p \in Actors, procs[p].pc \notin Resting,
           Die(p), Touches(p), OwnOK(p, procs[p], releases', tags')
    PROVE  OwnInv' /\ Shown
<1>1. RoleOK(p, procs[p])
  BY DEF IInv
<1>2. procs' = [procs EXCEPT ![p] = Moved(procs[p], AfterFailure(p))]
  BY DEF Die, Goto
<1>3. OwnOK(p, Moved(procs[p], AfterFailure(p)), releases', tags')
      /\ Moved(procs[p], AfterFailure(p)).pc # "succeeded"
  BY <1>1, DieOwn DEF AfterFailure
<1> QED BY <1>2, <1>3, OneActs

(* A process that goes on with its tag *)
LEMMA GotoActs ==
    ASSUME IInv, OwnInv, IInv', VersionStays, NEW p \in Actors, NEW pc, Goto(p, pc),
           Touches(p), pc \notin Resting, OwnOK(p, [procs[p] EXCEPT !.pc = pc], releases', tags')
    PROVE  OwnInv' /\ Shown
<1>1. Moved(procs[p], pc) = [procs[p] EXCEPT !.pc = pc]
  BY DEF Moved
<1>2. procs[p] \in Proc
  BY DEF IInv, RoleOK
<1>3. [procs[p] EXCEPT !.pc = pc].pc = pc /\ pc # "succeeded"
  BY <1>2 DEF Proc
<1>4. procs' = [procs EXCEPT ![p] = [procs[p] EXCEPT !.pc = pc]]
  BY <1>1 DEF Goto
<1> QED BY <1>3, <1>4, OneActs

Silent == UNCHANGED <<releases, tags>>

LEMMA SilentDies ==
    ASSUME IInv, OwnInv, IInv', VersionStays, Silent,
           NEW p \in Actors, procs[p].pc \notin Resting, Die(p)
    PROVE  OwnInv' /\ Shown
BY DieActs DEF Silent, Touches, OwnInv

LEMMA SilentGoes ==
    ASSUME IInv, OwnInv, IInv', VersionStays, Silent,
           NEW p \in Actors, NEW pc, Goto(p, pc), pc \notin Resting,
           OwnOK(p, [procs[p] EXCEPT !.pc = pc], releases, tags)
    PROVE  OwnInv' /\ Shown
BY GotoActs DEF Silent, Touches

LEMMA SilentRequires ==
    ASSUME IInv, OwnInv, IInv', VersionStays, Silent,
           NEW p \in Actors, procs[p].pc \notin Resting, NEW pc, pc \notin Resting,
           NEW condition, Require(p, condition, pc),
           condition => OwnOK(p, [procs[p] EXCEPT !.pc = pc], releases, tags)
    PROVE  OwnInv' /\ Shown
BY SilentDies, SilentGoes DEF Require

LEMMA SilentSucceeds ==
    ASSUME IInv, OwnInv, IInv', VersionStays, Silent,
           NEW p \in Actors, Goto(p, "succeeded"), Done(p)
    PROVE  OwnInv' /\ Shown
BY RestingOwn, QuietActs DEF Goto, Silent

(* The fields of a process that goes on *)
LEMMA MovedFields ==
    ASSUME NEW proc \in Proc, NEW pc
    PROVE  LET q == [proc EXCEPT !.pc = pc]
           IN  /\ q.pc = pc /\ q.mode = proc.mode /\ q.made = proc.made /\ q.tag = proc.tag
               /\ q.probe = proc.probe /\ q.rev = proc.rev /\ q.warned = proc.warned
               /\ OwnProbes(q) = OwnProbes(proc)
BY DEF Proc, OwnProbes

(* What a rehearsal knows where it is, as long as it runs *)
LEMMA RehearsalOwn ==
    ASSUME NEW proc, proc.mode = "rehearse", proc.pc \notin Resting \cup Withdrawing,
           NEW rs, NEW ts, RehearsalOK(proc, rs, ts)
    PROVE  OwnOK("job", proc, rs, ts)
BY DEF OwnOK

LEMMA RehearsalIs ==
    ASSUME IInv, OwnInv, NEW p \in Actors, procs[p].mode = "rehearse"
    PROVE  p = "job" /\ RehearsalOK(procs[p], releases, tags) /\ procs[p].pc \notin Resting
           /\ procs[p] \in Proc /\ FailureProbe(procs[p].rev) # WithdrawalProbe(procs[p].rev)
           /\ Rev(p) \in Revisions /\ OwnProbes(procs[p]) \subseteq Probes
<1>1. RoleOK(p, procs[p]) /\ OwnOK(p, procs[p], releases, tags)
  BY DEF IInv, OwnInv
<1>2. RehearsalOK(procs[p], releases, tags)
  BY <1>1 DEF OwnOK
<1> QED BY <1>1, <1>2, TagFacts DEF RoleOK, Actors, RehearsalOK, Rev, OwnProbes, FailureProbe, WithdrawalProbe

(* GotoCreate, of a rehearsal and of a publication *)
LEMMA RehearsalCreates ==
    ASSUME IInv, OwnInv, IInv', VersionStays, Silent, NEW p \in Actors,
           procs[p].mode = "rehearse", procs[p].pc \in Between,
           NEW t, t \in OwnProbes(procs[p]) \/ t \notin Probes, GotoCreate(p, t)
    PROVE  OwnInv' /\ Shown
<1> DEFINE b == IF t \in Probes THEN t ELSE NoTag
           q == [procs[p] EXCEPT !.pc = "create", !.tag = t, !.probe = b]
<1>1. p = "job" /\ RehearsalOK(procs[p], releases, tags) /\ procs[p] \in Proc
      /\ OwnProbes(procs[p]) \subseteq Probes
  BY RehearsalIs
<1>2. /\ q.pc = "create" /\ q.mode = "rehearse" /\ q.made = procs[p].made /\ q.tag = t
      /\ q.probe = b /\ q.rev = procs[p].rev /\ OwnProbes(q) = OwnProbes(procs[p])
  BY <1>1 DEF Proc, OwnProbes
<1>3. procs[p].probe = NoTag /\ procs[p].pc \notin Early /\ NoTag \notin OwnProbes(procs[p])
  BY <1>1, TagFacts DEF RehearsalOK, Between, Early
<1>4. procs' = [procs EXCEPT ![p] = q]
  BY DEF GotoCreate
<1>5. b \in OwnProbes(procs[p]) \cup {NoTag}
  OBVIOUS
<1>6. \A u \in OwnProbes(procs[p]) : Gone(u, releases, tags)
  BY <1>1, <1>3 DEF RehearsalOK
<1> HIDE DEF q
<1>7. RehearsalOK(q, releases, tags)
  BY <1>1, <1>2, <1>3, <1>5, <1>6 DEF RehearsalOK, Early, Between, Handling, Deleting
<1>8. OwnOK(p, q, releases, tags) /\ q.pc # "succeeded"
  BY <1>1, <1>2, <1>7, RehearsalOwn DEF Withdrawing
<1> QED BY <1>4, <1>8, QuietActs DEF Silent

LEMMA PublicationCreates ==
    ASSUME IInv, OwnInv, IInv', VersionStays, Silent, NEW p \in Actors,
           procs[p].mode = "publish", GotoCreate(p, Version)
    PROVE  OwnInv' /\ Shown
<1> DEFINE q == [procs[p] EXCEPT !.pc = "create", !.tag = Version, !.probe = NoTag]
<1>1. procs[p] \in Proc /\ OwnOK(p, procs[p], releases, tags)
  BY DEF IInv, OwnInv, RoleOK
<1>2. /\ q.pc = "create" /\ q.mode = "publish" /\ q.made = procs[p].made /\ q.tag = Version
      /\ q.probe = NoTag
  BY <1>1 DEF Proc, OwnProbes
<1>3. procs' = [procs EXCEPT ![p] = q]
  BY TagFacts DEF GotoCreate
<1> HIDE DEF q
<1>4. OwnOK(p, q, releases, tags) /\ q.pc # "succeeded"
  BY <1>1, <1>2, TagFacts DEF OwnOK, Withdrawing
<1> QED BY <1>3, <1>4, QuietActs DEF Silent

-----------------------------------------------------------------------------
(* The steps that only read *)

LEMMA KnownHere ==
    ASSUME IInv, OwnInv, NEW p \in Actors
    PROVE  RoleOK(p, procs[p]) /\ OwnOK(p, procs[p], releases, tags) /\ procs[p] \in Proc
BY DEF IInv, OwnInv, RoleOK

LEMMA PreflightOwn ==
    ASSUME IInv, OwnInv, IInv', VersionStays, NEW p \in Actors, Preflight(p)
    PROVE  OwnInv' /\ Shown
<1> USE DEF At, Rev, Tag
<1>1. procs[p].pc = "preflight" /\ Silent /\ RoleOK(p, procs[p])
      /\ OwnOK(p, procs[p], releases, tags) /\ procs[p] \in Proc
  BY KnownHere DEF Preflight, Unchanged, Silent
<1>2. CASE procs[p].mode = "withdraw" /\ Goto(p, "present")
  <2>1. OwnOK(p, [procs[p] EXCEPT !.pc = "present"], releases, tags)
    BY <1>1, <1>2, MovedFields DEF OwnOK, Withdrawing
  <2> QED BY <1>1, <1>2, <2>1, SilentGoes
<1>3. CASE Die(p)
  BY <1>1, <1>3, SilentDies
<1>4. CASE procs[p].mode = "publish" /\ GotoTag(p, "versionTag", Version)
  <2> DEFINE q == [procs[p] EXCEPT !.pc = "versionTag", !.tag = Version]
  <2>1. q.pc = "versionTag" /\ q.mode = "publish" /\ q.made = procs[p].made /\ q.tag = Version
    BY <1>1, <1>4 DEF Proc
  <2>2. procs' = [procs EXCEPT ![p] = q]
    BY <1>4 DEF GotoTag
  <2> HIDE DEF q
  <2>3. OwnOK(p, q, releases, tags)
    BY <1>1, <1>4, <2>1, TagFacts DEF OwnOK, Withdrawing
  <2> QED BY <1>1, <2>1, <2>2, <2>3, QuietActs DEF Silent
<1>5. CASE procs[p].mode = "rehearse" /\ GotoTag(p, "absentRelease", FailureProbe(Rev(p)))
  <2> DEFINE q == [procs[p] EXCEPT !.pc = "absentRelease", !.tag = FailureProbe(Rev(p))]
  <2>1. /\ q.pc = "absentRelease" /\ q.mode = "rehearse" /\ q.made = procs[p].made
        /\ q.tag = FailureProbe(Rev(p)) /\ q.probe = procs[p].probe /\ q.rev = Rev(p)
        /\ OwnProbes(q) = OwnProbes(procs[p])
    BY <1>1, <1>5 DEF Proc, OwnProbes
  <2>2. procs' = [procs EXCEPT ![p] = q]
    BY <1>5 DEF GotoTag
  <2>3. p = "job" /\ RehearsalOK(procs[p], releases, tags)
        /\ FailureProbe(Rev(p)) # WithdrawalProbe(Rev(p))
    BY <1>5, RehearsalIs
  <2> HIDE DEF q
  <2>4. RehearsalOK(q, releases, tags)
    BY <1>1, <2>1, <2>3 DEF RehearsalOK, OwnProbes, Early, Between, Handling, Deleting
  <2>5. OwnOK(p, q, releases, tags)
    BY <2>1, <2>3, <2>4, RehearsalOwn DEF Withdrawing
  <2> QED BY <1>1, <2>1, <2>2, <2>5, QuietActs DEF Silent
<1> QED BY <1>2, <1>3, <1>4, <1>5 DEF Preflight

LEMMA AssertAbsentOwn ==
    ASSUME IInv, OwnInv, IInv', VersionStays, NEW p \in Actors, AssertAbsent(p)
    PROVE  OwnInv' /\ Shown
<1> USE DEF At, Rev, Tag
<1>1. procs[p].pc \in {"absentRelease", "absentTag"} /\ Silent /\ RoleOK(p, procs[p])
      /\ OwnOK(p, procs[p], releases, tags) /\ procs[p] \in Proc /\ procs[p].pc \notin Resting
  BY KnownHere DEF AssertAbsent, Unchanged, Silent
<1>2. procs[p].mode \in {"publish", "rehearse"}
  BY <1>1 DEF RoleOK, Proc
<1>3. CASE At(p, "absentRelease") /\ Require(p, ~Exists(Tag(p)), "absentTag")
  <2> DEFINE q == [procs[p] EXCEPT !.pc = "absentTag"]
  <2>1. /\ q.pc = "absentTag" /\ q.mode = procs[p].mode /\ q.made = procs[p].made
        /\ q.tag = procs[p].tag /\ q.probe = procs[p].probe /\ q.rev = procs[p].rev
        /\ OwnProbes(q) = OwnProbes(procs[p])
    BY <1>1 DEF Proc, OwnProbes
  <2>2. ASSUME ~Exists(Tag(p)) PROVE OwnOK(p, q, releases, tags)
    <3> HIDE DEF q
    <3>1. CASE procs[p].mode = "rehearse"
      <4>1. p = "job" /\ RehearsalOK(procs[p], releases, tags)
        BY <3>1, RehearsalIs
      <4>2. RehearsalOK(q, releases, tags)
        BY <1>3, <2>1, <2>2, <4>1
           DEF RehearsalOK, Exists, Early, Between, Handling, Deleting
      <4> QED BY <2>1, <3>1, <4>1, <4>2, RehearsalOwn DEF Withdrawing
    <3>2. CASE procs[p].mode = "publish"
      BY <1>1, <2>1, <3>2 DEF OwnOK, Withdrawing
    <3> QED BY <1>2, <3>1, <3>2
  <2> QED BY <1>1, <1>3, <2>2, SilentRequires
<1>4. CASE Die(p)
  BY <1>1, <1>4, SilentDies
<1>5. CASE At(p, "absentTag") /\ ~Tagged(Tag(p)) /\ Tag(p) = FailureProbe(Rev(p))
           /\ GotoTag(p, "absentRelease", WithdrawalProbe(Rev(p)))
  <2>1. procs[p].mode = "rehearse"
    BY <1>1, <1>2, <1>5, TagFacts DEF RoleOK
  <2>2. p = "job" /\ RehearsalOK(procs[p], releases, tags)
    BY <2>1, RehearsalIs
  <2> DEFINE q == [procs[p] EXCEPT !.pc = "absentRelease", !.tag = WithdrawalProbe(Rev(p))]
  <2>3. /\ q.pc = "absentRelease" /\ q.mode = "rehearse" /\ q.made = procs[p].made
        /\ q.tag = WithdrawalProbe(Rev(p)) /\ q.probe = procs[p].probe /\ q.rev = Rev(p)
        /\ OwnProbes(q) = OwnProbes(procs[p])
    BY <1>1, <2>1 DEF Proc, OwnProbes
  <2>4. procs' = [procs EXCEPT ![p] = q]
    BY <1>5 DEF GotoTag
  <2>5. Gone(FailureProbe(Rev(p)), releases, tags)
    BY <1>5, <2>2 DEF RehearsalOK, Gone, Tagged
  <2> HIDE DEF q
  <2>6. RehearsalOK(q, releases, tags)
    BY <1>5, <2>2, <2>3, <2>5 DEF RehearsalOK, OwnProbes, Early, Between, Handling, Deleting
  <2>7. OwnOK(p, q, releases, tags)
    BY <2>2, <2>3, <2>6, RehearsalOwn DEF Withdrawing
  <2> QED BY <1>1, <2>3, <2>4, <2>7, QuietActs DEF Silent
<1>6. CASE At(p, "absentTag") /\ ~Tagged(Tag(p)) /\ Tag(p) = WithdrawalProbe(Rev(p))
           /\ Goto(p, "latestBefore")
  <2>1. procs[p].mode = "rehearse"
    BY <1>1, <1>2, <1>6, TagFacts DEF RoleOK
  <2>2. p = "job" /\ RehearsalOK(procs[p], releases, tags)
    BY <2>1, RehearsalIs
  <2> DEFINE q == [procs[p] EXCEPT !.pc = "latestBefore"]
  <2>3. /\ q.pc = "latestBefore" /\ q.mode = "rehearse" /\ q.made = procs[p].made
        /\ q.tag = procs[p].tag /\ q.probe = procs[p].probe /\ q.rev = Rev(p)
        /\ OwnProbes(q) = OwnProbes(procs[p])
    BY <1>1, <2>1 DEF Proc, OwnProbes
  <2>4. \A t \in OwnProbes(procs[p]) : Gone(t, releases, tags)
    BY <1>6, <2>2 DEF RehearsalOK, Gone, Tagged, OwnProbes, Early
  <2>5. RehearsalOK(q, releases, tags)
    <3> HIDE DEF q
    <3> QED BY <1>6, <2>2, <2>3, <2>4 DEF RehearsalOK, Early, Between, Handling, Deleting
  <2>6. OwnOK(p, q, releases, tags)
    BY <2>2, <2>3, <2>5, RehearsalOwn DEF Withdrawing
  <2> QED BY <1>1, <1>6, <2>6, SilentGoes
<1>7. CASE Tag(p) = Version /\ GotoCreate(p, Version)
  <2>1. procs[p].mode = "publish"
    BY <1>1, <1>2, <1>7 DEF RoleOK
  <2> QED BY <1>1, <1>7, <2>1, PublicationCreates
<1> QED BY <1>3, <1>4, <1>5, <1>6, <1>7 DEF AssertAbsent

LEMMA FindRetainedOwn ==
    ASSUME IInv, OwnInv, IInv', VersionStays, NEW p \in Actors, FindRetained(p)
    PROVE  OwnInv' /\ Shown
<1> USE DEF At, Rev, Tag
<1>1. procs[p].pc \in Rehearsing /\ Silent /\ RoleOK(p, procs[p])
      /\ procs[p] \in Proc /\ procs[p].pc \notin Resting
  BY KnownHere DEF FindRetained, Unchanged, Silent
<1>2. procs[p].mode = "rehearse" /\ procs[p].pc \in Between
  BY <1>1 DEF RoleOK, Between
<1>3. p = "job" /\ RehearsalOK(procs[p], releases, tags) /\ Rev(p) \in Revisions
  BY <1>2, RehearsalIs
<1>4. procs[p].pc \notin Early /\ procs[p].probe = NoTag
  BY <1>2, <1>3 DEF RehearsalOK, Between, Early
<1>5. CASE At(p, "latestBefore")
           /\ procs' = [procs EXCEPT ![p] = [@ EXCEPT !.pc = "findRetained",
                            !.tag = Retained(Rev(p)), !.before = latest]]
  <2> DEFINE q == [procs[p] EXCEPT !.pc = "findRetained", !.tag = Retained(Rev(p)),
                                   !.before = latest]
  <2>1. /\ q.pc = "findRetained" /\ q.mode = "rehearse" /\ q.made = procs[p].made
        /\ q.tag = Retained(Rev(p)) /\ q.probe = NoTag /\ q.rev = Rev(p)
        /\ OwnProbes(q) = OwnProbes(procs[p])
    BY <1>1, <1>2, <1>4 DEF Proc, OwnProbes
  <2>2. procs' = [procs EXCEPT ![p] = q]
    BY <1>5
  <2>3. q.tag \notin Probes
    BY <1>3, <2>1, TagFacts
  <2> HIDE DEF q
  <2>4. RehearsalOK(q, releases, tags)
    BY <1>3, <1>4, <2>1, <2>3 DEF RehearsalOK, Early, Between, Handling, Deleting
  <2>5. OwnOK(p, q, releases, tags)
    BY <1>3, <2>1, <2>4, RehearsalOwn DEF Withdrawing
  <2> QED BY <1>1, <2>1, <2>2, <2>5, QuietActs DEF Silent
<1>6. ASSUME procs[p].pc \in {"findRetained", "retainedTag"},
             NEW pc \in {"retainedTag", "noRetainedTag", "metadata"}
      PROVE  OwnOK(p, [procs[p] EXCEPT !.pc = pc], releases, tags)
  <2> DEFINE q == [procs[p] EXCEPT !.pc = pc]
  <2>1. /\ q.pc = pc /\ q.mode = "rehearse" /\ q.made = procs[p].made
        /\ q.tag = procs[p].tag /\ q.probe = NoTag /\ q.rev = Rev(p)
        /\ OwnProbes(q) = OwnProbes(procs[p])
    BY <1>1, <1>2, <1>4 DEF Proc, OwnProbes
  <2>2. procs[p].tag \notin Probes
    BY <1>3, <1>6 DEF RehearsalOK
  <2> HIDE DEF q
  <2>3. RehearsalOK(q, releases, tags)
    BY <1>3, <1>4, <1>6, <2>1, <2>2 DEF RehearsalOK, Early, Between, Handling, Deleting
  <2>4. OwnOK(p, q, releases, tags)
    BY <1>3, <2>1, <2>3, RehearsalOwn DEF Withdrawing
  <2> QED BY <2>4 DEF q
<1>7. CASE /\ At(p, "findRetained")
           /\ Goto(p, IF Exists(Tag(p)) THEN "retainedTag" ELSE "noRetainedTag")
  BY <1>1, <1>6, <1>7, SilentGoes
<1>8. CASE At(p, "retainedTag") /\ Require(p, Tagged(Tag(p)), "metadata")
  BY <1>1, <1>6, <1>8, SilentRequires
<1>9. CASE Die(p)
  BY <1>1, <1>9, SilentDies
<1>10. CASE GotoCreate(p, FailureProbe(Rev(p)))
  BY <1>1, <1>2, <1>10, RehearsalCreates DEF OwnProbes
<1> QED BY <1>5, <1>7, <1>8, <1>9, <1>10 DEF FindRetained

LEMMA FindVersionOwn ==
    ASSUME IInv, OwnInv, IInv', VersionStays, NEW p \in Actors, FindVersion(p)
    PROVE  OwnInv' /\ Shown
<1> USE DEF At, Rev, Tag
<1>1. procs[p].pc \in {"versionTag", "versionRelease"} /\ Silent /\ RoleOK(p, procs[p])
      /\ OwnOK(p, procs[p], releases, tags) /\ procs[p] \in Proc /\ procs[p].pc \notin Resting
  BY KnownHere DEF FindVersion, Unchanged, Silent
<1>2. procs[p].mode = "publish"
  BY <1>1 DEF RoleOK
<1>3. \A pc \in {"absentRelease", "versionRelease"} :
          OwnOK(p, [procs[p] EXCEPT !.pc = pc], releases, tags)
  BY <1>1, <1>2, MovedFields DEF OwnOK, Withdrawing
<1>4. CASE Goto(p, "absentRelease")
  BY <1>1, <1>3, <1>4, SilentGoes
<1>5. CASE Require(p, tags[Version] = Rev(p), "versionRelease")
  BY <1>1, <1>3, <1>5, SilentRequires
<1>6. CASE procs' = [procs EXCEPT ![p] = [@ EXCEPT !.pc = "metadata", !.resumed = TRUE]]
  <2> DEFINE q == [procs[p] EXCEPT !.pc = "metadata", !.resumed = TRUE]
  <2>1. q.pc = "metadata" /\ q.mode = "publish" /\ q.made = procs[p].made
        /\ q.tag = procs[p].tag
    BY <1>1, <1>2 DEF Proc
  <2>2. procs' = [procs EXCEPT ![p] = q]
    BY <1>6
  <2> HIDE DEF q
  <2>3. OwnOK(p, q, releases, tags)
    BY <1>1, <1>2, <2>1 DEF OwnOK, Withdrawing
  <2> QED BY <1>1, <2>1, <2>2, <2>3, QuietActs DEF Silent
<1>7. CASE GotoCreate(p, Version)
  BY <1>1, <1>2, <1>7, PublicationCreates
<1> QED BY <1>4, <1>5, <1>6, <1>7 DEF FindVersion

(* A running process is in one of the three modes. *)
LEMMA ModeHere ==
    ASSUME NEW p \in Actors, RoleOK(p, procs[p]), procs[p].pc \notin Resting
    PROVE  procs[p].mode \in {"rehearse", "publish", "withdraw"}
BY DEF RoleOK, Proc

LEMMA VerifyOwn ==
    ASSUME IInv, OwnInv, IInv', VersionStays, NEW p \in Actors, Verify(p)
    PROVE  OwnInv' /\ Shown
<1> USE DEF At, Rev, Tag
<1>1. procs[p].pc \in {"metadata", "tagTarget", "exact", "download"} /\ Silent
      /\ RoleOK(p, procs[p]) /\ OwnOK(p, procs[p], releases, tags) /\ procs[p] \in Proc
      /\ procs[p].pc \notin Resting
  BY KnownHere DEF Verify, Unchanged, Silent
<1>2. ASSUME NEW pc, procs[p].mode = "rehearse",
             \/ procs[p].pc \in {"metadata", "tagTarget"} /\ pc \in {"tagTarget", "download"}
             \/ procs[p].pc = "download" /\ Tag(p) \in Probes /\ pc = "deleteRelease"
             \/ procs[p].pc = "download" /\ Tag(p) \notin Probes /\ pc = "latestSame"
      PROVE  OwnOK(p, [procs[p] EXCEPT !.pc = pc], releases, tags)
  <2> DEFINE q == [procs[p] EXCEPT !.pc = pc]
  <2>1. /\ q.pc = pc /\ q.mode = "rehearse" /\ q.made = procs[p].made
        /\ q.tag = procs[p].tag /\ q.probe = procs[p].probe /\ q.rev = Rev(p)
        /\ OwnProbes(q) = OwnProbes(procs[p])
    BY <1>1, <1>2 DEF Proc, OwnProbes
  <2>2. p = "job" /\ RehearsalOK(procs[p], releases, tags)
    BY <1>2, RehearsalIs
  <2> HIDE DEF q
  <2>3. RehearsalOK(q, releases, tags)
    BY <1>2, <2>1, <2>2 DEF RehearsalOK, Early, Between, Handling, Deleting
  <2>4. OwnOK(p, q, releases, tags)
    BY <1>2, <2>1, <2>2, <2>3, RehearsalOwn DEF Withdrawing
  <2> QED BY <2>4 DEF q
<1>3. CASE At(p, "metadata") /\ Require(p, releases[Tag(p)].target = Rev(p), "tagTarget")
  <2>1. procs[p].mode # "withdraw"
    BY <1>1, <1>3 DEF RoleOK
  <2>2. procs[p].mode = "publish" => OwnOK(p, [procs[p] EXCEPT !.pc = "tagTarget"], releases, tags)
    BY <1>1, MovedFields DEF OwnOK, Withdrawing
  <2> QED BY <1>1, <1>2, <1>3, <2>1, <2>2, ModeHere, SilentRequires
<1>4. CASE /\ At(p, "tagTarget")
           /\ Require(p, tags[Tag(p)] = Rev(p),
                      IF procs[p].mode # "withdraw" THEN "download"
                      ELSE IF Tag(p) = Version THEN "notLatest" ELSE "exact")
  <2> DEFINE pc == IF procs[p].mode # "withdraw" THEN "download"
                   ELSE IF Tag(p) = Version THEN "notLatest" ELSE "exact"
             q == [procs[p] EXCEPT !.pc = pc]
  <2>1. q.pc = pc /\ q.mode = procs[p].mode /\ q.made = procs[p].made
        /\ q.tag = procs[p].tag /\ q.rev = procs[p].rev
    BY <1>1 DEF Proc
  <2>2. CASE procs[p].mode = "rehearse"
    BY <1>1, <1>2, <1>4, <2>2, SilentRequires
  <2>3. CASE procs[p].mode = "publish"
    <3>1. Tag(p) = Version /\ pc = "download"
      BY <1>1, <1>4, <2>3 DEF RoleOK
    <3> HIDE DEF q
    <3>2. tags[Tag(p)] = Rev(p) => OwnOK(p, q, releases, tags)
      BY <1>1, <2>1, <2>3, <3>1 DEF OwnOK, Withdrawing
    <3> QED BY <1>1, <1>4, <3>2, SilentRequires DEF q
  <2>4. CASE procs[p].mode = "withdraw"
    <3> HIDE DEF q
    <3>1. OwnOK(p, q, releases, tags)
      BY <1>1, <2>1, <2>4 DEF OwnOK, Withdrawing
    <3> QED BY <1>1, <1>4, <3>1, SilentRequires DEF q
  <2> QED BY <1>1, <2>2, <2>3, <2>4, ModeHere
<1>5. CASE At(p, "exact") /\ Require(p, releases[Tag(p)].target = Rev(p), "deleteRelease")
  <2>1. procs[p].mode = "withdraw"
    BY <1>1, <1>5 DEF OwnOK, Withdrawing
  <2>2. OwnOK(p, [procs[p] EXCEPT !.pc = "deleteRelease"], releases, tags)
    BY <1>1, <2>1, MovedFields DEF OwnOK, Withdrawing
  <2> QED BY <1>1, <1>5, <2>2, SilentRequires
<1>6. ASSUME NEW expected, At(p, "download"),
             Require(p, releases[Tag(p)].assets = expected,
                     IF Tag(p) \in Probes THEN "deleteRelease"
                     ELSE IF Tag(p) # Version THEN "latestSame"
                     ELSE IF procs[p].resumed THEN "latestNow" ELSE "promote")
      PROVE  OwnInv' /\ Shown
  <2>1. procs[p].mode # "withdraw"
    BY <1>1, <1>6 DEF RoleOK
  <2>2. CASE procs[p].mode = "rehearse"
    <3>1. Tag(p) # Version
      BY <1>1, <2>2 DEF RoleOK
    <3> QED BY <1>1, <1>2, <1>6, <2>2, <3>1, SilentRequires
  <2>3. CASE procs[p].mode = "publish"
    <3>1. Tag(p) = Version
      BY <1>1, <1>6, <2>3 DEF RoleOK
    <3>2. \A pc \in {"latestNow", "promote"} :
             OwnOK(p, [procs[p] EXCEPT !.pc = pc], releases, tags)
      BY <1>1, <1>6, <2>3, MovedFields DEF OwnOK, Withdrawing
    <3> QED BY <1>1, <1>6, <3>1, <3>2, TagFacts, SilentRequires
  <2> QED BY <1>1, <2>1, <2>2, <2>3, ModeHere
<1> QED BY <1>3, <1>4, <1>5, <1>6 DEF Verify

LEMMA ProveAbsentOwn ==
    ASSUME IInv, OwnInv, IInv', VersionStays, NEW p \in Actors, ProveAbsent(p)
    PROVE  OwnInv' /\ Shown
<1> USE DEF At, Rev, Tag
<1>1. procs[p].pc \in {"proveRelease", "proveTag"} /\ Silent /\ RoleOK(p, procs[p])
      /\ OwnOK(p, procs[p], releases, tags) /\ procs[p] \in Proc /\ procs[p].pc \notin Resting
  BY KnownHere DEF ProveAbsent, Unchanged, Silent
<1>2. procs[p].mode \in {"rehearse", "withdraw"} /\ Tag(p) # Version
  BY <1>1 DEF RoleOK, Proc
<1>3. CASE At(p, "proveRelease") /\ Require(p, ~Exists(Tag(p)), "proveTag")
  <2> DEFINE q == [procs[p] EXCEPT !.pc = "proveTag"]
  <2>1. /\ q.pc = "proveTag" /\ q.mode = procs[p].mode /\ q.made = procs[p].made
        /\ q.tag = procs[p].tag /\ q.probe = procs[p].probe /\ q.rev = procs[p].rev
        /\ OwnProbes(q) = OwnProbes(procs[p])
    BY <1>1 DEF Proc, OwnProbes
  <2>2. ASSUME ~Exists(Tag(p)) PROVE OwnOK(p, q, releases, tags)
    <3> HIDE DEF q
    <3>1. CASE procs[p].mode = "rehearse"
      <4>1. p = "job" /\ RehearsalOK(procs[p], releases, tags)
        BY <3>1, RehearsalIs
      <4>2. RehearsalOK(q, releases, tags)
        BY <1>3, <2>1, <2>2, <4>1
           DEF RehearsalOK, Exists, Early, Between, Handling, Deleting
      <4> QED BY <2>1, <3>1, <4>1, <4>2, RehearsalOwn DEF Withdrawing
    <3>2. CASE procs[p].mode = "withdraw"
      BY <1>1, <2>1, <2>2, <3>2 DEF OwnOK, Withdrawing, Exists
    <3> QED BY <1>2, <3>1, <3>2
  <2> QED BY <1>1, <1>3, <2>2, SilentRequires
<1>4. CASE Die(p)
  BY <1>1, <1>4, SilentDies
<1>5. CASE At(p, "proveTag") /\ ~Tagged(Tag(p)) /\ Proved(p) /\ procs[p].mode = "rehearse"
  <2> DEFINE r == [procs[p] EXCEPT !.probe = NoTag]
             q == [r EXCEPT !.pc = "latestSame"]
  <2>1. /\ q.pc = "latestSame" /\ q.mode = "rehearse" /\ q.made = procs[p].made
        /\ q.tag = procs[p].tag /\ q.probe = NoTag /\ q.rev = procs[p].rev
        /\ OwnProbes(q) = OwnProbes(procs[p])
    BY <1>1, <1>5 DEF Proc, OwnProbes
  <2>2. procs' = [procs EXCEPT ![p] = q]
    BY <1>5 DEF Proved, Moved
  <2>3. p = "job" /\ RehearsalOK(procs[p], releases, tags)
    BY <1>5, RehearsalIs
  <2>4. procs[p].probe = procs[p].tag /\ Gone(procs[p].tag, releases, tags)
    BY <1>5, <2>3 DEF RehearsalOK, Deleting, Handling, Gone, Tagged
  <2>5. \A t \in OwnProbes(procs[p]) : Gone(t, releases, tags)
    BY <1>5, <2>3, <2>4 DEF RehearsalOK, Early
  <2> HIDE DEF q
  <2>6. RehearsalOK(q, releases, tags)
    BY <1>5, <2>1, <2>3, <2>5 DEF RehearsalOK, Early, Between, Handling, Deleting
  <2>7. OwnOK(p, q, releases, tags)
    BY <2>1, <2>3, <2>6, RehearsalOwn DEF Withdrawing
  <2> QED BY <1>1, <2>1, <2>2, <2>7, QuietActs DEF Silent
<1>6. CASE At(p, "proveTag") /\ ~Tagged(Tag(p)) /\ Proved(p) /\ procs[p].mode = "withdraw"
  <2> DEFINE r == [procs[p] EXCEPT !.probe = NoTag]
  <2>1. procs' = [procs EXCEPT ![p] = Moved(r, "succeeded")]
    BY <1>6 DEF Proved
  <2>2. Done(p)
    BY <1>1, <1>2, <1>6 DEF OwnOK, Done, Exists, Tagged
  <2> HIDE DEF r
  <2>3. OwnOK(p, Moved(r, "succeeded"), releases, tags)
    BY RestingOwn
  <2> QED BY <1>1, <2>1, <2>2, <2>3, QuietActs DEF Silent
<1> QED BY <1>2, <1>3, <1>4, <1>5, <1>6 DEF ProveAbsent

LEMMA CompareLatestOwn ==
    ASSUME IInv, OwnInv, IInv', VersionStays, NEW p \in Actors, CompareLatest(p)
    PROVE  OwnInv' /\ Shown
<1> USE DEF At, Rev, Tag
<1>1. procs[p].pc = "latestSame" /\ Silent /\ RoleOK(p, procs[p]) /\ procs[p] \in Proc
  BY KnownHere DEF CompareLatest, Unchanged, Silent
<1>2. procs[p].mode \in {"rehearse", "publish"} /\ Rev(p) \in Revisions
      /\ (procs[p].mode = "publish" => Tag(p) = Version)
  BY <1>1 DEF RoleOK, Proc
<1>3. CASE Die(p)
  BY <1>1, <1>3, SilentDies
<1>4. Tag(p) # Version => procs[p].mode = "rehearse" /\ procs[p].pc \in Between
  BY <1>1, <1>2 DEF Between
<1>5. CASE Tag(p) = FailureProbe(Rev(p)) /\ GotoCreate(p, WithdrawalProbe(Rev(p)))
  BY <1>1, <1>2, <1>4, <1>5, RehearsalCreates, TagFacts DEF OwnProbes
<1>6. CASE Tag(p) = WithdrawalProbe(Rev(p)) /\ GotoCreate(p, Retained(Rev(p)))
  BY <1>1, <1>2, <1>4, <1>6, RehearsalCreates, TagFacts
<1>7. CASE latest = procs[p].before /\ Tag(p) = Retained(Rev(p)) /\ Goto(p, "succeeded")
  <2>1. procs[p].mode = "rehearse" /\ procs[p].pc \in Between
    BY <1>2, <1>4, <1>7, TagFacts
  <2>2. RehearsalOK(procs[p], releases, tags)
    BY <2>1, RehearsalIs
  <2>3. \A t \in OwnProbes(procs[p]) : Gone(t, releases, tags)
    <3>1. procs[p].probe = NoTag /\ procs[p].pc \notin Early
      BY <1>1, <2>1, <2>2 DEF RehearsalOK, Early
    <3>2. NoTag \notin OwnProbes(procs[p])
      BY <1>2, TagFacts DEF OwnProbes
    <3> QED BY <2>2, <3>1, <3>2 DEF RehearsalOK
  <2>4. Done(p)
    BY <1>7, <2>1, <2>3 DEF Done, OwnProbes, Gone, Exists, Tagged
  <2> QED BY <1>1, <1>7, <2>4, SilentSucceeds
<1> QED BY <1>3, <1>5, <1>6, <1>7 DEF CompareLatest

LEMMA PromoteOwn ==
    ASSUME IInv, OwnInv, IInv', VersionStays, NEW p \in Actors, Promote(p)
    PROVE  OwnInv' /\ Shown
<1> USE DEF At, Rev, Tag
<1>1. procs[p].pc \in {"latestNow", "promote", "confirm"} /\ Silent /\ RoleOK(p, procs[p])
      /\ OwnOK(p, procs[p], releases, tags) /\ procs[p] \in Proc /\ procs[p].pc \notin Resting
  BY KnownHere DEF Promote, Unchanged, Silent
<1>2. procs[p].mode = "publish" /\ tags[Version] = Rev(p)
  BY <1>1 DEF RoleOK, OwnOK
<1>3. \A pc \in {"promote", "confirm"} : OwnOK(p, [procs[p] EXCEPT !.pc = pc], releases, tags)
  BY <1>1, <1>2, MovedFields DEF OwnOK, Withdrawing
<1>4. CASE Die(p)
  BY <1>1, <1>4, SilentDies
<1>5. CASE Goto(p, "promote") \/ Goto(p, "confirm")
  BY <1>1, <1>3, <1>5, SilentGoes
<1>6. CASE latest = Version /\ Goto(p, "succeeded")
  <2>1. Done(p)
    BY <1>2, <1>6 DEF Done
  <2> QED BY <1>1, <1>6, <2>1, SilentSucceeds
<1> QED BY <1>4, <1>5, <1>6 DEF Promote, Require

-----------------------------------------------------------------------------
(* The steps that write *)

LEMMA StoreStays ==
    ASSUME IInv, OwnInv, IInv', VersionStays, NEW p \in Actors,
           procs[p].pc \in Writing \cup Trapped,
           procs[p].mode = "rehearse" => \A t \in Probes \ {procs[p].probe} :
               releases'[t] = releases[t] /\ tags'[t] = tags[t]
    PROVE  OwnOK(p, procs[p], releases', tags')
<1>1. RoleOK(p, procs[p]) /\ OwnOK(p, procs[p], releases, tags) /\ procs[p] \in Proc
  BY KnownHere
<1>2. CASE procs[p].mode = "rehearse"
  <2>1. p = "job" /\ RehearsalOK(procs[p], releases, tags) /\ OwnProbes(procs[p]) \subseteq Probes
    BY <1>2, RehearsalIs
  <2>2. \A t \in OwnProbes(procs[p]) \ {procs[p].probe} :
           Gone(t, releases, tags) => Gone(t, releases', tags')
    BY <1>2, <2>1 DEF Gone
  <2>3. procs[p].pc \notin Early \cup {"proveTag"} \cup Withdrawing \cup Resting
        \/ procs[p].pc = "withdrawRelease"
    BY DEF Early, Withdrawing
  <2>4. procs[p].pc # "withdrawRelease"
    BY <1>1, <1>2 DEF OwnOK, Withdrawing
  <2>5. RehearsalOK(procs[p], releases', tags')
    BY <2>1, <2>2, <2>3, <2>4 DEF RehearsalOK, Early
  <2> QED BY <1>2, <2>1, <2>3, <2>4, <2>5, RehearsalOwn
<1>3. CASE procs[p].mode = "publish"
  <2>1. procs[p].pc = "promote" => tags'[Version] = procs[p].rev
    BY <1>1, <1>3 DEF OwnOK, RoleOK, VersionStays, Tagged, Revisions
  <2> QED BY <1>1, <1>3, <2>1 DEF OwnOK
<1>4. CASE procs[p].mode = "withdraw"
  BY <1>1, <1>4 DEF OwnOK
<1> QED BY <1>1, <1>2, <1>3, <1>4, ModeHere

LEMMA DeleteOwn ==
    ASSUME IInv, OwnInv, IInv', VersionStays, NEW p \in Actors,
           NEW pc \in {"tagPresent", "proveRelease", "proveGone"}, NEW present,
           procs[p].pc \in {"deleteRelease", "deleteTag", "withdrawRelease"},
           pc = "proveGone" <=> procs[p].pc = "withdrawRelease",
           \/ Delete(p, present, WithoutRelease(Tag(p)), pc)
           \/ Delete(p, present, WithoutTag(Tag(p)), pc)
    PROVE  OwnInv' /\ Shown
<1> USE DEF Tag
<1>1. RoleOK(p, procs[p]) /\ OwnOK(p, procs[p], releases, tags) /\ procs[p] \in Proc
      /\ procs[p].pc \notin Resting /\ procs[p].tag \in Tags /\ procs[p].pc \in Writing
  BY KnownHere DEF RoleOK
<1>2. procs[p].mode \in {"rehearse", "withdraw"}
  <2>1. procs[p].mode # "publish"
    BY <1>1 DEF RoleOK, OwnOK, Withdrawing
  <2> QED BY <1>1, <2>1, ModeHere
<1>3. procs[p].mode = "rehearse" =>
         /\ p = "job" /\ procs[p].tag \in Probes /\ procs[p].probe = procs[p].tag
         /\ RehearsalOK(procs[p], releases, tags) /\ procs[p].pc # "withdrawRelease"
  BY <1>1, RehearsalIs DEF RehearsalOK, Deleting, Handling, OwnOK, Withdrawing
<1>4. procs[p].mode = "withdraw" => p = "maintainer" /\ procs[p].tag \notin Probes
  BY <1>1 DEF RoleOK, OwnOK
<1>5. \A t \in Tags \ {procs[p].tag} : releases'[t] = releases[t] /\ tags'[t] = tags[t]
  BY DEF Delete, Unchanged, WithoutRelease, WithoutTag, IInv, StoreInv
<1>6. Touches(p)
  BY <1>2, <1>3, <1>4, <1>5, TagFacts DEF Touches, Actors
<1>7. OwnOK(p, procs[p], releases', tags')
  <2>1. procs[p].mode = "rehearse" =>
           \A t \in Probes \ {procs[p].probe} : releases'[t] = releases[t] /\ tags'[t] = tags[t]
    BY <1>3, <1>5, TagFacts
  <2> QED BY <1>1, <2>1, StoreStays
<1>8. OwnOK(p, [procs[p] EXCEPT !.pc = pc], releases', tags')
  <2> DEFINE q == [procs[p] EXCEPT !.pc = pc]
  <2>1. /\ q.pc = pc /\ q.mode = procs[p].mode /\ q.made = procs[p].made
        /\ q.tag = procs[p].tag /\ q.probe = procs[p].probe /\ q.rev = procs[p].rev
        /\ OwnProbes(q) = OwnProbes(procs[p])
    BY <1>1 DEF Proc, OwnProbes
  <2> HIDE DEF q
  <2>2. CASE procs[p].mode = "rehearse"
    <3>1. RehearsalOK(procs[p], releases', tags')
      BY <1>7, <2>2 DEF OwnOK
    <3>2. RehearsalOK(q, releases', tags')
      BY <1>3, <2>1, <2>2, <3>1 DEF RehearsalOK, Early, Between, Handling, Deleting
    <3>3. OwnOK("job", q, releases', tags')
      BY <1>3, <2>1, <2>2, <3>2, RehearsalOwn DEF Withdrawing
    <3> QED BY <1>3, <2>2, <3>3 DEF q
  <2>3. CASE procs[p].mode = "withdraw"
    <3>1. OwnOK(p, q, releases', tags')
      BY <1>1, <1>7, <2>1, <2>3 DEF OwnOK, Withdrawing
    <3> QED BY <3>1 DEF q
  <2> QED BY <1>2, <2>2, <2>3
<1>9. CASE Die(p)
  BY <1>1, <1>6, <1>7, <1>9, DieActs
<1>10. CASE Goto(p, pc)
  BY <1>6, <1>8, <1>10, GotoActs
<1> QED BY <1>9, <1>10 DEF Delete

LEMMA DeleteIdentityOwn ==
    ASSUME IInv, OwnInv, IInv', VersionStays, NEW p \in Actors, DeleteIdentity(p)
    PROVE  OwnInv' /\ Shown
<1> USE DEF At, Tag
<1>1. RoleOK(p, procs[p]) /\ OwnOK(p, procs[p], releases, tags) /\ procs[p] \in Proc
  BY KnownHere
<1>2. CASE At(p, "deleteRelease")
           /\ Delete(p, Exists(Tag(p)), WithoutRelease(Tag(p)), "tagPresent")
  BY <1>2, DeleteOwn
<1>3. ASSUME At(p, "tagPresent"), NEW pc \in {"deleteTag", "proveRelease"}, Goto(p, pc), Silent
      PROVE  OwnInv' /\ Shown
  <2> DEFINE q == [procs[p] EXCEPT !.pc = pc]
  <2>1. /\ q.pc = pc /\ q.mode = procs[p].mode /\ q.made = procs[p].made
        /\ q.tag = procs[p].tag /\ q.probe = procs[p].probe /\ q.rev = procs[p].rev
        /\ OwnProbes(q) = OwnProbes(procs[p])
    BY <1>1 DEF Proc, OwnProbes
  <2>2. procs[p].mode \in {"rehearse", "withdraw"}
    BY <1>1, <1>3 DEF RoleOK, Proc
  <2>3. OwnOK(p, q, releases, tags)
    <3> HIDE DEF q
    <3>1. CASE procs[p].mode = "rehearse"
      <4>1. p = "job" /\ RehearsalOK(procs[p], releases, tags)
        BY <3>1, RehearsalIs
      <4>2. RehearsalOK(q, releases, tags)
        BY <1>3, <2>1, <3>1, <4>1 DEF RehearsalOK, Early, Between, Handling, Deleting
      <4> QED BY <1>3, <2>1, <3>1, <4>1, <4>2, RehearsalOwn DEF Withdrawing
    <3>2. CASE procs[p].mode = "withdraw"
      BY <1>1, <1>3, <2>1, <3>2 DEF OwnOK, Withdrawing
    <3> QED BY <2>2, <3>1, <3>2
  <2> QED BY <1>3, <2>3, SilentGoes
<1>4. CASE At(p, "deleteTag")
           /\ Delete(p, Tagged(Tag(p)), WithoutTag(Tag(p)), "proveRelease")
  BY <1>4, DeleteOwn
<1> QED BY <1>2, <1>3, <1>4 DEF DeleteIdentity, Unchanged, Silent

LEMMA WithdrawOwn ==
    ASSUME IInv, OwnInv, IInv', VersionStays, NEW p \in Actors, Withdraw(p)
    PROVE  OwnInv' /\ Shown
<1> USE DEF At, Rev, Tag
<1>1. procs[p].pc \in Withdrawing \ {"exact"} /\ RoleOK(p, procs[p])
      /\ OwnOK(p, procs[p], releases, tags) /\ procs[p] \in Proc /\ procs[p].pc \notin Resting
  BY KnownHere DEF Withdraw, Withdrawing
<1>2. procs[p].mode = "withdraw" /\ (procs[p].pc # "present" => Tag(p) = Version)
  BY <1>1 DEF OwnOK, Withdrawing
<1>3. ASSUME NEW pc \in {"tagTarget", "withdrawRelease", "tagKept"},
             procs[p].pc = "present" => pc = "tagTarget"
      PROVE  OwnOK(p, [procs[p] EXCEPT !.pc = pc], releases, tags)
  BY <1>1, <1>2, <1>3, MovedFields DEF OwnOK, Withdrawing
<1>4. CASE At(p, "present") /\ Require(p, Exists(Tag(p)), "tagTarget") /\ Silent
  BY <1>1, <1>3, <1>4, SilentRequires
<1>5. CASE At(p, "notLatest") /\ Require(p, latest # Tag(p), "withdrawRelease") /\ Silent
  BY <1>1, <1>3, <1>5, SilentRequires
<1>6. CASE At(p, "withdrawRelease")
           /\ Delete(p, Exists(Tag(p)), WithoutRelease(Tag(p)), "proveGone")
  BY <1>6, DeleteOwn
<1>7. CASE At(p, "proveGone") /\ Require(p, ~Exists(Tag(p)), "tagKept") /\ Silent
  BY <1>1, <1>3, <1>7, SilentRequires
<1>8. CASE At(p, "tagKept") /\ Require(p, tags[Tag(p)] = Rev(p), "succeeded") /\ Silent
  <2>1. CASE tags[Tag(p)] = Rev(p)
    <3>1. Done(p)
      BY <1>2, <1>8, <2>1 DEF Done
    <3> QED BY <1>8, <2>1, <3>1, SilentSucceeds DEF Require
  <2>2. CASE tags[Tag(p)] # Rev(p)
    BY <1>1, <1>8, <2>2, SilentDies DEF Require
  <2> QED BY <2>1, <2>2
<1> QED BY <1>4, <1>5, <1>6, <1>7, <1>8 DEF Withdraw, Unchanged, Silent

LEMMA CallFailsOwn ==
    ASSUME IInv, OwnInv, IInv', VersionStays, NEW p \in Actors, CallFails(p)
    PROVE  OwnInv' /\ Shown
<1> USE DEF At
<1>1. Silent /\ RoleOK(p, procs[p]) /\ OwnOK(p, procs[p], releases, tags) /\ procs[p] \in Proc
  BY KnownHere DEF CallFails, Silent
<1>2. CASE At(p, "latestNow") /\ Goto(p, "promote")
  <2>1. OwnOK(p, [procs[p] EXCEPT !.pc = "promote"], releases, tags)
    <3>1. procs[p].mode = "publish"
      BY <1>1, <1>2 DEF RoleOK
    <3> QED BY <1>1, <1>2, <3>1, MovedFields DEF OwnOK, Withdrawing
  <2> QED BY <1>1, <1>2, <2>1, SilentGoes
<1>3. CASE At(p, "notLatest") /\ Goto(p, "withdrawRelease")
  <2>1. OwnOK(p, [procs[p] EXCEPT !.pc = "withdrawRelease"], releases, tags)
    BY <1>1, <1>3, MovedFields DEF OwnOK, Withdrawing
  <2> QED BY <1>1, <1>3, <2>1, SilentGoes
<1>4. CASE procs[p].pc \in (Reading \cup Writing) /\ Die(p)
  BY <1>1, <1>4, SilentDies
<1> QED BY <1>2, <1>3, <1>4 DEF CallFails

LEMMA KillOwn ==
    ASSUME IInv, OwnInv, IInv', VersionStays, NEW p \in Actors, Kill(p)
    PROVE  OwnInv' /\ Shown
<1>1. procs' = [procs EXCEPT ![p] = Moved(procs[p], "killed")] /\ UNCHANGED <<releases, tags>>
  BY DEF Kill, Goto
<1>2. OwnOK(p, Moved(procs[p], "killed"), releases, tags) /\ Moved(procs[p], "killed").pc = "killed"
  BY RestingOwn
<1> QED BY <1>1, <1>2, QuietActs

LEMMA BeginOwn ==
    ASSUME IInv, OwnInv, IInv', VersionStays, NEW p \in Actors,
           NEW mode \in {"rehearse", "publish", "withdraw"}, NEW r \in Revisions, NEW t,
           Begin(p, mode, r, t), p = "maintainer" => t \notin Probes
    PROVE  OwnInv' /\ Shown
<1> DEFINE q == [Idle EXCEPT !.mode = mode, !.rev = r, !.tag = t, !.pc = "preflight"]
<1>1. q.pc = "preflight" /\ q.mode = mode /\ q.rev = r /\ q.tag = t /\ q.probe = NoTag /\ q.made = {}
  BY DEF Idle
<1>2. procs' = [procs EXCEPT ![p] = q] /\ UNCHANGED <<releases, tags>>
  BY DEF Begin, Unchanged
<1> HIDE DEF q
<1>3. RehearsalOK(q, releases, tags)
  BY <1>1 DEF RehearsalOK, Early, Between, Handling, Deleting
<1>4. OwnOK(p, q, releases, tags)
  BY <1>1, <1>3 DEF OwnOK, Withdrawing
<1> QED BY <1>1, <1>2, <1>4, QuietActs

(* The trap erases the probe, and says so where it cannot tell. *)
LEMMA TrapOwn ==
    ASSUME IInv, OwnInv, IInv', VersionStays, NEW p \in Actors, Trap(p)
    PROVE  OwnInv' /\ Shown
<1> USE DEF At
<1> DEFINE probe == procs[p].probe
<1>1. procs[p].pc \in Trapped /\ RoleOK(p, procs[p]) /\ OwnOK(p, procs[p], releases, tags)
      /\ procs[p] \in Proc
  BY KnownHere DEF Trap
<1>2. procs[p].mode = "rehearse" /\ probe \in Probes
  BY <1>1, TagFacts DEF RoleOK
<1>3. p = "job" /\ RehearsalOK(procs[p], releases, tags) /\ OwnProbes(procs[p]) \subseteq Probes
  BY <1>2, RehearsalIs
<1>4. CASE (WithoutRelease(probe) \/ WithoutTag(probe)
            \/ UNCHANGED <<main, releases, tags, latest>>)
           /\ (Goto(p, "trapTag") \/ Goto(p, "trapProve"))
  <2>1. \A t \in Tags \ {probe} : releases'[t] = releases[t] /\ tags'[t] = tags[t]
    BY <1>4 DEF WithoutRelease, WithoutTag, IInv, StoreInv
  <2>2. Touches(p)
    BY <1>2, <1>3, <2>1 DEF Touches
  <2>3. OwnOK(p, procs[p], releases', tags')
    BY <1>1, <2>1, StoreStays, TagFacts
  <2>4. ASSUME NEW pc \in {"trapTag", "trapProve"}
        PROVE  OwnOK(p, [procs[p] EXCEPT !.pc = pc], releases', tags')
    <3> DEFINE q == [procs[p] EXCEPT !.pc = pc]
    <3>1. /\ q.pc = pc /\ q.mode = procs[p].mode /\ q.made = procs[p].made
          /\ q.tag = procs[p].tag /\ q.probe = procs[p].probe /\ q.rev = procs[p].rev
          /\ OwnProbes(q) = OwnProbes(procs[p])
      BY <1>1 DEF Proc, OwnProbes
    <3>2. RehearsalOK(procs[p], releases', tags')
      BY <1>2, <2>3 DEF OwnOK
    <3> HIDE DEF q
    <3>3. RehearsalOK(q, releases', tags')
      BY <1>1, <3>1, <3>2 DEF RehearsalOK, Early, Between, Handling, Deleting
    <3>4. OwnOK(p, q, releases', tags')
      BY <1>2, <1>3, <3>1, <3>3, RehearsalOwn DEF Withdrawing
    <3> QED BY <3>4 DEF q
  <2> QED BY <1>4, <2>2, <2>4, GotoActs
<1>5. ASSUME UNCHANGED <<main, releases, tags, latest>>, NEW w,
             ~w => ~Exists(probe) /\ ~Tagged(probe),
             procs' = [procs EXCEPT ![p] = [Moved(@, "failed") EXCEPT !.warned = w]]
      PROVE  OwnInv' /\ Shown
  <2> DEFINE m == Moved(procs[p], "failed")
             q == [m EXCEPT !.warned = w]
  <2>1. m = [Idle EXCEPT !.pc = "failed", !.made = procs[p].made]
    BY DEF Moved
  <2> HIDE DEF m
  <2>2. q.pc = "failed" /\ q.mode = "none" /\ q.made = procs[p].made /\ q.warned = w
        /\ q.tag = NoTag
    BY <2>1 DEF Idle
  <2>3. procs' = [procs EXCEPT ![p] = q]
    BY <1>5 DEF m
  <2>4. ~w => \A t \in procs[p].made : Gone(t, releases, tags)
    BY <1>1, <1>3, <1>5 DEF RehearsalOK, Gone, Exists, Tagged, Early
  <2> HIDE DEF q
  <2>5. OwnOK(p, q, releases, tags)
    BY <1>3, <2>2, <2>4 DEF OwnOK, Withdrawing
  <2> QED BY <1>5, <2>2, <2>3, <2>5, QuietActs
<1>6. CASE /\ \E answered \in BOOLEAN :
                procs' = [procs EXCEPT ![p] =
                      [Moved(@, "failed") EXCEPT
                          !.warned = ~answered \/ Exists(probe) \/ Tagged(probe)]]
           /\ UNCHANGED <<main, releases, tags, latest>>
  <2>1. PICK answered \in BOOLEAN :
           procs' = [procs EXCEPT ![p] =
                      [Moved(@, "failed") EXCEPT
                          !.warned = ~answered \/ Exists(probe) \/ Tagged(probe)]]
    BY <1>6
  <2> DEFINE w == ~answered \/ Exists(probe) \/ Tagged(probe)
  <2>2. ~w => ~Exists(probe) /\ ~Tagged(probe)
    OBVIOUS
  <2>3. procs' = [procs EXCEPT ![p] = [Moved(@, "failed") EXCEPT !.warned = w]]
    BY <2>1
  <2> HIDE DEF w
  <2> QED BY <1>5, <1>6, <2>2, <2>3
<1> QED BY <1>4, <1>6 DEF Trap

(* A probe is made with the trap already told of it. *)
LEMMA CreateOwn ==
    ASSUME IInv, OwnInv, IInv', VersionStays, NEW p \in Actors, Create(p)
    PROVE  OwnInv' /\ Shown
<1> USE DEF At, Rev, Tag
<1> DEFINE t == Tag(p)
<1>1. procs[p].pc = "create" /\ RoleOK(p, procs[p]) /\ OwnOK(p, procs[p], releases, tags)
      /\ procs[p] \in Proc /\ procs[p].pc \notin Resting
  BY KnownHere DEF Create
<1>2. Rev(p) \in Revisions /\ t \in Tags /\ procs[p].mode \in {"rehearse", "publish"} /\ p = "job"
      /\ (procs[p].mode = "publish" => t = Version)
  BY <1>1 DEF RoleOK, Proc, Actors
<1>3. CASE Die(p) /\ Unchanged
  BY <1>1, <1>3, SilentDies DEF Unchanged, Silent
<1>4. ASSUME NEW pc \in {"download", "metadata", AfterFailure(p)}, NEW rev,
             t \notin Probes => rev = Rev(p), NEW assets,
             releases' = [releases EXCEPT ![t] = Release(Rev(p), assets)],
             tags' = [tags EXCEPT ![t] = rev],
             procs' = [procs EXCEPT ![p] = Moved(Making(@, t), pc)],
             procs[p].mode = "publish" => pc # "download"
      PROVE  OwnInv' /\ Shown
  <2> DEFINE r == Making(procs[p], t)
             q == [r EXCEPT !.pc = pc]
  <2>1. \A u \in Tags \ {t} : releases'[u] = releases[u] /\ tags'[u] = tags[u]
    BY <1>4 DEF IInv, StoreInv
  <2>2. t \notin Probes => tags'[t] # NoRevision
    BY <1>2, <1>4 DEF IInv, StoreInv, Revisions
  <2>3. Touches(p)
    BY <1>2, <2>1, <2>2 DEF Touches
  <2>4. procs[p].mode = "rehearse" =>
           /\ RehearsalOK(procs[p], releases, tags)
           /\ procs[p].probe = IF t \in Probes THEN t ELSE NoTag
           /\ {t} \cap Probes \subseteq OwnProbes(procs[p])
    <3> SUFFICES ASSUME procs[p].mode = "rehearse"
                 PROVE  /\ RehearsalOK(procs[p], releases, tags)
                        /\ procs[p].probe = IF t \in Probes THEN t ELSE NoTag
                        /\ {t} \cap Probes \subseteq OwnProbes(procs[p])
      OBVIOUS
    <3>1. RehearsalOK(procs[p], releases, tags)
      BY RehearsalIs
    <3>2. procs[p].probe = (IF t \in Probes THEN t ELSE NoTag)
          /\ procs[p].probe \in OwnProbes(procs[p]) \cup {NoTag}
      BY <1>1, <3>1 DEF RehearsalOK, Handling
    <3> QED BY <3>1, <3>2, TagFacts
  <2>5. OwnOK(p, procs[p], releases', tags')
    <3>1. procs[p].mode = "rehearse" =>
             \A u \in Probes \ {procs[p].probe} : releases'[u] = releases[u] /\ tags'[u] = tags[u]
      BY <2>1, <2>4, TagFacts
    <3> QED BY <1>1, <3>1, StoreStays
  <2>6. r \in Proc /\ r.mode = procs[p].mode /\ r.pc = "create" /\ r.tag = t
        /\ r.rev = Rev(p) /\ r.probe = procs[p].probe
        /\ r.made = procs[p].made \cup ({t} \cap Probes)
        /\ OwnProbes(r) = OwnProbes(procs[p])
    BY <1>1 DEF Making, Proc, OwnProbes
  <2> HIDE DEF r
  <2>7. RoleOK(p, r)
    BY <1>1, <2>6 DEF RoleOK
  <2>8. procs[p].mode = "publish" => r.made = {}
    BY <1>1, <1>2, <2>6, TagFacts DEF OwnOK
  <2>9. procs[p].mode = "rehearse" => RehearsalOK(r, releases', tags')
    <3> SUFFICES ASSUME procs[p].mode = "rehearse" PROVE RehearsalOK(r, releases', tags')
      OBVIOUS
    <3>1. RehearsalOK(procs[p], releases', tags')
      BY <2>5 DEF OwnOK
    <3> QED BY <1>1, <2>4, <2>6, <3>1 DEF RehearsalOK, Early, Between, Handling, Deleting
  <2>10. OwnOK(p, r, releases', tags')
    BY <1>2, <2>6, <2>8, <2>9 DEF OwnOK, Withdrawing
  <2>11. CASE pc = AfterFailure(p)
    <3>1. OwnOK(p, Moved(r, pc), releases', tags') /\ Moved(r, pc).pc # "succeeded"
      BY <2>6, <2>7, <2>10, <2>11, DieOwn DEF AfterFailure
    <3>2. procs' = [procs EXCEPT ![p] = Moved(r, pc)]
      BY <1>4 DEF r
    <3> QED BY <2>3, <3>1, <3>2, OneActs
  <2>12. CASE pc \in {"download", "metadata"}
    <3>1. /\ q.pc = pc /\ q.mode = procs[p].mode /\ q.made = r.made
          /\ q.tag = t /\ q.probe = procs[p].probe /\ q.rev = Rev(p)
          /\ OwnProbes(q) = OwnProbes(r)
      BY <2>6 DEF Proc, OwnProbes
    <3>2. Moved(r, pc) = q
      BY <2>12 DEF Moved
    <3>3. procs' = [procs EXCEPT ![p] = q]
      BY <1>4, <3>2 DEF r
    <3> HIDE DEF q
    <3>4. procs[p].mode = "rehearse" => RehearsalOK(q, releases', tags')
      BY <2>6, <2>9, <2>12, <3>1 DEF RehearsalOK, Early, Between, Handling, Deleting
    <3>5. OwnOK(p, q, releases', tags')
      BY <1>2, <1>4, <2>8, <2>12, <3>1, <3>4 DEF OwnOK, Withdrawing
    <3> QED BY <2>3, <2>12, <3>1, <3>3, <3>5, OneActs
  <2> QED BY <2>11, <2>12
<1>5. CASE ~Exists(t)
  <2>1. PICK assets \in {"accepted", "changed"}, answered \in BOOLEAN :
          LET draft == t = FailureProbe(Rev(p))
              next == IF draft THEN "download" ELSE "metadata"
          IN  /\ releases' = [releases EXCEPT ![t] = Release(Rev(p), assets)]
              /\ tags' = [tags EXCEPT ![t] = IF draft THEN @ ELSE Rev(p)]
              /\ procs' = [procs EXCEPT ![p] =
                    Moved(Making(@, t), IF answered THEN next ELSE AfterFailure(p))]
    BY <1>5 DEF Create
  <2> DEFINE rev == IF t = FailureProbe(Rev(p)) THEN tags[t] ELSE Rev(p)
             next == IF t = FailureProbe(Rev(p)) THEN "download" ELSE "metadata"
             pc == IF answered THEN next ELSE AfterFailure(p)
  <2>2. t \notin Probes => rev = Rev(p)
    BY <1>2, TagFacts
  <2>3. AfterFailure(p) # "download"
    BY DEF AfterFailure
  <2>4. pc \in {"download", "metadata", AfterFailure(p)} /\ (procs[p].mode = "publish" => pc # "download")
    BY <1>2, <2>3, TagFacts
  <2>5. /\ releases' = [releases EXCEPT ![t] = Release(Rev(p), assets)]
        /\ tags' = [tags EXCEPT ![t] = rev]
        /\ procs' = [procs EXCEPT ![p] = Moved(Making(@, t), pc)]
    BY <2>1
  <2> HIDE DEF rev, pc, next, t
  <2> QED BY <1>4, <2>2, <2>4, <2>5
<1> QED BY <1>3, <1>5 DEF Create

-----------------------------------------------------------------------------

LEMMA InitOwnInv == Init => OwnInv
<1> SUFFICES ASSUME Init PROVE OwnInv
  OBVIOUS
<1>1. Idle.pc = "idle" /\ Idle.mode = "none" /\ Idle.made = {} /\ Idle.tag = NoTag
  BY DEF Idle
<1> QED BY <1>1, TagFacts DEF Init, OwnInv, OwnOK, Withdrawing

LEMMA NextKeepsOwnInv == IInv /\ OwnInv /\ [Next]_vars => OwnInv' /\ [Shown]_vars
<1> SUFFICES ASSUME IInv, OwnInv, [Next]_vars PROVE OwnInv' /\ Shown
  OBVIOUS
<1>1. CASE UNCHANGED vars
  BY <1>1 DEF vars, OwnInv, Shown
<1>2. CASE Next
  <2>1. IInv' /\ VersionStays
    BY NextKeepsIInv DEF vars, VersionStays
  <2>2. CASE Start("rehearse") \/ Start("publish")
    BY <2>1, <2>2, BeginOwn DEF Start, Actors
  <2>3. CASE StartWithdrawal
    BY <2>1, <2>3, BeginOwn, TagFacts DEF StartWithdrawal, Actors
  <2>4. CASE MoveMain
    BY <2>4 DEF MoveMain, OwnInv, Shown
  <2>5. ASSUME NEW p \in Actors, Work(p) \/ CallFails(p) \/ Kill(p) PROVE OwnInv' /\ Shown
    BY <2>1, <2>5, PreflightOwn, AssertAbsentOwn, FindRetainedOwn, FindVersionOwn, CreateOwn,
       VerifyOwn, DeleteIdentityOwn, ProveAbsentOwn, CompareLatestOwn, PromoteOwn,
       WithdrawOwn, TrapOwn, CallFailsOwn, KillOwn DEF Work
  <2> QED BY <1>2, <2>2, <2>3, <2>4, <2>5 DEF Next
<1> QED BY <1>1, <1>2

LEMMA OwnInvariant == Spec => [](IInv /\ OwnInv)
BY InitIInv, NextKeepsIInv, InitOwnInv, NextKeepsOwnInv, PTL DEF Spec

(* A rehearsal that fails leaves no probe that it made, or says so: one that
   says nothing has no release and no tag of its own left at the service. *)
THEOREM LeftoversReported == Spec => []LeftoverIsReported
<1>1. OwnInv => LeftoverIsReported
  BY DEF OwnInv, OwnOK, Gone, LeftoverIsReported, Exists, Tagged
<1> QED BY <1>1, OwnInvariant, PTL

(* What a run reports as done, rehearsal, publication or withdrawal, is done
   when it says so, whatever failed or was taken back before. *)
THEOREM SuccessProved == Spec => SuccessIsProved
<1>1. Shown <=> \A p \in Actors :
                   (procs'[p].pc = "succeeded" /\ procs[p].pc # "succeeded") => Done(p)
  BY DEF Shown
<1> QED BY <1>1, OwnInvariant, NextKeepsOwnInv, PTL DEF Spec, SuccessIsProved
=============================================================================
