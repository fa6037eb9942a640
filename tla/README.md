# Verification of luad

`luad` disassembles and analyses Lua bytecode. This directory holds TLA+ models
of the parts of it whose correctness is a matter of order, iteration, limits,
change or failure; the TLC configurations that check them on small instances;
and proofs that TLAPS checks for every instance. The reference is always the
code; paths below are relative to the repository, `analysis` stands for
`crates/luad-analysis/src`, `core` for `crates/luad-core/src`, `cli` for
`crates/luad-cli/src`, and line numbers are of this commit.

    tlasany M.tla                    parse a module
    tlc -config X.cfg M              check a run (the module of each run is in PROJECT.json)
    tlapm MProofs.tla                check the proofs of a module

`PROJECT.json` is the index: components, runs, the source lines every definition
models, hazards with the properties that guard them, theorems, findings, and for
every checked property one mutation of the model that must violate it. The
mutated forms stand in the modules, each before the definition it changes and
marked "Mutant"; no other definition uses them.

## 1. Inventory

| part | state | operations | what makes it correct | modelled by |
|---|---|---|---|---|
| bounded reader (`core/reader.rs`, `limits.rs`) | cursor, prototype path, totals charged | reads, varints, `charge_instructions`, `enter_proto`, guard drop | nothing is reserved beyond a limit, nothing read past the end; the path of a diagnostic is the prototype it is about | `ChunkReads`, `ChunkLoader` |
| decoders (`luad-dialect-lua5x/chunk.rs`, `header.rs`) | the call stack of `load_proto`, the string table of Lua 5.5 | one recursive descent per dialect | a dump is read back as written, a cut or damaged one is refused, ranges nest | `ChunkReads`, `ChunkLoader`, `ChunkFormat` |
| roles, validator, lifter (`roles.rs`, `validator.rs`, `lifter.rs`) | a role per word | role discovery, word checks, lifting | what is accepted executes no word that is no instruction and names no operand that is not declared | `Lua51Code` .. `Lua55Code`, `Lua51Effects`, `Operands` |
| control-flow graph (`analysis/cfg.rs`) | blocks, edges, marks, dominator sets | build, reach search, dominator iteration, frontiers | the graph covers every execution; reachability, dominators, frontiers are what the words mean | `CodeGraph`, `Dominators`, `ControlFlow` |
| callee analysis (`callees.rs`, `call_frame.rs`) | states per block, worklist, step budget | worklist turns, end of the budget, collection of facts | no resolved callee contradicts an execution; a spent budget is visible | `FlowValues`, `BlockWorklist`, `CalleeDataflow`, `CalleeSoundness` |
| call graph (`callgraph.rs`, the store facts of `callees.rs`) | none | global stores, relations | a relation is true of every execution | `CallGraph`, `CalleeSoundness` |
| capture mutation (`capture_mutation.rs`) | shared cells, mutated cells, budget | two walks of the tree | a slot not reported mutated is never written | `CaptureCells` |
| origins (`origins.rs`) | expression per slot, revisit counts, TESTSET skip states | worklist with widening, table literals, argument windows, parameter fields, captures of children | it ends within its budget; expressions are true of executions | `OriginValues`, `Origins`, `OriginsSoundness` |
| linking (`linking.rs`, `trusted_init.rs`) | export index, its marks and budgets, link facts | declaration scan, trusted admission, indexing, resolution | a link is what a root really leaves at the label; what a limit removes is visible | `LinkIndex`, `ModuleRoots`, `TrustedRoots`, `LinkSoundness` |
| `luad export` (`cli/main.rs`) | pass, index, sections, caps, exit code | index pass, fact pass over files that change | counters and exit code tell what happened | `ExportSections`, `CorpusExport` |
| export reader (`examples/export_reader/luad_export.py`) | pins, manifest, bundle | pin, run, pin again, seal, verify | an accepted bundle is the export of one state of the corpus | `VerifiedCapture`, abstract: `CorpusSnapshot` |
| tripwire (`luad-oracle/src/tripwire.rs`) | child, group, three workers, flags | spawn, poll, kill, drain, checks | it returns; a success misses no output but what stands from the trailer of the time command on; breaches never succeed | `Tripwire` |
| release publication (`scripts/release-publication.sh`) | releases, tags, latest pointer at the hosting service | rehearse, publish, withdraw, trap | latest is verified, tags do not move, nothing is left behind unreported | `Publication` |
| callers, xrefs, query, diagnostics, diff, gates, packaging | | | | not modelled, section 8 |

How they interact: a decoder calls the reader and returns one `Chunk`; the
validator and the lifter read its words through the role map; `cfg.rs` builds
one graph per prototype from the lifted instructions; the callee and origin
analyses iterate over that graph, child prototypes after their parent, which
hands them the captures that the mutation summary leaves; the call graph and the
linker read the facts of all prototypes of a chunk, the linker those of all
files of a corpus; the command line drives all of them file by file, twice over
each file when it links; the export reader runs the command line as a process
and trusts nothing it cannot compare. None of the analyses shares memory between
threads: their hard behaviour is in iteration order, budgets, limits and
transfers that are not monotone. Threads, processes and signals occur in the
tripwire, remote state in publication, and a file system that changes under a
running program in the export.

## 2. Modules

```
ChunkReads <- ChunkLoader <- ChunkFormat <- ChunkFormatMC
                   ^- ChunkLoaderProofs
Lua51Code <- CodeGraph, Dominators <- ControlFlow <- ControlFlowMC
              |                            ^- ControlFlowProofs
              | instances Lua52Code .. Lua55Code, Lua51Effects, Operands
Lua51Code <- FlowValues, CodeGraph <- BlockWorklist
FlowValues, BlockWorklist <- CalleeDataflow <- CallGraph <- CalleeSoundness <- CalleeSoundnessMC
                                                                 ^- CalleeSoundnessProofs
CodeGraph <- CodeGraphProofs <- ControlFlowProofs, CalleeSoundnessProofs, LinkSoundnessProofs
OriginValues, CaptureCells, BlockWorklist <- Origins <- OriginsSoundness <- OriginsMC
FlowValues, LinkIndex <- ModuleRoots <- TrustedRoots <- LinkSoundness <- LinkSoundnessMC
                                                            ^- LinkSoundnessProofs
LinkIndex <- ExportSections <- CorpusExport <- VerifiedCapture <- CaptureMC
                             CorpusSnapshot <-(INSTANCE)-'  ^- CaptureProofs
Publication <- PublicationProofs
Tripwire <- TripwireProofs
```

**ChunkReads, ChunkLoader.** The chunk is a sequence of units (a byte field, an
integer, a byte of a string; a varint is one unit for each group of seven bits).
`ChunkReads` has the reads of all dialects as operators from a position to a
result: header, sizes, the varints of 5.4 and 5.5 with their overflow guards,
alignment, strings, constants. `ChunkLoader` is `load_proto` of every dialect
with its recursion as a stack of activations; each header, list, entry of a
child, return and unwinding is an action, charged to the limits as the code
does. **ChunkFormat** says what the dumper of each dialect writes for a tree,
what the encoder of 5.4 writes for a loaded one, and what a reader must give
back.

**Lua51Code .. Lua55Code, Lua51Effects, Operands.** Pure operators on code
vectors, functions from pcs to words of decoded fields: roles and companions of
words, jump and skip targets, every error of the validator at a word, and the
reads and writes the lifter states. `Lua51Code` ends with the registers of a
frame and with the control of `lvm.c` (`NextPcs`), which the soundness modules
share. **CodeGraph** picks the dialect and is `ControlFlowGraph::build`.

**Dominators, ControlFlow.** The reach search (`Visit`) and the dominator
iteration as a state machine, in which every `Recompute` reads what the last one
wrote; immediate dominators and frontiers are operators of the result.
`ControlFlow` starts the two on prototypes or on graphs, beside an external
machine (`VmReachable`) that says which words are executed. The machine of 5.4
takes for granted how its compiler pairs words (`IsCompiled`: an arithmetic
instruction with its fallback, an extra argument with its owner, the two ends of
a loop), because the validator of 5.4 does not check it.

**FlowValues, BlockWorklist, CalleeDataflow, CallGraph.** The lattice of
`callees.rs`, the transfer of every opcode, the meet, and `run_dataflow`:
`ProcessBlock` is one turn of the loop, `Exhaust` the turn in which the budget
runs out inside a block, `Finish` the collection of facts from a last walk
through each block (`Replay`). `BlockWorklist` computes the reverse postorder in
which the code starts; the proofs use of it only that it lists the reachable
blocks. `CallGraph` has the stores of a chunk to its globals, with the
reachable ones of the prototype and those of its children, and the relation or
the reason of every call.

**CalleeSoundness.** Runs the prototype after the analysis, on a machine whose
registers and globals hold every claim that is true of how the value came about
on that run: the instruction that made it, and those it went through. A call may
run the stores of the children.

**OriginValues, CaptureCells, Origins, OriginsSoundness.** The expressions of
`origins.rs` with their limits of depth, nodes and alternatives; the two walks
of the mutation summary; the worklist with its revisit counts and widening, the
TESTSET skip states, the scan of table literals, argument windows and parameter
fields, and the captures a child is given. `OriginsSoundness` runs the prototype
on a machine with a heap of tables, shared variables, and other code that writes
to whatever it can reach during a call.

**LinkIndex, ModuleRoots, TrustedRoots, LinkSoundness.** The index
of exports with its marks (dynamic, limit) and its two budgets and the statuses
of a link; the scan for a module declaration and the stores of a root; the
admission of a root with branches; the indexing of one file under either
convention. `LinkSoundness` links the calls of one chunk of a corpus, then runs
the root of any 5.1 file on every path and records what it leaves at which label.
It keeps two indexes: the one under the caps of the corpus (`index`) and the one
that no cap cuts (`whole`), which only the property of omissions reads.

**ExportSections, CorpusExport, VerifiedCapture, CorpusSnapshot.** What the
export writes for one file (families, caps, diagnostics, limits) and its exit
code; the two passes over files that may change between any two reads; the
reader around it, which may be killed, refused or cut off at any step.
`CorpusSnapshot` is the abstract promise: a corpus that stands still, one
instant, one report. `VerifiedCapture` instantiates it with a mapping of its
verdict (`CapturesAreSnapshots`).

**Publication.** `release-publication.sh` as a program that makes one call of
the hosting service after the other. An actor (the job of the workflow, or a
maintainer who withdraws from a checkout) has a `pc`, and every call is a step.
The service is what the fake one of the tests is
(`tests/test_release_publication.rs`). A call may fail without effect, a create
or delete may be done and not answered, a delete answered and not done, an asset
changed on its way; a run may be killed; main moves on. The concurrency group of
the workflow admits one job, so the job is one actor; nothing in the code keeps a
withdrawal from running beside it.

**Tripwire.** `run_with_tripwire` with its three workers as processes of their
own. The output workers take a chunk and judge it in separate steps; the caller
alternates between looking at the child and the workers and polling the
ceilings. The program, the time command and a descendant (in the process group
or escaped from it) write, read, block on full pipes and end as they like.

## 3. Runs

| run | instance | what it shows |
|---|---|---|
| `ControlFlow` | all code vectors of 4 words over alphabets of Lua 5.1 and 5.4; accepted words of 5.1, 5.2, 5.3 and 5.5 with operands on both sides of each limit; all graphs of 4 blocks with at most two successors | accepted code executes no descriptor or extra word and names no undeclared operand; the graph has every executed word in a reachable block; reachability, dominators, immediate dominators and frontiers are what their definitions say; the iteration ends |
| `CalleeSoundness` | five control shapes whose 2 or 3 slots hold any of 13 instructions (8 where globals are stored), with and without captures, children that store, ample and scarce budgets, and a ring of two loops | resolved callees and call relations are true of every execution; no reached call is reported unreachable; a spent budget shows in every fact; otherwise the end is a fixed point, and within the bound of the repository's own model |
| `ChunkFormat` | programs of every dialect up to depth 3 and 5 prototypes, cuts, changes of one unit, trailing units, the right dialect or another one; limits that the trees reach and exceed by one | what is within the limits is loaded as dumped and charged exactly, what is cut is refused, byte ranges nest, diagnostics name the innermost prototype, the encoder of 5.4 keeps what it read |
| `Origins` | about seven thousand functions of one parameter with branches, loops, table stores, calls, closures and open windows of calls and varargs | arguments, parameter fields and captures are true of every execution; a spent budget turns every fact into a limit |
| `OriginsWidening` | one function with a block that follows itself | *violation*: finding 2 |
| `OriginsSharedCell` | a closure that assigns a variable of its creator | *violation*: finding 3 |
| `Linking` | corpora of roots of nine shapes with slots, three of them with an open `VARARG`, alone or beside another module, both conventions, caps | a link is borne out by what any root leaves at the label, and nothing that a cap or an unproved root removes is lost without a trace |
| `TrustedPaths` | roots that hold `module` on one path | *violation*: finding 4 |
| `Capture` | 700 corpora: two files of eleven kinds, one edit of each, of the list and of the executable | an accepted capture is a snapshot; a complete export of a corpus that stands still is accepted; every limit shows in the exit code |
| `Publication` | 2 revisions, 2 faults, job and maintainer | what is latest was verified and belongs to its tag, version tags stay, a success is true when it is reported, a probe left behind is reported, and publishing again succeeds from whatever an earlier run left |
| `PublicationLatest` | 1 revision, 1 fault | *violation*: finding 1 |
| `Tripwire` | ceilings of 1 and 2 units, up to two units over, pipes of 1 unit, one descendant | the verdict is true, a success returns all of standard output and, up to the trailer of the time command, of standard error, kept output is bounded, nothing of the group survives a kill, the caller returns whatever the child does |

Why the bounds are enough. Four words hold a jump over a skip into a descriptor,
and two overlapping closures; four blocks hold an irreducible loop, a nested
loop and a join below a join, the shapes on which dominator iterations differ.
Three slots in a loop hold a definition before, one inside and one after the
back edge, hence every kind of meet: equal, equal with other evidence, different,
unknown. A store of a global in a branch of a loop, with a slot before, after
and outside, is read before it, after it, and after it was overwritten. The
trees of the chunk run have a sibling after a nested child, the case in which a
path that was not restored shows, and each limit is met exactly and exceeded by
one. The constants of the origin analysis are scaled with the programs (two
revisits and two alternatives for eight, a depth of 4 for 24), so that widening,
truncation and conflict happen within programs of ten words. A corpus of
two modules is the smallest with a second definition of a label, and caps of
one definition or one link cut between them. Of the capture, one edit of each of
two files, of the list and of the executable is enough for every mixture of
versions that the two passes and the two pinnings can see. Two revisions make a
tag that belongs to another commit; two faults make a step fail and then its
cleanup, or a reply be lost and its retry fail. A pipe of one unit blocks every
second write; the three sets of pipes that a descendant may keep are those of
the unit tests of `tripwire.rs`.

`CHECK_DEADLOCK FALSE` is set where the modelled program ends. `Capture` ends in
a state of its own that goes on verifying and so needs no exception.

Fairness. The analyses and the loader are sequential programs: nothing but
their own loop can stop them, so weak fairness of the next step is what running
them means (`CfFairSpec`, which `Converges` needs). `SettlesWithinBound` is a
safety form of termination: it bounds the steps instead of assuming fairness.
`Publication` assumes that a run goes on until it ends or is killed (weak
fairness of its own steps) and that whoever publishes the head of main tries
again (strong fairness of starting: a run in between disables it); the faults
are finite because `MaxFaults` is. `Tripwire` assumes that runnable threads run
and that time passes; of the child it assumes nothing.

What the soundness properties leave open, because the documentation does. The
call graph claims no order of execution (`docs/MACHINE-INTERFACE.md:466`): a
global read before the chunk stores anything in it is exempt. In `Origins`, a run
is exempt once a table has left the prototype or was written through another
table, a closure, a nested SETLIST, a register that an open VARARG
overwrote (limit 9) or a call it was not given to (`unseen`), and
functions whose first block is the target of a jump are not among the inputs
(limit 5 below). In `Linking`, `module` and `package` are the standard ones,
roots run to their end, opaque calls change no module, and only runs in which
the root declared a module count. A link claims something of the members of
modules: a label of one name is a global, of which only roots that are admitted
as trusted are claimed to leave nothing else. What another module puts at a label
without being a closure is outside the claim.

## 4. Proofs

A theorem holds for every value of the constants that satisfies the assumptions
named with it. Each of them is an `ASSUME` that TLC evaluates on the instances of
the runs.

| module | theorem | states | for every |
|---|---|---|---|
| `ControlFlowProofs` | `TypeCorrect`, `SearchIsExact`, `DominatorsCorrect` | `TypeOK`, `ReachIsExact`, `DominatorsAreExact` | set of graphs, of any number of blocks (`GraphsAssumption`: successors are blocks, the entry is one) |
| | `TreeIsExact` | `DominatorTreeIsExact` | the same |
| | `CfInvariant`, `BuiltGraphsAreAnalysed` | the inductive invariant; the four above | set of prototypes of any length (`InputsAssumption`) |
| | `ControlStays` | `ControlStaysOnInstructions` | accepted prototype of Lua 5.1 |
| | `CfgCovers`, `ReachedAreMarked` | `CfgCoversExecution`, `ReachedWordsAreMarked` | prototype of Lua 5.1, compiled one of 5.4 |
| | `OperandsAreDeclared` | `AcceptedOperandsAreDeclared` | accepted prototype of Lua 5.1, 5.2, 5.3 and 5.5 |
| `CalleeSoundnessProofs` | `TypeCorrect`, `SpentBudget`, `FixpointTheorem` | `TypeOK`, `SpentBudgetIsTotal`, `EndsAtFixpoint` | prototype and budget (`InputsAssumption` of `CalleeDataflow`) |
| | `RunInvariant` | the simulation | accepted program of Lua 5.1 in frames of fewer than 255 registers (`ProgramsAssumption`, limit 11) and names (`NamesAssumption`) |
| | `FactsAreTrue`, `ReachedCallsTheorem`, `RelationsTheorem` | `ResolvedCallsAreTrue`, `ReachedCallsAreAnalysed`, `RelationsAreTrue` | the same |
| `ChunkLoaderProofs` | `ConstantEnds`, `LuaStringEnds` | where a read ends | dialect and input |
| | `TypeCorrect`, `PathFollowsDescent`, `WithinLimits` | `TypeOK`, `PathIsInnermost`, `LimitsHold` | dialect, input and limits |
| `PublicationProofs` | `InductiveInvariant`, `TypeCorrect`, `LatestVerified`, `TagStays` | `TypeOK`, `LatestIsVerified`, `VersionTagNeverMoves` | number of revisions and faults (`BoundsAssumption`) |
| | `LeftoversReported`, `SuccessProved` | `LeftoverIsReported`, `SuccessIsProved` | the same |
| `TripwireProofs` | `InductiveInvariant`, `VerdictsAreTrue`, `OutputsAreComplete`, `NothingIsLeft` | `VerdictIsTrue`, `OutputIsComplete`, `NothingSurvives` | ceiling, pipe, chunk size, input and inherited pipes (`LimitsAssumption`) |
| `CaptureProofs` | `WindowsHold`, `CaptureImplementsSnapshot` | the windows, `CapturesAreSnapshots` | corpus, arguments and number of edits (`CorporaAssumption`) |
| | `CompleteExportsTheorem`, `LimitsTheorem` | `CompleteExportsAreAccepted`, `LimitsAreVisible` | the same |
| `LinkSoundnessProofs` | `LinkInvHolds` | the inductive invariant | corpus of any number of files, caps and calls (`CorporaAssumption`), and names (`NamesAssumption`), with the root of any file on any path |
| | `LinksHold`, `OmissionsShow` | `LinksAreTrue`, `OmissionsAreVisible`, as long as the index rests on no trusted root | the same |
| | `StrictTrustsNoRoot`, `StrictLinksHold` | both without that condition | the same, under `luci-module-setglobal` |

*Dominators.* `ReachIsExact` needs that every marked block is reachable and that
an unmarked successor of a marked block is still on the stack (`SearchInv`).
`DominatorsAreExact` is two inclusions. During the sweeps no true dominator is
ever dropped (`SweepInv`: each set contains every block whose removal cuts the
path); at the end a block that kept a false dominator would have, in the closed
set of blocks that avoid it, a predecessor that kept it too, back to the entry
which has only itself (`FixpointHasOnlyDominators`). Dominance is stated with
closed sets instead of paths so that no induction over paths is needed.

*Dominator tree and frontiers.* Domination is an order (`DominationIsTransitive`,
`DominationIsAntisymmetric`), and what dominates a block is a chain
(`DominatorsAreOrdered`), so that the largest set among the strict dominators
picks the closest one (`ImmediateIsClosest`). A runner of
`dominance_frontiers` is a recurrence whose dominator sets shrink by one with
every step; it stops at the immediate dominator and has passed exactly what
dominates the predecessor and not the block (`RunnerPasses`). A block with one
predecessor is in no frontier (`OnlyPredecessorDominates`), which is why the
code may skip it.

*Control.* `IsCovered` says that a step of the machine stays in a block or
follows one of its edges; it is proved opcode group by opcode group for 5.1
(`StepIsCovered51`) and 5.4 (`StepIsCovered54`), from the leaders and the last
words that `CodeGraphProofs` derives of `cfg.rs`. `ControlStays` adds the role map:
in accepted code no target and no successor is a descriptor or a count.
`ReachedAreIn` takes this over any number of steps.

*Operands.* The reach of an operand is a matter of single words, so the proof
goes table by table: for every opcode the fields that the lifter states as reads
or writes (`Lua51Effects`, `Operands`) against the checks of the validator of the
dialect. Lua 5.4 is not claimed, because its validator only warns of registers.

*Callee worklist.* `WorkInv`: a reachable block that is not on the worklist is
settled, its in state is the meet of its predecessors and its out state its
flow. A turn changes the out state of one block and queues its successors, so
the others stay settled (`IncomingIsLocal`). `TypeInv` ties `exhausted` to the
step counter; `FactsInv` is what `Finish` and `Exhaust` leave. Nothing is assumed
of the transfer function, which is not monotone.

*Callee facts.* The machine of `CalleeSoundness` runs beside the fixed point
(`RunInv`): wherever it is, the claims of every register bear out (`Bears`) what
the analysis holds of that register there, those of what the closure captured
bear out its captures, and every global holds what it held before the chunk ran
or what one of its stores put there. The lemmas are one per idea of the
code: a meet says less than what met (`MeetBears`, `FoldBears`), more evidence
bears out as much (`MoreEvidence`), what an instruction overwrites is forgotten
(`InvalidateUpholds`, `CallForgets`; the window of a VARARG is not cut,
`AcceptedWindowFits`), a transfer keeps the agreement
(`TransferUpholds`), and at an edge the fixed point has met the state of the
block that is left (`StateAtLeader`). The step budget enters nowhere, because a
spent one leaves no fact to be true.

*Reads and loader.* Every read of `ChunkReads` leaves the position within the
input or fails, from the bytes up to constants and strings, whatever a tag or a
length says. `Guarded`: the activations on the stack have the root path and then
one element more each, each remembers the path below it, and each but the
innermost has elements left. With it `PathIsInnermost` is inductive through
entries, returns and unwinding, and the depth of the stack is the depth of the
path that `enter_proto` checks.

*Publication.* `LatestIsVerified` alone is not inductive: between verification
and promotion a withdrawal may run. `IInv` adds which actor may be where and on
which tag (`RoleOK`), what an actor about to create or promote knows of the
version (`KnowledgeOK`), and that a release of the version is of the revision of
its tag (`TargetInv`). Most steps only move an actor (`GotoStep`, `DieStep`,
`TagStep`) or touch another tag (`ElsewhereStep`); four steps are left that
create, promote, withdraw or delete, and each keeps the knowledge of the other
actor. `LeftoverIsReported` needs a second invariant (`OwnInv`): a rehearsal has at most
one probe at a time, its trap has the name of it before it is made, and a
deletion that was not confirmed is on record. `SuccessIsProved` is an action
property: the step that reports success follows from what the run has checked
and what nobody else may touch since.

*Tripwire.* `FlowInv` accounts for every unit of an output: written is read plus
what is in the pipe, kept is read up to the ceiling, and a reader that has ended
saw the pipe empty with nobody left to write to it. What a success returns of
standard error is that text up to the trailer (`CleanedLacksTrailer`). `ProcessInv` says who can still
start a process; `CallerInv` what the caller has done where it stands. A step
that starts no process keeps what the caller knows (`CallerStays`), so
the interleaving of workers, child and caller comes down to one lemma for each
of their steps. That the descendants are arbitrary is the quantifier over
`Inherited`, a subset of `SUBSET Pipes`.

*Capture.* What is read between the two pinnings is nowhere recorded, so the
invariant speaks of windows: an item was read in some version between what was
on disk when the first pinning ended (`taken`) and what the second pinning has
found, or what there is now where it has not been (`Until`). Indexes and
sections are those of some choice of versions in the windows (`IsIndexed`,
`IsWritten`). When the second pinning agrees with the first, every window is one
version (`UnchangedFile`), so index and sections are those of the instant at
which the first pinning ended, and a manifest that says complete belongs to the
report of the snapshot: `VerifiedCapture` implements `CorpusSnapshot` step by
step (`StepImplements`, with `CorpusSnapshot` as an `INSTANCE ... WITH`). That no
change is undone is an assumption (`CorporaAssumption`), and it is needed: a
comparison of hashes does not see a file that is changed and changed back between
the pinnings. The same assumption gives contents and arguments their types.

*Complete exports.* Two programs in two languages have to agree on the counts.
`BundleInv` carries what the bundle is from the end of the export to the seal;
`SectionIs` proves of every section, whatever the file, the index and the cap,
what the reader checks (`IsAccounted`): `WrittenIs` is the arithmetic of one cap
over facts and links, and `HistoryIs` shows that every definition of the index
belongs to a file of the list, so that a link target is among the pins.

*Limits.* A file of a corpus that stands still was read in its one version
everywhere (`FirstVersions`). Path by path, an index either carries its limit or
is the index of all that was declared so far (`DeclaredGrows`, `HistoryDeclares`),
and a section that is not truncated has all of its facts and links unless the limit on
links is among its diagnostics (`NothingIsMissing`). What is left has exit code 5.

*Links.* Three things have to meet: a linear scan that admits a root, a linear
pass that follows its values, and a machine that runs the root on any path. An
admitted root has no branch, so the machine is where the scan was
(`LiteralFollows`): a register holds what its token says and what its value
says, and what the root has left is, for each name, what the last of its stores
so far says (`LeftAgrees`). A root that reads no `module` never gets hold of the
function and leaves nothing at a label of two parts (`PlainInv`); that leaves no
third kind, because a root that reads `module` and is not admitted makes the
index uncertain. The second half is the accounting of the index: `Adds` says of
every step of the indexing, from one store up to the corpus (`BuildIndexed`),
that what it adds are definitions of its file, that an index without a limit and
without uncertainty has all of them, and that neither mark is ever lost. With
both, what a label's candidates are is what the roots leave there
(`CandidatesAre`, `DefinitionsAre`), status by status (`StatusIs`, `LinkIsTrue`).
For omissions: every call that some root answers is eligible (`CallsAreEligible`),
the list of links is the eligible calls up to the cap in their order
(`LinksAre`), and an index without a limit is the one that no cap cuts (`WholeIs`).

The condition is no convenience of the proof. `trusted_init.rs:180` follows the
words of a root with branches in the order of their pcs, so what it knows of a
register is not what every path puts there (finding 4). Of such a root the code's
answers are called assumed, the links say so, and what they say is checked on
the roots of `Linking`, which hold no such root.

Induction. The induction theorems of the library take an operator as a parameter
and cannot be used here. Where a proof needs induction over numbers it takes the
least element of a set of numbers that is not empty, by well-foundedness
(`Induction` in `CaptureProofs` and `CodeGraphProofs`), and `SetInduction` and `Recursion` of
`CodeGraphProofs` do the same for finite sets and for functions defined by recursion.
Selections are written with ranks (`InOrder`, `Subsequence` of `LinkIndex`) and not
with `SelectSeq`, so that the provers can see into them.

Only model-checked, and why: liveness (`Converges`, `PromotionResumes`,
`Returns`), which is out of reach of the provers; `SettlesWithinBound`, which
counts the steps of a fixed point iteration that is not monotone and whose bound is about
the inputs of the run; the three properties of `ChunkFormat`, whose dumper and
encoder are recursive operators; the four of `OriginsSoundness`, whose machines
and expressions are recursive, too; and what `LinksAreTrue` and
`OmissionsAreVisible` say of an index that rests on trusted roots.

## 5. Findings

1. `release-publication.sh:753` compares with the output of a lookup inside
   `[[ ]]`: when the lookup fails only its subshell dies, and the active latest
   release is withdrawn; so it is when the job promotes after the comparison
   (`PublicationLatest`). `docs/RELEASING.md:308` promises a refusal.
2. `origins.rs:394` finds a change before it widens the changed state, so that a
   block that follows itself is queued again until the budget ends; the comments
   at `origins.rs:28` and `:527` say that widening bounds the iteration
   (`OriginsWidening`).
3. `origins.rs:1196` keeps the origin of a register across a call although a
   closure that shares its cell assigns it; `ARCHITECTURE.md:48` says that no
   stale value is preserved (`OriginsSharedCell`).
4. `trusted_init.rs:180` follows `module` through the words in the order of their
   pcs, not of the paths, so a root that declares a module on one path only is
   admitted; `docs/MACHINE-INTERFACE.md:767` says every path (`TrustedPaths`).

## 6. Known limits of the code

Modelled as the code has them, contradicted by no text, and so exempt from the
properties rather than findings.

1. `cfg.rs:424` skips every block with one predecessor. The entry block has one
   more than the graph shows, so it is missing from the frontiers of a loop that
   leads back to it; `DominatorTreeIsExact` is about the blocks below it.
2. `chunk.rs:416` of Lua 5.4 writes no source name of a child that differs from
   its parent's; `RoundTripsKeepBytes` is about chunks that have none.
3. `callees.rs:620` makes a label out of a lookup in an unknown table but a path
   out of one in a known table. The transfer is not monotone, and two loops that
   pass values round may keep the worklist going until `MAX_TRANSFER_STEPS`. The
   ring among the inputs of `CalleeSoundness` does; its budget is below the
   bound of `SettlesWithinBound`, which is about analyses that have that budget.
4. `header.rs:60` of Lua 5.1 accepts eight byte integers, of which the loader
   reads four.
5. `origins.rs:367` never meets the entry block with its predecessors, so origins
   in a loop that starts at the first word are those of its first turn.
6. The validators of Lua 5.2 and 5.3 compare the windows of CALL, TAILCALL,
   TFORCALL and SETLIST with `>` (`validator.rs:491`, `:521`, `:586`, `:618` of 5.2,
   `:508`, `:538`, `:603`, `:635` of 5.3), one more than the frame has.
7. `tripwire.rs:141` looks for the trailer of the time command at the start of a
   line of standard error; an open last line of the program hides it, and the
   memory ceiling is then not applied. What a descendant writes to standard error
   after the trailer is dropped with it (`:151`), and the last line that is kept
   ends as the dropped text ended (`:164`); `OutputIsComplete` is about the text
   before the trailer.
8. `callees.rs:1433` calls a store of a value that was looked up by name a store
   of no closure, where `:1416` treats the same value as unknown for the linker;
   a call through such a global is reported `non-closure-store`.
9. The lifter of Lua 5.1 states no write of a VARARG with an open window
   (`lifter.rs:652`), and `call_frame.rs:16` adds none. `transfer_vararg` does
   forget the registers, but the search for the table of an argument and its
   aliases (`origins.rs:1342`, `:1520`) and the writes after a capture
   (`origins.rs:2096`) do not. A literal or a capture is then reported for a register that
   the varargs overwrote. Compilers read such a register only through the
   window that takes the varargs, whose arguments are not reported, and never
   overwrite a variable that is captured; the machine of `OriginsSoundness` marks the
   registers (`Spread`), and just a table literal claimed of one, a store through one
   and a captured one are exempt.
10. `trusted_init.rs:257` keeps the tokens of the same registers. A root that
   names its module by a register which an open VARARG overwrote would be
   admitted under the older name; no compiler emits one, and the roots of
   `Linking` are of its kind: a table of the varargs or a call with them.
11. The lifter cuts the counts of CALL and VARARG to a byte and saturates
   (`lifter.rs:473`, `:655`). In a frame of 255 registers, of which
   `validator.rs:89` only warns, a VARARG of 255 results is said to write one.
   `ProgramsAssumption` leaves that frame out.

## 7. What is abstracted

Text (messages, explanations, listings, JSON), the numeric values of constants,
the decoding of the fields of a word, strict and permissive modes where they
differ only in what is recorded. A NaN is a constant that differs from itself.
Evidence is a set of instruction ids. Global names stand for their bytes, since
the escaped form a path shows is injective (`core/scalar.rs:33`). In the linker
constants are charged by use and labels by segment instead of by byte, and
`MAX_TRANSFER_STEPS`, which is above every admitted root, does not occur. The
export's families are checked by counts; the internal error
`INTERNAL-IDENTITY-001`, which no accepted chunk meets, is left out. Of the
tripwire the exit status and errors of the read, wait and spawn calls are left
out; of publication the contents of notes and attestations.

## 8. Not modelled, and why

`callers.rs` sorts finished facts into classes and `xrefs.rs` lists them under
other keys; `query.rs` is a parser and a filter whose pages hold no state but the
digests in a cursor; `diagnostic.rs` cuts a sorted list; `diff.rs` and
`prototype_identity.rs` are pure functions of finished chunks. None has an order
of events, and what they compute is within reach of unit tests. Release
construction, gates and the differential oracles (`luad-oracle`) are sequential
comparisons of files; their parsers read the text of other tools. Rendering,
argument parsing and the static site are text. `derive_child_captures` of
`callees.rs` follows the rules of its twin in `origins.rs`, which is modelled.

## 9. Plan

1. The links of trusted roots without branches, which the pass over tokens does
   follow; with branches only once it goes along the paths (finding 4).
2. `LimitsAreTotal` of `Origins`, which has the form of `SpentBudget`, and the
   simulation of `CalleeSoundnessProofs` for the expressions of `origins.rs`. Both
   need those expressions without recursive operators, as a table of nodes.
3. The caller search over a corpus in `LinkSoundness`, with the cutoffs of its
   answer.
