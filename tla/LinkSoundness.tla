---------------------------- MODULE LinkSoundness ----------------------------
(***************************************************************************)
(* The links of a corpus against the executions of its roots. The corpus   *)
(* is indexed and the calls of one of its chunks are linked; then a Lua    *)
(* 5.1 machine runs the root of any file on every path, and records what   *)
(* the root leaves at which label.                                         *)
(*                                                                         *)
(* The machine is lvm.c and loadlib.c of Lua 5.1, which are not in the     *)
(* repository. A root runs to its end, module and package are the standard *)
(* ones and the code it calls changes no module: what the documentation    *)
(* of the conventions assumes.                                             *)
(***************************************************************************)
EXTENDS TrustedRoots

CONSTANTS
    Rank,     \* [Strings -> Nat]: the order of names
    Corpora   \* the corpora by name, records [files, caller, convention,
              \* maxExports, maxLinks]: files is a sequence of [path, content,
              \* chunk] in the order of the paths, and caller the chunk whose
              \* calls are linked

VARIABLES
    chosen,    \* the name of the corpus, fixed
    index,     \* of its files
    whole,     \* the index when it has no limit
    links,     \* of the calls of the caller
    file,      \* the file whose root runs, 0 before
    vmpc,      \* the next instruction of the root
    regs,      \* what its registers hold
    env,       \* the namespace its global stores go to, <<>> for the globals
    left       \* what they have left, by label

answers == <<index, whole, links>>
machine == <<file, vmpc, regs, env, left>>
vars == <<chosen, answers, machine>>

(* Names are in some order, a module is named by one part or more, and no name
   the linker admits is empty. *)
ASSUME NamesAssumption ==
    /\ MaxNesting \in Nat
    /\ Selectors \subseteq STRING \ {NoPart} /\ Selectors \subseteq DOMAIN Rank
    /\ \A s \in Selectors : NameParts[s] \in Seq(STRING) \ {<<>>}
    /\ \A s, t \in DOMAIN Rank : Rank[s] \in Nat /\ (Rank[s] = Rank[t] => s = t)

IsSequence(s) == Len(s) \in Nat /\ DOMAIN s = 1..Len(s)

(* The files of a corpus are chunks as the loader leaves them, each at a path
   of its own. *)
ASSUME CorporaAssumption ==
    \A c \in DOMAIN Corpora :
        LET files == Corpora[c].files
            calls == Corpora[c].caller.calls
        IN  /\ IsSequence(files) /\ IsSequence(calls)
            /\ \A i, j \in DOMAIN files : files[i].path = files[j].path => i = j
            /\ \A i \in DOMAIN files : IsPrototype(files[i].chunk)
            /\ \A n \in DOMAIN calls :
                  calls[n].label \in Seq(STRING) \ {<<>>} /\ calls[n].lookup \in BOOLEAN
            /\ Corpora[c].maxExports \in Nat /\ Corpora[c].maxLinks \in Nat
            /\ Corpora[c].convention \in {Strict, TrustedInit}

-----------------------------------------------------------------------------
(* What one chunk adds to the index of module exports: the admitted stores of
   its root under the convention in force, or the fact that it may hide some.
   A chunk is a prototype with its resolved calls. *)

(* Two different labels in the order of their names *)
Precedes(l, m) ==
    \/ IsStrictPrefix(l, m)
    \/ \E i \in 1..Len(l) :
          /\ i <= Len(m) /\ SubSeq(l, 1, i - 1) = SubSeq(m, 1, i - 1)
          /\ Rank[l[i]] < Rank[m[i]]

(* Labels in order *)
Sorted(labels) ==
    [i \in 1..Cardinality(labels) |->
        CHOOSE l \in labels : Cardinality({m \in labels : Precedes(m, l)}) = i - 1]

(* The last store of each name, in the order of the names *)
LastStores(stores) ==
    LET last == {st \in ToSet(stores) :
                    \A other \in ToSet(stores) : other.name = st.name => other.pc <= st.pc}
        ranks == {Rank[st.name] : st \in last}
    IN  [i \in 1..Cardinality(ranks) |->
            CHOOSE st \in last : Rank[st.name] = InOrder(ranks)[i]]

IndexStore(into, identity, segments, st, max) ==
    IF IsClosureStore(st)
    THEN Insert(into, Definition(identity, Append(segments, st.name),
                                 st.value.kind.prototype), max)
    ELSE IF ~IsKnown(st.value) THEN MarkDynamic(into, identity)
    ELSE into

IndexStrict(into, identity, chunk, segments, max) ==
    LET last == LastStores(RootStores(chunk))
        upTo[n \in 0..Len(last)] ==
            IF n = 0 THEN into ELSE IndexStore(upTo[n - 1], identity, segments, last[n], max)
    IN  upTo[Len(last)]

(* index_trusted_module: the marks first, in the order of the labels, then
   the exports in the order of the root. *)
IndexMarks(into, labels, max) ==
    LET upTo[n \in 0..Len(labels)] ==
            IF n = 0 THEN into ELSE InsertMark(upTo[n - 1], labels[n], max)
    IN  upTo[Len(labels)]

IndexExports(into, identity, module, max) ==
    LET exports == module.exports
        definition(st) == Definition(identity, Append(module.segments, st.name),
                                     st.value.kind.prototype)
        upTo[n \in 0..Len(exports)] ==
            IF n = 0 THEN into ELSE Insert(upTo[n - 1], definition(exports[n]), max)
    IN  upTo[Len(exports)]

IndexAdmitted(into, identity, module, max) ==
    LET trusting == [into EXCEPT !.assumed = @ \cup {identity.path}]
        marked == IndexMarks(trusting, Sorted(module.marks), max)
    IN  IndexExports(marked, identity, module, max)

IndexTrusted(into, identity, module, max) ==
    CASE module.is = "admitted" -> IndexAdmitted(into, identity, module, max)
      [] module.is = "refused" -> MarkDynamic(into, identity)
      [] module.is = "limited" -> MarkLimit(into)

(* index_chunk_module_exports_bounded *)
IndexChunk(into, identity, chunk, convention, max) ==
    LET declaration == DetectModuleDeclaration(chunk)
    IN  CASE declaration.is = "literal" ->
                IndexStrict(into, identity, chunk, declaration.segments, max)
          [] declaration.is = "limited" -> MarkLimit(into)
          [] declaration.is = "dynamic" /\ convention = TrustedInit ->
                IndexTrusted(into, identity, AdmitTrustedModule(chunk), max)
          [] declaration.is = "dynamic" /\ convention = Strict -> MarkDynamic(into, identity)
          [] OTHER -> into

-----------------------------------------------------------------------------
(* The linker *)

corpus == Corpora[chosen]

Identity(f) == [path |-> f.path, content |-> f.content]

(* build_module_export_index_bounded *)
BuildIndex(max) ==
    LET upTo[n \in 0..Len(corpus.files)] ==
            IF n = 0 THEN EmptyIndex
            ELSE IndexChunk(upTo[n - 1], Identity(corpus.files[n]), corpus.files[n].chunk,
                            corpus.convention, max)
    IN  upTo[Len(corpus.files)]

Unlimited == corpus.maxExports + 1000

NoLinks == [facts |-> <<>>, diagnostics |-> {}]

Init ==
    /\ chosen \in DOMAIN Corpora
    /\ index = EmptyIndex
    /\ whole = EmptyIndex
    /\ links = NoLinks
    /\ file = 0
    /\ vmpc = Halted
    /\ regs = [r \in {} |-> 0]
    /\ env = <<>>
    /\ left = [l \in {} |-> 0]

-----------------------------------------------------------------------------
(* The machine *)

Opaque == [is |-> "opaque"]
Number == [is |-> "number"]
Function(child) == [is |-> "closure", proto |-> child]
Unset == [is |-> "unset"]
Nowhere == <<NoPart>>

Root == corpus.files[file].chunk

GlobalValue(name) ==
    CASE name \in {"module", "package"} -> Token(name)
      [] name \in {"setfenv", "getfenv"} -> Token("environment")
      [] OTHER -> Opaque

(* What an instruction leaves in its register a *)
Result(w) ==
    CASE w.op = "LOADK" -> IF w.k \in Strings THEN LiteralToken(w.k) ELSE Number
      [] w.op \in {"LOADNIL", "LOADBOOL"} -> Number
      [] w.op = "GETGLOBAL" -> GlobalValue(w.k)
      [] w.op = "MOVE" -> regs[w.b]
      [] w.op = "GETTABLE" /\ regs[w.b] = Token("package") /\ w.k = "seeall" -> Token("seeall")
      [] w.op = "CLOSURE" -> Function(ChildPath(Root, w.x))
      [] OTHER -> Opaque

(* The registers the machine writes, for good or as a callee's frame *)
Written(w, r) ==
    CASE w.op \in {"CALL", "TAILCALL"} -> r >= w.a
      [] w.op = "VARARG" -> r >= w.a /\ (w.b > 0 => r <= w.a + w.b - 2)
      [] w.op = "TFORLOOP" -> r >= w.a + 2
      [] OTHER -> r \in Writes(w)

(* module("name") makes the table of that name the environment; setfenv may
   make it any other. *)
EnvAfter(w) ==
    IF w.op \notin {"CALL", "TAILCALL"} THEN env
    ELSE CASE regs[w.a] = Token("environment") -> Nowhere
           [] regs[w.a] = Token("module") ->
                 IF w.b >= 2 /\ regs[w.a + 1].is = "literal"
                 THEN NameParts[regs[w.a + 1].name] ELSE Nowhere
           [] OTHER -> env

Leave(label, v) ==
    [l \in {label} \cup DOMAIN left |-> IF l = label THEN v ELSE left[l]]

(* The corpus is linked, and some root starts. *)
LinkCorpus ==
    /\ file = 0
    /\ index' = BuildIndex(corpus.maxExports)
    /\ whole' = BuildIndex(Unlimited)
    /\ links' = ResolveChunkLinks(index', corpus.caller, corpus.maxLinks)
    /\ file' \in {f \in DOMAIN corpus.files : corpus.files[f].chunk.dialect = "5.1"}
    /\ vmpc' = 0
    /\ regs' = [r \in Registers(corpus.files[file'].chunk) |-> Number]
    /\ UNCHANGED <<chosen, env, left>>

(* A root that runs off its code stops without an end. *)
Execute ==
    /\ file # 0
    /\ vmpc \in Pcs(Root)
    /\ LET w == Root.words[vmpc]
       IN  /\ vmpc' \in NextPcs(Root, vmpc)
           /\ regs' = [r \in DOMAIN regs |-> IF Written(w, r) THEN Result(w) ELSE regs[r]]
           /\ env' = EnvAfter(w)
           /\ left' = IF w.op = "SETGLOBAL" THEN Leave(Append(env, w.k), regs[w.a]) ELSE left
    /\ UNCHANGED <<chosen, answers, file>>

Next == LinkCorpus \/ Execute

Spec == Init /\ [][Next]_vars

-----------------------------------------------------------------------------
(* Properties *)

At(label) == IF label \in DOMAIN left THEN left[label] ELSE Unset

IsNoFunction(v) == v.is \in {"unset", "number", "literal"}

(* The root is that of a module, and has run to its end. *)
ModuleIsLoaded == file # 0 /\ vmpc = Halted /\ env # <<>>

(* What one link says of one module *)
IsTrueOf(link, identity, v) ==
    CASE link.status = "resolved" ->
            IF link.target.artifact = identity THEN v = Function(link.target.proto)
            ELSE IsNoFunction(v)
      [] link.status = "absent" -> IsNoFunction(v)
      [] link.status = "duplicate" ->
            \A d \in ToSet(Candidates(index, link.label)) :
                d.artifact = identity => v = Function(d.proto)
      [] OTHER -> TRUE

(* A definite answer about a label is borne out by every root of the corpus,
   on every path: the target's root leaves the function the link names there
   and no other root a function, an absent label gets none, and the
   candidates of a duplicate are all left. A label of one name is that of no
   member of a module. *)
LinksAreTrue ==
    ModuleIsLoaded =>
        \A i \in DOMAIN links.facts :
            Len(links.facts[i].label) > 1 =>
                IsTrueOf(links.facts[i], Identity(corpus.files[file]),
                         At(links.facts[i].label))

(* One fact answers for all the calls of a chunk of another dialect. *)
HasFact(n) ==
    \E i \in DOMAIN links.facts :
        links.facts[i].call = n \/ links.facts[i].status = "unsupported"

(* What root the label may be of: a global is claimed of the roots only that
   are admitted as trusted modules. *)
IsClaimed(label) == Len(label) > 1 \/ corpus.files[file].path \in index.assumed

(* Nothing a cap or an unproved root removes is lost without a trace: a call
   of a path where some root may leave a function has a link, unless the cap
   on links is reported and the link that marks it comes before that call;
   an index that misses definitions reports its limit with every chunk it
   links. *)
OmissionsAreVisible ==
    ModuleIsLoaded =>
        /\ \A n \in DOMAIN corpus.caller.calls :
              LET call == corpus.caller.calls[n]
              IN  (/\ ~call.lookup /\ IsClaimed(call.label)
                   /\ ~IsNoFunction(At(call.label)) /\ ~HasFact(n)) =>
                      /\ "ANA-LIMIT-002" \in links.diagnostics
                      /\ Last(links.facts).status = "limit_exceeded"
                      /\ Last(links.facts).call < n
        /\ (corpus.caller.dialect = "5.1" /\ index.exports # whole.exports) =>
              "ANA-LIMIT-001" \in links.diagnostics

(* A root admitted as a trusted module has declared its module wherever it
   ends, on every path. *)
AdmittedRootsDeclare ==
    (file # 0 /\ vmpc = Halted /\ corpus.files[file].path \in index.assumed) =>
        env # <<>>
=============================================================================
