--------------------------- MODULE ExportSections ---------------------------
(***************************************************************************)
(* What luad export writes of one file (handle_export): the facts of the   *)
(* selected families up to the cap, the links against the index of the     *)
(* corpus, the diagnostics, and how the file ended; and the exit code.     *)
(*                                                                         *)
(* A corpus is a record [contents, lists, editable, args]: what each path  *)
(* holds at each version, the input list at each version, the items that   *)
(* may change, and the arguments of the command. A content [is] is         *)
(* unreadable, no bytecode, or a chunk with its dialect, what its root     *)
(* declares, its resolved calls, its diagnostics and the kinds of its      *)
(* facts in the order they are written. A path is a number, so that paths  *)
(* are ordered.                                                            *)
(***************************************************************************)
EXTENDS LinkIndex

CONSTANTS List, Binary   \* the input list and the executable, beside the paths

-----------------------------------------------------------------------------
(* Families *)

Structured(dialect) == dialect \in {"5.1", "5.4"}

(* A parameter field is counted with the origins. *)
FamilyOf(kind) == IF kind = "parameter_field" THEN "origin" ELSE kind

FamilyAvailable(dialect, family) ==
    CASE family \in {"prototype", "constant", "upvalue"} -> TRUE
      [] family \in {"instruction", "xref"} -> Structured(dialect)
      [] OTHER -> dialect = "5.1"

(* Without a selection, a structured dialect goes without the analyses it
   does not have. *)
UnavailableFor(args, dialect) ==
    IF ~args.explicit /\ Structured(dialect) THEN {}
    ELSE {f \in args.families : ~FamilyAvailable(dialect, f)}

(* Everything there is to write of the families in force *)
AvailableFacts(args, chunk) ==
    LET isSelected(family) == family \in args.families /\ FamilyAvailable(chunk.dialect, family)
    IN  Subsequence(chunk.facts, {i \in DOMAIN chunk.facts : isSelected(FamilyOf(chunk.facts[i]))})

NoCap == -1

(* FactEmitter: nothing is written once the cap is reached. *)
Emitted(args, items) ==
    IF args.cap = NoCap \/ Len(items) <= args.cap THEN items ELSE SubSeq(items, 1, args.cap)

-----------------------------------------------------------------------------
(* The index *)

NoIdentity == [path |-> 0, content |-> 0]

IdentityAt(corpus, path, v) ==
    IF corpus.contents[path][v].is = "unreadable" THEN NoIdentity
    ELSE [path |-> path, content |-> v]

(* A root declares nothing, something that is not admitted, too much, or a
   module with one function. *)
IndexDeclared(index, identity, declares, max) ==
    CASE declares.is = "literal" ->
            Insert(index, Definition(identity, declares.label, declares.proto), max)
      [] declares.is = "dynamic" -> MarkDynamic(index, identity)
      [] declares.is = "limited" -> MarkLimit(index)
      [] declares.is = "none" -> index

(* A file that is not read or not parsed may hide a definition. *)
IndexFile(corpus, index, path, v) ==
    LET content == corpus.contents[path][v]
    IN  IF content.is = "chunk"
        THEN IndexDeclared(index, IdentityAt(corpus, path, v), content.declares,
                           corpus.args.maxExports)
        ELSE MarkDynamic(index, [path |-> path])

(* Every path once, in order *)
IndexOrder(paths) == InOrder(ToSet(paths))

(* indexes is the index before the first path and after each one, when the
   path is read at the version given. *)
IsIndexHistory(corpus, indexes, paths, versions) ==
    IF ~corpus.args.linking THEN indexes = <<EmptyIndex>>
    ELSE /\ Len(indexes) = Len(IndexOrder(paths)) + 1
         /\ indexes[1] = EmptyIndex
         /\ \A i \in DOMAIN IndexOrder(paths) :
               LET p == IndexOrder(paths)[i]
               IN  indexes[i + 1] = IndexFile(corpus, indexes[i], p, versions[p])

-----------------------------------------------------------------------------
(* Sections: the records of one file, from file_start to file_end *)

BareSection(corpus, path, v) ==
    [path |-> path, identity |-> IdentityAt(corpus, path, v), parsed |-> FALSE,
     facts |-> <<>>, links |-> <<>>, diagnostics |-> <<>>, status |-> "failed",
     available |-> 0, emitted |-> 0, truncated |-> FALSE]

FailedRead(corpus, path, v) ==
    [BareSection(corpus, path, v) EXCEPT !.diagnostics = <<"IO-001">>]

ParseCode(content) ==
    CASE content.is = "source" -> "PARSE-SOURCE-001"
      [] content.is = "unknown" -> "PARSE-UNKNOWN-001"
      [] content.is = "broken" -> "PARSE-001"

Skipped(corpus, path, v) ==
    [BareSection(corpus, path, v) EXCEPT
        !.status = "skipped", !.diagnostics = <<ParseCode(corpus.contents[path][v])>>]

(* Mutant: the facts there would have been are counted. *)
UnavailableWithCount(corpus, path, v) ==
    LET chunk == corpus.contents[path][v]
    IN  [BareSection(corpus, path, v) EXCEPT
            !.parsed = TRUE, !.diagnostics = Append(chunk.diagnostics, "ANA-PRECOND-001"),
            !.available = Len(AvailableFacts(corpus.args, chunk))]

(* A selected family is not available: no fact, and every diagnostic there
   was before. *)
Unavailable(corpus, path, v) ==
    LET chunk == corpus.contents[path][v]
    IN  [BareSection(corpus, path, v) EXCEPT
            !.parsed = TRUE, !.diagnostics = Append(chunk.diagnostics, "ANA-PRECOND-001")]

NoLinks == [facts |-> <<>>, diagnostics |-> {}]

LinksFor(corpus, index, chunk) ==
    IF corpus.args.linking THEN ResolveChunkLinks(index, chunk, corpus.args.maxLinks)
    ELSE NoLinks

(* Mutant: the diagnostics of the links are not the file's. *)
ChunkDiagnostics(chunk, links) == chunk.diagnostics

(* A link diagnostic is written unless the chunk has one of its code. *)
FileDiagnostics(chunk, links) ==
    LET new(code) == IF code \in links.diagnostics /\ ~Contains(chunk.diagnostics, code)
                     THEN <<code>> ELSE <<>>
    IN  chunk.diagnostics \o new("ANA-LIMIT-001") \o new("ANA-LIMIT-002")

(* The facts and the links after them share one cap. *)
SectionWith(corpus, path, v, facts, links) ==
    LET written == Emitted(corpus.args, facts \o links.facts)
    IN  [BareSection(corpus, path, v) EXCEPT
            !.parsed = TRUE,
            !.status = "succeeded",
            !.facts = Emitted(corpus.args, facts),
            !.links = SubSeq(written, Len(facts) + 1, Len(written)),
            !.diagnostics = FileDiagnostics(corpus.contents[path][v], links),
            !.available = Len(facts) + Len(links.facts),
            !.emitted = Len(written),
            !.truncated = Len(written) < Len(facts) + Len(links.facts)]

Succeeded(corpus, index, path, v) ==
    LET chunk == corpus.contents[path][v]
    IN  SectionWith(corpus, path, v, AvailableFacts(corpus.args, chunk),
                    LinksFor(corpus, index, chunk))

Section(corpus, index, path, v) ==
    LET content == corpus.contents[path][v]
    IN  CASE content.is = "unreadable" -> FailedRead(corpus, path, v)
          [] content.is \in {"source", "unknown", "broken"} -> Skipped(corpus, path, v)
          [] content.is = "chunk" ->
                IF UnavailableFor(corpus.args, content.dialect) # {}
                THEN Unavailable(corpus, path, v) ELSE Succeeded(corpus, index, path, v)

-----------------------------------------------------------------------------
(* Exit codes *)

Success == 0
InvalidInput == 1
UsageError == 2
IoError == 3
LimitExceeded == 5

(* classify_diagnostic *)
LimitCodes == {"CORE-LIMIT-001", "ANA-LIMIT-001", "ANA-LIMIT-002"}

(* A limit of the index or of a chunk that was parsed. *)
AnyLimitExceeded(index, sections) ==
    \/ index.limit
    \/ \E k \in DOMAIN sections :
          sections[k].parsed /\ \E d \in ToSet(sections[k].diagnostics) : d \in LimitCodes

Count(sections, status) == Cardinality({k \in DOMAIN sections : sections[k].status = status})

ExitCode(corpus, index, sections) ==
    IF AnyLimitExceeded(index, sections) THEN LimitExceeded
    ELSE IF \/ Count(sections, "succeeded") = 0
            \/ corpus.args.strict /\ Count(sections, "succeeded") < Len(sections)
    THEN InvalidInput ELSE Success

-----------------------------------------------------------------------------
(* The report of a corpus whose files are at the versions given *)

IsReport(corpus, versions, report) ==
    LET paths == corpus.lists[versions[List]]
    IN  /\ report.tool = versions[Binary]
        /\ IsIndexHistory(corpus, report.indexes, paths, versions)
        /\ report.sections =
              [k \in 1..Len(paths) |->
                  Section(corpus, Last(report.indexes), paths[k], versions[paths[k]])]
        /\ report.code = ExitCode(corpus, Last(report.indexes), report.sections)
=============================================================================
