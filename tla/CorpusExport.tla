---------------------------- MODULE CorpusExport ----------------------------
(***************************************************************************)
(* luad export over a corpus that may change while it runs                 *)
(* (handle_export): with a link convention every file is read once for the *)
(* index of exports, in the order of the paths, and then every file is     *)
(* read again and written, in the order of the list.                       *)
(***************************************************************************)
EXTENDS ExportSections

CONSTANTS
    Corpora,      \* the corpora by name
    MaxVersion    \* bounds the edits of one file

IsDeclaration(d) ==
    d.is \in {"none", "dynamic", "limited"} \/ (d.is = "literal" /\ d.label \in Seq(STRING))

IsContent(content) ==
    \/ content.is \in {"unreadable", "source", "unknown", "broken"}
    \/ /\ content.is = "chunk"
       /\ content.facts \in Seq(STRING) /\ content.diagnostics \in Seq(STRING)
       /\ content.calls \in Seq([label : Seq(STRING), lookup : BOOLEAN])
       /\ IsDeclaration(content.declares)

(* Paths are numbers, a list names files there are, and no change is undone: a
   file that cannot be read any more is not read again. *)
ASSUME CorporaAssumption ==
    /\ MaxVersion \in Nat \ {0}
    /\ List # Binary
    /\ \A name \in DOMAIN Corpora :
          LET c == Corpora[name]
          IN  /\ DOMAIN c = {"contents", "lists", "editable", "args"}
              /\ DOMAIN c.args = {"families", "explicit", "strict", "linking", "cap",
                                  "maxExports", "maxLinks"}
              /\ DOMAIN c.contents \subseteq Nat
              /\ List \notin DOMAIN c.contents /\ Binary \notin DOMAIN c.contents
              /\ c.editable \subseteq DOMAIN c.contents \cup {List, Binary}
              /\ \A v \in 1..MaxVersion : c.lists[v] \in Seq(DOMAIN c.contents)
              /\ c.args.cap \in Nat \cup {NoCap}
              /\ c.args.maxExports \in Nat /\ c.args.maxLinks \in Nat
              /\ \A p \in DOMAIN c.contents, v \in 1..MaxVersion : IsContent(c.contents[p][v])
              /\ \A p \in DOMAIN c.contents : \A u, v, w \in 1..MaxVersion :
                    /\ u <= v /\ v <= w
                    /\ c.contents[p][u].is = "unreadable"
                    /\ c.contents[p][w].is = "unreadable"
                    => c.contents[p][v].is = "unreadable"

VARIABLES
    chosen,    \* the name of the corpus, fixed
    ver,       \* [items -> 1..MaxVersion]: what is on disk now
    pass,      \* "idle", "index", "emit", "ended"
    tool,      \* the executable that runs
    files,     \* the paths it was given
    indexes,   \* the index before the first file and after each one
    sections   \* what is written

exporter == <<pass, tool, files, indexes, sections>>

corpus == Corpora[chosen]
Items == DOMAIN corpus.contents \cup {List, Binary}

ExportInit ==
    /\ chosen \in DOMAIN Corpora
    /\ ver = [i \in Items |-> 1]
    /\ pass = "idle"
    /\ tool = 0
    /\ files = <<>>
    /\ indexes = <<EmptyIndex>>
    /\ sections = <<>>

(* The program is started, and reads the list; an empty one is refused. *)
StartExport ==
    /\ pass = "idle"
    /\ tool' = ver[Binary]
    /\ files' = corpus.lists[ver[List]]
    /\ pass' = IF files' = <<>> THEN "ended" ELSE IF corpus.args.linking THEN "index" ELSE "emit"
    /\ UNCHANGED <<chosen, ver, indexes, sections>>

IndexNext ==
    /\ pass = "index"
    /\ LET n == Len(indexes)
           p == IndexOrder(files)[n]
       IN  /\ indexes' = Append(indexes, IndexFile(corpus, indexes[n], p, ver[p]))
           /\ pass' = IF n = Len(IndexOrder(files)) THEN "emit" ELSE "index"
    /\ UNCHANGED <<chosen, ver, tool, files, sections>>

ExportNext ==
    /\ pass = "emit"
    /\ LET k == Len(sections) + 1
       IN  /\ sections' = Append(sections, Section(corpus, Last(indexes), files[k], ver[files[k]]))
           /\ pass' = IF k = Len(files) THEN "ended" ELSE "emit"
    /\ UNCHANGED <<chosen, ver, tool, files, indexes>>

Export == IndexNext \/ ExportNext

(* An item changes. No change is undone: a version is never seen again. *)
Edit ==
    /\ \E i \in corpus.editable : ver[i] < MaxVersion /\ ver' = [ver EXCEPT ![i] = @ + 1]
    /\ UNCHANGED <<chosen, exporter>>

Code ==
    IF files = <<>> THEN UsageError ELSE ExitCode(corpus, Last(indexes), sections)

-----------------------------------------------------------------------------
(* Properties *)

(* The index of what files declare, whatever there is of it *)
DeclaredIn(paths) ==
    LET content(p) == corpus.contents[p][1]
        declares(p, is) == content(p).is = "chunk" /\ content(p).declares.is = is
        modules == InOrder({p \in paths : declares(p, "literal")})
        definition(p) == Definition(IdentityAt(corpus, p, 1), content(p).declares.label,
                                    content(p).declares.proto)
    IN  [EmptyIndex EXCEPT
            !.exports = [i \in DOMAIN modules |-> definition(modules[i])],
            !.dynamic = {p \in paths : content(p).is # "chunk" \/ declares(p, "dynamic")},
            !.limit = \E p \in paths : declares(p, "limited")]

(* The section of a file as it would be without a cap on the index, on links
   and on facts *)
WholeSection(path) ==
    LET content == corpus.contents[path][1]
        calls == IF content.is = "chunk" THEN Len(content.calls) ELSE 0
        uncapped == [corpus EXCEPT !.args = [@ EXCEPT !.cap = NoCap, !.maxLinks = calls]]
    IN  Section(uncapped, DeclaredIn(ToSet(files)), path, 1)

IsWhole(section, whole) ==
    section.facts = whole.facts /\ section.links = whole.links

(* What a cap takes from a file can be seen: a file whose facts or links are
   not those of an export without caps is marked as truncated, or the exit
   code tells of the limit. Stated when no file changed between its reads. *)
LimitsAreVisible ==
    (pass = "ended" /\ files # <<>> /\ \A i \in DOMAIN ver : ver[i] = 1) =>
        \A k \in DOMAIN sections :
            \/ IsWhole(sections[k], WholeSection(files[k]))
            \/ sections[k].truncated
            \/ Code = LimitExceeded
=============================================================================
