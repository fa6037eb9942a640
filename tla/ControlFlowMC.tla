--------------------------- MODULE ControlFlowMC ---------------------------
(***************************************************************************)
(* Small code vectors and small graphs for ControlFlow.                    *)
(***************************************************************************)
EXTENDS ControlFlow, Sequences, TLC

(* Two children, with one and with two upvalues. *)
Kids == (0 :> [nups |-> 1]) @@ (1 :> [nups |-> 2])

CodeLength == 4

Alphabet ==
    {Plain("MOVE", 0, 1, 0),
     Plain("SETLIST", 0, 1, 0),
     Plain("TEST", 0, 0, 0),
     Plain("LOADBOOL", 0, 0, 1),
     Plain("RETURN", 0, 1, 0),
     ClosureOf(0, 0),
     ClosureOf(0, 1)}
    \cup {Jump("JMP", 0, t) : t \in 0..(CodeLength - 1)}
    \cup {Jump("FORLOOP", 0, t) : t \in {0, CodeLength - 1}}

Prototype(dialect, words) ==
    [dialect |-> dialect, words |-> words, maxstack |-> 4, nups |-> 1, consts |-> 1,
     kids |-> Kids]

(* All vectors of CodeLength words of Lua 5.1 over the alphabet *)
Vectors51 == {Prototype("5.1", w) : w \in [0..(CodeLength - 1) -> Alphabet]}

(* Lua 5.4: x is a distance but for JMP. *)
Alphabet54 ==
    {Plain("MOVE", 0, 1, 0), Plain("TEST", 0, 0, 0), Plain("LFALSESKIP", 0, 0, 0),
     Plain("RETURN1", 0, 0, 0), Plain("ADD", 0, 1, 2), Plain("MMBIN", 1, 2, 6),
     Jump("JMP", 0, 0), Jump("JMP", 0, 3), Jump("FORPREP", 0, 0), Jump("FORPREP", 0, 1),
     Jump("FORLOOP", 0, 2), Jump("TFORPREP", 0, 1), Jump("TFORLOOP", 0, 2),
     Plain("NEWTABLE", 0, 0, 0), Jump("EXTRAARG", 0, 0)}

(* Every companion has an owner, too. *)
AreOwned(p) ==
    \A pc \in Pcs(p) : IsCompanion(p.words[pc]) =>
        pc > 0 /\ (TakesExtra(p.words[pc - 1]) \/ IsOperator(p.words[pc - 1]))

Vectors54 ==
    {p \in {Prototype("5.4", w) : w \in [0..(CodeLength - 1) -> Alphabet54]} :
        ArePaired(p) /\ AreOwned(p)}

(* Accepted words with operands on either side of every limit. A LOADKX is
   followed by the constant it names. *)
Probe(dialect, w, extra) ==
    Prototype(dialect, [pc \in 0..1 |-> IF pc = 0 THEN w
                                        ELSE IF w.op = "LOADKX" THEN Jump("EXTRAARG", 0, extra)
                                        ELSE Plain("MOVE", 0, 0, 0)])

Limits == {0, 3, 4, 5, 256, 257}

IndexOps == {"LOADK", "LOADKX", "EXTRAARG", "CLOSURE", "GETGLOBAL", "SETGLOBAL", "ERRNNIL"}
              \cup L54!ForwardOps \cup L54!BackwardOps \cup {"JMP"}

(* Words with an index and words without, apart *)
Words52(ops) ==
    {Word(op, a, b, c, 0, 0) : op \in ops \ IndexOps, a \in {0, 3, 4}, b \in Limits,
                               c \in Limits}

Words55 ==
    {Word(op, a, b, c, 0, k) : op \in L55!Opcodes \ IndexOps, a \in {0, 3, 4},
                               b \in {0, 1, 3, 4, 5}, c \in {0, 1, 4, 5}, k \in {0, 1}}

IndexWords(ops) ==
    {Word(op, a, b, c, x, 0) : op \in ops \cap IndexOps, a \in {0, 1, 3, 4}, b \in {0, 2},
                               c \in {0, 1}, x \in {0, 1}}

Codes51 == (L52!Opcodes \ {"LOADKX", "GETTABUP", "SETTABUP", "EXTRAARG", "TFORCALL"})
             \cup {"GETGLOBAL", "SETGLOBAL", "CLOSE"}

Probes(dialect, words) ==
    {p \in {Probe(dialect, w, e) : w \in words, e \in {0, 1}} : Accepted(p)}

(* By family, since TLC is slow to unite them *)
MCPrototypes ==
    (1 :> Vectors51)
    @@ (2 :> Vectors54)
    @@ (3 :> Probes("5.1", Words52(Codes51)))
    @@ (4 :> Probes("5.1", IndexWords(Codes51)))
    @@ (5 :> Probes("5.2", Words52(L52!Opcodes)))
    @@ (6 :> Probes("5.2", IndexWords(L52!Opcodes)))
    @@ (7 :> Probes("5.3", Words52(L53!IntegerOps \cup {"BNOT"})))
    @@ (8 :> Probes("5.5", Words55))
    @@ (9 :> Probes("5.5", IndexWords(L55!Opcodes)))

(* Graphs of four blocks with at most two successors each, the last block
   with at most one. *)
Blocks == 0..3
MCAdjacencyLists ==
    {[nodes |-> Blocks, entry |-> 0, succ |-> s] :
        s \in {f \in [Blocks -> {T \in SUBSET Blocks : Cardinality(T) <= 2}] :
                  Cardinality(f[3]) <= 1}}
=============================================================================
