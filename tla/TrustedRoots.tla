---------------------------- MODULE TrustedRoots ----------------------------
(***************************************************************************)
(* The opt-in admission of module roots that run other code                *)
(* (trusted_init.rs): one pass in the order of the pcs finds the           *)
(* declaration and the calls that visibly change an environment; the       *)
(* dominators of the root decide which stores are exports and which only   *)
(* mark their label as uncertain.                                          *)
(***************************************************************************)
EXTENDS ModuleRoots

-----------------------------------------------------------------------------
(* The pass over the tokens *)

StartPass(proto) ==
    [tokens |-> [r \in Registers(proto) |-> Other], loads |-> 0, uses |-> 0,
     declarations |-> <<>>, options |-> FALSE, refused |-> FALSE]

TrustedGlobalToken(name) ==
    CASE name \in {"module", "package"} -> Token(name)
      [] name \in {"setfenv", "getfenv"} -> Token("environment")
      [] OTHER -> Other

(* The token an instruction leaves in register a *)
Produced(tokens, w) ==
    CASE w.op = "GETGLOBAL" -> TrustedGlobalToken(w.k)
      [] w.op = "LOADK" /\ w.k \in Strings -> LiteralToken(w.k)
      [] w.op = "MOVE" -> tokens[w.b]
      [] w.op = "GETTABLE" /\ tokens[w.b] = Token("package") /\ w.k = "seeall" ->
            Token("seeall")
      [] OTHER -> Other

(* The registers whose token is dropped: those the lifter says are written,
   and those the frame of a callee overlaps. An open VARARG drops none. *)
Overwrites(w, r) ==
    r \in Writes(w) \/ (w.op \in {"CALL", "TAILCALL"} /\ r >= w.a)

NewTokens(tokens, w) ==
    [r \in DOMAIN tokens |->
        IF r = w.a /\ w.op \in {"GETGLOBAL", "LOADK", "MOVE", "GETTABLE"}
        THEN Produced(tokens, w)
        ELSE IF Overwrites(w, r) THEN Other ELSE tokens[r]]

TokenAt(tokens, r) == IF r \in DOMAIN tokens THEN tokens[r] ELSE Other

(* A call of module that names its module by a literal, as a statement *)
NamesModule(s, w) ==
    /\ w.op = "CALL" /\ w.c = 1 /\ w.b >= 2
    /\ TokenAt(s.tokens, w.a + 1).is = "literal"

OnlySeeall(s, w) ==
    w.b = 2 \/ (w.b = 3 /\ TokenAt(s.tokens, w.a + 2) = Token("seeall"))

PassModuleCall(s, pc, w) ==
    IF NamesModule(s, w)
    THEN [s EXCEPT !.declarations = Append(@, [pc |-> pc, name |-> s.tokens[w.a + 1].name]),
                   !.options = @ \/ ~OnlySeeall(s, w)]
    ELSE [s EXCEPT !.refused = TRUE]

PassCall(s, pc, w) ==
    CASE s.tokens[w.a] = Token("module") -> PassModuleCall(s, pc, w)
      [] s.tokens[w.a] = Token("environment") -> [s EXCEPT !.refused = TRUE]
      [] OTHER -> s

PassLoad(s, w) ==
    IF w.op = "GETGLOBAL" /\ w.k = "module" THEN [s EXCEPT !.loads = @ + 1] ELSE s

(* SELF is charged for its key as well. *)
PassCharge(s, w) ==
    IF UsesConstant(w) \/ (w.op = "SELF" /\ w.k # NoConst) THEN [s EXCEPT !.uses = @ + 1] ELSE s

PassWord(s, pc, w) ==
    LET called == IF w.op \in {"CALL", "TAILCALL"} THEN PassCall(s, pc, w) ELSE s
    IN  [PassLoad(PassCharge(called, w), w) EXCEPT !.tokens = NewTokens(@, w)]

Pass(proto) ==
    LET exec == Instructions(proto)
        upTo[n \in 0..NumWords(proto)] ==
            IF n = 0 THEN StartPass(proto)
            ELSE IF n - 1 \in exec THEN PassWord(upTo[n - 1], n - 1, proto.words[n - 1])
            ELSE upTo[n - 1]
    IN  upTo[NumWords(proto)]

-----------------------------------------------------------------------------
(* Dominators of the root *)

ReachedWithout(cfg, removed) ==
    LET wave[n \in 0..Cardinality(cfg.nodes)] ==
            IF n = 0 THEN {cfg.entry} \ removed
            ELSE wave[n - 1] \cup (UNION {cfg.succ[b] : b \in wave[n - 1]} \ removed)
    IN  wave[Cardinality(cfg.nodes)]

(* Every path from the entry to the block passes the dominator. A block that
   is not reached has none but itself. *)
BlockDominates(cfg, d, b) ==
    d = b \/ b \in ReachedWithout(cfg, {}) \ ReachedWithout(cfg, {d})

(* is_exit: the block ends in a return. *)
Exits(proto, cfg) ==
    {b \in ReachedWithout(cfg, {}) :
        Returns(proto.words[Max(Body(Instructions(proto), cfg.nodes, b))])}

(* Mutant: a block that some exit needs is enough. *)
DominatesAnExit(proto, cfg, b) ==
    b \in ReachedWithout(cfg, {}) /\ \E e \in Exits(proto, cfg) : BlockDominates(cfg, b, e)

DominatesExits(proto, cfg, b) ==
    /\ b \in ReachedWithout(cfg, {})
    /\ Exits(proto, cfg) # {}
    /\ \A e \in Exits(proto, cfg) : BlockDominates(cfg, b, e)

-----------------------------------------------------------------------------
(* Stores *)

(* After the declaration, on every path *)
IsDeclaredBefore(cfg, call, pc) ==
    LET b == BlockOf(cfg.nodes, pc)
        d == BlockOf(cfg.nodes, call)
    IN  IF b = d THEN pc > call ELSE BlockDominates(cfg, d, b)

(* Everything the value rests on lies in the block of the store. *)
RestsOnOwnBlock(cfg, st) ==
    \A id \in st.value.evidence :
        id[2] <= st.pc /\ BlockOf(cfg.nodes, id[2]) = BlockOf(cfg.nodes, st.pc)

IsOnlyStore(stores, st) ==
    Cardinality({i \in DOMAIN stores : stores[i].name = st.name}) = 1

IsExport(proto, cfg, call, stores, st) ==
    /\ IsDeclaredBefore(cfg, call, st.pc)
    /\ IsOnlyStore(stores, st)
    /\ DominatesExits(proto, cfg, BlockOf(cfg.nodes, st.pc))
    /\ IsClosureStore(st)
    /\ RestsOnOwnBlock(cfg, st)

(* The labels a store makes uncertain *)
MarksOf(cfg, call, segments, st) ==
    {Append(segments, st.name)}
      \cup IF IsDeclaredBefore(cfg, call, st.pc) THEN {} ELSE {<<st.name>>}

Admitted(proto, cfg, pass, segments, stores) ==
    LET call == pass.declarations[1].pc
        named == {i \in DOMAIN stores : stores[i].name \in Selectors}
        exported == {i \in named : IsExport(proto, cfg, call, stores, stores[i])}
    IN  [is |-> "admitted", segments |-> segments,
         exports |-> Subsequence(stores, exported),
         marks |-> (IF pass.options THEN {segments} ELSE {})
                     \cup UNION {MarksOf(cfg, call, segments, stores[i]) :
                                   i \in named \ exported}]

Outcome(is) == [is |-> is]

AdmitNamed(proto, cfg, pass, name) ==
    IF name \notin Selectors THEN Outcome("refused")
    ELSE IF Len(NameParts[name]) >= MaxPathSegments THEN Outcome("limited")
    ELSE IF Contains(NameParts[name], NoPart) THEN Outcome("refused")
    ELSE Admitted(proto, cfg, pass, NameParts[name], RootStores(proto))

AdmitPassed(proto, cfg, pass) ==
    IF pass.uses > MaxModuleInitConstants THEN Outcome("limited")
    ELSE IF \/ pass.loads # 1 \/ pass.refused \/ Len(pass.declarations) # 1
            \/ ~DominatesExits(proto, cfg, BlockOf(cfg.nodes, pass.declarations[1].pc))
    THEN Outcome("refused")
    ELSE AdmitNamed(proto, cfg, pass, pass.declarations[1].name)

(* admit_trusted_module *)
AdmitTrustedModule(chunk) ==
    IF ~Accepted(chunk) THEN Outcome("refused")
    ELSE IF NumWords(chunk) > MaxModuleInitWords THEN Outcome("limited")
    ELSE AdmitPassed(chunk, BuildCfg(chunk), Pass(chunk))
=============================================================================
