----------------------------- MODULE ModuleRoots -----------------------------
(***************************************************************************)
(* What the linker reads from the main prototype of a Lua 5.1 chunk        *)
(* (linking.rs and callees.rs): whether its code is the straight-line      *)
(* initialisation the strict convention admits, the module it declares,    *)
(* and the values its global stores leave.                                 *)
(*                                                                         *)
(* A register holds a token [is, name], where name is the string of a      *)
(* literal. Bytes are not counted: a use of a constant costs 1.            *)
(***************************************************************************)
EXTENDS FlowValues, CodeGraph, LinkIndex

CONSTANTS
    NameParts,                \* [Strings -> Seq(STRING)]: a name split at dots
    MaxNesting,               \* how deep prototypes are nested
    MaxModuleInitWords,       \* MAX_MODULE_INIT_WORDS
    MaxModuleInitConstants,   \* stands for MAX_MODULE_INIT_CONSTANT_BYTES
    MaxModuleInitAliasSteps   \* MAX_MODULE_INIT_ALIAS_STEPS

(* The part of a name between two dots with nothing between them *)
NoPart == ""

Token(is) == [is |-> is, name |-> NoConst]
Other == Token("other")
LiteralToken(s) == [is |-> "literal", name |-> s]

(* The instructions whose constant is charged *)
UsesConstant(w) ==
    w.op \in {"LOADK", "GETGLOBAL", "SETGLOBAL"} \/ (w.op = "GETTABLE" /\ w.k # NoConst)

(* has_module_lookup: some prototype of the chunk reads the global module. *)
Prototypes(chunk) ==
    LET level[n \in 0..MaxNesting] ==
            IF n = 0 THEN {chunk}
            ELSE UNION {{p.kids[i] : i \in DOMAIN p.kids} : p \in level[n - 1]}
    IN  UNION {level[n] : n \in 0..MaxNesting}

HasModuleLookup(chunk) ==
    \E p \in Prototypes(chunk) : \E pc \in Instructions(p) :
        p.words[pc].op = "GETGLOBAL" /\ p.words[pc].k = "module"

-----------------------------------------------------------------------------
(* detect_module_declaration. The scan keeps, for every register, its token *)
(* and the length of the chain of moves behind it, and a verdict.           *)

StartScan(proto) ==
    [tokens |-> [r \in Registers(proto) |-> Other],
     steps |-> [r \in Registers(proto) |-> 0],
     loads |-> 0, uses |-> 0, segments |-> <<>>, verdict |-> "open"]

Refuse(s) == [s EXCEPT !.verdict = "dynamic"]
Limit(s) == [s EXCEPT !.verdict = "limited"]
Declared(s) == s.segments # <<>>

Hold(s, regs, token, n) ==
    [s EXCEPT !.tokens = [r \in DOMAIN @ |-> IF r \in regs THEN token ELSE @[r]],
              !.steps = [r \in DOMAIN @ |-> IF r \in regs THEN n ELSE @[r]]]

GlobalToken(name) ==
    IF name \in {"module", "package"} THEN Token(name) ELSE Other

AdmitGetGlobal(s, w) ==
    LET held == Hold(s, {w.a}, GlobalToken(w.k), 1)
    IN  IF w.k # "module" THEN held
        ELSE IF s.loads = 0 THEN [held EXCEPT !.loads = 1] ELSE Refuse(s)

AdmitLoadK(s, w) ==
    Hold(s, {w.a}, IF w.k \in Strings THEN LiteralToken(w.k) ELSE Other, 1)

(* Only package.seeall is read from a table, before the declaration. *)
AdmitGetTable(s, w) ==
    IF s.tokens[w.b] = Token("package") /\ w.k = "seeall" /\ ~Declared(s)
    THEN Hold(s, {w.a}, Token("seeall"), s.steps[w.b] + 1)
    ELSE Refuse(s)

(* module("name") or module("name", package.seeall), as a statement *)
IsDeclaration(s, w) ==
    /\ ~Declared(s)
    /\ s.tokens[w.a] = Token("module")
    /\ w.c = 1
    /\ w.b = 2 \/ (w.b = 3 /\ s.tokens[w.a + 2] = Token("seeall"))
    /\ s.tokens[w.a + 1].is = "literal"
    /\ s.tokens[w.a + 1].name \in Selectors

AdmitCall(s, w) ==
    IF ~IsDeclaration(s, w) THEN Refuse(s)
    ELSE LET parts == NameParts[s.tokens[w.a + 1].name]
         IN  IF Len(parts) >= MaxPathSegments THEN Limit(s)
             ELSE IF Contains(parts, NoPart) THEN Refuse(s)
             ELSE [Hold(s, {r \in DOMAIN s.tokens : r >= w.a}, Other, 0)
                     EXCEPT !.segments = parts]

AdmitMove(s, w) ==
    IF s.steps[w.b] + 1 > MaxModuleInitAliasSteps THEN Limit(s)
    ELSE Hold(s, {w.a}, Other, s.steps[w.b] + 1)

Charge(s, w) ==
    IF ~UsesConstant(w) THEN s
    ELSE IF s.uses = MaxModuleInitConstants THEN Limit(s)
    ELSE [s EXCEPT !.uses = @ + 1]

(* One instruction of the declarative language, once its constant is paid *)
AdmitWord(s, w) ==
    CASE w.op = "GETGLOBAL" -> AdmitGetGlobal(s, w)
      [] w.op = "LOADK" -> AdmitLoadK(s, w)
      [] w.op = "GETTABLE" -> AdmitGetTable(s, w)
      [] w.op = "CALL" -> AdmitCall(s, w)
      [] w.op = "SETGLOBAL" /\ Declared(s) /\ w.k \in Selectors -> s
      [] w.op = "LOADBOOL" /\ w.c = 0 -> Hold(s, {w.a}, Other, 1)
      [] w.op = "LOADNIL" /\ w.b >= w.a -> Hold(s, w.a..w.b, Other, 1)
      [] w.op = "MOVE" -> AdmitMove(s, w)
      [] w.op = "CLOSURE" -> Hold(s, {w.a}, Other, 1)
      [] w.op = "RETURN" /\ w.b = 1 -> [s EXCEPT !.verdict = "returned"]
      [] OTHER -> Refuse(s)

AdmitCharged(s, w) == IF s.verdict = "open" THEN AdmitWord(s, w) ELSE s

(* A word after the return is refused; a verdict ends the scan. *)
Admit(s, w) ==
    CASE s.verdict = "returned" -> Refuse(s)
      [] s.verdict = "open" -> AdmitCharged(Charge(s, w), w)
      [] OTHER -> s

(* The scan before each pc, and at the end: companions are passed over. *)
Scanned(proto) ==
    LET exec == Instructions(proto)
        upTo[n \in 0..NumWords(proto)] ==
            IF n = 0 THEN StartScan(proto)
            ELSE IF n - 1 \in exec THEN Admit(upTo[n - 1], proto.words[n - 1])
            ELSE upTo[n - 1]
    IN  upTo

Scan(proto) == Scanned(proto)[NumWords(proto)]

Declaration(is, segments) == [is |-> is, segments |-> segments]

ScanResult(s) ==
    CASE s.verdict = "limited" -> Declaration("limited", <<>>)
      [] s.verdict = "returned" /\ Declared(s) -> Declaration("literal", s.segments)
      [] OTHER -> Declaration("dynamic", <<>>)

DetectModuleDeclaration(chunk) ==
    IF chunk.dialect # "5.1" THEN Declaration("none", <<>>)
    ELSE IF ~Accepted(chunk) THEN Declaration("dynamic", <<>>)
    ELSE IF ~HasModuleLookup(chunk) THEN Declaration("none", <<>>)
    ELSE IF NumWords(chunk) > MaxModuleInitWords THEN Declaration("limited", <<>>)
    ELSE ScanResult(Scan(chunk))

-----------------------------------------------------------------------------
(* analyze_root_global_stores: the values are followed in the order of the  *)
(* pcs, whatever the jumps. Its budget of transfer steps is larger than any *)
(* root that is admitted.                                                   *)

(* A closure, certainly none, or unknown: a path or label names a value and
   does not say what it is. *)
StoreValue(v) ==
    IF ~IsKnown(v) \/ v.kind.shape \in {"LookupLabel", "SymbolicPath"} THEN Unknown("opaque")
    ELSE IF v.kind.shape = "Closure" THEN v
    ELSE Known(NonClosure, v.evidence)

Store(proto, pc, regs) ==
    [name |-> proto.words[pc].k, pc |-> pc,
     value |-> StoreValue(GetRegister(regs, proto.words[pc].a))]

(* The root's LOADNIL and LOADBOOL prove values that are no functions. *)
RootTransfer(proto, pc, regs) ==
    LET w == proto.words[pc]
        after == Transfer(proto, [u \in {} |-> Bottom], pc, regs)
    IN  IF w.op \in {"LOADNIL", "LOADBOOL"}
        THEN SetAll(after, Writes(w), Known(NonClosure, {Id(proto, pc)}))
        ELSE after

StartRoot(proto) ==
    [regs |-> [r \in Registers(proto) |-> Bottom], stores |-> <<>>]

RootStep(proto, s, pc) ==
    [regs |-> RootTransfer(proto, pc, s.regs),
     stores |-> IF proto.words[pc].op = "SETGLOBAL"
                THEN Append(s.stores, Store(proto, pc, s.regs)) ELSE s.stores]

(* The values and the stores before each pc, and at the end *)
RootStates(proto) ==
    LET exec == Instructions(proto)
        upTo[n \in 0..NumWords(proto)] ==
            IF n = 0 THEN StartRoot(proto)
            ELSE IF n - 1 \in exec THEN RootStep(proto, upTo[n - 1], n - 1)
            ELSE upTo[n - 1]
    IN  upTo

RootStores(proto) == RootStates(proto)[NumWords(proto)].stores

IsClosureStore(st) == IsKnown(st.value) /\ st.value.kind.shape = "Closure"
=============================================================================
