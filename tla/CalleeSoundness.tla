--------------------------- MODULE CalleeSoundness ---------------------------
(***************************************************************************)
(* The callee facts of a prototype against its executions. When the        *)
(* analysis is done, an instrumented Lua 5.1 machine runs the prototype on *)
(* every path: its registers hold, instead of Lua values, all the claims   *)
(* that are true of how the value came about on that very run.             *)
(*                                                                         *)
(* A claim is [kind, trace]: a kind of FlowValues and the instructions     *)
(* that established it. The machine is lvm.c of Lua 5.1, which is not in   *)
(* the repository. Its globals hold what this chunk stored in them; a call *)
(* may run any function, the children of the prototype among them.         *)
(***************************************************************************)
EXTENDS CallGraph

(* Why a value that flows or is captured is unknown (CalleeUnresolvedReason,
   as far as run_dataflow and derive_child_captures use it) *)
FlowReasons ==
    {"MissingDefinition", "ControlFlowConflict", "Overwritten", "OpenRegisterWindow",
     "DynamicKey", "PathLimit", "AmbiguousCapture", "MutableCapture", "UnsupportedValue"}

(* CaptureValue: never Bottom, and no path without segments *)
IsCapture(v) ==
    \/ v.tag = "unknown" /\ v.reason \in FlowReasons
    \/ /\ IsKnown(v)
       /\ v.kind.shape \in {"LookupLabel", "SymbolicPath", "LiteralString", "Closure"}
       /\ v.kind.shape = "SymbolicPath" => v.kind.segments \in Seq(STRING) \ {<<>>}
       /\ v.kind.shape = "LiteralString" => v.kind.value \in Strings
       /\ v.kind.shape = "Closure" => v.kind = Closure(v.kind.prototype)

(* What is analysed is a prototype the validator accepts, with captures that
   its parent derives. In a frame of 255 registers, which no compiler makes and
   the validator warns of, the window of a VARARG may be cut short. *)
ASSUME ProgramsAssumption ==
    \A input \in Inputs :
        /\ IsPrototype(input.proto) /\ input.proto.dialect = "5.1"
        /\ Accepted(input.proto) /\ input.proto.maxstack < 255
        /\ \A u \in DOMAIN input.captures : IsCapture(input.captures[u])

ASSUME NamesAssumption ==
    /\ Strings \subseteq STRING
    /\ ModuleSegments \in [Strings -> Seq(STRING)]
    /\ MaxPathSegments \in Nat

VARIABLES
    vmpc,   \* the next instruction, Halted after a return
    regs,   \* the claims true of each register
    globals \* the claims true of each global

vmVars == <<vmpc, regs, globals>>
allVars == <<vars, vmVars>>

Claim(kind, trace) == [kind |-> kind, trace |-> trace]

(* A value that was in a global before the chunk stored anything there. *)
Foreign == [shape |-> "Foreign"]
ForeignClaim == Claim(Foreign, {})

(* The claims of a captured value: what the environment says of it. A global
   was read by the parent, perhaps before any store. *)
CaptureClaims(t, u) ==
    IF u \in DOMAIN t.captures /\ IsKnown(t.captures[u])
    THEN {Claim(t.captures[u].kind, t.captures[u].evidence), ForeignClaim} ELSE {}

(* Claims after one more instruction *)
Through(id, claims) == {Claim(c.kind, c.trace \cup {id}) : c \in claims}

(* A lookup proves its key, and extends every path its receiver is. *)
LookupClaims(id, lookup, receiver, key) ==
    IF key = NoConst THEN {}
    ELSE {Claim(Label(lookup, key), {id})}
         \cup {Claim(Path(c.kind.basis, Append(c.kind.segments, key)), c.trace \cup {id}) :
                 c \in {c \in receiver : /\ c.kind.shape = "SymbolicPath"
                                         /\ key \in Strings
                                         /\ Len(c.kind.segments) < MaxPathSegments}}

(* require("name") with one result returns the module of that name. *)
RequireClaims(id, w, callee, arg) ==
    IF w.b # 2 \/ w.c # 2 THEN {}
    ELSE {Claim(Path("module", ModuleSegments[a.kind.value]), a.trace \cup f.trace \cup {id}) :
            f \in {f \in callee : f.kind = RequirePath},
            a \in {a \in arg : /\ a.kind.shape = "LiteralString"
                               /\ ModuleSegments[a.kind.value] # <<>>
                               /\ Len(ModuleSegments[a.kind.value]) <= MaxPathSegments}}

(* The registers the machine overwrites: a call leaves nothing of the frame
   from the function upwards, a generic for loop calls its iterator above
   its control variable. *)
Overwritten(w) ==
    CASE w.op \in {"CALL", "TAILCALL"} -> {r \in DOMAIN regs : r >= w.a}
      [] w.op = "TFORLOOP" -> {r \in DOMAIN regs : r >= w.a + 2}
      [] w.op = "LOADNIL" -> w.a..w.b
      [] w.op = "SELF" -> {w.a, w.a + 1}
      [] w.op = "FORLOOP" -> {w.a, w.a + 3}
      [] w.op = "VARARG" -> {r \in DOMAIN regs : r >= w.a /\ (w.b > 0 => r <= w.a + w.b - 2)}
      [] w.op \in {"SETGLOBAL", "SETUPVAL", "SETTABLE", "JMP", "EQ", "LT", "LE",
                   "TEST", "RETURN", "CLOSE"} -> {}
      [] OTHER -> {w.a}

(* The claims of each register after the instruction at pc. *)
Executed(t, pc) ==
    LET w == t.proto.words[pc]
        id == Id(t.proto, pc)
        cleared == [r \in DOMAIN regs |-> IF r \in Overwritten(w) THEN {} ELSE regs[r]]
    IN  CASE w.op = "LOADK" ->
              [cleared EXCEPT ![w.a] =
                 {Claim(IF w.k \in Strings THEN Literal(w.k) ELSE NonClosure, {id})}]
          [] w.op = "GETGLOBAL" ->
              [cleared EXCEPT ![w.a] =
                 {Claim(Path("global", <<w.k>>), {id})} \cup Through(id, globals[w.k])]
          [] w.op = "MOVE" ->
              [cleared EXCEPT ![w.a] = Through(id, regs[w.b])]
          [] w.op = "GETUPVAL" ->
              [cleared EXCEPT ![w.a] = CaptureClaims(t, w.b)]
          [] w.op = "GETTABLE" ->
              [cleared EXCEPT ![w.a] = LookupClaims(id, "gettable", regs[w.b], w.k)]
          [] w.op = "SELF" ->
              [cleared EXCEPT ![w.a + 1] = regs[w.b],
                              ![w.a] = LookupClaims(id, "self", regs[w.b], w.k)]
          [] w.op = "CALL" ->
              [cleared EXCEPT ![w.a] =
                 IF w.a + 1 \in DOMAIN regs
                 THEN RequireClaims(id, w, regs[w.a], regs[w.a + 1]) ELSE {}]
          [] w.op = "CLOSURE" ->
              [cleared EXCEPT ![w.a] = {Claim(Closure(ChildPath(t.proto, w.x)), {id})}]
          [] OTHER -> cleared

(* What a global may hold after a call, which may run the stores of the
   children: what it held, or what one of them stored last. *)
AfterCall(t, g) ==
    {globals[g]} \cup
    {IF s.value.tag = "closure" THEN {Claim(Closure(s.value.prototype), s.value.evidence)} ELSE {} :
        s \in {s \in ChildStores(t) : s.name = g}}

(* What the globals may hold after the instruction at pc *)
StoredAfter(t, pc) ==
    LET w == t.proto.words[pc]
    IN  CASE w.op = "SETGLOBAL" ->
              {[globals EXCEPT ![w.k] = Through(Id(t.proto, pc), regs[w.a])]}
          [] w.op \in {"CALL", "TAILCALL", "TFORLOOP"} ->
              {after \in [Strings -> UNION {AfterCall(t, g) : g \in Strings}] :
                 \A g \in Strings : after[g] \in AfterCall(t, g)}
          [] OTHER -> {globals}

-----------------------------------------------------------------------------

RunInit ==
    /\ Init
    /\ vmpc = 0
    /\ regs = [r \in Registers(task.proto) |-> {}]
    /\ globals = [g \in Strings |-> {ForeignClaim}]

Analyse == Next /\ UNCHANGED vmVars

Execute ==
    /\ phase = "done"
    /\ vmpc \in Pcs(task.proto)
    /\ vmpc' \in NextPcs(task.proto, vmpc)
    /\ regs' = Executed(task, vmpc)
    /\ globals' \in StoredAfter(task, vmpc)
    /\ UNCHANGED vars

RunNext == Analyse \/ Execute

RunSpec == RunInit /\ [][RunNext]_allVars

-----------------------------------------------------------------------------
(* Properties *)

(* No fact claims more than an execution bears out: when the machine is
   about to make a call whose callee the analysis resolved, the value in the
   callee register came about as the fact says on this very run, through
   instructions the evidence lists. *)
ResolvedCallsAreTrue ==
    (phase = "done" /\ vmpc \in DOMAIN facts /\ facts[vmpc].status = "resolved") =>
        \E c \in regs[task.proto.words[vmpc].a] :
            c.kind = facts[vmpc].kind /\ c.trace \subseteq facts[vmpc].evidence

(* A call the machine can reach is never reported unreachable, nor decided
   by the initial Bottom of a block nothing was propagated to. *)
ReachedCallsAreAnalysed ==
    (phase = "done" /\ vmpc \in DOMAIN facts) =>
        /\ facts[vmpc] # Unresolved("Unreachable")
        /\ ~exhausted => \A r \in Registers(task.proto) :
                            in[task.block[vmpc]][r] # Bottom

(* A relation of the call graph is true of every execution: the callee
   register holds a closure of the prototype it names, made and stored by
   the instructions of its evidence, unless the global was read before the
   chunk stored anything in it, whose order the relation does not claim. A
   global said to have no store in the chunk is never seen with a value of
   the chunk. When the budget was spent, no half-propagated state shows in a
   relation: each is unresolved by the limit. *)
RelationsAreTrue ==
    (phase = "done" /\ vmpc \in DOMAIN facts) =>
        LET r == Relations(task, in, exhausted, facts)[vmpc]
            held == regs[task.proto.words[vmpc].a]
        IN  /\ r.status = "resolved" =>
                  \E c \in held :
                    \/ c.kind = Closure(r.callee) /\ c.trace \subseteq r.evidence
                    \/ c.kind = Foreign /\ r.basis = "unique-global-store"
            /\ r = Unresolved("MissingPrototypeStore") => \E c \in held : c.kind = Foreign
            /\ exhausted => r = Unresolved("AnalysisLimit")
=============================================================================
