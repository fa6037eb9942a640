-------------------------- MODULE OriginsSoundness --------------------------
(***************************************************************************)
(* The facts of the origin analysis against executions. When the analysis  *)
(* is done, an instrumented Lua 5.1 machine runs the prototype on every    *)
(* path. Its registers hold, instead of Lua values, how each value came    *)
(* about on that very run and, if it is a table the prototype made, which  *)
(* one; its heap holds what those tables contain. Other code runs inside   *)
(* calls: it may write to every table it can reach and to the variables    *)
(* its closures share. The machine is lvm.c of Lua 5.1, which is not in    *)
(* the repository; as the documentation says, metamethods and the debug    *)
(* library are left out.                                                   *)
(***************************************************************************)
EXTENDS Origins

CONSTANTS
    MaxTables,    \* tables the machine may make on one run
    MaxEntries    \* list entries one table may get

VARIABLES
    vmpc,      \* the next instruction, Halted after a return
    regs,      \* register -> value
    upvals,    \* upvalue slot -> value
    heap,      \* the tables made so far
    escaped,   \* those that other code can reach
    open,      \* captured registers and upvalues: [child, slot, kind, index]
    top,       \* one past the last result of an open instruction
    unseen     \* a table left the prototype, or was written to, in a way the
               \* analysis does not follow

vmVars == <<vmpc, regs, upvals, heap, escaped, open, top, unseen>>
allVars == <<vars, vmVars>>

NoTable == 0

(* How a value came about, and the table of this prototype it is *)
Value(from, table) == [from |-> from, table |-> table]
Foreign == Value(Leaf(<<"foreign">>, {}), NoTable)

(* What other code wrote to a captured variable *)
WrittenByOthers == Value(Leaf(<<"written">>, {}), NoTable)

(* What an open VARARG left in a register. No compiler reads such a register
   but through the open window that takes the values. *)
Spread == Value(Leaf(<<"spread">>, {}), NoTable)

IsSpread(from) == IsA(from, "spread")

(* Provenance is kept to the depth a claim may have. *)
RECURSIVE CutAt(_, _)
CutAt(e, depth) ==
    IF depth = 0 THEN Leaf(<<"deep">>, {})
    ELSE Node(e.label, [i \in DOMAIN e.parts |-> CutAt(e.parts[i], depth - 1)], e.ev)

(* The value computed by an instruction *)
Made(from) == Value(CutAt(from, MaxExpressionDepth), NoTable)

Traced(value, id) == Value(AddEvidence(value.from, {id}), value.table)

-----------------------------------------------------------------------------
(* What a claim says *)

RECURSIVE Matches(_, _)
(* A claim about a value holds now: nothing is claimed by an unknown, and
   what is claimed of a table is what the table holds and nothing else. *)
Matches(claim, from) ==
    LET pairwise(claims, values) ==
            /\ Len(claims) = Len(values)
            /\ \A i \in DOMAIN claims : Matches(claims[i], values[i])
        object == heap[from.label[2]]
        keys == claim.label[2]
    IN  CASE IsA(claim, "unknown") -> TRUE
          [] IsA(claim, "alternatives") ->
                \E i \in DOMAIN claim.parts :
                    Matches(AddEvidence(claim.parts[i], claim.ev), from)
          [] IsA(claim, "table") ->
                /\ IsA(from, "object")
                /\ from.ev \subseteq claim.ev
                /\ object.private /\ DOMAIN object.fields = {}
                /\ pairwise(claim.parts, [i \in DOMAIN object.list |-> object.list[i].from])
          [] IsA(claim, "table literal") ->
                /\ IsA(from, "object")
                /\ \A i \in DOMAIN keys :
                      /\ keys[i] \in DOMAIN object.fields
                      /\ Matches(claim.parts[i], object.fields[keys[i]].from)
                /\ ~claim.label[3] =>
                      /\ object.private /\ object.list = <<>>
                      /\ \A k \in DOMAIN object.fields : IsIn(k, keys)
          [] OTHER -> /\ claim.label = from.label
                      /\ from.ev \subseteq claim.ev
                      /\ pairwise(claim.parts, from.parts)

-----------------------------------------------------------------------------
(* The heap *)

(* All tables reachable from some of them *)
TablesWithin(objects, from) ==
    LET held(n) == {objects[n].list[i].table : i \in DOMAIN objects[n].list}
                     \cup {objects[n].fields[k].table : k \in DOMAIN objects[n].fields}
        wave[i \in 0..MaxTables] ==
            IF i = 0 THEN from \ {NoTable}
            ELSE wave[i - 1] \cup (UNION {held(n) : n \in wave[i - 1]} \ {NoTable})
    IN  wave[MaxTables]

(* Other code may have changed every table it can reach. *)
AfterOthers(reached) ==
    [n \in DOMAIN heap |->
        IF n \in reached THEN [private |-> FALSE, list |-> <<>>, fields |-> [k \in {} |-> {}]]
        ELSE heap[n]]

(* What a lookup gives: a table that was stored there before, or one that
   other code put there. *)
TablesRead(base, key) ==
    IF base.table = NoTable THEN {NoTable} \cup escaped
    ELSE IF key \in DOMAIN heap[base.table].fields
    THEN {heap[base.table].fields[key].table}
    ELSE {NoTable} \cup (IF heap[base.table].private THEN {} ELSE escaped)

RkValue(t, id, operand) ==
    IF operand >= 256 THEN Value(ConstantAt(t.proto, id, operand - 256), NoTable)
    ELSE regs[operand]

(* The key of an access as [key, from, ev]; "?" if it is no literal. *)
KeyOf(t, id, operand) ==
    LET from == regs[operand].from
    IN  IF operand >= 256 THEN [key |-> t.proto.values[operand - 256],
                                from |-> "constant", ev |-> {id}]
        ELSE IF IsA(from, "literal")
        THEN [key |-> from.label[2], from |-> "register", ev |-> from.ev \cup {id}]
        ELSE [key |-> "?", from |-> "register", ev |-> {id}]

-----------------------------------------------------------------------------
(* Captured variables *)

RECURSIVE WritesUpvalue(_, _)
(* Some closure of proto or below may write to the variable behind slot. *)
WritesUpvalue(proto, slot) ==
    \/ \E pc \in Instructions(proto) :
          proto.words[pc].op = "SETUPVAL" /\ proto.words[pc].b = slot
    \/ \E i \in DOMAIN proto.kids, s \in 0..3 :
          /\ s < proto.kids[i].nups
          /\ \E pc \in ClosuresOf(proto, i) :
                /\ proto.words[pc + 1 + s].op = "GETUPVAL"
                /\ proto.words[pc + 1 + s].b = slot
          /\ WritesUpvalue(proto.kids[i], s)

Writable(t, kind) ==
    {c.index : c \in {c \in open : c.kind = kind /\ WritesUpvalue(t.proto.kids[c.child], c.slot)}}

CapturedBy(t, pc) ==
    LET w == t.proto.words[pc]
        d(s) == t.proto.words[pc + 1 + s]
    IN  {[child |-> w.x, slot |-> s, index |-> d(s).b,
          kind |-> IF d(s).op = "MOVE" THEN "register" ELSE "upvalue"] :
            s \in Slots(t.proto.kids[w.x])}

-----------------------------------------------------------------------------
(* Steps of the machine *)

At(op) == vmpc \in Pcs(task.proto) /\ task.proto.words[vmpc].op = op

W == task.proto.words[vmpc]
Here == Id(task.proto, vmpc)

SetReg(r, value) == [regs EXCEPT ![r] = value]
Keeps(list) == UNCHANGED list

(* Instructions that compute one register from others *)
Compute ==
    LET rk(operand) == RkValue(task, Here, operand).from
        from == CASE W.op = "LOADK" -> ConstantAt(task.proto, Here, W.x)
                  [] W.op = "LOADBOOL" ->
                        Literal(IF W.b = 0 THEN "false" ELSE "true", "instruction", {Here})
                  [] W.op \in Arithmetic ->
                        Operation(W.op, <<rk(W.b), rk(W.c)>>, {Here})
                  [] W.op \in {"UNM", "NOT", "LEN"} ->
                        Operation(W.op, <<regs[W.b].from>>, {Here})
                  [] W.op = "CONCAT" ->
                        Operation(W.op, [i \in 1..(W.c - W.b + 1) |-> regs[W.b + i - 1].from],
                                  {Here})
    IN  /\ W.op \in {"LOADK", "LOADBOOL", "UNM", "NOT", "LEN", "CONCAT"} \cup Arithmetic
        /\ regs' = SetReg(W.a, Made(from))
        /\ Keeps(<<upvals, heap, escaped, open, top, unseen>>)

(* MOVE, and GETUPVAL from a variable that may be written to *)
Copy ==
    /\ \/ At("MOVE") /\ regs' = SetReg(W.a, Traced(regs[W.b], Here))
       \/ At("GETUPVAL") /\ regs' = SetReg(W.a, Traced(upvals[W.b], Here))
       \/ At("LOADNIL") /\ regs' = [r \in DOMAIN regs |->
             IF r \in W.a..W.b THEN Made(Literal("nil", "instruction", {Here})) ELSE regs[r]]
    /\ Keeps(<<upvals, heap, escaped, open, top, unseen>>)

(* TESTSET assigns on the path that does not skip. *)
TestSet ==
    /\ At("TESTSET")
    /\ \/ vmpc' = vmpc + 1 /\ regs' = SetReg(W.a, Traced(regs[W.b], Here))
       \/ vmpc' = vmpc + 2 /\ regs' = regs
    /\ Keeps(<<upvals, heap, escaped, open, top, unseen>>)

GetGlobal ==
    /\ At("GETGLOBAL")
    /\ \E table \in {NoTable} \cup escaped :
          regs' = SetReg(W.a, Value(Global(task.proto.values[W.x], {Here}), table))
    /\ Keeps(<<upvals, heap, escaped, open, top, unseen>>)

Lookup ==
    /\ At("GETTABLE") \/ At("SELF")
    /\ LET base == regs[W.b]
           key == KeyOf(task, Here, W.c)
           from == CutAt(FieldOf(base.from, key.key, key.from, key.ev), MaxExpressionDepth)
       IN  \E table \in TablesRead(base, key.key) :
              regs' = IF W.op = "SELF"
                      THEN [regs EXCEPT ![W.a + 1] = base, ![W.a] = Value(from, table)]
                      ELSE SetReg(W.a, Value(from, table))
    /\ Keeps(<<upvals, heap, escaped, open, top, unseen>>)

NewTable ==
    /\ At("NEWTABLE")
    /\ Len(heap) < MaxTables
    /\ heap' = Append(heap, [private |-> TRUE, list |-> <<>>, fields |-> [k \in {} |-> {}]])
    /\ regs' = SetReg(W.a, Value(Leaf(<<"object", Len(heap) + 1>>, {Here}), Len(heap) + 1))
    /\ Keeps(<<upvals, escaped, open, top, unseen>>)

(* The register written through holds a value that was read back, or one
   that an open VARARG overwrote. *)
WritesUnseen(n) ==
    \/ n # NoTable /\ ~IsA(regs[W.a].from, "object")
    \/ IsSpread(regs[W.a].from)

(* A table whose new entries are the registers that follow it, as many as the
   instruction says or up to the top *)
Fill ==
    /\ At("SETLIST")
    /\ LET n == regs[W.a].table
           count == IF W.b > 0 THEN W.b ELSE top - (W.a + 1)
           entries == [i \in 1..count |-> regs[W.a + i]]
       IN  IF n = NoTable THEN UNCHANGED <<heap, unseen, escaped, regs>>
           ELSE /\ Len(heap[n].list) + count <= MaxEntries
                /\ heap' = [heap EXCEPT ![n].list = @ \o entries]
                /\ unseen' = \/ unseen
                             \/ WritesUnseen(n)
                             \/ \E i \in DOMAIN entries : entries[i].table # NoTable
                             \/ \E r \in DOMAIN regs :
                                   /\ ~IsA(regs[r].from, "object")
                                   /\ Holds(regs[r].from, <<"object", n>>)
                /\ escaped' = escaped \cup
                      (IF n \in escaped
                       THEN TablesWithin(heap, {entries[i].table : i \in DOMAIN entries})
                       ELSE {})
                /\ regs' = [r \in DOMAIN regs |->
                      IF r = W.a THEN Traced(regs[r], Here) ELSE regs[r]]
    /\ Keeps(<<upvals, open, top>>)

(* A field is written, if not of one of the prototype's own tables then of
   one that others hold: what is stored there escapes. *)
Store ==
    /\ At("SETTABLE")
    /\ LET n == regs[W.a].table
           key == KeyOf(task, Here, W.b)
           value == RkValue(task, Here, W.c)
           leaks == TablesWithin(heap, {value.table})
       IN  IF n = NoTable
           THEN escaped' = escaped \cup leaks /\ UNCHANGED heap
           ELSE /\ heap' = [heap EXCEPT ![n] =
                      IF key.key = "?" THEN [@ EXCEPT !.private = FALSE]
                      ELSE [@ EXCEPT !.fields = (key.key :> value) @@ @]]
                /\ escaped' = IF n \in escaped THEN escaped \cup leaks ELSE escaped
    /\ unseen' = (unseen \/ WritesUnseen(regs[W.a].table)
                    \/ RkValue(task, Here, W.c).table # NoTable)
    /\ Keeps(<<regs, upvals, open, top>>)

SetGlobal ==
    /\ At("SETGLOBAL")
    /\ escaped' = escaped \cup TablesWithin(heap, {regs[W.a].table})
    /\ Keeps(<<regs, upvals, heap, open, top, unseen>>)

SetUpvalue ==
    /\ At("SETUPVAL")
    /\ upvals' = [upvals EXCEPT ![W.b] = regs[W.a]]
    /\ escaped' = escaped \cup TablesWithin(heap, {regs[W.a].table})
    /\ Keeps(<<regs, heap, open, top, unseen>>)

MakeClosure ==
    /\ At("CLOSURE")
    /\ regs' = SetReg(W.a, Made(Prototype(Append(task.proto.path, W.x), {Here})))
    /\ open' = open \cup CapturedBy(task, vmpc)
    /\ LET captured == {regs[c.index].table : c \in {c \in CapturedBy(task, vmpc) :
                                                       c.kind = "register"}} \ {NoTable}
       IN  /\ escaped' = escaped \cup TablesWithin(heap, captured)
           /\ unseen' = (unseen \/ captured # {})
    /\ Keeps(<<upvals, heap, top>>)

Close ==
    /\ At("CLOSE")
    /\ open' = {c \in open : ~(c.kind = "register" /\ c.index >= W.a)}
    /\ Keeps(<<regs, upvals, heap, escaped, top, unseen>>)

(* The registers of the callee and its arguments *)
Passed == {r \in DOMAIN regs : r >= W.a /\ r <= (IF W.b = 0 THEN top - 1 ELSE W.a + W.b - 1)}

(* A call with a fixed or an open number of results. What it is given
   escapes, what has escaped may change, and the closures it may run write
   to the variables they share or do not. *)
Call ==
    /\ At("CALL") \/ At("TAILCALL")
    /\ LET reached == escaped \cup TablesWithin(heap, {regs[r].table : r \in Passed})
           result(r) == Value(CallResult(Here, r - W.a), NoTable)
       IN  \E writes \in BOOLEAN, last \in {W.a - 1, W.a} :
              LET cells == IF writes THEN Writable(task, "register") ELSE {}
                  ups == IF writes THEN Writable(task, "upvalue") ELSE {}
              IN  /\ writes => Writable(task, "register") \cup Writable(task, "upvalue") # {}
                  /\ W.c # 0 => last = W.a
                  /\ escaped' = reached
                  /\ heap' = AfterOthers(reached)
                  /\ upvals' = [u \in DOMAIN upvals |-> IF u \in ups THEN WrittenByOthers ELSE upvals[u]]
                  /\ top' = IF W.c = 0 THEN last + 1 ELSE top
                  /\ regs' = [r \in DOMAIN regs |->
                        IF r >= W.a
                        THEN IF r <= (IF W.c = 0 THEN last ELSE W.a + W.c - 2)
                             THEN result(r) ELSE Foreign
                        ELSE IF r \in cells THEN WrittenByOthers ELSE regs[r]]
    /\ unseen' = (unseen \/ escaped \ {regs[r].table : r \in Passed} # {})
    /\ UNCHANGED open

Vararg ==
    /\ At("VARARG")
    /\ \E last \in {W.a - 1, W.a} :
          /\ W.b # 0 => last = W.a + W.b - 2
          /\ top' = IF W.b = 0 THEN last + 1 ELSE top
          /\ regs' = [r \in DOMAIN regs |->
                IF r < W.a THEN regs[r]
                ELSE IF W.b = 0 THEN Spread
                ELSE IF r <= last THEN Foreign ELSE regs[r]]
    /\ Keeps(<<upvals, heap, escaped, open, unseen>>)

(* The iterator of a generic for loop is a call of other code too. *)
Iterate ==
    /\ At("TFORLOOP")
    /\ heap' = AfterOthers(escaped)
    /\ unseen' = (unseen \/ escaped # {})
    /\ regs' = [r \in DOMAIN regs |-> IF r >= W.a + 2 THEN Foreign ELSE regs[r]]
    /\ Keeps(<<upvals, escaped, open, top>>)

Count ==
    /\ At("FORLOOP") \/ At("FORPREP")
    /\ regs' = [r \in DOMAIN regs |->
          IF r = W.a \/ (W.op = "FORLOOP" /\ r = W.a + 3) THEN Foreign ELSE regs[r]]
    /\ Keeps(<<upvals, heap, escaped, open, top, unseen>>)

NoEffect ==
    /\ W.op \in {"JMP", "EQ", "LT", "LE", "TEST", "RETURN"}
    /\ Keeps(<<regs, upvals, heap, escaped, open, top, unseen>>)

Step ==
    \/ Compute \/ Copy \/ GetGlobal \/ Lookup \/ NewTable \/ Fill \/ Store \/ SetGlobal
    \/ SetUpvalue \/ MakeClosure \/ Close \/ Call \/ Vararg \/ Iterate \/ Count \/ NoEffect

-----------------------------------------------------------------------------

(* A frame on entry: parameters, and upvalues that are what the captures
   say of them. *)
RunInit ==
    /\ Init
    /\ vmpc = 0
    /\ regs = [r \in Registers(task.proto) |->
                 IF r < task.proto.params
                 THEN Value(Parameter(task.proto.path, r, {}), NoTable) ELSE Foreign]
    /\ upvals = [u \in Slots(task.proto) |->
                   IF u \in DOMAIN task.captures /\ ~IsA(task.captures[u], "unknown")
                   THEN Value(task.captures[u], NoTable) ELSE Foreign]
    /\ heap = <<>>
    /\ escaped = {}
    /\ open = {}
    /\ top = 0
    /\ unseen = FALSE

Analyse == Next /\ UNCHANGED vmVars

Execute ==
    /\ phase = "done"
    /\ vmpc \in Pcs(task.proto)
    /\ \/ TestSet
       \/ Step /\ vmpc' \in NextPcs(task.proto, vmpc)
    /\ UNCHANGED vars

RunNext == Analyse \/ Execute

RunSpec == RunInit /\ [][RunNext]_allVars

-----------------------------------------------------------------------------
(* Properties *)

(* Rounds of the worklist until nothing moves: a block settles in a few
   visits beyond the ones it may change in. *)
SettleRounds(t) ==
    Cardinality(t.reach) * Cardinality(t.reach) * (MaxBlockRevisits + 4)

(* The analysis holds on to what the entry block was given (origins.rs:367),
   so that functions whose loop starts at the entry are left out. *)
StraightEntry == Preds(task, task.cfg.entry) = {}

AtCall == phase = "done" /\ vmpc \in DOMAIN calls

Argument(i) == calls[vmpc].arguments[i]
Actual(i) == regs[W.a + i].from

(* Every origin reported for an argument of a call the machine is about to
   make says how that argument came about on this very run, or one of its
   alternatives does: through branches, loops and the edge a TESTSET skips,
   and for a table what is in it, in spite of aliases, stores and calls. An
   open window reports no argument the call does not have. Of a register that
   only an open VARARG overwrote, a table literal may be out of date
   (origins.rs:1342). *)
ArgumentsAreTrue ==
    (AtCall /\ StraightEntry /\ ~unseen) =>
        \A i \in DOMAIN calls[vmpc].arguments :
            /\ calls[vmpc].open => W.a + i < top
            /\ \/ Holds(Actual(i), <<"written">>)
               \/ Matches(Argument(i), Actual(i))
               \/ IsSpread(Actual(i)) /\ IsA(Argument(i), "table literal")

RECURSIVE IsPathFrom(_, _, _)
IsPathFrom(from, parameter, path) ==
    IF path = <<>> THEN from.label = <<"parameter", task.proto.path, parameter>>
    ELSE /\ IsA(from, "field")
         /\ from.label[2] = Last(path)
         /\ IsPathFrom(from.parts[1], parameter, Front(path))

BaseOf(fact) == regs[IF fact.write THEN W.a ELSE W.b].from

(* An access that is reported to be rooted at a parameter is: the table the
   machine is about to access came from that parameter through those keys. *)
ParameterFieldsAreTrue ==
    (phase = "done" /\ StraightEntry) =>
        \A f \in fields :
            (f.pc = vmpc /\ ~Holds(BaseOf(f), <<"written">>)) =>
                IsPathFrom(BaseOf(f), f.parameter, f.path)

CellValue(c) == IF c.kind = "register" THEN regs[c.index].from ELSE upvals[c.index].from

(* What a child prototype is told of an upvalue is true of the captured
   variable as long as any of its closures shares it with the frame, whatever
   the frame, a sibling or a grandchild writes in the meantime. An open VARARG
   over the variable itself is not seen (origins.rs:2096). *)
CapturesAreTrue ==
    (phase = "done" /\ StraightEntry /\ ~unseen) =>
        \A c \in open :
            LET claim == ChildEnvironment(c.child)[c.slot]
                value == CellValue(c)
            IN  \/ Matches(claim, value)
                \/ Holds(value, <<"written">>) /\ value # WrittenByOthers.from
                \/ c.kind = "register" /\ IsSpread(value)

(* A call that can be reached is never reported unreachable, and a spent
   budget is visible in every fact. *)
LimitsAreTotal ==
    phase = "done" =>
        /\ \A pc \in DOMAIN calls : \A i \in DOMAIN calls[pc].arguments :
                 /\ exhausted => IsUnknownFor(calls[pc].arguments[i], "AnalysisLimit")
                 /\ pc = vmpc => ~IsUnknownFor(calls[pc].arguments[i], "Unreachable")
        /\ exhausted => fields = {} /\ children = [i \in {} |-> {}]

(* "A slot that does keep moving is widened to the conflict above and absorbs
   from then on": with one round for every block and every value a slot may
   pass through before it is widened, the budget does not run out. *)
SettlesWithinBound ==
    (phase = "done" /\ task.budget >= NumWords(task.proto) * SettleRounds(task)) => ~exhausted

(* No origin is stale: what is reported for an argument that a closure shares
   is true of the value that closure left there. *)
SharedVariablesAreCurrent ==
    (AtCall /\ StraightEntry /\ ~unseen) =>
        \A i \in DOMAIN calls[vmpc].arguments : Matches(Argument(i), Actual(i))
=============================================================================
