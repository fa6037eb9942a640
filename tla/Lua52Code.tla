----------------------------- MODULE Lua52Code -----------------------------
(***************************************************************************)
(* Instructions of Lua 5.2: what its validator accepts (validator.rs) and  *)
(* what its lifter says an instruction does (lifter.rs). A word has the    *)
(* form of Lua51Code; x is Bx, Ax or the absolute target of a jump, and    *)
(* consts the number of constants of a prototype. Decoding of the raw word *)
(* is left out, and so is the wrapping of register numbers above 255, which *)
(* no accepted word reaches.                                               *)
(***************************************************************************)
EXTENDS Operands

BinaryOps == {"ADD", "SUB", "MUL", "DIV", "MOD", "POW"}
UnaryOps == {"UNM", "NOT", "LEN"}
JumpOps == {"JMP", "FORLOOP", "FORPREP", "TFORLOOP"}
SkipOps == {"EQ", "LT", "LE", "TEST", "TESTSET"}

Opcodes ==
    {"MOVE", "LOADK", "LOADKX", "LOADBOOL", "LOADNIL", "GETUPVAL", "GETTABUP",
     "GETTABLE", "SETTABUP", "SETUPVAL", "SETTABLE", "NEWTABLE", "SELF", "CONCAT",
     "CALL", "TAILCALL", "RETURN", "TFORCALL", "SETLIST", "CLOSURE", "VARARG",
     "EXTRAARG"} \cup BinaryOps \cup UnaryOps \cup JumpOps \cup SkipOps

-----------------------------------------------------------------------------
(* The lifter. LOADBOOL does not say that it skips, and no word is a
   companion of another. *)

JumpTargets(w) == IF w.op \in JumpOps THEN {w.x} ELSE {}
SkipTargets(w, pc) == IF w.op \in SkipOps THEN {pc + 2} ELSE {}

Loads(w) ==
    [MOVE     |-> Effect({R(w.b)}, {R(w.a)}),
     LOADK    |-> Effect({K(w.x)}, {R(w.a)}),
     LOADKX   |-> Effect({}, {R(w.a)}),
     LOADBOOL |-> Effect({}, {R(w.a)}),
     LOADNIL  |-> Effect({}, Window(w.a, w.a + (w.b % 256))),
     GETUPVAL |-> Effect({U(w.b)}, {R(w.a)})]

Tables(w) ==
    [GETTABUP |-> Effect({U(w.b)} \cup RK(w.c), {R(w.a)}),
     GETTABLE |-> Effect({R(w.b)} \cup RK(w.c), {R(w.a)}),
     SETTABUP |-> Effect({U(w.a)} \cup RK(w.b) \cup RK(w.c), {}),
     SETUPVAL |-> Effect({R(w.a)}, {U(w.b)}),
     SETTABLE |-> Effect({R(w.a)} \cup RK(w.b) \cup RK(w.c), {}),
     NEWTABLE |-> Effect({}, {R(w.a)}),
     SELF     |-> Effect({R(w.b)} \cup RK(w.c), Window(w.a, w.a + 1))]

Operators(w) ==
    [op \in BinaryOps |-> Effect(RK(w.b) \cup RK(w.c), {R(w.a)})]

UnaryOperators(w) ==
    [op \in UnaryOps |-> Effect({R(w.b)}, {R(w.a)})]

Tests(w) ==
    [CONCAT  |-> Effect(Window(w.b % 256, w.c % 256), {R(w.a)}),
     EQ      |-> Effect(RK(w.b) \cup RK(w.c), {}),
     LT      |-> Effect(RK(w.b) \cup RK(w.c), {}),
     LE      |-> Effect(RK(w.b) \cup RK(w.c), {}),
     TEST    |-> Effect({R(w.a)}, {}),
     TESTSET |-> Effect({R(w.b)}, {R(w.a)})]

(* The function and its arguments *)
Called(w) ==
    {R(w.a)} \cup (IF w.b > 1 THEN Window(w.a + 1, w.a + (w.b % 256) - 1) ELSE {})

Calls(w) ==
    [CALL     |-> Effect(Called(w),
                    IF w.c > 1 THEN Window(w.a, w.a + (w.c % 256) - 2) ELSE {}),
     TAILCALL |-> Effect(Called(w), {}),
     RETURN   |-> Effect(IF w.b > 1 THEN Window(w.a, w.a + (w.b % 256) - 2) ELSE {}, {}),
     CLOSURE  |-> Effect({}, {R(w.a)}),
     VARARG   |-> Effect({}, IF w.b > 1 THEN Window(w.a, w.a + (w.b % 256) - 2) ELSE {})]

Loops(w) ==
    [FORLOOP  |-> Effect(Window(w.a, w.a + 2), {R(w.a), R(w.a + 3)}),
     FORPREP  |-> Effect(Window(w.a, w.a + 2), {R(w.a)}),
     TFORCALL |-> Effect(Window(w.a, w.a + 2), Window(w.a + 3, w.a + 2 + (w.c % 256))),
     TFORLOOP |-> Effect({R(w.a + 1)}, {R(w.a)}),
     SETLIST  |-> Effect(Window(w.a + 1, w.a + (IF w.b = 0 THEN 1 ELSE w.b % 256)),
                         {R(w.a)})]

In(table, op) == IF op \in DOMAIN table THEN {table[op]} ELSE {}

(* Instructions without an entry (JMP, EXTRAARG) have no effect. *)
Effects(w) ==
    LET found == In(Loads(w), w.op) \cup In(Tables(w), w.op) \cup In(Operators(w), w.op)
                   \cup In(UnaryOperators(w), w.op) \cup In(Tests(w), w.op)
                   \cup In(Calls(w), w.op) \cup In(Loops(w), w.op)
    IN  IF found = {} THEN NoEffect ELSE CHOOSE e \in found : TRUE

-----------------------------------------------------------------------------
(* The validator: errors at one word *)

ARegisterOps == Opcodes \ {"EXTRAARG", "JMP", "SETTABUP", "EQ", "LT", "LE"}
BRegisterOps == UnaryOps \cup {"MOVE", "TESTSET", "GETTABLE", "SELF", "CONCAT"}
RKBOps == BinaryOps \cup {"SETTABUP", "SETTABLE", "EQ", "LT", "LE"}
RKCOps == RKBOps \cup {"GETTABUP", "GETTABLE", "SELF"}

CompanionErrors(proto, pc) ==
    LET w == proto.words[pc]
        follows(p, op) == p \in DOMAIN proto.words /\ proto.words[p].op = op
    IN  Codes("COMPANION-001",
           \/ w.op = "LOADKX" /\ ~follows(pc + 1, "EXTRAARG")
           \/ /\ w.op = "EXTRAARG"
              /\ ~follows(pc - 1, "LOADKX")
              /\ ~(follows(pc - 1, "SETLIST") /\ proto.words[pc - 1].c = 0))

JumpErrors(proto, w) ==
    Codes("JMP-001", \E t \in JumpTargets(w) : t \notin DOMAIN proto.words)
      \cup Codes("REG-001", w.op = "JMP" /\ w.a # 0 /\ w.a - 1 >= proto.maxstack)

RegisterErrors(proto, w) ==
    Codes("REG-001", w.op \in ARegisterOps /\ w.a >= proto.maxstack)
      \cup Codes("REG-002",
             (w.op \in BRegisterOps \/ (w.op \in RKBOps /\ w.b < 256))
               /\ w.b % 256 >= proto.maxstack)
      \cup Codes("REG-003",
             (w.op = "CONCAT" \/ (w.op \in RKCOps /\ w.c < 256))
               /\ w.c % 256 >= proto.maxstack)
      \cup Codes("REG-SPAN-001", w.op = "CONCAT" /\ w.b > w.c)

ConstantErrors(proto, pc) ==
    LET w == proto.words[pc]
    IN  Codes("CONST-002",
           \/ w.op \in RKBOps /\ w.b >= 256 /\ w.b - 256 >= proto.consts
           \/ w.op \in RKCOps /\ w.c >= 256 /\ w.c - 256 >= proto.consts
           \/ w.op = "LOADK" /\ w.x >= proto.consts
           \/ /\ w.op = "EXTRAARG"
              /\ pc > 0 /\ proto.words[pc - 1].op = "LOADKX"
              /\ w.x >= proto.consts)

IndexErrors(proto, w) ==
    Codes("UPVAL-002",
       \/ w.op \in {"GETUPVAL", "SETUPVAL", "GETTABUP"} /\ w.b >= proto.nups
       \/ w.op = "SETTABUP" /\ w.a >= proto.nups)
      \cup Codes("PROTO-002", w.op = "CLOSURE" /\ w.x \notin DOMAIN proto.kids)

(* The first register past the windows of an instruction, as the code counts:
   the windows of arguments and lists may end one register later. *)
SpanErrors(proto, w) ==
    LET a == w.a
        max == proto.maxstack
    IN  Codes("REG-SPAN-001",
           \/ w.op = "LOADNIL" /\ a + w.b >= max
           \/ w.op = "SELF" /\ a + 1 >= max
           \/ w.op \in {"CALL", "TAILCALL"} /\ w.b > 1 /\ a + w.b - 1 > max
           \/ w.op = "CALL" /\ w.c > 1 /\ a + w.c - 2 >= max
           \/ w.op \in {"RETURN", "VARARG"} /\ w.b > 1 /\ a + w.b - 2 >= max
           \/ w.op = "FORLOOP" /\ a + 3 >= max
           \/ w.op = "FORPREP" /\ a + 2 >= max
           \/ w.op = "TFORCALL" /\ a + 2 + w.c > max
           \/ w.op = "TFORLOOP" /\ a + 1 >= max
           \/ w.op = "SETLIST" /\ w.b > 0 /\ a + w.b > max)

(* Every word is an instruction: none is skipped as a companion. *)
WordErrors(proto, pc) ==
    LET w == proto.words[pc]
    IN  IF w.op \notin Opcodes THEN {"OP-001"}
        ELSE CompanionErrors(proto, pc) \cup JumpErrors(proto, w)
               \cup RegisterErrors(proto, w) \cup ConstantErrors(proto, pc)
               \cup IndexErrors(proto, w) \cup SpanErrors(proto, w)
=============================================================================
