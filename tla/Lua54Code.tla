----------------------------- MODULE Lua54Code -----------------------------
(***************************************************************************)
(* Instructions of Lua 5.4: what its validator accepts (validator.rs) and  *)
(* what its lifter says an instruction does (lifter.rs). A word has the    *)
(* form of Lua51Code; k is the bit k, and x is Ax, the distance Bx of a    *)
(* loop instruction, the index Bx, or the absolute target of a JMP.        *)
(* Decoding of the raw word is left out.                                   *)
(***************************************************************************)
EXTENDS Operands

ImmediateOps == {"ADDI", "SHRI", "SHLI"}
ConstantOps == {"ADDK", "SUBK", "MULK", "MODK", "POWK", "DIVK", "IDIVK", "BANDK",
                "BORK", "BXORK"}
BinaryOps == {"ADD", "SUB", "MUL", "MOD", "POW", "DIV", "IDIV", "BAND", "BOR",
              "BXOR", "SHL", "SHR"}
UnaryOps == {"UNM", "BNOT", "NOT", "LEN"}
FallbackOps == {"MMBIN", "MMBINI", "MMBINK"}
ImmediateTests == {"EQI", "LTI", "LEI", "GTI", "GEI"}
SkipOps == ImmediateTests \cup {"EQ", "LT", "LE", "EQK", "TEST", "TESTSET", "LFALSESKIP"}
ForwardOps == {"FORPREP", "TFORPREP"}
BackwardOps == {"FORLOOP", "TFORLOOP"}

Opcodes ==
    {"MOVE", "LOADI", "LOADF", "LOADK", "LOADKX", "LOADFALSE", "LOADTRUE", "LOADNIL",
     "GETUPVAL", "SETUPVAL", "GETTABUP", "GETTABLE", "GETI", "GETFIELD", "SETTABUP",
     "SETTABLE", "SETI", "SETFIELD", "NEWTABLE", "SELF", "CONCAT", "CLOSE", "TBC",
     "JMP", "CALL", "TAILCALL", "RETURN", "RETURN0", "RETURN1", "TFORCALL", "SETLIST",
     "CLOSURE", "VARARG", "VARARGPREP", "EXTRAARG"}
    \cup ImmediateOps \cup ConstantOps \cup BinaryOps \cup UnaryOps \cup FallbackOps
    \cup SkipOps \cup ForwardOps \cup BackwardOps

-----------------------------------------------------------------------------
(* The lifter *)

(* A preparation is said to go to the end of its loop, although the machine
   goes past it or falls through. *)
JumpTargets(w, pc) ==
    IF w.op = "JMP" THEN {w.x}
    ELSE IF w.op \in ForwardOps THEN {pc + 1 + w.x}
    ELSE IF w.op \in BackwardOps THEN {IF pc + 1 < w.x THEN 0 ELSE pc + 1 - w.x}
    ELSE {}

(* Mutant: LFALSESKIP is a plain load. *)
SkipTargetsOfTests(w, pc) ==
    IF w.op \in SkipOps \ {"LFALSESKIP"} THEN {pc + 2} ELSE {}

SkipTargets(w, pc) == IF w.op \in SkipOps THEN {pc + 2} ELSE {}

(* The constant a LOADKX names through the word that follows it *)
ExtraConstant(proto, pc) ==
    IF pc + 1 \in DOMAIN proto.words /\ proto.words[pc + 1].op = "EXTRAARG"
    THEN K(proto.words[pc + 1].x) ELSE K(0)

Loads(proto, pc) ==
    LET w == proto.words[pc]
    IN  [MOVE       |-> Effect({R(w.b)}, {R(w.a)}),
         LOADI      |-> Effect({}, {R(w.a)}),
         LOADF      |-> Effect({}, {R(w.a)}),
         LOADK      |-> Effect({K(w.x)}, {R(w.a)}),
         LOADKX     |-> Effect({ExtraConstant(proto, pc)}, {R(w.a)}),
         LOADFALSE  |-> Effect({}, {R(w.a)}),
         LFALSESKIP |-> Effect({}, {R(w.a)}),
         LOADTRUE   |-> Effect({}, {R(w.a)}),
         LOADNIL    |-> Effect({}, Window(w.a, Saturated(w.a + w.b))),
         GETUPVAL   |-> Effect({U(w.b)}, {R(w.a)}),
         SETUPVAL   |-> Effect({R(w.a)}, {U(w.b)})]

(* The bit k decides whether an operand is a constant. *)
KOr(w, n) == IF w.k # 0 THEN K(n) ELSE R(n)

Reads(w) ==
    [GETTABUP |-> Effect({U(w.b), KOr(w, w.c)}, {R(w.a)}),
     GETTABLE |-> Effect({R(w.b), R(w.c)}, {R(w.a)}),
     GETI     |-> Effect({R(w.b)}, {R(w.a)}),
     GETFIELD |-> Effect({R(w.b), K(w.c)}, {R(w.a)}),
     NEWTABLE |-> Effect({}, {R(w.a)}),
     SELF     |-> Effect({KOr(w, w.c), R(w.b)}, {R(w.a), R(Saturated(w.a + 1))})]

Stores(w) ==
    [SETTABUP |-> Effect({KOr(w, w.b), R(w.c)}, {U(w.a)}),
     SETTABLE |-> Effect({KOr(w, w.c), R(w.a), R(w.b)}, {}),
     SETI     |-> Effect({KOr(w, w.c), R(w.a)}, {}),
     SETFIELD |-> Effect({KOr(w, w.c), R(w.a), K(w.b)}, {}),
     SETLIST  |-> Effect({R(w.a)}, {})]

Operators(w) ==
    CASE w.op \in ConstantOps -> {Effect({R(w.b), K(w.c)}, {R(w.a)})}
      [] w.op \in BinaryOps -> {Effect({R(w.b), R(w.c)}, {R(w.a)})}
      [] w.op \in ImmediateOps \cup UnaryOps -> {Effect({R(w.b)}, {R(w.a)})}
      [] w.op = "CONCAT" -> {Effect(Window(w.a, Saturated(w.a + w.b) - 1), {R(w.a)})}
      [] OTHER -> {}

(* The tests of two registers do not say what they read or write. *)
Tests(w) == IF w.op \in ImmediateTests THEN {Effect({R(w.a)}, {})} ELSE {}

(* What a count means: one more than the number of values, or 0 when they
   reach to the top. *)
Values(first, start, count, less) ==
    IF count = 0 THEN {Top(Saturated(first))}
    ELSE IF count = 1 THEN {}
    ELSE Window(Saturated(first), Saturated(start + count) - less)

Calls(w) ==
    [CALL     |-> Effect({R(w.a)} \cup Values(w.a + 1, w.a, w.b, 1),
                         Values(w.a, w.a, w.c, 2)),
     TAILCALL |-> Effect({R(w.a)}, {}),
     RETURN   |-> Effect(Values(w.a, w.a, w.b, 2), {}),
     RETURN1  |-> Effect({R(w.a)}, {}),
     TFORCALL |-> Effect(Window(w.a, Saturated(w.a + 2)),
                         Window(Saturated(w.a + 3), Saturated(w.a + 2 + w.c))),
     CLOSURE  |-> Effect({P(w.x)}, {R(w.a)})]

In(table, op) == IF op \in DOMAIN table THEN {table[op]} ELSE {}

(* The loop instructions, VARARG and the companions declare nothing. *)
Effects(proto, pc) ==
    LET w == proto.words[pc]
        found == In(Loads(proto, pc), w.op) \cup In(Reads(w), w.op)
                   \cup In(Stores(w), w.op) \cup Operators(w) \cup Tests(w)
                   \cup In(Calls(w), w.op)
    IN  IF found = {} THEN NoEffect ELSE CHOOSE e \in found : TRUE

(* The word an instruction is paired with, if any. A fallback or an extra
   argument is paired with the word before it, whatever that is. *)
Companions(w, pc) ==
    IF w.op = "LOADKX" THEN {pc + 1}
    ELSE IF w.op \in FallbackOps \cup {"EXTRAARG"} /\ pc > 0 THEN {pc - 1}
    ELSE {}

-----------------------------------------------------------------------------
(* The validator: errors at one word. A register above the frame is only a
   warning. *)

WordErrors(proto, pc) ==
    LET w == proto.words[pc]
    IN  Codes("OPCODE-001", w.op \notin Opcodes)
          \cup Codes("CONST-001", w.op = "LOADK" /\ w.x >= proto.consts)
          \cup Codes("UPVAL-001", w.op \in {"GETUPVAL", "SETUPVAL"} /\ w.b >= proto.nups)
          \cup Codes("UPVAL-002", \/ w.op = "GETTABUP" /\ w.b >= proto.nups
                                  \/ w.op = "SETTABUP" /\ w.a >= proto.nups)
          \cup Codes("PROTO-001", w.op = "CLOSURE" /\ w.x \notin DOMAIN proto.kids)
          \cup Codes("JUMP-001", w.op = "JMP" /\ w.x \notin DOMAIN proto.words)
=============================================================================
