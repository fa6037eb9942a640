----------------------------- MODULE Lua55Code -----------------------------
(***************************************************************************)
(* Instructions of Lua 5.5: what its validator accepts (validator.rs) and  *)
(* what its lifter says an instruction does (lifter.rs). A word has the    *)
(* form of Lua54Code, with b and c for vB and vC. Decoding of the raw word *)
(* is left out, and so is the wrapping of register numbers above 255,      *)
(* which no accepted word reaches.                                         *)
(***************************************************************************)
EXTENDS Operands

V54 == INSTANCE Lua54Code

Opcodes == V54!Opcodes \cup {"GETVARG", "ERRNNIL"}

-----------------------------------------------------------------------------
(* The lifter *)

JumpTargets(w, pc) == V54!JumpTargets(w, pc)
SkipTargets(w, pc) == V54!SkipTargets(w, pc)

Loads(proto, pc) ==
    LET w == proto.words[pc]
    IN  [MOVE       |-> Effect({R(w.b)}, {R(w.a)}),
         LOADI      |-> Effect({}, {R(w.a)}),
         LOADF      |-> Effect({}, {R(w.a)}),
         LOADK      |-> Effect({K(w.x)}, {R(w.a)}),
         LOADKX     |-> Effect({V54!ExtraConstant(proto, pc)}, {R(w.a)}),
         LOADFALSE  |-> Effect({}, {R(w.a)}),
         LFALSESKIP |-> Effect({}, {R(w.a)}),
         LOADTRUE   |-> Effect({}, {R(w.a)}),
         LOADNIL    |-> Effect({}, Window(w.a, w.a + w.b)),
         GETUPVAL   |-> Effect({U(w.b)}, {R(w.a)}),
         SETUPVAL   |-> Effect({R(w.a)}, {U(w.b)})]

(* A key from the constants is always one; the stored value and the key of a
   SELF are not declared. *)
Tables(w) ==
    [GETTABUP |-> Effect({U(w.b), K(w.c)}, {R(w.a)}),
     GETTABLE |-> Effect({R(w.b), R(w.c)}, {R(w.a)}),
     GETI     |-> Effect({R(w.b)}, {R(w.a)}),
     GETFIELD |-> Effect({R(w.b), K(w.c)}, {R(w.a)}),
     SETTABUP |-> Effect({K(w.b)}, {U(w.a)}),
     SETTABLE |-> Effect({R(w.a), R(w.b)}, {}),
     SETI     |-> Effect({R(w.a)}, {}),
     SETFIELD |-> Effect({R(w.a), K(w.b)}, {}),
     NEWTABLE |-> Effect({}, {R(w.a)}),
     SELF     |-> Effect({R(w.b)}, {R(w.a), R(w.a + 1)})]

Operators(w) ==
    CASE w.op \in V54!ConstantOps -> {Effect({R(w.b), K(w.c)}, {R(w.a)})}
      [] w.op \in V54!BinaryOps -> {Effect({R(w.b), R(w.c)}, {R(w.a)})}
      [] w.op \in V54!ImmediateOps \cup V54!UnaryOps -> {Effect({R(w.b)}, {R(w.a)})}
      [] w.op = "CONCAT" -> {Effect(Window(w.a, Saturated(w.a + w.b) - 1), {R(w.a)})}
      [] OTHER -> {}

(* Calls declare the function alone, and RETURN and TFORCALL nothing. *)
Calls(w) ==
    [CALL     |-> Effect({R(w.a)}, {}),
     TAILCALL |-> Effect({R(w.a)}, {}),
     RETURN1  |-> Effect({R(w.a)}, {}),
     SETLIST  |-> Effect({R(w.a)}, {}),
     CLOSURE  |-> Effect({P(w.x)}, {R(w.a)}),
     GETVARG  |-> Effect({R(w.b), R(w.c)}, {R(w.a)}),
     ERRNNIL  |-> Effect({R(w.a)}, {})]

In(table, op) == IF op \in DOMAIN table THEN {table[op]} ELSE {}

Effects(proto, pc) ==
    LET w == proto.words[pc]
        found == In(Loads(proto, pc), w.op) \cup In(Tables(w), w.op) \cup Operators(w)
                   \cup V54!Tests(w) \cup In(Calls(w), w.op)
    IN  IF found = {} THEN NoEffect ELSE CHOOSE e \in found : TRUE

-----------------------------------------------------------------------------
(* The validator: errors at one word *)

ARegisterOps == Opcodes \ {"JMP", "EXTRAARG", "SETTABUP", "RETURN0", "VARARGPREP"}

(* Mutant: the index of GETVARG is not checked. *)
CRegisterOpsOfTables == V54!BinaryOps \cup {"GETTABLE"}

CRegisterOps == V54!BinaryOps \cup {"GETTABLE", "GETVARG"}

BRegisterOps ==
    CRegisterOps \cup V54!ImmediateOps \cup V54!ConstantOps \cup V54!UnaryOps
      \cup {"MOVE", "GETI", "GETFIELD", "SETTABLE", "SELF", "MMBIN", "EQ", "LT", "LE",
            "TESTSET"}

StoreOps == {"SETTABUP", "SETTABLE", "SETI", "SETFIELD"}

CompanionErrors(proto, pc) ==
    LET op(p) == IF p \in DOMAIN proto.words THEN proto.words[p].op ELSE ""
    IN  Codes("COMPANION-001",
           \/ op(pc) = "LOADKX" /\ op(pc + 1) # "EXTRAARG"
           \/ op(pc) = "EXTRAARG" /\ op(pc - 1) \notin {"LOADKX", "NEWTABLE", "SETLIST"})
          \cup Codes("CONST-002",
                 /\ op(pc) = "EXTRAARG" /\ op(pc - 1) = "LOADKX"
                 /\ proto.words[pc].x >= proto.consts)

(* Here, and not in the lifter, a jump before word 0 is an error. *)
JumpErrors(proto, pc) ==
    LET w == proto.words[pc]
        to == IF w.op \in V54!BackwardOps THEN {pc + 1 - w.x}
              ELSE V54!JumpTargets(w, pc)
    IN  Codes("JMP-001", to \ DOMAIN proto.words # {})

RegisterErrors(proto, w) ==
    LET max == proto.maxstack
    IN  Codes("REG-001", w.op \in ARegisterOps /\ w.a >= max)
          \cup Codes("REG-002", w.op \in BRegisterOps /\ w.b >= max)
          \cup Codes("REG-003",
                 (w.op \in CRegisterOps \/ (w.op \in StoreOps /\ w.k = 0)) /\ w.c >= max)

ConstantErrors(proto, w) ==
    Codes("CONST-002",
       \/ w.op = "LOADK" /\ w.x >= proto.consts
       \/ w.op \in V54!ConstantOps \cup {"GETFIELD", "GETTABUP"} /\ w.c >= proto.consts
       \/ w.op \in {"SETFIELD", "SETTABUP", "MMBINK", "EQK"} /\ w.b >= proto.consts
       \/ w.op \in {"SETTABLE", "SETI"} /\ w.k # 0 /\ w.c >= proto.consts
       \/ w.op = "ERRNNIL" /\ w.x > proto.consts)

IndexErrors(proto, w) ==
    Codes("UPVAL-002",
       \/ w.op \in {"GETUPVAL", "SETUPVAL", "GETTABUP"} /\ w.b >= proto.nups
       \/ w.op = "SETTABUP" /\ w.a >= proto.nups)
      \cup Codes("PROTO-002", w.op = "CLOSURE" /\ w.x \notin DOMAIN proto.kids)

(* The last registers of the windows an instruction uses *)
WindowEnds(w) ==
    LET when(holds, last) == IF holds THEN {last} ELSE {}
    IN  CASE w.op = "LOADNIL" -> {w.a + w.b}
          [] w.op = "CONCAT" -> when(w.b > 0, w.a + w.b - 1)
          [] w.op = "SELF" -> {w.a + 1}
          [] w.op = "CALL" -> when(w.b > 1, w.a + w.b - 1) \cup when(w.c > 1, w.a + w.c - 2)
          [] w.op = "TAILCALL" -> when(w.b > 1, w.a + w.b - 1)
          [] w.op = "RETURN" -> when(w.b > 1, w.a + w.b - 2)
          [] w.op \in {"FORLOOP", "FORPREP", "TFORLOOP"} -> {w.a + 2}
          [] w.op = "TFORCALL" -> {w.a + 3 + w.c}
          [] OTHER -> {}

WordErrors(proto, pc) ==
    LET w == proto.words[pc]
    IN  IF w.op \notin Opcodes THEN {"OP-001"}
        ELSE CompanionErrors(proto, pc) \cup JumpErrors(proto, pc)
               \cup RegisterErrors(proto, w) \cup ConstantErrors(proto, w)
               \cup IndexErrors(proto, w)
               \cup Codes("REG-SPAN-001",
                      \E last \in WindowEnds(w) : last >= proto.maxstack)
=============================================================================
