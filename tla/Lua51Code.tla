----------------------------- MODULE Lua51Code -----------------------------
(***************************************************************************)
(* The code vector of a Lua 5.1 prototype as luad reads it: the physical   *)
(* role of every word (roles.rs), what the validator accepts               *)
(* (validator.rs), where the lifter says control may go and which          *)
(* registers it says change (lifter.rs), and where control goes.           *)
(*                                                                         *)
(* A prototype is a record                                                 *)
(*   words      0-based vector of words                                    *)
(*   maxstack   maxstacksize, the number of registers of a frame           *)
(*   nups       number of upvalues it declares                             *)
(*   consts     number of constants                                        *)
(*   kids       0-based vector of child prototypes                         *)
(* and a word is a record [op, a, b, c, x, k] of the decoded fields: x is  *)
(* the index Bx, or the absolute target pc of JMP, FORLOOP and FORPREP. An *)
(* operand of 256 or more in b or c is a constant; where the value of the  *)
(* constant of LOADK, GETGLOBAL, GETTABLE and SELF matters it is k.        *)
(***************************************************************************)
EXTENDS Integers, FiniteSets, FiniteSetsExt

NoConst == "no-constant"

Word(op, a, b, c, x, k) == [op |-> op, a |-> a, b |-> b, c |-> c, x |-> x, k |-> k]
Plain(op, a, b, c) == Word(op, a, b, c, 0, NoConst)
Jump(op, a, target) == Word(op, a, 0, 0, target, NoConst)
Constant(op, a, b, k) == Word(op, a, b, 256, 0, k)
ClosureOf(a, child) == Word("CLOSURE", a, 0, 0, child, NoConst)

Opcodes ==
    {"MOVE", "LOADK", "LOADBOOL", "LOADNIL", "GETUPVAL", "GETGLOBAL", "GETTABLE",
     "SETGLOBAL", "SETUPVAL", "SETTABLE", "NEWTABLE", "SELF", "ADD", "SUB", "MUL", "DIV",
     "MOD", "POW", "UNM", "NOT", "LEN", "CONCAT", "JMP", "EQ", "LT", "LE", "TEST",
     "TESTSET", "CALL", "TAILCALL", "RETURN", "FORLOOP", "FORPREP", "TFORLOOP",
     "SETLIST", "CLOSE", "CLOSURE", "VARARG"}

Pcs(proto) == DOMAIN proto.words
NumWords(proto) == Cardinality(Pcs(proto))

(* A prototype as the loader leaves it, with at least one word *)
IsPrototype(proto) ==
    /\ proto.dialect \in {"5.1", "5.2", "5.3", "5.4", "5.5"}
    /\ NumWords(proto) \in Nat \ {0} /\ Pcs(proto) = 0..(NumWords(proto) - 1)
    /\ \A pc \in Pcs(proto) :
          LET w == proto.words[pc]
          IN  /\ w = Word(w.op, w.a, w.b, w.c, w.x, w.k)
              /\ {w.a, w.b, w.c} \subseteq Nat /\ w.x \in Int
    /\ \A i \in DOMAIN proto.kids : proto.kids[i].nups \in Nat
    /\ {proto.maxstack, proto.consts, proto.nups} \subseteq Nat

-----------------------------------------------------------------------------
(* Physical roles *)

(* How many of the following words the word at pc claims when it is itself
   an instruction: the binding descriptors of a CLOSURE, the extra word of
   a SETLIST whose C is 0. *)
Span(proto, pc) ==
    LET w == proto.words[pc]
    IN  IF w.op = "CLOSURE" /\ w.x \in DOMAIN proto.kids
        THEN proto.kids[w.x].nups
        ELSE IF w.op = "SETLIST" /\ w.c = 0 THEN 1 ELSE 0

(* One ascending pass: a word that an instruction before it has claimed is
   a companion, and never an owner itself. *)
Instructions(proto) ==
    LET upTo[n \in 0..NumWords(proto)] ==
            IF n = 0 THEN {}
            ELSE LET found == upTo[n - 1]
                 IN  IF \E o \in found : n - 1 <= o + Span(proto, o)
                     THEN found ELSE found \cup {n - 1}
    IN  upTo[NumWords(proto)]

(* Instructions whose companions run past the last word. *)
RoleFaults(proto, exec) ==
    {pc \in exec : Span(proto, pc) > 0 /\ pc + Span(proto, pc) >= NumWords(proto)}

-----------------------------------------------------------------------------
(* What the lifter says of an instruction *)

JumpOps == {"JMP", "FORLOOP", "FORPREP"}
SkipOps == {"EQ", "LT", "LE", "TEST", "TESTSET", "TFORLOOP"}

JumpTargets(w) == IF w.op \in JumpOps THEN {w.x} ELSE {}

(* Mutant: LOADBOOL with a C that is not 0 forgets that it skips. *)
SkipTargetsOfTests(w, pc) == IF w.op \in SkipOps THEN {pc + 2} ELSE {}

SkipTargets(w, pc) ==
    IF w.op \in SkipOps \/ (w.op = "LOADBOOL" /\ w.c # 0) THEN {pc + 2} ELSE {}

-----------------------------------------------------------------------------
(* The validator: the codes of the errors it reports at one instruction *)

ARegisterOps(op) == op \notin {"JMP", "EQ", "LT", "LE"}
BRegisterOps == {"MOVE", "LOADNIL", "GETTABLE", "SELF", "UNM", "NOT", "LEN",
                 "CONCAT", "TESTSET"}
RKBOps == {"SETTABLE", "ADD", "SUB", "MUL", "DIV", "MOD", "POW", "EQ", "LT", "LE"}
RKCOps == RKBOps \cup {"GETTABLE", "SELF"}

(* Operands B and C, each a register or a constant *)
OperandErrors(proto, w) ==
    LET code(e, holds) == IF holds THEN {e} ELSE {}
        outside(n, limit) == n >= limit
    IN  code("L51-REG-002",
             /\ w.op \in BRegisterOps \/ (w.op \in RKBOps /\ w.b < 256)
             /\ outside(w.b, proto.maxstack))
          \cup code("L51-REG-003",
             /\ w.op = "CONCAT" \/ (w.op \in RKCOps /\ w.c < 256)
             /\ outside(w.c, proto.maxstack))
          \cup code("L51-CONST-004",
             w.op \in RKBOps /\ w.b >= 256 /\ outside(w.b - 256, proto.consts))
          \cup code("L51-CONST-005",
             w.op \in RKCOps /\ w.c >= 256 /\ outside(w.c - 256, proto.consts))
          \cup code("L51-CONST-003",
             w.op \in {"LOADK", "GETGLOBAL", "SETGLOBAL"} /\ outside(w.x, proto.consts))

(* The last registers of the windows an instruction uses. *)
WindowEnds(w) ==
    LET when(holds, last) == IF holds THEN {last} ELSE {}
    IN  CASE w.op = "SELF" -> {w.a + 1}
          [] w.op \in {"FORPREP", "FORLOOP"} -> {w.a + 3}
          [] w.op = "TFORLOOP" -> {w.a + 2 + w.c}
          [] w.op = "CALL" -> when(w.b > 0, w.a + w.b - 1)
                                \cup when(w.c > 1, w.a + w.c - 2)
          [] w.op = "TAILCALL" -> when(w.b > 0, w.a + w.b - 1)
          [] w.op \in {"RETURN", "VARARG"} -> when(w.b > 1, w.a + w.b - 2)
          [] w.op = "SETLIST" -> when(w.b > 0, w.a + w.b)
          [] OTHER -> {}

DescriptorErrors(proto, pc) ==
    LET desc == {j \in 1..Span(proto, pc) : pc + j \in Pcs(proto)}
        d(j) == proto.words[pc + j]
    IN  {e \in {"L51-CLOSURE-002", "L51-REG-002", "L51-UPVAL-001"} :
          \E j \in desc :
            \/ e = "L51-CLOSURE-002" /\ d(j).op \notin {"MOVE", "GETUPVAL"}
            \/ e = "L51-REG-002" /\ d(j).op = "MOVE" /\ d(j).b >= proto.maxstack
            \/ e = "L51-UPVAL-001" /\ d(j).op = "GETUPVAL" /\ d(j).b >= proto.nups}

(* Of a word with an unknown opcode nothing else is checked. *)
WordErrors(proto, exec, pc) ==
    LET w == proto.words[pc]
        max == proto.maxstack
        code(e, holds) == IF holds THEN {e} ELSE {}
    IN  IF w.op \notin Opcodes THEN {"L51-OP-001"} ELSE UNION {
          code("L51-JMP-001", \E t \in JumpTargets(w) : t \notin Pcs(proto)),
          code("L51-JMP-002",
               \E t \in JumpTargets(w) \cup SkipTargets(w, pc) :
                  t \in Pcs(proto) \ exec),
          code("L51-UPVAL-001",
               w.op \in {"GETUPVAL", "SETUPVAL"} /\ w.b >= proto.nups),
          code("L51-REG-001", ARegisterOps(w.op) /\ w.a >= max),
          code("L51-REG-SPAN-001", \E last \in WindowEnds(w) : last >= max),
          OperandErrors(proto, w),
          code("L51-BOOL-001", w.op \in {"EQ", "LT", "LE"} /\ w.a > 1),
          code("L51-PROTO-002",
               w.op = "CLOSURE" /\ w.x \notin DOMAIN proto.kids),
          IF w.op = "CLOSURE" THEN DescriptorErrors(proto, pc) ELSE {}}

(* The validator's verdict on this prototype alone has no error. *)
ValidForParser(proto) ==
    LET exec == Instructions(proto)
    IN  /\ RoleFaults(proto, exec) = {}
        /\ \A pc \in exec : WordErrors(proto, exec, pc) = {}

-----------------------------------------------------------------------------
(* The registers of a frame: which of them the lifter says an instruction
   writes, and which a call destroys (call_frame.rs). *)

Registers(proto) == 0..(proto.maxstack - 1)

(* The end of a window of n - 1 results from register a, in the arithmetic of
   bytes: the count is cut, the sums saturate. *)
LastResult(a, n) ==
    LET top == a + (n % 256)
    IN  IF top < 2 THEN 0 ELSE IF top <= 255 THEN top - 2 ELSE 253

(* The registers the lifter says an instruction writes. *)
Writes(w) ==
    CASE w.op = "LOADNIL" -> w.a..w.b
      [] w.op = "SELF" -> {w.a, w.a + 1}
      [] w.op = "CALL" -> IF w.c > 1 THEN w.a..LastResult(w.a, w.c) ELSE {}
      [] w.op = "FORLOOP" -> {w.a, w.a + 3}
      [] w.op = "TFORLOOP" -> (w.a + 3)..(w.a + 2 + w.c)
      [] w.op = "VARARG" -> IF w.b > 1 THEN w.a..LastResult(w.a, w.b) ELSE {}
      [] w.op \in {"SETGLOBAL", "SETUPVAL", "SETTABLE", "JMP", "EQ", "LT", "LE",
                   "TEST", "TAILCALL", "RETURN", "CLOSE"} -> {}
      [] OTHER -> {w.a}

(* invalidation_start: a callee reuses the stack from its function slot. *)
Clobbers(w, r) ==
    \/ w.op \in {"CALL", "TAILCALL"} /\ r >= w.a
    \/ w.op = "TFORLOOP" /\ r >= w.a + 2

-----------------------------------------------------------------------------
(* Where control goes in an execution: luaV_execute in lvm.c of Lua 5.1,
   which is not in the repository. A tail call of a function of Lua leaves the
   prototype, one of a function of C comes back to it. *)

Halted == -1

NextPcs(proto, pc) ==
    LET w == proto.words[pc]
    IN  CASE w.op \in {"JMP", "FORPREP"} -> {w.x}
          [] w.op = "FORLOOP" -> {w.x, pc + 1}
          [] w.op \in SkipOps -> {pc + 1, pc + 2}
          [] w.op = "LOADBOOL" /\ w.c # 0 -> {pc + 2}
          [] w.op = "RETURN" -> {Halted}
          [] w.op = "TAILCALL" -> {Halted, pc + 1}
          [] OTHER -> {pc + 1 + Span(proto, pc)}
==============================================================================
