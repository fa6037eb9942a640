----------------------------- MODULE Lua53Code -----------------------------
(***************************************************************************)
(* Instructions of Lua 5.3: those of Lua 5.2 and the operators on          *)
(* integers. lifter.rs and validator.rs of the dialect repeat those of     *)
(* Lua 5.2 arm by arm, and each definition here is the arms it names.      *)
(***************************************************************************)
EXTENDS Operands

V52 == INSTANCE Lua52Code

IntegerOps == {"IDIV", "BAND", "BOR", "BXOR", "SHL", "SHR"}

Opcodes == V52!Opcodes \cup IntegerOps \cup {"BNOT"}

(* An operator on integers has the operands of an arithmetic one. *)
AsArithmetic(w) ==
    IF w.op \in IntegerOps THEN [w EXCEPT !.op = "ADD"]
    ELSE IF w.op = "BNOT" THEN [w EXCEPT !.op = "UNM"] ELSE w

JumpTargets(w) == V52!JumpTargets(w)
SkipTargets(w, pc) == V52!SkipTargets(w, pc)

Loads(w) == V52!In(V52!Loads(w), w.op)
Tables(w) == V52!In(V52!Tables(w), w.op)
Operators(w) ==
    LET v == AsArithmetic(w)
    IN  V52!In(V52!Operators(v), v.op) \cup V52!In(V52!UnaryOperators(v), v.op)
Tests(w) == V52!In(V52!Tests(w), w.op)
Calls(w) == V52!In(V52!Calls(w), w.op)
Loops(w) == V52!In(V52!Loops(w), w.op)

Effects(w) ==
    LET found == Loads(w) \cup Tables(w) \cup Operators(w) \cup Tests(w) \cup Calls(w)
                   \cup Loops(w)
    IN  IF found = {} THEN NoEffect ELSE CHOOSE e \in found : TRUE

CompanionErrors(proto, pc) == V52!CompanionErrors(proto, pc)
JumpErrors(proto, w) == V52!JumpErrors(proto, w)
IndexErrors(proto, w) == V52!IndexErrors(proto, w)
RegisterErrors(proto, w) == V52!RegisterErrors(proto, AsArithmetic(w))
ConstantErrors(proto, pc) ==
    V52!ConstantErrors([words |-> [proto.words EXCEPT ![pc] = AsArithmetic(@)],
                        consts |-> proto.consts], pc)
SpanErrors(proto, w) == V52!SpanErrors(proto, w)

WordErrors(proto, pc) ==
    LET w == proto.words[pc]
    IN  IF w.op \notin Opcodes THEN {"OP-001"}
        ELSE CompanionErrors(proto, pc) \cup JumpErrors(proto, w)
               \cup RegisterErrors(proto, w) \cup ConstantErrors(proto, pc)
               \cup IndexErrors(proto, w) \cup SpanErrors(proto, w)
=============================================================================
