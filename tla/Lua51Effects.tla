---------------------------- MODULE Lua51Effects ----------------------------
(***************************************************************************)
(* What the lifter of Lua 5.1 (lifter.rs) says an instruction reads and    *)
(* writes. Most arms are those of Lua 5.2, one by one.                     *)
(***************************************************************************)
EXTENDS Operands

V52 == INSTANCE Lua52Code

Loads(w) ==
    CASE w.op = "LOADNIL" -> {Effect({}, Window(w.a, w.b % 256))}
      [] w.op = "GETGLOBAL" -> {Effect({K(w.x)}, {R(w.a)})}
      [] w.op = "SETGLOBAL" -> {Effect({R(w.a), K(w.x)}, {})}
      [] w.op \in {"MOVE", "LOADK", "LOADBOOL", "GETUPVAL"} -> {V52!Loads(w)[w.op]}
      [] OTHER -> {}

Tables(w) == V52!In(V52!Tables(w), w.op)

Operators(w) ==
    V52!In(V52!Operators(w), w.op) \cup V52!In(V52!UnaryOperators(w), w.op)
      \cup V52!In(V52!Tests(w), w.op)

Calls(w) ==
    IF w.op \in {"CALL", "TAILCALL", "RETURN", "VARARG"} THEN {V52!Calls(w)[w.op]} ELSE {}

(* TFORLOOP does what TFORCALL and TFORLOOP do later. *)
Loops(w) ==
    CASE w.op \in {"FORLOOP", "FORPREP", "SETLIST"} -> {V52!Loops(w)[w.op]}
      [] w.op = "TFORLOOP" -> {V52!Loops(w)["TFORCALL"]}
      [] OTHER -> {}

(* A CLOSURE reads what its descriptors capture. *)
Captures(proto, pc) ==
    LET child == proto.words[pc].x
        nups == IF child \in DOMAIN proto.kids THEN proto.kids[child].nups ELSE 0
        desc == {proto.words[d] : d \in ((pc + 1)..(pc + nups)) \cap DOMAIN proto.words}
    IN  {R(d.b) : d \in {e \in desc : e.op = "MOVE"}}
          \cup {U(d.b) : d \in {e \in desc : e.op = "GETUPVAL"}}

Closures(proto, pc) ==
    LET w == proto.words[pc]
    IN  IF w.op = "CLOSURE" THEN {Effect(Captures(proto, pc), {R(w.a)})} ELSE {}

(* JMP and CLOSE have no effect on operands. *)
Effects(proto, pc) ==
    LET w == proto.words[pc]
        found == Loads(w) \cup Tables(w) \cup Operators(w) \cup Calls(w) \cup Loops(w)
                   \cup Closures(proto, pc)
    IN  IF found = {} THEN NoEffect ELSE CHOOSE e \in found : TRUE
=============================================================================
