------------------------------ MODULE Operands ------------------------------
(***************************************************************************)
(* What the lifter of a dialect says an instruction reads and writes       *)
(* (EffectTarget in ir.rs), as sets of operands. A register or upvalue     *)
(* number is a byte: an operand field of 9 bits is cut to it.              *)
(***************************************************************************)
EXTENDS Integers

R(i) == <<"register", i % 256>>
U(i) == <<"upvalue", i % 256>>
K(i) == <<"constant", i>>
P(i) == <<"prototype", i>>

(* The registers from a to the top of the stack *)
Top(a) == <<"open", a>>

Window(first, last) == {R(i) : i \in first..last}

(* saturating_add on a byte *)
Saturated(n) == IF n > 255 THEN 255 ELSE n

(* parse_rk of Lua 5.1 to 5.3: bit 8 of the field says constant. *)
RK(n) == IF n >= 256 THEN {K(n - 256)} ELSE {R(n)}

Effect(reads, writes) == [reads |-> reads, writes |-> writes]
NoEffect == Effect({}, {})

Codes(code, holds) == IF holds THEN {code} ELSE {}

(* An operand the prototype declares *)
IsDeclared(proto, o) ==
    CASE o[1] = "register" -> o[2] < proto.maxstack
      [] o[1] = "upvalue" -> o[2] < proto.nups
      [] o[1] = "constant" -> o[2] < proto.consts
      [] o[1] = "prototype" -> o[2] \in DOMAIN proto.kids
      [] o[1] = "open" -> o[2] <= proto.maxstack
=============================================================================
