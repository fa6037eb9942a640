---------------------------- MODULE CaptureCells ----------------------------
(***************************************************************************)
(* Which shared cells of a chunk of Lua 5.1 some closure writes            *)
(* (capture_mutation.rs). A cell is a register or an upvalue slot of the   *)
(* prototype that owns it, <<path, "local", register>> or                  *)
(* <<path, "upvalue", slot>>. Prototypes are whole trees here: the members *)
(* of kids are prototypes.                                                 *)
(***************************************************************************)
EXTENDS Lua51Code, SequencesExt

Local(path, register) == <<path, "local", register>>
UpvalueCell(path, slot) == <<path, "upvalue", slot>>

Slots(proto) == 0..(proto.nups - 1)

(* Mutant: a child shares the cells of its last CLOSURE only. *)
LastClosureOf(proto, child) ==
    LET all == {pc \in Instructions(proto) : /\ proto.words[pc].op = "CLOSURE"
                                             /\ proto.words[pc].x = child}
    IN  IF all = {} THEN {} ELSE {Max(all)}

(* The CLOSURE instructions that create a child *)
ClosuresOf(proto, child) ==
    {pc \in Instructions(proto) : /\ proto.words[pc].op = "CLOSURE"
                                  /\ proto.words[pc].x = child}

RECURSIVE Tree(_)
Tree(proto) == {proto} \cup UNION {Tree(proto.kids[i]) : i \in DOMAIN proto.kids}

(* The cells a CLOSURE at pc shares with the child through one slot, where
   own are the cells of each slot of proto itself. *)
DescriptorCells(proto, own, pc, slot) ==
    LET d == pc + 1 + slot
    IN  IF d \notin Pcs(proto) THEN {}
        ELSE CASE proto.words[d].op = "MOVE" -> {Local(proto.path, proto.words[d].b)}
               [] proto.words[d].op = "GETUPVAL" ->
                     IF proto.words[d].b \in DOMAIN own THEN own[proto.words[d].b]
                     ELSE {UpvalueCell(proto.path, proto.words[d].b)}
               [] OTHER -> {}

(* map_prototype_upvalues: the cells behind each slot of every prototype
   below proto, by the path of the prototype. A slot of a prototype that no
   CLOSURE creates has none. *)
RECURSIVE CellsBelow(_, _)
CellsBelow(proto, own) ==
    LET child(i) ==
            IF ClosuresOf(proto, i) = {} THEN [s \in {} |-> {}]
            ELSE [s \in Slots(proto.kids[i]) |->
                    UNION {DescriptorCells(proto, own, pc, s) : pc \in ClosuresOf(proto, i)}]
        below(i) == (proto.kids[i].path :> child(i)) @@ CellsBelow(proto.kids[i], child(i))
    IN  (proto.path :> own)
          @@ FoldSet(LAMBDA i, acc : below(i) @@ acc, [p \in {} |-> {}], DOMAIN proto.kids)

(* upvalue_to_cells: the slots of the main prototype are cells themselves. *)
UpvalueCells(chunk) ==
    CellsBelow(chunk, [s \in Slots(chunk) |-> {UpvalueCell(chunk.path, s)}])

CellsOf(cells, path, slot) ==
    IF slot \in DOMAIN cells[path] THEN cells[path][slot] ELSE {UpvalueCell(path, slot)}

(* collect_mutations_postorder *)
Mutated(chunk, cells) ==
    UNION {UNION {CellsOf(cells, p.path, p.words[pc].b) :
                    pc \in {pc \in Instructions(p) : p.words[pc].op = "SETUPVAL"}} :
             p \in Tree(chunk)}

(* The units of budget a whole summary costs: one for each slot of each
   CLOSURE, then one for each prototype. *)
SummaryCost(chunk) ==
    LET slots(p) == MapThenSumSet(
                        LAMBDA i : p.kids[i].nups * Cardinality(ClosuresOf(p, i)),
                        DOMAIN p.kids)
    IN  MapThenSumSet(LAMBDA p : 1 + slots(p), Tree(chunk))

(* CaptureMutationSummary::build *)
Summary(chunk, budget) ==
    LET cells == UpvalueCells(chunk)
    IN  [cells |-> cells, mutated |-> Mutated(chunk, cells),
         exhausted |-> SummaryCost(chunk) > budget]

(* is_child_slot_mutated: a summary that ran out answers for the worst. *)
IsChildSlotMutated(summary, path, slot) ==
    \/ summary.exhausted
    \/ /\ slot \in DOMAIN summary.cells[path]
       /\ summary.cells[path][slot] \cap summary.mutated # {}

IsLocalRegisterMutated(summary, path, register) ==
    summary.exhausted \/ Local(path, register) \in summary.mutated

IsUpvalueSlotMutated(summary, path, slot) ==
    \/ summary.exhausted
    \/ CellsOf(summary.cells, path, slot) \cap summary.mutated # {}
=============================================================================
