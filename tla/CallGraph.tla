------------------------------ MODULE CallGraph ------------------------------
(***************************************************************************)
(* Which prototype a call runs (callgraph.rs): the callee analysis names   *)
(* it, or it names a global to which one instruction of the whole chunk    *)
(* stores, and what that instruction stores is a closure.                  *)
(*                                                                         *)
(* The chunk is the prototype of the task and its children. A child        *)
(* carries the facts of its own stores (stores), which the same analysis   *)
(* of it gives.                                                            *)
(***************************************************************************)
EXTENDS CalleeDataflow

(* GlobalStoreFact *)
StoreFact(name, id, value) == [name |-> name, id |-> id, value |-> value]

ClosureStored(prototype, evidence) ==
    [tag |-> "closure", prototype |-> prototype, evidence |-> evidence]
NonClosureStored(evidence) == [tag |-> "non-closure", evidence |-> evidence]
UnknownStored(reason) == [tag |-> "unknown", reason |-> reason]

(* global_store_value: what the store with this id stores *)
StoredValue(v, id) ==
    CASE v.tag = "bottom" -> UnknownStored("MissingDefinition")
      [] v.tag = "unknown" -> UnknownStored(v.reason)
      [] IsKnown(v) ->
            IF v.kind.shape = "Closure"
            THEN ClosureStored(v.kind.prototype, v.evidence \cup {id})
            ELSE NonClosureStored(v.evidence \cup {id})

(* The stores of the prototype: those of its reachable blocks, or all of them
   with the limit as their value when the budget was spent. *)
OwnStores(t, ins, spent) ==
    LET word(pc) == t.proto.words[pc]
        stores == {pc \in Executable(t.proto) : word(pc).op = "SETGLOBAL" /\ word(pc).k \in Strings}
        seen == IF spent THEN stores ELSE {pc \in stores : t.block[pc] \in t.reach}
        value(pc) == IF spent THEN UnknownStored("AnalysisLimit")
                     ELSE StoredValue(GetRegister(StateBefore(t, ins, pc), word(pc).a),
                                      Id(t.proto, pc))
    IN  {StoreFact(word(pc).k, Id(t.proto, pc), value(pc)) : pc \in seen}

ChildStores(t) == UNION {t.proto.kids[i].stores : i \in DOMAIN t.proto.kids}

(* Mutant: the stores of the prototype alone *)
ChunkStoresOwn(t, ins, spent) == OwnStores(t, ins, spent)

(* analyze_chunk_global_stores *)
ChunkStores(t, ins, spent) == OwnStores(t, ins, spent) \cup ChildStores(t)

-----------------------------------------------------------------------------

Runs(prototype, basis, evidence) ==
    [status |-> "resolved", callee |-> prototype, basis |-> basis, evidence |-> evidence]

(* Mutant: of several stores of a name, one is taken. *)
ResolveAnyGlobal(name, evidence, stores) ==
    LET candidates == {s \in stores : s.name = name}
        s == CHOOSE s \in candidates : TRUE
    IN  IF candidates = {} THEN Unresolved("MissingPrototypeStore")
        ELSE CASE s.value.tag = "closure" ->
                    Runs(s.value.prototype, "unique-global-store", evidence \cup s.value.evidence)
               [] s.value.tag = "non-closure" -> Unresolved("NonClosureStore")
               [] OTHER -> Unresolved("AmbiguousStoreValue")

(* resolve_global *)
ResolveGlobal(name, evidence, stores) ==
    LET candidates == {s \in stores : s.name = name}
        s == CHOOSE s \in candidates : TRUE
    IN  IF candidates = {} THEN Unresolved("MissingPrototypeStore")
        ELSE IF candidates # {s} THEN Unresolved("MultiplePrototypeStores")
        ELSE CASE s.value.tag = "closure" ->
                    Runs(s.value.prototype, "unique-global-store", evidence \cup s.value.evidence)
               [] s.value.tag = "non-closure" -> Unresolved("NonClosureStore")
               [] OTHER -> Unresolved(IF s.value.reason = "AnalysisLimit" THEN "AnalysisLimit"
                                      ELSE "AmbiguousStoreValue")

(* resolve_relation: the code finds the bytes of a global's name through the
   lookups among the evidence; a path shows them escaped, which no two names
   share, so that the segment stands for the name here. *)
Relation(fact, stores) ==
    IF fact.status # "resolved" THEN fact
    ELSE CASE fact.kind.shape = "LookupLabel" -> Unresolved("LookupLabelOnly")
           [] fact.kind.shape = "Closure" ->
                Runs(fact.kind.prototype, "closure-value", fact.evidence)
           [] fact.kind.shape = "SymbolicPath" ->
                IF fact.kind.basis = "global" /\ Len(fact.kind.segments) = 1
                THEN ResolveGlobal(fact.kind.segments[1], fact.evidence, stores)
                ELSE Unresolved("SymbolicPathOnly")

(* analyze_chunk_call_relations, for the calls of the prototype *)
Relations(t, ins, spent, found) ==
    LET stores == ChunkStores(t, ins, spent)
    IN  [pc \in DOMAIN found |-> Relation(found[pc], stores)]
=============================================================================
