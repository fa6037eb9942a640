--------------------------- MODULE TripwireProofs ---------------------------
(***************************************************************************)
(* What the tripwire reports is true, what it returns of a run that        *)
(* succeeds lacks a trailer and what follows it only, and nothing of a     *)
(* killed run is left behind, for any ceilings, pipes, chunks and          *)
(* descendants.                                                            *)
(***************************************************************************)
EXTENDS Tripwire, SequenceTheorems, TLAPS

Lives == {"none", "running", "zombie", "gone"}
CallerPcs == {"look", "poll", "killGroup", "reap", "drain", "judge", "returned"}
Breaches == {"wall", "stdout", "stderr"}
Results == Breaches \cup {"none", "memory", "ok"}

TypeOK ==
    /\ heavy \in BOOLEAN
    /\ life \in [Processes -> Lives]
    /\ holds \in [Processes -> SUBSET Pipes]
    /\ escaped \in BOOLEAN
    /\ written \in [Outputs -> Seq(Units)]
    /\ pipe \in [Outputs -> Seq(Units)]
    /\ input \in 0..Input
    /\ workers \in [Pipes -> {"serve", "check", "finished"}]
    /\ buffer \in [Outputs -> Seq(Units)]
    /\ seen \in [Outputs -> Nat]
    /\ exceeded \in [Outputs -> BOOLEAN]
    /\ late \in BOOLEAN /\ drained \in BOOLEAN
    /\ caller \in [pc : CallerPcs, breach : Breaches \cup {"none"}, result : Results]

(* Who may still start a descendant holds every pipe, and only the time
   command measures. *)
ProcessInv ==
    /\ Running("program") => holds["program"] = Pipes
    /\ Running("time") => Timed
    /\ heavy => Timed

(* Nothing that was written is lost on its way to the reader, which counts
   what it keeps, is at most a chunk over its ceiling when it looks, and ends
   either over it or at the end of the output. *)
FlowInv(f) ==
    /\ written[f] = buffer[f] \o pipe[f]
    /\ seen[f] = Len(buffer[f])
    /\ seen[f] <= Limit(f) + ChunkSize
    /\ exceeded[f] => workers[f] = "finished" /\ seen[f] > Limit(f)
    /\ workers[f] # "check" /\ ~exceeded[f] => seen[f] <= Limit(f)
    /\ workers[f] = "finished" /\ ~exceeded[f] => pipe[f] = <<>> /\ ~HeldOpen(f)

(* A breach that was met is one. *)
BreachIsTrue ==
    CASE caller.breach = "wall" -> late
      [] caller.breach \in Outputs -> exceeded[caller.breach]
      [] OTHER -> TRUE

GroupEnded == \A p \in Processes : InGroup(p) => ~Running(p)

(* What the caller has done where it is *)
CallerInv ==
    /\ caller.pc # "returned" => caller.result = "none"
    /\ caller.pc \in {"look", "poll", "judge"} => caller.breach = "none"
    /\ caller.pc \in {"killGroup", "reap", "drain"} => caller.breach # "none"
    /\ BreachIsTrue
    /\ caller.pc \in {"reap", "drain"} => GroupEnded
    /\ caller.pc \in {"drain", "judge", "returned"} => life[Leader] = "gone"
    /\ caller.pc = "judge" => \A w \in Pipes : Finished(w)
    /\ Returned /\ caller.breach # "none" => caller.result = caller.breach /\ GroupEnded
    /\ caller.result = "ok" =>
          /\ \A f \in Outputs : Finished(f) /\ ~exceeded[f]
          /\ ~(PeakKnown /\ heavy)

IInv ==
    /\ TypeOK
    /\ ProcessInv
    /\ \A f \in Outputs : FlowInv(f)
    /\ CallerInv
    /\ VerdictIsTrue
-----------------------------------------------------------------------------
(* Processes *)

LEMMA LeaderFacts == Leader \in Processes /\ Leader # "stray"
BY DEF Leader, Processes

(* What a step that starts no process leaves true *)
NoneStarts ==
    /\ escaped' = escaped
    /\ \A p \in Processes : Running(p)' => Running(p) /\ holds'[p] = holds[p]
    /\ life[Leader] = "gone" => life'[Leader] = "gone"

LEMMA EndedStep ==
    ASSUME TypeOK, NEW S, Ended(S), \A p \in S \cap Processes : Running(p)
    PROVE  /\ NoneStarts
           /\ life' \in [Processes -> Lives] /\ holds' \in [Processes -> SUBSET Pipes]
           /\ UNCHANGED <<escaped, written>>
           /\ \A p \in S \cap Processes : ~Running(p)'
<1>1. life' \in [Processes -> Lives] /\ holds' \in [Processes -> SUBSET Pipes]
  BY DEF Ended, TypeOK, Lives
<1>2. \A p \in Processes : Running(p)' => Running(p) /\ holds'[p] = holds[p]
  BY DEF Ended, TypeOK, Running
<1>3. life[Leader] = "gone" => life'[Leader] = "gone"
  BY LeaderFacts DEF Ended, TypeOK, Running
<1>4. \A p \in S \cap Processes : ~Running(p)'
  BY DEF Ended, Running
<1> QED BY <1>1, <1>2, <1>3, <1>4 DEF Ended, NoneStarts

LEMMA NoneStartsKeeps ==
    ASSUME NoneStarts
    PROVE  /\ GroupEnded => GroupEnded'
           /\ \A f \in Pipes : ~HeldOpen(f) => ~HeldOpen(f)'
           /\ (Running("program") => holds["program"] = Pipes)
              => (Running("program") => holds["program"] = Pipes)'
           /\ (Running("time") => Timed) => (Running("time") => Timed)'
BY DEF NoneStarts, GroupEnded, HeldOpen, InGroup, Running, Processes

LEMMA SameProcessesStartNone == UNCHANGED <<life, holds, escaped>> => NoneStarts
BY DEF NoneStarts, Running

(* The invariants of the data survive what moves no data. *)
LEMMA DataStays ==
    ASSUME IInv, UNCHANGED <<written, pipe, workers, readers>>,
           \A f \in Outputs : ~HeldOpen(f) => ~HeldOpen(f)'
    PROVE  \A f \in Outputs : FlowInv(f)'
BY DEF IInv, FlowInv, readers, Limit

(* What the caller knows stays true while others move. *)
LEMMA CallerStays ==
    ASSUME IInv, ~Returned, UNCHANGED caller,
           late => late', \A f \in Outputs : exceeded[f] => exceeded'[f],
           \A w \in Pipes : Finished(w) => Finished(w)',
           GroupEnded => GroupEnded',
           life[Leader] = "gone" => life'[Leader] = "gone"
    PROVE  CallerInv' /\ VerdictIsTrue'
<1>1. caller.result = "none" /\ caller'.result = "none"
  BY DEF IInv, CallerInv, Returned
<1>2. VerdictIsTrue'
  BY <1>1 DEF VerdictIsTrue, Outputs
<1>3. BreachIsTrue'
  BY DEF IInv, CallerInv, BreachIsTrue
<1> QED BY <1>1, <1>2, <1>3 DEF IInv, CallerInv, Returned

-----------------------------------------------------------------------------
(* Steps of the child *)

LEMMA ConcatUnits ==
    ASSUME NEW s \in Seq(Units), NEW t \in Seq(Units), NEW u \in Seq(Units)
    PROVE  (s \o t) \o u = s \o (t \o u)
OBVIOUS

(* A unit that is put into a pipe *)
LEMMA PutStep ==
    ASSUME IInv, NEW p \in Processes, NEW f \in Outputs, NEW unit \in Units, Put(p, f, unit),
           UNCHANGED <<life, holds, escaped, input, workers, readers, late, drained, caller>>,
           heavy' \in BOOLEAN, heavy' => Timed
    PROVE  IInv'
<1>1. /\ pipe[f] \in Seq(Units) /\ written[f] \in Seq(Units) /\ buffer[f] \in Seq(Units)
      /\ pipe \in [Outputs -> Seq(Units)] /\ written \in [Outputs -> Seq(Units)]
  BY DEF IInv, TypeOK
<1>2. /\ pipe' = [pipe EXCEPT ![f] = Append(pipe[f], unit)]
      /\ written' = [written EXCEPT ![f] = Append(written[f], unit)]
      /\ ~Finished(f) /\ ~Returned
  BY DEF Put, Active
<1>3. Append(pipe[f], unit) \in Seq(Units) /\ Append(written[f], unit) \in Seq(Units)
  BY <1>1
<1>4. TypeOK'
  BY <1>1, <1>2, <1>3 DEF IInv, TypeOK, readers
<1>5. ProcessInv'
  BY DEF IInv, ProcessInv, Running
<1>6. ASSUME NEW g \in Outputs PROVE FlowInv(g)'
  <2>1. CASE g = f
    <3>1. written[f] = buffer[f] \o pipe[f]
      BY DEF IInv, FlowInv
    <3>2. Append(buffer[f] \o pipe[f], unit) = buffer[f] \o Append(pipe[f], unit)
      <4>1. <<unit>> \in Seq(Units) /\ buffer[f] \o pipe[f] \in Seq(Units)
        BY <1>1
      <4>2. (buffer[f] \o pipe[f]) \o <<unit>> = buffer[f] \o (pipe[f] \o <<unit>>)
        BY <1>1, <4>1, ConcatUnits
      <4> QED BY <1>1, <4>1, <4>2, AppendIsConcat
    <3>3. written'[f] = buffer'[f] \o pipe'[f]
      BY <1>1, <1>2, <3>1, <3>2 DEF readers
    <3> QED BY <1>2, <2>1, <3>3 DEF IInv, FlowInv, readers, Finished, Limit
  <2>2. CASE g # f
    <3>1. written'[g] = written[g] /\ pipe'[g] = pipe[g]
      BY <1>1, <1>2, <2>2
    <3> QED BY <3>1 DEF IInv, FlowInv, readers, HeldOpen, Running, Limit
  <2> QED BY <2>1, <2>2
<1>7. CallerInv' /\ VerdictIsTrue'
  <2>1. GroupEnded => GroupEnded'
    BY SameProcessesStartNone, NoneStartsKeeps
  <2> QED BY <1>2, <2>1, CallerStays DEF readers, Finished
<1> QED BY <1>4, <1>5, <1>6, <1>7 DEF IInv

(* Processes that end *)
LEMMA EndingStep ==
    ASSUME IInv, ~Returned, NEW S, Ended(S), \A p \in S \cap Processes : Running(p),
           UNCHANGED <<heavy, pipe, input, workers, readers, late, drained, caller>>
    PROVE  IInv'
<1>1. TypeOK
  BY DEF IInv
<1>2. /\ NoneStarts /\ life' \in [Processes -> Lives] /\ holds' \in [Processes -> SUBSET Pipes]
      /\ UNCHANGED <<escaped, written>>
  BY <1>1, EndedStep
<1>3. TypeOK'
  BY <1>1, <1>2 DEF TypeOK, readers
<1>4. ProcessInv'
  BY <1>2, NoneStartsKeeps DEF IInv, ProcessInv
<1>5. \A f \in Outputs : FlowInv(f)'
  BY <1>2, NoneStartsKeeps, DataStays DEF Pipes
<1>6. CallerInv' /\ VerdictIsTrue'
  <2>1. /\ GroupEnded => GroupEnded'
        /\ life[Leader] = "gone" => life'[Leader] = "gone"
    BY <1>2, NoneStartsKeeps DEF NoneStarts
  <2> QED BY <2>1, CallerStays DEF readers, Finished
<1> QED BY <1>3, <1>4, <1>5, <1>6 DEF IInv

(* A descendant can only inherit what the program has, so that an output
   that has ended has ended for good. *)
LEMMA SpawnStep == IInv /\ Spawn => IInv'
<1> SUFFICES ASSUME IInv, Spawn PROVE IInv'
  OBVIOUS
<1>1. /\ Running("program") /\ ~Returned /\ life["stray"] = "none"
      /\ life' = [life EXCEPT !["stray"] = "running"]
      /\ UNCHANGED <<heavy, written, pipe, input, workers, readers, late, drained, caller>>
      /\ escaped' \in BOOLEAN
  BY DEF Spawn, Active
<1>2. PICK H \in Inherited : holds' = [holds EXCEPT !["stray"] = H]
  BY DEF Spawn
<1>3. TypeOK'
  BY <1>1, <1>2, LimitsAssumption DEF IInv, TypeOK, Lives, readers, Processes
<1>4. ProcessInv'
  BY <1>1, <1>2 DEF IInv, ProcessInv, Running, TypeOK, Processes
<1>5. holds["program"] = Pipes
  BY <1>1 DEF IInv, ProcessInv
<1>6. \A f \in Outputs : HeldOpen(f)
  BY <1>1, <1>5 DEF HeldOpen, Pipes, Processes
<1>7. \A f \in Outputs : FlowInv(f)'
  BY <1>1, <1>6, DataStays
<1>8. ~GroupEnded
  BY <1>1 DEF GroupEnded, InGroup, Processes
<1>9. life[Leader] = "gone" => life'[Leader] = "gone"
  BY <1>1, LeaderFacts DEF IInv, TypeOK
<1>10. CallerInv' /\ VerdictIsTrue'
  BY <1>1, <1>8, <1>9, CallerStays DEF readers, Finished
<1> QED BY <1>3, <1>4, <1>7, <1>10 DEF IInv

LEMMA ReadInputStep == ASSUME IInv, NEW p \in Processes, ReadInput(p) PROVE IInv'
<1>1. /\ ~Returned /\ input \in Nat /\ input > 0 /\ input' = input - 1
      /\ UNCHANGED <<heavy, processes, pipe, workers, readers, late, drained, caller>>
  BY LimitsAssumption DEF ReadInput, Active, IInv, TypeOK
<1>2. TypeOK' /\ ProcessInv'
  BY <1>1, LimitsAssumption DEF IInv, TypeOK, ProcessInv, processes, readers, Running
<1>3. NoneStarts
  BY <1>1, SameProcessesStartNone DEF processes
<1>4. \A f \in Outputs : FlowInv(f)'
  BY <1>1, <1>3, NoneStartsKeeps, DataStays DEF processes, Pipes
<1>5. CallerInv' /\ VerdictIsTrue'
  <2>1. /\ GroupEnded => GroupEnded'
        /\ life[Leader] = "gone" => life'[Leader] = "gone"
    BY <1>3, NoneStartsKeeps DEF NoneStarts
  <2> QED BY <1>1, <2>1, CallerStays DEF readers, Finished
<1> QED BY <1>2, <1>4, <1>5 DEF IInv

LEMMA ChildStep == IInv /\ Child => IInv'
<1> SUFFICES ASSUME IInv, Child PROVE IInv'
  OBVIOUS
<1>1. ASSUME NEW p \in Processes, NEW f \in Outputs, Write(p, f) PROVE IInv'
  <2>1. PICK unit \in {"text", "open"} : Put(p, f, unit)
    BY <1>1 DEF Write
  <2>2. heavy' = heavy /\ (heavy => Timed) /\ heavy \in BOOLEAN
    BY <1>1 DEF Write, IInv, ProcessInv, TypeOK
  <2> QED BY <1>1, <2>1, <2>2, PutStep DEF Write, Units
<1>2. ASSUME NEW p \in Processes, Exit(p) PROVE IInv'
  BY <1>2, EndingStep DEF Exit, Active
<1>3. CASE Trailer
  <2>1. Timed
    BY <1>3 DEF Trailer, Put, Active, IInv, ProcessInv
  <2> QED BY <1>3, <2>1, PutStep DEF Trailer, Units, Processes, Outputs
<1>4. CASE TimeExits
  BY <1>4, EndingStep DEF TimeExits, Active
<1> QED BY <1>1, <1>2, <1>3, <1>4, SpawnStep, ReadInputStep DEF Child

-----------------------------------------------------------------------------
(* Steps of the workers *)

(* A worker that goes on and leaves the processes and the caller alone *)
LEMMA WorkerStep ==
    ASSUME IInv, ~Returned, TypeOK',
           UNCHANGED <<heavy, processes, late, drained, caller>>,
           \A f \in Outputs : exceeded[f] => exceeded'[f],
           \A w \in Pipes : Finished(w) => Finished(w)',
           \A f \in Outputs : FlowInv(f)'
    PROVE  IInv'
<1>1. NoneStarts
  BY SameProcessesStartNone DEF processes
<1>2. ProcessInv'
  BY DEF IInv, ProcessInv, processes, Running
<1>3. CallerInv' /\ VerdictIsTrue'
  <2>1. /\ GroupEnded => GroupEnded'
        /\ life[Leader] = "gone" => life'[Leader] = "gone"
    BY <1>1, NoneStartsKeeps DEF NoneStarts
  <2> QED BY <2>1, CallerStays
<1> QED BY <1>2, <1>3 DEF IInv

(* The flow of one output is not disturbed by the worker of another. *)
LEMMA OtherFlow ==
    ASSUME IInv, NEW g \in Outputs, UNCHANGED processes, pipe'[g] = pipe[g],
           workers'[g] = workers[g], buffer'[g] = buffer[g], seen'[g] = seen[g],
           exceeded'[g] = exceeded[g]
    PROVE  FlowInv(g)'
BY DEF IInv, FlowInv, processes, HeldOpen, Running, Limit

(* The beginning and the rest of a sequence *)
LEMMA Split ==
    ASSUME NEW s \in Seq(Units), NEW n \in 1..Len(s)
    PROVE  /\ SubSeq(s, 1, n) \in Seq(Units) /\ SubSeq(s, n + 1, Len(s)) \in Seq(Units)
           /\ Len(SubSeq(s, 1, n)) = n
           /\ SubSeq(s, 1, n) \o SubSeq(s, n + 1, Len(s)) = s
<1>1. \A i \in 1..Len(s) : s[i] \in Units
  BY ElementOfSeq
<1>2. Len(s) \in Nat
  OBVIOUS
<1>3. SubSeq(s, 1, n) \in Seq(Units) /\ Len(SubSeq(s, 1, n)) = n
  BY <1>1, <1>2, SubSeqProperties
<1>4. SubSeq(s, n + 1, Len(s)) \in Seq(Units)
  BY <1>1, <1>2, SubSeqProperties
<1>5. SubSeq(s, 1, n) \o SubSeq(s, n + 1, Len(s)) = SubSeq(s, 1, Len(s))
  BY <1>2, ConcatAdjacentSubSeq
<1> QED BY <1>3, <1>4, <1>5, SubSeqFull

LEMMA ReadStep ==
    ASSUME IInv, ~Returned, NEW f \in Outputs, workers[f] = "serve",
           NEW n \in 1..ChunkSize, n <= Len(pipe[f]),
           pipe' = [pipe EXCEPT ![f] = SubSeq(@, n + 1, Len(@))],
           seen' = [seen EXCEPT ![f] = @ + n],
           buffer' = [buffer EXCEPT ![f] = IF Len(@) <= Limit(f) + ChunkSize
                                           THEN @ \o SubSeq(pipe[f], 1, n) ELSE @],
           workers' = [workers EXCEPT ![f] = "check"],
           UNCHANGED <<heavy, processes, input, exceeded, late, drained, caller>>
    PROVE  IInv'
<1> DEFINE head == SubSeq(pipe[f], 1, n)
           rest == SubSeq(pipe[f], n + 1, Len(pipe[f]))
<1>1. /\ pipe[f] \in Seq(Units) /\ buffer[f] \in Seq(Units) /\ seen[f] \in Nat
      /\ Len(pipe[f]) \in Nat /\ ChunkSize \in Nat /\ Limit(f) \in Nat /\ f \in Pipes
  BY LimitsAssumption DEF IInv, TypeOK, Limit, Pipes
<1>2. FlowInv(f) /\ ~exceeded[f]
  BY DEF IInv, FlowInv
<1>3. head \in Seq(Units) /\ rest \in Seq(Units) /\ Len(head) = n /\ head \o rest = pipe[f]
  BY <1>1, Split
<1>4. seen[f] <= Limit(f) /\ seen[f] = Len(buffer[f])
  BY <1>2 DEF FlowInv
<1>5. Len(buffer[f]) <= Limit(f) + ChunkSize
  BY <1>1, <1>4
<1> HIDE DEF head, rest
<1>6. /\ pipe' = [pipe EXCEPT ![f] = rest]
      /\ buffer' = [buffer EXCEPT ![f] = buffer[f] \o head]
  BY <1>5 DEF head, rest
<1>7. buffer[f] \o head \in Seq(Units) /\ Len(buffer[f] \o head) = Len(buffer[f]) + n
  BY <1>1, <1>3, ConcatProperties
<1>8. (buffer[f] \o head) \o rest = buffer[f] \o pipe[f]
  <2>1. (buffer[f] \o head) \o rest = buffer[f] \o (head \o rest)
    BY <1>1, <1>3, ConcatUnits
  <2> QED BY <1>3, <2>1
<1>9. TypeOK'
  <2>1. pipe' \in [Outputs -> Seq(Units)]
    BY <1>3, <1>6 DEF IInv, TypeOK
  <2>2. buffer' \in [Outputs -> Seq(Units)]
    BY <1>6, <1>7 DEF IInv, TypeOK
  <2>3. seen' \in [Outputs -> Nat]
    <3>1. seen[f] + n \in Nat
      BY <1>1
    <3> QED BY <3>1 DEF IInv, TypeOK
  <2>4. workers' \in [Pipes -> {"serve", "check", "finished"}]
    BY DEF IInv, TypeOK
  <2> QED BY <2>1, <2>2, <2>3, <2>4 DEF IInv, TypeOK, processes
<1>10. FlowInv(f)'
  <2>1. /\ written'[f] = written[f] /\ pipe'[f] = rest /\ buffer'[f] = buffer[f] \o head
        /\ seen'[f] = seen[f] + n /\ workers'[f] = "check" /\ exceeded'[f] = exceeded[f]
    BY <1>1, <1>6 DEF IInv, TypeOK, processes
  <2>2. written'[f] = buffer'[f] \o pipe'[f]
    BY <1>2, <1>8, <2>1 DEF FlowInv
  <2>3. seen'[f] = Len(buffer'[f]) /\ seen'[f] <= Limit(f) + ChunkSize
    BY <1>1, <1>4, <1>7, <2>1
  <2> QED BY <1>2, <2>1, <2>2, <2>3 DEF FlowInv, Limit
<1>11. \A g \in Outputs \ {f} : FlowInv(g)'
  BY <1>1, <1>6, OtherFlow DEF IInv, TypeOK
<1>12. \A w \in Pipes : Finished(w) => Finished(w)'
  BY <1>1 DEF Finished, IInv, TypeOK
<1> QED BY <1>9, <1>10, <1>11, <1>12, WorkerStep

(* The end of an output is seen only once nobody holds it and it is empty. *)
LEMMA ServeStep == ASSUME IInv, NEW f \in Outputs, Serve(f) PROVE IInv'
<1>1. workers[f] = "serve" /\ ~Returned
      /\ UNCHANGED <<heavy, processes, input, exceeded, late, drained, caller>>
  BY DEF Serve
<1>2. CASE pipe[f] # <<>> /\ workers' = [workers EXCEPT ![f] = "check"]
  BY <1>1, <1>2, ReadStep DEF Serve
<1>3. CASE /\ pipe[f] = <<>> /\ ~HeldOpen(f)
           /\ workers' = [workers EXCEPT ![f] = "finished"]
           /\ UNCHANGED <<pipe, seen, buffer>>
  <2>1. TypeOK' /\ (\A w \in Pipes : Finished(w) => Finished(w)')
    BY <1>1, <1>3 DEF IInv, TypeOK, processes, Finished
  <2>2. workers'[f] = "finished" /\ f \in Pipes
    BY <1>3 DEF IInv, TypeOK, Pipes
  <2>3. ~HeldOpen(f)'
    BY <1>1, <1>3 DEF processes, HeldOpen, Running
  <2>4. FlowInv(f)'
    BY <1>1, <1>3, <2>2, <2>3 DEF IInv, FlowInv, processes, Limit
  <2>5. \A g \in Outputs \ {f} : FlowInv(g)'
    BY <1>1, <1>3, OtherFlow DEF IInv, TypeOK
  <2> QED BY <1>1, <2>1, <2>4, <2>5, WorkerStep
<1> QED BY <1>2, <1>3 DEF Serve

LEMMA CheckStep == ASSUME IInv, NEW f \in Outputs, Check(f) PROVE IInv'
<1>1. workers[f] = "check" /\ ~Returned
      /\ exceeded' = [exceeded EXCEPT ![f] = exceeded[f] \/ seen[f] > Limit(f)]
      /\ workers' = [workers EXCEPT ![f] = IF seen[f] > Limit(f) THEN "finished" ELSE "serve"]
      /\ UNCHANGED <<heavy, processes, pipe, input, buffer, seen, late, drained, caller>>
  BY DEF Check
<1>2. f \in Pipes /\ seen[f] \in Nat /\ Limit(f) \in Nat /\ exceeded[f] \in BOOLEAN
  BY LimitsAssumption DEF Pipes, IInv, TypeOK, Limit
<1>3. FlowInv(f) /\ ~exceeded[f]
  BY <1>1 DEF IInv, FlowInv
<1>4. /\ exceeded'[f] = (seen[f] > Limit(f))
      /\ workers'[f] = IF seen[f] > Limit(f) THEN "finished" ELSE "serve"
  BY <1>1, <1>2, <1>3 DEF IInv, TypeOK
<1>5. TypeOK'
  BY <1>1, <1>2 DEF IInv, TypeOK, processes
<1>6. FlowInv(f)'
  <2>1. /\ Limit(f)' = Limit(f) /\ written'[f] = written[f] /\ pipe'[f] = pipe[f]
        /\ buffer'[f] = buffer[f] /\ seen'[f] = seen[f]
    BY <1>1 DEF processes, Limit
  <2>2. CASE seen[f] > Limit(f)
    BY <1>2, <1>3, <1>4, <2>1, <2>2 DEF FlowInv
  <2>3. CASE ~(seen[f] > Limit(f))
    BY <1>2, <1>3, <1>4, <2>1, <2>3 DEF FlowInv
  <2> QED BY <2>2, <2>3
<1>7. \A g \in Outputs \ {f} : FlowInv(g)'
  BY <1>1, OtherFlow DEF IInv, TypeOK
<1>8. /\ \A w \in Pipes : Finished(w) => Finished(w)'
      /\ \A g \in Outputs : exceeded[g] => exceeded'[g]
  BY <1>1, <1>2, <1>3 DEF Finished, IInv, TypeOK
<1> QED BY <1>1, <1>5, <1>6, <1>7, <1>8, WorkerStep

LEMMA FeedStep == IInv /\ Feed => IInv'
<1> SUFFICES ASSUME IInv, Feed PROVE IInv'
  OBVIOUS
<1>1. /\ ~Returned /\ workers' = [workers EXCEPT !["stdin"] = "finished"]
      /\ UNCHANGED <<heavy, processes, pipe, input, readers, late, drained, caller>>
  BY DEF Feed
<1>2. TypeOK' /\ (\A w \in Pipes : Finished(w) => Finished(w)')
  BY <1>1 DEF IInv, TypeOK, processes, readers, Finished
<1>3. \A f \in Outputs : workers'[f] = workers[f]
  BY <1>1 DEF IInv, TypeOK, Pipes, Outputs
<1>4. \A f \in Outputs : FlowInv(f)'
  BY <1>1, <1>3, OtherFlow DEF readers
<1> QED BY <1>1, <1>2, <1>4, WorkerStep DEF readers

-----------------------------------------------------------------------------
(* What the readers found out is what the verdict is about. *)
LEMMA ReadersAreRight ==
    ASSUME IInv, NEW f \in Outputs
    PROVE  /\ exceeded[f] => Len(written[f]) > Limit(f)
           /\ Len(buffer[f]) <= Len(written[f])
           /\ Len(buffer[f]) <= Limit(f) + ChunkSize
           /\ Finished(f) /\ ~exceeded[f] =>
                 buffer[f] = written[f] /\ Len(written[f]) <= Limit(f) /\ ~HeldOpen(f)
<1>1. buffer[f] \in Seq(Units) /\ pipe[f] \in Seq(Units)
  BY DEF IInv, TypeOK
<1>2. FlowInv(f)
  BY DEF IInv
<1>3. Len(written[f]) = Len(buffer[f]) + Len(pipe[f])
  BY <1>1, <1>2, ConcatProperties DEF FlowInv
<1>4. Len(buffer[f]) \in Nat /\ Len(pipe[f]) \in Nat /\ Limit(f) \in Nat
  BY <1>1, LimitsAssumption DEF Limit
<1>5. \A a, b, limit \in Nat : a <= a + b /\ (a > limit => a + b > limit)
  OBVIOUS
<1>6. Finished(f) /\ ~exceeded[f] => buffer[f] = written[f]
  BY <1>1, <1>2, ConcatEmptySeq DEF FlowInv, Finished
<1> QED BY <1>2, <1>3, <1>4, <1>5, <1>6 DEF FlowInv, Finished

-----------------------------------------------------------------------------
(* Steps of the caller and of the clocks *)

LEMMA DeadlineStep == IInv /\ (Deadline \/ DrainDeadline) => IInv'
<1> SUFFICES ASSUME IInv, Deadline \/ DrainDeadline PROVE IInv'
  OBVIOUS
<1>1. /\ ~Returned /\ (late => late') /\ late' \in BOOLEAN /\ drained' \in BOOLEAN
      /\ UNCHANGED <<heavy, processes, pipe, input, workers, readers, caller>>
  BY DEF Deadline, DrainDeadline, Others, CallerAt, Returned, IInv, TypeOK
<1>2. TypeOK' /\ ProcessInv' /\ NoneStarts
  BY <1>1, SameProcessesStartNone DEF IInv, TypeOK, ProcessInv, processes, readers, Running
<1>3. \A f \in Outputs : FlowInv(f)'
  BY <1>1, <1>2, NoneStartsKeeps, DataStays DEF processes, Pipes
<1>4. CallerInv' /\ VerdictIsTrue'
  <2>1. /\ GroupEnded => GroupEnded'
        /\ life[Leader] = "gone" => life'[Leader] = "gone"
    BY <1>2, NoneStartsKeeps DEF NoneStarts
  <2> QED BY <1>1, <2>1, CallerStays DEF readers, Finished
<1> QED BY <1>2, <1>3, <1>4 DEF IInv

(* A step of the caller: what it says of itself must be true after it. *)
LEMMA CallerStep ==
    ASSUME IInv, UNCHANGED <<written, Others, drained>>, NoneStarts,
           life' \in [Processes -> Lives], holds' \in [Processes -> SUBSET Pipes],
           NEW c \in [pc : CallerPcs, breach : Breaches \cup {"none"}, result : Results],
           caller' = c, CallerInv',
           c.result # "none" => VerdictIsTrue'
    PROVE  IInv'
<1>1. TypeOK'
  BY DEF IInv, TypeOK, Others, readers, NoneStarts
<1>2. ProcessInv'
  BY NoneStartsKeeps DEF IInv, ProcessInv, Others
<1>3. \A f \in Outputs : FlowInv(f)'
  BY NoneStartsKeeps, DataStays DEF Others, Pipes
<1>4. c.result = "none" => VerdictIsTrue'
  BY DEF VerdictIsTrue, Outputs
<1> QED BY <1>1, <1>2, <1>3, <1>4 DEF IInv

(* The child is waited for. *)
LEMMA LookStep == IInv /\ Look => IInv'
<1> SUFFICES ASSUME IInv, Look PROVE IInv'
  OBVIOUS
<1>1. /\ caller.pc = "look" /\ caller.result = "none" /\ caller.breach = "none"
      /\ caller \in [pc : CallerPcs, breach : Breaches \cup {"none"}, result : Results]
      /\ UNCHANGED <<holds, escaped, written, drained, Others>>
  BY DEF Look, CallerAt, IInv, CallerInv, TypeOK
<1>2. PICK pc \in {"judge", "poll"} :
         /\ caller' = [caller EXCEPT !.pc = pc]
         /\ pc = "judge" => life'[Leader] = "gone" /\ \A w \in Pipes : Finished(w)
         /\ \/ UNCHANGED life
            \/ life[Leader] \in {"zombie", "gone"} /\ life' = [life EXCEPT ![Leader] = "gone"]
  BY LeaderFacts DEF Look, IInv, TypeOK
<1> DEFINE c == [caller EXCEPT !.pc = pc]
<1>3. /\ c \in [pc : CallerPcs, breach : Breaches \cup {"none"}, result : Results]
      /\ c.pc = pc /\ c.breach = "none" /\ c.result = "none"
  BY <1>1 DEF CallerPcs
<1>4. NoneStarts /\ life' \in [Processes -> Lives] /\ holds' \in [Processes -> SUBSET Pipes]
  BY <1>1, <1>2, LeaderFacts DEF NoneStarts, Running, IInv, TypeOK, Lives
<1> HIDE DEF c
<1>5. CallerInv'
  BY <1>1, <1>2, <1>3 DEF CallerInv, BreachIsTrue, Returned, Finished, Others, c, Outputs
<1> QED BY <1>1, <1>2, <1>3, <1>4, <1>5, CallerStep DEF c

LEMMA PollStep == IInv /\ Poll => IInv'
<1> SUFFICES ASSUME IInv, Poll PROVE IInv'
  OBVIOUS
<1>1. /\ caller.pc = "poll" /\ caller.result = "none" /\ caller.breach = "none"
      /\ caller \in [pc : CallerPcs, breach : Breaches \cup {"none"}, result : Results]
      /\ UNCHANGED <<processes, drained, Others>>
  BY DEF Poll, CallerAt, IInv, CallerInv, TypeOK
<1>2. PICK pc \in {"look", "killGroup"}, breach \in Breaches \cup {"none"} :
         /\ caller' = [caller EXCEPT !.pc = pc, !.breach = breach]
         /\ pc = "look" <=> breach = "none"
         /\ breach = "wall" => late
         /\ breach \in Outputs => exceeded[breach]
  <2>1. CASE late
    BY <1>1, <2>1 DEF Poll, Breaches, Outputs
  <2>2. CASE ~late /\ exceeded["stdout"]
    BY <1>1, <2>2 DEF Poll, Breaches, Outputs
  <2>3. CASE ~late /\ ~exceeded["stdout"] /\ exceeded["stderr"]
    BY <1>1, <2>3 DEF Poll, Breaches, Outputs
  <2>4. CASE ~late /\ ~exceeded["stdout"] /\ ~exceeded["stderr"]
    <3>1. caller' = [caller EXCEPT !.pc = "look"]
      BY <2>4 DEF Poll
    <3>2. caller' = [caller EXCEPT !.pc = "look", !.breach = "none"]
      BY <1>1, <3>1
    <3> WITNESS "look" \in {"look", "killGroup"}, "none" \in Breaches \cup {"none"}
    <3> QED BY <3>2 DEF Outputs
  <2> QED BY <2>1, <2>2, <2>3, <2>4
<1> DEFINE c == [caller EXCEPT !.pc = pc, !.breach = breach]
<1>3. /\ c \in [pc : CallerPcs, breach : Breaches \cup {"none"}, result : Results]
      /\ c.pc = pc /\ c.breach = breach /\ c.result = "none"
  BY <1>1 DEF CallerPcs
<1>4. NoneStarts /\ life' \in [Processes -> Lives] /\ holds' \in [Processes -> SUBSET Pipes]
  BY <1>1, SameProcessesStartNone DEF processes, IInv, TypeOK
<1> HIDE DEF c
<1>5. caller' = c /\ UNCHANGED <<written, late, exceeded, Others, drained>>
  BY <1>1, <1>2 DEF c, processes, Others, readers
<1>6. BreachIsTrue'
  BY <1>2, <1>3, <1>5 DEF BreachIsTrue
<1>7. CallerInv'
  BY <1>2, <1>3, <1>5, <1>6 DEF CallerInv, Returned
<1> QED BY <1>3, <1>4, <1>5, <1>7, CallerStep

(* Of the process group nothing runs after the signal. *)
LEMMA KillGroupStep == IInv /\ KillGroup => IInv'
<1> SUFFICES ASSUME IInv, KillGroup PROVE IInv'
  OBVIOUS
<1> DEFINE S == {p \in Processes : Running(p) /\ InGroup(p)}
           c == [caller EXCEPT !.pc = "reap"]
<1>1. /\ caller.pc = "killGroup" /\ caller.result = "none" /\ caller.breach # "none"
      /\ caller \in [pc : CallerPcs, breach : Breaches \cup {"none"}, result : Results]
      /\ caller' = c /\ Ended(S) /\ UNCHANGED <<drained, Others>> /\ TypeOK /\ BreachIsTrue
  BY DEF KillGroup, CallerAt, IInv, CallerInv, TypeOK
<1>2. /\ c \in [pc : CallerPcs, breach : Breaches \cup {"none"}, result : Results]
      /\ c.pc = "reap" /\ c.breach = caller.breach /\ c.result = "none"
  BY <1>1 DEF CallerPcs
<1>3. \A p \in S \cap Processes : Running(p)
  OBVIOUS
<1>4. /\ NoneStarts /\ life' \in [Processes -> Lives] /\ holds' \in [Processes -> SUBSET Pipes]
      /\ UNCHANGED <<escaped, written>> /\ \A p \in S \cap Processes : ~Running(p)'
  <2> HIDE DEF S
  <2> QED BY <1>1, <1>3, EndedStep
<1>5. GroupEnded'
  BY <1>4 DEF GroupEnded, NoneStarts, InGroup
<1> HIDE DEF c, S
<1>6. BreachIsTrue'
  BY <1>1, <1>2 DEF BreachIsTrue, Others, readers
<1>7. CallerInv'
  BY <1>1, <1>2, <1>5, <1>6 DEF CallerInv, Returned
<1> QED BY <1>1, <1>2, <1>4, <1>7, CallerStep

LEMMA ReapStep == IInv /\ Reap => IInv'
<1> SUFFICES ASSUME IInv, Reap PROVE IInv'
  OBVIOUS
<1> DEFINE c == [caller EXCEPT !.pc = "drain"]
<1>1. /\ caller.pc = "reap" /\ caller.result = "none" /\ caller.breach # "none"
      /\ caller \in [pc : CallerPcs, breach : Breaches \cup {"none"}, result : Results]
      /\ caller' = c /\ UNCHANGED <<escaped, written, drained, Others>>
      /\ life' = [life EXCEPT ![Leader] = "gone"] /\ holds' = [holds EXCEPT ![Leader] = {}]
      /\ BreachIsTrue /\ GroupEnded
  BY DEF Reap, CallerAt, IInv, CallerInv, TypeOK
<1>2. /\ c \in [pc : CallerPcs, breach : Breaches \cup {"none"}, result : Results]
      /\ c.pc = "drain" /\ c.breach = caller.breach /\ c.result = "none"
  BY <1>1 DEF CallerPcs
<1>3. /\ NoneStarts /\ life' \in [Processes -> Lives] /\ holds' \in [Processes -> SUBSET Pipes]
      /\ life'[Leader] = "gone"
  BY <1>1, LeaderFacts DEF NoneStarts, Running, IInv, TypeOK, Lives
<1>4. GroupEnded'
  BY <1>1, <1>3, NoneStartsKeeps
<1> HIDE DEF c
<1>5. BreachIsTrue'
  BY <1>1, <1>2 DEF BreachIsTrue, Others, readers
<1>6. CallerInv'
  BY <1>1, <1>2, <1>3, <1>4, <1>5 DEF CallerInv, Returned
<1> QED BY <1>1, <1>2, <1>3, <1>6, CallerStep

LEMMA DrainStep == IInv /\ Drain => IInv'
<1> SUFFICES ASSUME IInv, Drain PROVE IInv'
  OBVIOUS
<1> DEFINE c == [caller EXCEPT !.pc = "returned", !.result = caller.breach]
<1>1. /\ caller.pc = "drain" /\ caller.breach # "none"
      /\ caller \in [pc : CallerPcs, breach : Breaches \cup {"none"}, result : Results]
      /\ caller' = c /\ UNCHANGED <<processes, drained, Others>>
      /\ BreachIsTrue /\ GroupEnded /\ life[Leader] = "gone"
  BY DEF Drain, Return, CallerAt, IInv, CallerInv, TypeOK
<1>2. /\ c \in [pc : CallerPcs, breach : Breaches \cup {"none"}, result : Results]
      /\ c.pc = "returned" /\ c.breach = caller.breach /\ c.result = caller.breach
      /\ caller.breach \in Breaches
  BY <1>1 DEF CallerPcs, Results
<1>3. NoneStarts /\ life' \in [Processes -> Lives] /\ holds' \in [Processes -> SUBSET Pipes]
  BY <1>1, SameProcessesStartNone DEF processes, IInv, TypeOK
<1>4. GroupEnded' /\ life'[Leader] = "gone"
  BY <1>1, <1>3, NoneStartsKeeps DEF processes
<1> HIDE DEF c
<1>5. BreachIsTrue'
  BY <1>1, <1>2 DEF BreachIsTrue, Others, readers
<1>6. CallerInv'
  BY <1>1, <1>2, <1>4, <1>5 DEF CallerInv, Returned, Breaches
<1>7. VerdictIsTrue'
  <2>1. \A f \in Outputs : exceeded[f] => Len(written[f]) > Limit(f)
    BY ReadersAreRight
  <2>2. UNCHANGED <<written, exceeded, late>>
    BY <1>1 DEF processes, Others, readers
  <2> QED BY <1>1, <1>2, <2>1, <2>2 DEF VerdictIsTrue, BreachIsTrue, Breaches, Outputs, Limit
<1> QED BY <1>1, <1>2, <1>3, <1>6, <1>7, CallerStep DEF processes

(* What is left of the units is all of them, or all before a trailer. *)
LEMMA CleanedLacksTrailer ==
    ASSUME NEW units \in Seq(Units)
    PROVE  Cleaned(units) \in Seq(Units) /\ LacksTrailerOnly(Cleaned(units), units)
<1>1. CASE Trailers(units) = {}
  BY <1>1 DEF Cleaned, LacksTrailerOnly
<1>2. CASE Trailers(units) # {}
  <2> DEFINE i == CHOOSE i \in Trailers(units) : TRUE
             part == SubSeq(units, 1, i - 1)
             kept == EndedLike(units, part)
  <2>1. i \in Trailers(units)
    BY <1>2
  <2>2. i \in 1..Len(units) /\ Len(units) \in Nat /\ units[i] = "trailer"
    BY <2>1 DEF Trailers
  <2>3. Cleaned(units) = kept
    BY <1>2 DEF Cleaned
  <2> HIDE DEF i
  <2>4. \A k \in 1..(i - 1) : units[k] \in Units
    BY <2>2, ElementOfSeq
  <2>5. part \in Seq(Units) /\ Len(part) = IF 1 <= i - 1 THEN i - 1 ELSE 0
    BY <2>2, <2>4, SubSeqProperties
  <2>6. Len(part) = i - 1
    BY <2>2, <2>5
  <2>7. \A k \in 1..(i - 1) : part[k] = units[k]
    BY <2>2, <2>4, SubSeqProperties
  <2> HIDE DEF part
  <2>8. DOMAIN part = 1..(i - 1)
    BY <2>5, <2>6
  <2>9. CASE ~(part # <<>> /\ units[Len(units)] = "open")
    <3>1. kept = part
      BY <2>9 DEF EndedLike
    <3>2. i > 1 => units[Len(units)] # "open"
      <4>1. Len(<<>>) = 0
        OBVIOUS
      <4>2. i > 1 => part # <<>>
        BY <2>2, <2>6, <4>1
      <4> QED BY <2>9, <4>2
    <3> QED BY <2>2, <2>3, <2>5, <2>6, <2>7, <2>8, <3>1, <3>2 DEF LacksTrailerOnly
  <2>10. CASE part # <<>> /\ units[Len(units)] = "open"
    <3>1. kept = [part EXCEPT ![Len(part)] = "open"]
      BY <2>10 DEF EndedLike
    <3>2. "open" \in Units
      BY DEF Units
    <3>3. kept \in Seq(Units) /\ Len(kept) = i - 1 /\ DOMAIN kept = 1..(i - 1)
      <4>1. Len(part) \in 1..Len(part)
        BY <2>5, <2>10, EmptySeq
      <4>2. kept \in Seq(Units) /\ Len(kept) = Len(part)
        BY <2>5, <3>1, <3>2, <4>1, ExceptSeq
      <4> QED BY <2>6, <2>8, <3>1, <4>2
    <3>4. \A k \in 1..(i - 1) : kept[k] = IF k = i - 1 THEN "open" ELSE units[k]
      BY <2>6, <2>7, <2>8, <3>1
    <3> HIDE DEF kept
    <3> QED BY <2>2, <2>3, <2>10, <3>3, <3>4 DEF LacksTrailerOnly
  <2> QED BY <2>9, <2>10
<1> QED BY <1>1, <1>2

(* The verdict on a child that has ended by itself, whose output has been
   read to its end. *)
LEMMA JudgeStep == IInv /\ Judge => IInv'
<1> SUFFICES ASSUME IInv, Judge PROVE IInv'
  OBVIOUS
<1>1. /\ caller.pc = "judge" /\ caller.breach = "none"
      /\ caller \in [pc : CallerPcs, breach : Breaches \cup {"none"}, result : Results]
      /\ UNCHANGED <<processes, drained, Others>>
      /\ life[Leader] = "gone" /\ \A w \in Pipes : Finished(w)
      /\ buffer["stderr"] \in Seq(Units)
  BY DEF Judge, CallerAt, IInv, CallerInv, TypeOK, Outputs
<1> DEFINE long == Len(Output("stderr")) > StderrLimit
<1>2. PICK result \in {"wall", "stdout", "stderr", "memory", "ok"} :
         /\ caller' = [caller EXCEPT !.pc = "returned", !.result = result]
         /\ result = "wall" => late
         /\ result = "stdout" => exceeded["stdout"]
         /\ result = "stderr" => exceeded["stderr"] \/ long
         /\ result = "memory" => heavy
         /\ result = "ok" => /\ ~exceeded["stdout"] /\ ~exceeded["stderr"]
                             /\ ~(PeakKnown /\ heavy)
  BY Zenon DEF Judge, Return
<1> DEFINE c == [caller EXCEPT !.pc = "returned", !.result = result]
<1>3. /\ c \in [pc : CallerPcs, breach : Breaches \cup {"none"}, result : Results]
      /\ c.pc = "returned" /\ c.breach = "none" /\ c.result = result
  BY <1>1 DEF CallerPcs, Results, Breaches
<1>4. NoneStarts /\ life' \in [Processes -> Lives] /\ holds' \in [Processes -> SUBSET Pipes]
  BY <1>1, SameProcessesStartNone DEF processes, IInv, TypeOK
<1> HIDE DEF c
<1>5. caller' = c
  BY <1>2 DEF c
<1>6. /\ UNCHANGED <<written, buffer, heavy, late, exceeded, life, workers>>
      /\ PeakKnown' = PeakKnown /\ \A f \in Outputs : Finished(f)' = Finished(f)
  BY <1>1 DEF processes, Others, readers, PeakKnown, Finished
<1>7. CallerInv'
  <2>1. BreachIsTrue'
    BY <1>3, <1>5 DEF BreachIsTrue, Outputs
  <2>2. result = "ok" => \A f \in Outputs : Finished(f)' /\ ~exceeded'[f]
    BY <1>1, <1>2, <1>6 DEF Outputs, Pipes
  <2>3. result = "ok" => ~(PeakKnown' /\ heavy')
    BY <1>2, <1>6
  <2>4. life'[Leader] = "gone"
    BY <1>1, <1>6
  <2> QED BY <1>3, <1>5, <2>1, <2>2, <2>3, <2>4 DEF CallerInv, Returned
<1>8. VerdictIsTrue'
  <2>1. \A f \in Outputs : exceeded[f] => Len(written[f]) > Limit(f)
    BY ReadersAreRight
  <2>2. long => Len(written["stderr"]) > Limit("stderr")
    <3>1. Output("stderr") \in Seq(Units) /\ Len(Output("stderr")) <= Len(buffer["stderr"])
      BY <1>1, CleanedLacksTrailer DEF Output, LacksTrailerOnly
    <3>2. Len(buffer["stderr"]) <= Len(written["stderr"])
      BY ReadersAreRight DEF Outputs
    <3>3. written["stderr"] \in Seq(Units)
      BY DEF IInv, TypeOK, Outputs
    <3>4. \A x, y, z, l \in Nat : x <= y /\ y <= z /\ x > l => z > l
      OBVIOUS
    <3>5. /\ Len(written["stderr"]) \in Nat /\ Len(Output("stderr")) \in Nat
          /\ Len(buffer["stderr"]) \in Nat /\ StderrLimit \in Nat
      BY <1>1, <3>1, <3>3, LimitsAssumption
    <3> QED BY <3>1, <3>2, <3>4, <3>5 DEF Limit
  <2>3. heavy => Timed
    BY DEF IInv, ProcessInv
  <2>4. ASSUME result = "ok"
        PROVE  /\ \A f \in Outputs : ~(Len(written[f]) > Limit(f))
               /\ ~(heavy /\ Trailers(written["stderr"]) # {})
    <3>1. \A f \in Outputs : Finished(f) /\ ~exceeded[f]
      BY <1>1, <1>2, <2>4 DEF Outputs, Pipes
    <3>2. \A f \in Outputs : buffer[f] = written[f] /\ Len(written[f]) <= Limit(f)
      BY <3>1, ReadersAreRight
    <3>3. \A f \in Outputs : Len(written[f]) \in Nat /\ Limit(f) \in Nat
      BY LimitsAssumption DEF IInv, TypeOK, Limit
    <3>4. \A f \in Outputs : ~(Len(written[f]) > Limit(f))
      BY <3>2, <3>3
    <3>5. buffer["stderr"] = written["stderr"]
      BY <3>2 DEF Outputs
    <3> QED BY <1>2, <2>4, <3>4, <3>5 DEF PeakKnown
  <2> HIDE DEF long
  <2>5. caller'.result = result
    BY <1>3, <1>5
  <2> QED BY <1>2, <1>6, <2>1, <2>2, <2>3, <2>4, <2>5 DEF VerdictIsTrue, Outputs, Limit
<1>9. UNCHANGED <<written, Others, drained>>
  BY <1>1 DEF processes
<1> QED BY <1>3, <1>4, <1>5, <1>7, <1>8, <1>9, CallerStep

-----------------------------------------------------------------------------

LEMMA InitIInv == Init => IInv
<1> SUFFICES ASSUME Init PROVE IInv
  OBVIOUS
<1>1. TypeOK
  <2>1. <<>> \in Seq(Units)
    OBVIOUS
  <2>2. /\ written \in [Outputs -> Seq(Units)] /\ pipe \in [Outputs -> Seq(Units)]
        /\ buffer \in [Outputs -> Seq(Units)]
    BY <2>1 DEF Init
  <2>3. life \in [Processes -> Lives] /\ holds \in [Processes -> SUBSET Pipes]
    BY DEF Init, Lives
  <2>4. input \in 0..Input
    BY LimitsAssumption DEF Init
  <2>5. caller \in [pc : CallerPcs, breach : Breaches \cup {"none"}, result : Results]
    BY DEF Init, CallerPcs, Results
  <2> QED BY <2>2, <2>3, <2>4, <2>5 DEF Init, TypeOK
<1>2. ProcessInv
  BY DEF Init, ProcessInv, Running, Processes
<1>3. \A f \in Outputs : FlowInv(f)
  <2> SUFFICES ASSUME NEW f \in Outputs PROVE FlowInv(f)
    OBVIOUS
  <2>1. /\ written[f] = <<>> /\ pipe[f] = <<>> /\ buffer[f] = <<>> /\ seen[f] = 0
        /\ workers[f] = "serve" /\ exceeded[f] = FALSE
    BY DEF Init, Pipes
  <2>2. <<>> = <<>> \o <<>> /\ Len(<<>>) = 0
    OBVIOUS
  <2>3. Limit(f) \in Nat /\ ChunkSize \in Nat
    BY LimitsAssumption DEF Limit
  <2> QED BY <2>1, <2>2, <2>3 DEF FlowInv
<1>4. CallerInv /\ VerdictIsTrue
  BY DEF Init, CallerInv, BreachIsTrue, VerdictIsTrue, Returned, Outputs
<1> QED BY <1>1, <1>2, <1>3, <1>4 DEF IInv

LEMMA NextKeepsIInv == IInv /\ [Next]_vars => IInv'
<1> SUFFICES ASSUME IInv, [Next]_vars PROVE IInv'
  OBVIOUS
<1>1. CASE UNCHANGED vars
  BY <1>1 DEF vars, processes, readers, IInv, TypeOK, ProcessInv, FlowInv, CallerInv,
     VerdictIsTrue, BreachIsTrue, GroupEnded, Running, InGroup, HeldOpen, Finished, Returned,
     PeakKnown, Limit
<1> QED BY <1>1, ChildStep, ServeStep, CheckStep, FeedStep, LookStep, PollStep, KillGroupStep,
       ReapStep, DrainStep, JudgeStep, DeadlineStep DEF Next, Reader, Caller, Clock

(* Every variable has its type and the facts above hold in every state. *)
THEOREM InductiveInvariant == Spec => []IInv
BY InitIInv, NextKeepsIInv, PTL DEF Spec

(* A reported breach happened, and success is reported only of a child that
   stayed below its ceilings. *)
THEOREM VerdictsAreTrue == Spec => []VerdictIsTrue
<1>1. IInv => VerdictIsTrue
  BY DEF IInv
<1> QED BY <1>1, InductiveInvariant, PTL

(* The output of a run that succeeds lacks nothing but a trailer and what
   follows it, and nobody can add to it; what is kept of any run is bounded. *)
THEOREM OutputsAreComplete == Spec => []OutputIsComplete
<1>1. IInv => OutputIsComplete
  <2> SUFFICES ASSUME IInv PROVE OutputIsComplete
    OBVIOUS
  <2>1. ASSUME caller.result = "ok"
        PROVE  /\ Output("stdout") = written["stdout"]
               /\ LacksTrailerOnly(Output("stderr"), written["stderr"])
               /\ life[Leader] = "gone"
               /\ \A f \in Outputs : ~HeldOpen(f)
    <3>1. \A f \in Outputs : Finished(f) /\ ~exceeded[f]
      BY <2>1 DEF IInv, CallerInv
    <3>2. \A f \in Outputs : buffer[f] = written[f] /\ ~HeldOpen(f)
      BY <3>1, ReadersAreRight
    <3>3. /\ Output("stdout") = written["stdout"]
          /\ LacksTrailerOnly(Output("stderr"), written["stderr"])
      BY <3>2, CleanedLacksTrailer DEF IInv, TypeOK, Output, Outputs
    <3>4. life[Leader] = "gone"
      BY <2>1 DEF IInv, CallerInv
    <3> QED BY <3>2, <3>3, <3>4
  <2> QED BY <2>1, ReadersAreRight DEF OutputIsComplete
<1> QED BY <1>1, InductiveInvariant, PTL

(* No zombie and, after a breach, no process of the group survives. *)
THEOREM NothingIsLeft == Spec => []NothingSurvives
<1>1. IInv => NothingSurvives
  BY DEF IInv, CallerInv, NothingSurvives, Returned, GroupEnded
<1> QED BY <1>1, InductiveInvariant, PTL
=============================================================================
