------------------------------- MODULE Tripwire -------------------------------
(***************************************************************************)
(* crates/luad-oracle/src/tripwire.rs: run_with_tripwire runs a program    *)
(* under ceilings on time, output and memory. Three worker threads serve   *)
(* the pipes of the child, the caller polls them and its own deadline, and *)
(* what the child and its descendants do is up to them.                    *)
(*                                                                         *)
(* Output is counted in units; a unit of standard error is a text that     *)
(* ends its line, a text that leaves it open, or the trailer of the        *)
(* external time command that measures the memory.                         *)
(***************************************************************************)
EXTENDS Naturals, Sequences

CONSTANTS
    Timed,                      \* the child is run by the time command
    StdoutLimit, StderrLimit,   \* max_stdout_bytes, max_stderr_bytes
    ChunkSize,                  \* what one read takes at most
    Capacity,                   \* what a pipe holds
    Input,                      \* units of input beyond what its pipe holds
    MaxStdout, MaxStderr,       \* bounds on what the processes write
    Inherited                   \* the sets of pipes that a descendant may keep open

Outputs == {"stdout", "stderr"}
Pipes == Outputs \cup {"stdin"}

ASSUME LimitsAssumption ==
    /\ Timed \in BOOLEAN
    /\ StdoutLimit \in Nat /\ StderrLimit \in Nat /\ Input \in Nat
    /\ MaxStdout \in Nat /\ MaxStderr \in Nat
    /\ ChunkSize \in Nat \ {0} /\ Capacity \in Nat \ {0}
    /\ Inherited \subseteq SUBSET Pipes

VARIABLES
    heavy,      \* the peak memory it measured is over the ceiling
    life,       \* of each process
    holds,      \* the pipes a process has open
    escaped,    \* the stray descendant has left the process group
    written,    \* what was written into each output pipe so far
    pipe,       \* what is still in it
    input,      \* units of input that do not fit into the pipe yet
    workers,    \* the worker threads
    buffer,     \* what each reader kept
    seen,       \* what each reader counted
    exceeded,   \* the flag of each reader
    late,       \* the wall-clock ceiling has passed
    drained,    \* the deadline of drain_handles has passed
    caller      \* where the caller is, what it knows and what it returns

processes == <<life, holds, escaped, written>>
readers == <<buffer, seen, exceeded>>
vars == <<heavy, processes, pipe, input, workers, readers, late, drained, caller>>

Processes == {"time", "program", "stray"}
Units == {"text", "open", "trailer"}

Limit(f) == IF f = "stdout" THEN StdoutLimit ELSE StderrLimit
MaxWritten(f) == IF f = "stdout" THEN MaxStdout ELSE MaxStderr
Leader == IF Timed THEN "time" ELSE "program"

Running(p) == life[p] = "running"
InGroup(p) == p # "stray" \/ ~escaped
HeldOpen(f) == \E p \in Processes : Running(p) /\ f \in holds[p]
Finished(w) == workers[w] = "finished"

(* What goes on after the caller has returned is nobody's concern. *)
Returned == caller.pc = "returned"
Active(p) == Running(p) /\ ~Returned

-----------------------------------------------------------------------------

Init ==
    /\ heavy = FALSE
    /\ life = [p \in Processes |-> IF p = "program" \/ (Timed /\ p = "time")
                                   THEN "running" ELSE "none"]
    /\ holds = [p \in Processes |-> IF life[p] = "running" THEN Pipes ELSE {}]
    /\ escaped = FALSE
    /\ written = [f \in Outputs |-> <<>>]
    /\ pipe = [f \in Outputs |-> <<>>]
    /\ input = Input
    /\ workers = [w \in Pipes |-> "serve"]
    /\ buffer = [f \in Outputs |-> <<>>]
    /\ seen = [f \in Outputs |-> 0]
    /\ exceeded = [f \in Outputs |-> FALSE]
    /\ late = FALSE /\ drained = FALSE
    /\ caller = [pc |-> "look", breach |-> "none", result |-> "none"]

-----------------------------------------------------------------------------
(* The child, its descendants and the time command *)

(* The processes S end; the leader is a zombie until it is waited for. *)
Ended(S) ==
    /\ life' = [p \in Processes |-> IF p \notin S THEN life[p]
                                    ELSE IF p = Leader THEN "zombie" ELSE "gone"]
    /\ holds' = [p \in Processes |-> IF p \in S THEN {} ELSE holds[p]]
    /\ UNCHANGED <<escaped, written>>

(* A process reads input, which makes room for more. *)
ReadInput(p) ==
    /\ Active(p) /\ "stdin" \in holds[p] /\ p # "time"
    /\ input > 0 /\ ~Finished("stdin")
    /\ input' = input - 1
    /\ UNCHANGED <<heavy, processes, pipe, workers, readers, late, drained, caller>>

(* A write blocks while the pipe is full; nobody reads on once the reader of
   the pipe has finished. *)
Put(p, f, unit) ==
    /\ Active(p) /\ f \in holds[p] /\ ~Finished(f)
    /\ Len(pipe[f]) < Capacity
    /\ pipe' = [pipe EXCEPT ![f] = Append(@, unit)]
    /\ written' = [written EXCEPT ![f] = Append(@, unit)]

Write(p, f) ==
    /\ p # "time"
    /\ Len(written[f]) < MaxWritten(f)
    /\ \E unit \in (IF f = "stderr" THEN {"text", "open"} ELSE {"text"}) : Put(p, f, unit)
    /\ UNCHANGED <<heavy, life, holds, escaped, input, workers, readers, late, drained, caller>>

(* The program leaves a descendant behind, in its group or out of it, with
   some of its pipes. *)
Spawn ==
    /\ Active("program") /\ life["stray"] = "none"
    /\ life' = [life EXCEPT !["stray"] = "running"]
    /\ \E H \in Inherited : holds' = [holds EXCEPT !["stray"] = H]
    /\ escaped' \in BOOLEAN
    /\ UNCHANGED <<heavy, written, pipe, input, workers, readers, late, drained, caller>>

Exit(p) ==
    /\ Active(p) /\ p # "time"
    /\ Ended({p})
    /\ UNCHANGED <<heavy, pipe, input, workers, readers, late, drained, caller>>

(* The time command waits for the program, writes its trailer and exits. *)
Trailer ==
    /\ life["program"] = "gone"
    /\ \A i \in DOMAIN written["stderr"] : written["stderr"][i] # "trailer"
    /\ Put("time", "stderr", "trailer")
    /\ heavy' \in BOOLEAN
    /\ UNCHANGED <<life, holds, escaped, input, workers, readers, late, drained, caller>>

TimeExits ==
    /\ Active("time") /\ life["program"] = "gone"
    /\ \/ \E i \in DOMAIN written["stderr"] : written["stderr"][i] = "trailer"
       \/ Finished("stderr")
    /\ Ended({"time"})
    /\ UNCHANGED <<heavy, pipe, input, workers, readers, late, drained, caller>>

-----------------------------------------------------------------------------
(* The workers *)

(* One read, what is kept of it, and the end of the output once nobody has
   the pipe open; the flag is set in a step of its own. *)
Serve(f) ==
    /\ workers[f] = "serve" /\ ~Returned
    /\ \/ /\ pipe[f] # <<>>
          /\ \E n \in 1..ChunkSize :
               /\ n <= Len(pipe[f])
               /\ pipe' = [pipe EXCEPT ![f] = SubSeq(@, n + 1, Len(@))]
               /\ seen' = [seen EXCEPT ![f] = @ + n]
               /\ buffer' = [buffer EXCEPT ![f] = IF Len(@) <= Limit(f) + ChunkSize
                                                  THEN @ \o SubSeq(pipe[f], 1, n) ELSE @]
          /\ workers' = [workers EXCEPT ![f] = "check"]
       \/ /\ pipe[f] = <<>> /\ ~HeldOpen(f)
          /\ workers' = [workers EXCEPT ![f] = "finished"]
          /\ UNCHANGED <<pipe, seen, buffer>>
    /\ UNCHANGED <<heavy, processes, input, exceeded, late, drained, caller>>

Check(f) ==
    /\ workers[f] = "check" /\ ~Returned
    /\ exceeded' = [exceeded EXCEPT ![f] = @ \/ seen[f] > Limit(f)]
    /\ workers' = [workers EXCEPT ![f] = IF seen[f] > Limit(f) THEN "finished" ELSE "serve"]
    /\ UNCHANGED <<heavy, processes, pipe, input, buffer, seen, late, drained, caller>>

(* write_all to standard input is over once the rest fits into the pipe, or
   fails once nobody can read it. *)
Feed ==
    /\ workers["stdin"] = "serve" /\ ~Returned
    /\ input = 0 \/ ~HeldOpen("stdin")
    /\ workers' = [workers EXCEPT !["stdin"] = "finished"]
    /\ UNCHANGED <<heavy, processes, pipe, input, readers, late, drained, caller>>

-----------------------------------------------------------------------------
(* The caller *)

CallerAt(pc) == caller.pc = pc
Others == <<heavy, pipe, input, workers, readers, late>>

(* Mutant: the exit of the child is enough. *)
LookAtChild ==
    /\ CallerAt("look")
    /\ IF life[Leader] \in {"zombie", "gone"}
       THEN /\ life' = [life EXCEPT ![Leader] = "gone"]
            /\ caller' = [caller EXCEPT !.pc = "judge"]
       ELSE /\ caller' = [caller EXCEPT !.pc = "poll"]
            /\ UNCHANGED life
    /\ UNCHANGED <<holds, escaped, written, drained, Others>>

(* The child that has exited is waited for, and if the workers have finished
   too the loop is left. *)
Look ==
    /\ CallerAt("look")
    /\ IF life[Leader] \in {"zombie", "gone"}
       THEN /\ life' = [life EXCEPT ![Leader] = "gone"]
            /\ caller' = [caller EXCEPT !.pc = IF \A w \in Pipes : Finished(w)
                                               THEN "judge" ELSE "poll"]
       ELSE /\ caller' = [caller EXCEPT !.pc = "poll"]
            /\ UNCHANGED life
    /\ UNCHANGED <<holds, escaped, written, drained, Others>>

(* The ceilings in their order. Each is a flag that is set once, so that
   looking at them one after the other shows no more than looking at once. *)
Poll ==
    /\ CallerAt("poll")
    /\ caller' = IF late THEN [caller EXCEPT !.pc = "killGroup", !.breach = "wall"]
                 ELSE IF exceeded["stdout"] THEN [caller EXCEPT !.pc = "killGroup", !.breach = "stdout"]
                 ELSE IF exceeded["stderr"] THEN [caller EXCEPT !.pc = "killGroup", !.breach = "stderr"]
                 ELSE [caller EXCEPT !.pc = "look"]
    /\ UNCHANGED <<processes, drained, Others>>

(* Mutant: the signal goes to the child alone. *)
KillChildAlone ==
    /\ CallerAt("killGroup")
    /\ Ended({p \in Processes : Running(p) /\ p = Leader})
    /\ caller' = [caller EXCEPT !.pc = "reap"]
    /\ UNCHANGED <<drained, Others>>

(* kill_child_tree: the process group first, *)
KillGroup ==
    /\ CallerAt("killGroup")
    /\ Ended({p \in Processes : Running(p) /\ InGroup(p)})
    /\ caller' = [caller EXCEPT !.pc = "reap"]
    /\ UNCHANGED <<drained, Others>>

(* then the child, which is waited for. *)
Reap ==
    /\ CallerAt("reap")
    /\ life' = [life EXCEPT ![Leader] = "gone"]
    /\ holds' = [holds EXCEPT ![Leader] = {}]
    /\ caller' = [caller EXCEPT !.pc = "drain"]
    /\ UNCHANGED <<escaped, written, drained, Others>>

Return(result) == caller' = [caller EXCEPT !.pc = "returned", !.result = result]

(* Mutant: every worker is joined. *)
DrainAll ==
    /\ CallerAt("drain")
    /\ \A w \in Pipes : Finished(w)
    /\ Return(caller.breach)
    /\ UNCHANGED <<processes, drained, Others>>

(* drain_handles: the workers are waited for until a deadline. *)
Drain ==
    /\ CallerAt("drain")
    /\ drained \/ (\A w \in Pipes : Finished(w))
    /\ Return(caller.breach)
    /\ UNCHANGED <<processes, drained, Others>>

(* parse_gnu_time_trailer looks for the trailer at the start of a line. *)
Trailers(units) ==
    {i \in DOMAIN units : units[i] = "trailer" /\ (i > 1 => units[i - 1] # "open")}

(* What is kept ends its last line as all of it did. *)
EndedLike(units, kept) ==
    IF kept # <<>> /\ units[Len(units)] = "open"
    THEN [kept EXCEPT ![Len(kept)] = "open"] ELSE kept

(* The lines before the trailer: it ends the text whatever follows it. *)
Cleaned(units) ==
    IF Trailers(units) = {} THEN units
    ELSE EndedLike(units, SubSeq(units, 1, (CHOOSE i \in Trailers(units) : TRUE) - 1))

(* The output that a success returns *)
Output(f) == IF f = "stderr" THEN Cleaned(buffer[f]) ELSE buffer[f]

PeakKnown == Trailers(buffer["stderr"]) # {}

(* Mutant: the flags of the readers were looked at while polling. *)
JudgeUnflagged ==
    /\ CallerAt("judge")
    /\ Return(IF late THEN "wall" ELSE IF PeakKnown /\ heavy THEN "memory" ELSE "ok")
    /\ UNCHANGED <<processes, drained, Others>>

(* The verdict on a child that has ended by itself *)
Judge ==
    /\ CallerAt("judge")
    /\ Return(IF late THEN "wall"
              ELSE IF exceeded["stdout"] THEN "stdout"
              ELSE IF exceeded["stderr"] \/ Len(Output("stderr")) > StderrLimit THEN "stderr"
              ELSE IF PeakKnown /\ heavy THEN "memory"
              ELSE "ok")
    /\ UNCHANGED <<processes, drained, Others>>

Deadline ==
    /\ ~late /\ ~Returned
    /\ late' = TRUE
    /\ UNCHANGED <<heavy, processes, pipe, input, workers, readers, drained, caller>>

DrainDeadline ==
    /\ CallerAt("drain") /\ ~drained
    /\ drained' = TRUE
    /\ UNCHANGED <<processes, caller, Others>>

-----------------------------------------------------------------------------

Child ==
    \/ \E p \in Processes : \E f \in Outputs : Write(p, f)
    \/ \E p \in Processes : ReadInput(p) \/ Exit(p)
    \/ Spawn \/ Trailer \/ TimeExits

Reader(f) == Serve(f) \/ Check(f)

Caller == Look \/ Poll \/ KillGroup \/ Reap \/ Drain \/ Judge

Clock == Deadline \/ DrainDeadline

Next == Child \/ (\E f \in Outputs : Reader(f)) \/ Feed \/ Caller \/ Clock

Spec == Init /\ [][Next]_vars

(* Threads that can go on go on, and time passes; of the child nothing is
   assumed. *)
FairSpec ==
    /\ Spec
    /\ WF_vars(Caller) /\ WF_vars(Clock) /\ WF_vars(Feed)
    /\ \A f \in Outputs : WF_vars(Reader(f))

-----------------------------------------------------------------------------
(* Properties *)

(* A ceiling that is reported was exceeded, and success is reported only of a
   child that stayed below all of them; the memory of a child whose standard
   error left its last line open aside, to which the trailer is then glued. *)
VerdictIsTrue ==
    LET over(f) == Len(written[f]) > Limit(f)
    IN  /\ caller.result = "wall" => late
        /\ \A f \in Outputs : caller.result = f => over(f)
        /\ caller.result = "memory" => heavy /\ Timed
        /\ caller.result = "ok" =>
              /\ \A f \in Outputs : ~over(f)
              /\ ~(heavy /\ Trailers(written["stderr"]) # {})

(* kept is all of the units, or those before a trailer; then the end of its
   last line is that of the last one. *)
LacksTrailerOnly(kept, units) ==
    LET cut == Len(kept) < Len(units)
        lineEnd(i) == i = Len(kept) /\ cut /\ units[Len(units)] = "open"
    IN  /\ Len(kept) <= Len(units)
        /\ \A i \in DOMAIN kept : kept[i] = IF lineEnd(i) THEN "open" ELSE units[i]
        /\ cut => units[Len(kept) + 1] = "trailer"

(* What is kept of the output never exceeds the ceiling by more than a chunk.
   A run that succeeds returns all that the child and whatever holds its pipes
   have written, but for the trailer of the time command and what a descendant
   writes to standard error after it; the child has been waited for, and nobody
   can write any more. *)
OutputIsComplete ==
    /\ \A f \in Outputs : Len(buffer[f]) <= Limit(f) + ChunkSize
    /\ caller.result = "ok" =>
          /\ Output("stdout") = written["stdout"]
          /\ LacksTrailerOnly(Output("stderr"), written["stderr"])
          /\ life[Leader] = "gone"
          /\ \A f \in Outputs : ~HeldOpen(f)

(* When the caller returns there is no zombie, and after a breach that it met
   while the child was running nothing of the process group runs on. *)
NothingSurvives ==
    Returned =>
        /\ life[Leader] = "gone"
        /\ caller.breach # "none" => \A p \in Processes : InGroup(p) => ~Running(p)

(* The caller returns, whatever the child does and whoever holds its pipes. *)
Returns == <>Returned
=============================================================================
