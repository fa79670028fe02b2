--------------------------- MODULE Session_proofs ---------------------------
(***************************************************************************)
(* Proofs about Session, for any number of CPUs, threads, slices and       *)
(* records.  Inv is the inductive invariant; the properties follow.        *)
(***************************************************************************)
EXTENDS Session, Arithmetic, SequenceTheorems, TLAPS

\* Which states the target can be in where the profiler is, and how much of the attach
\* protocol is then behind them.
Places ==
    /\ pc = "start" => child = "none"
    /\ pc = "fork" => child \in {"none", "reaped"}
    /\ pc = "wait_stop" => child \in {"forked", "stopped", "zombie"}
    /\ pc = "open" => child \in {"stopped", "zombie"}
    /\ pc \in {"reap", "poll", "drain"} => child \in {"resumed", "running", "zombie"}
    /\ pc \in {"read_counts", "final", "finish", "mux", "periods"} => child = "reaped"
    /\ pc \in {"reap", "read_counts"} => run = "calibration"
    /\ pc \in {"poll", "drain", "final", "finish", "mux", "periods"} => run = "measurement"

\* The target goes on only when every counter of the run is open.
Attached ==
    /\ opened <= Fds
    /\ child \in {"resumed", "running"} => opened = Fds
    /\ AttachedBeforeExec

\* What is known of the target's end once it ended.
Endings ==
    /\ child \in {"zombie", "reaped"} => died # NoStatus
    /\ pc \in {"final", "finish", "mux", "periods"} => wstatus = died
    /\ \A r \in Rings : at_end[r] <= Len(made[r])

\* Nothing was drained before the measurement run, and no record drained is a throttle record.
Drained ==
    /\ run = "calibration" \/ pc \in {"start", "fork"} => \A r \in Rings : taken[r] = 0
    /\ \A r \in Rings : \A i \in 1..taken[r] : made[r][i] # "throttle"

\* Ring r is drained for good.
Final(r) == taken[r] >= at_end[r] /\ (~left => taken[r] = Len(made[r]))

\* The rings the final drain has come to.
FinallyDrained ==
    /\ pc = "final" => \A r \in Rings : r < next => Final(r)
    /\ pc \in {"finish", "mux", "periods"} => \A r \in Rings : Final(r)

\* What an exit code and a report stand for.
Outcome ==
    /\ pc = "exited" <=> exit # NoExit
    /\ report => pc = "exited" /\ child = "reaped"
    /\ ReportComplete
    /\ ExitCodeMeaning

Inv == TypeOK /\ Places /\ Attached /\ Endings /\ Drained /\ FinallyDrained /\ Outcome

-----------------------------------------------------------------------------
\* The constants and the sets made of them.
LEMMA Sets == /\ NCpus \in Nat \ {0} /\ 0 \in Rings
              /\ \A r \in Rings : r \in Nat /\ r < 2 * NCpus
              /\ \A k \in 0..(2 * NCpus) : k < 2 * NCpus => k \in Rings
              /\ Fds \in Nat /\ Fds <= 2 * NCpus /\ Fds >= 2
              /\ run = "measurement" => Fds = 2 * NCpus
  BY SessionAssumption DEF Rings, Fds

\* What is printed of a target that ended can be told from success.
LEMMA Codes == \A s \in Statuses \ {NoStatus} :
                   ExitCode(s) \in {0, 1, 3, 127, 137} /\ (ExitCode(s) = 0 => s = Exited(0))
  BY DEF Statuses, NoStatus, Exited, Signaled, ExitCode

\* The records of a ring are a sequence.
LEMMA Records == ASSUME TypeOK, NEW r \in Rings
                 PROVE  made[r] \in Seq(Kinds) /\ Len(made[r]) \in Nat /\ taken[r] \in 0..Len(made[r])
<1>1. made[r] \in Seq(Kinds) /\ taken[r] \in Nat /\ taken[r] <= Len(made[r])
  BY DEF TypeOK
<1> QED
  BY <1>1, LenProperties

\* The invariant holds when the command is started.
LEMMA InitInv == Init => Inv
<1> SUFFICES ASSUME Init PROVE Inv
  OBVIOUS
<1> USE DEF Init, Fresh
<1>1. TypeOK
  <2>1. /\ \A r \in Rings : taken[r] = 0 /\ made[r] = << >>
        /\ taken \in [Rings -> Nat] /\ enabled \in [Rings -> Nat] /\ made \in [Rings -> Seq(Kinds)]
    OBVIOUS
  <2>2. \A r \in Rings : taken[r] <= Len(made[r])
    BY <2>1
  <2>3. running \in [Rings -> Nat] /\ contended \in [Events -> Nat] /\ at_end \in [Rings -> Nat]
    OBVIOUS
  <2>4. run \in {"calibration", "measurement"} /\ next \in 0..(2 * NCpus) /\ opened \in 0..(2 * NCpus)
    BY Sets
  <2> QED
    BY <2>1, <2>2, <2>3, <2>4 DEF TypeOK, Statuses, NoHalt, NoExit
<1>2. Places /\ Attached /\ Endings
  BY Sets DEF Places, Attached, AttachedBeforeExec, Endings
<1>3. Drained /\ FinallyDrained /\ Outcome
  BY DEF Drained, FinallyDrained, Outcome, ReportComplete, ExitCodeMeaning, NoExit
<1> QED
  BY <1>1, <1>2, <1>3 DEF Inv

\* The target stops itself.
LEMMA ChildStopsInv == ASSUME Inv, ChildStops
                       PROVE  Inv'
<1> USE DEF ChildStops, profVars
<1>1. TypeOK'
  BY Sets DEF Inv, TypeOK
<1>2. Places'
  BY DEF Inv, TypeOK, Places
<1>3. Attached'
  BY DEF Inv, TypeOK, Attached, AttachedBeforeExec, Fds
<1>4. Endings'
  BY DEF Inv, TypeOK, Endings
<1>5. Drained'
  BY DEF Inv, TypeOK, Drained
<1>6. FinallyDrained'
  BY DEF Inv, TypeOK, FinallyDrained, Final
<1>7. Outcome'
  BY DEF Inv, TypeOK, Outcome, ReportComplete, ExitCodeMeaning, NoExit
<1> QED
  BY <1>1, <1>2, <1>3, <1>4, <1>5, <1>6, <1>7 DEF Inv

\* The target ends, wherever the profiler is.
LEMMA DiesInv == ASSUME Inv, NEW how \in Statuses \ {NoStatus}, Dies(how),
                        child \in {"forked", "stopped", "resumed", "running"}
                 PROVE  Inv'
<1> USE DEF Dies, profVars
<1>p. pc \notin {"final", "finish", "mux", "periods"} /\ ~report
  BY DEF Inv, Places, Outcome
<1>a. \A r \in Rings : Len(made[r]) \in Nat
  BY Records DEF Inv
<1>b. left' \in BOOLEAN /\ at_end' \in [Rings -> Nat]
  <2>1. left' \in BOOLEAN
    OBVIOUS
  <2>2. at_end' \in [Rings -> Nat]
    BY <1>a
  <2> QED
    BY <2>1, <2>2
<1>1. TypeOK'
  BY <1>b DEF Inv, TypeOK
<1>2. Places'
  BY DEF Inv, TypeOK, Places
<1>3. Attached'
  BY DEF Inv, TypeOK, Attached, AttachedBeforeExec, Fds
<1>4. Endings'
  BY <1>p, <1>a DEF Inv, Endings
<1>5. Drained'
  BY DEF Inv, TypeOK, Drained
<1>6. FinallyDrained'
  BY <1>p DEF FinallyDrained
<1>7. Outcome'
  BY DEF Inv, TypeOK, Outcome, ReportComplete, ExitCodeMeaning, NoExit
<1> QED
  BY <1>1, <1>2, <1>3, <1>4, <1>5, <1>6, <1>7 DEF Inv

\* The target executes its program, with the counters that are open.
LEMMA ChildExecsInv == ASSUME Inv, ChildExecs
                       PROVE  Inv'
<1> USE DEF ChildExecs, profVars
<1>1. TypeOK'
  BY Sets DEF Inv, TypeOK
<1>2. Places'
  BY DEF Inv, TypeOK, Places
<1>3. Attached'
  <2>1. opened = Fds
    BY DEF Inv, Attached
  <2>2. run = "measurement" => armed' = Rings
    BY <2>1, Sets
  <2> QED
    BY <2>1, <2>2 DEF Inv, Attached, AttachedBeforeExec, Fds
<1>4. Endings'
  BY DEF Inv, TypeOK, Endings
<1>5. Drained'
  BY DEF Inv, TypeOK, Drained
<1>6. FinallyDrained'
  BY DEF Inv, TypeOK, FinallyDrained, Final
<1>7. Outcome'
  BY DEF Inv, TypeOK, Outcome, ReportComplete, ExitCodeMeaning, NoExit
<1> QED
  BY <1>1, <1>2, <1>3, <1>4, <1>5, <1>6, <1>7 DEF Inv

\* Time passes.
LEMMA SliceInv == ASSUME Inv, NEW busy, NEW off, Slice(busy, off)
                  PROVE  Inv'
<1> USE DEF Slice, Counted, profVars
<1>a. ticks' \in Nat
  BY DEF Inv, TypeOK
<1>b. running' \in [Rings -> Nat] /\ contended' \in [Events -> Nat]
  <2>1. \A r \in Rings : running[r] \in Nat /\ running[r] + 0 \in Nat /\ running[r] + 1 \in Nat
    BY DEF Inv, TypeOK
  <2>2. \A e \in Events : contended[e] \in Nat /\ contended[e] + 0 \in Nat /\ contended[e] + 1 \in Nat
    BY DEF Inv, TypeOK
  <2> QED
    BY <2>1, <2>2
<1>c. UNCHANGED <<profVars, child, died, left, at_end, armed, made>>
  OBVIOUS
<1> HIDE DEF Slice, Counted
<1>1. TypeOK'
  BY <1>a, <1>b, <1>c DEF Inv, TypeOK
<1>2. Places'
  BY <1>c DEF Inv, Places
<1>3. Attached'
  BY <1>c DEF Inv, Attached, AttachedBeforeExec, Fds
<1>4. Endings'
  BY <1>c DEF Inv, Endings
<1>5. Drained'
  BY <1>c DEF Inv, Drained
<1>6. FinallyDrained'
  BY <1>c DEF Inv, FinallyDrained, Final
<1>7. Outcome'
  BY <1>c DEF Inv, Outcome, ReportComplete, ExitCodeMeaning
<1> QED
  BY <1>1, <1>2, <1>3, <1>4, <1>5, <1>6, <1>7 DEF Inv

\* A record gets into a ring.
LEMMA EmitInv == ASSUME Inv, NEW r \in Rings, NEW kind \in Kinds, Emit(r, kind)
                 PROVE  Inv'
<1> USE DEF Emit, Counted, profVars
<1>0. made' = [made EXCEPT ![r] = Append(@, kind)]
  OBVIOUS
<1>d. /\ pc \notin {"mux", "periods", "exited"} /\ (pc \in {"final", "finish"} => left)
      /\ ~report /\ run = "measurement"
  BY DEF Inv, Places, Outcome
<1>e. UNCHANGED <<profVars, child, died, left, at_end, armed, ticks, running, contended>>
  OBVIOUS
<1> HIDE DEF Emit, Counted
<1>a. /\ made[r] \in Seq(Kinds) /\ Append(made[r], kind) \in Seq(Kinds)
      /\ Len(Append(made[r], kind)) = Len(made[r]) + 1
      /\ \A i \in 1..Len(made[r]) : Append(made[r], kind)[i] = made[r][i]
  <2>1. made[r] \in Seq(Kinds)
    BY Records DEF Inv
  <2> QED
    BY <2>1, AppendProperties
<1>b. /\ made' \in [Rings -> Seq(Kinds)]
      /\ \A s \in Rings : made'[s] = IF s = r THEN Append(made[r], kind) ELSE made[s]
  <2>1. made \in [Rings -> Seq(Kinds)]
    BY DEF Inv, TypeOK
  <2> QED
    BY <1>0, <1>a, <2>1
<1>c. \A s \in Rings : /\ Len(made[s]) \in Nat /\ taken[s] \in 0..Len(made[s])
                       /\ Len(made'[s]) \in Nat /\ Len(made[s]) <= Len(made'[s])
                       /\ \A i \in 1..Len(made[s]) : made'[s][i] = made[s][i]
  <2> SUFFICES ASSUME NEW s \in Rings
               PROVE  /\ Len(made[s]) \in Nat /\ taken[s] \in 0..Len(made[s])
                      /\ Len(made'[s]) \in Nat /\ Len(made[s]) <= Len(made'[s])
                      /\ \A i \in 1..Len(made[s]) : made'[s][i] = made[s][i]
    OBVIOUS
  <2>1. Len(made[s]) \in Nat /\ taken[s] \in 0..Len(made[s])
    BY Records DEF Inv
  <2>2. CASE s = r
    <3>1. made'[s] = Append(made[r], kind)
      BY <1>b, <2>2
    <3> QED
      BY <1>a, <2>1, <2>2, <3>1
  <2>3. CASE s # r
    <3>1. made'[s] = made[s]
      BY <1>b, <2>3
    <3> QED
      BY <2>1, <3>1
  <2> QED
    BY <2>2, <2>3
<1>1. TypeOK'
  BY <1>b, <1>c, <1>e DEF Inv, TypeOK
<1>2. Places'
  BY <1>e DEF Inv, Places
<1>3. Attached'
  BY <1>e DEF Inv, Attached, AttachedBeforeExec, Fds
<1>4. Endings'
  <2>1. \A s \in Rings : at_end[s] \in Nat /\ at_end[s] <= Len(made[s])
    BY DEF Inv, TypeOK, Endings
  <2>2. \A s \in Rings : at_end[s] <= Len(made'[s])
    BY <1>c, <2>1
  <2> QED
    BY <1>e, <2>2 DEF Inv, Endings
<1>5. Drained'
  <2>1. \A s \in Rings : \A i \in 1..taken[s] : i \in 1..Len(made[s])
    BY <1>c
  <2>2. \A s \in Rings : \A i \in 1..taken[s] : made'[s][i] # "throttle"
    BY <1>c, <2>1 DEF Inv, Drained
  <2> QED
    BY <1>d, <1>e, <2>2 DEF Inv, Drained
<1>6. FinallyDrained'
  BY <1>d, <1>e DEF Inv, FinallyDrained, Final
<1>7. Outcome'
  BY <1>d, <1>e DEF Inv, Outcome, ReportComplete, ExitCodeMeaning
<1> QED
  BY <1>1, <1>2, <1>3, <1>4, <1>5, <1>6, <1>7 DEF Inv

\* The profiler gives up.
LEMMA DieInv == ASSUME Inv, Die, pc # "exited"
                PROVE  Inv'
<1> USE DEF Die, targetVars
<1>1. TypeOK'
  BY Sets DEF Inv, TypeOK
<1>2. Places'
  BY DEF Inv, TypeOK, Places
<1>3. Attached'
  BY DEF Inv, TypeOK, Attached, AttachedBeforeExec, Fds
<1>4. Endings'
  BY DEF Inv, TypeOK, Endings
<1>5. Drained'
  BY DEF Inv, TypeOK, Drained
<1>6. FinallyDrained'
  BY DEF Inv, TypeOK, FinallyDrained, Final
<1>7. Outcome'
  BY DEF Inv, TypeOK, Outcome, ReportComplete, ExitCodeMeaning, NoExit
<1> QED
  BY <1>1, <1>2, <1>3, <1>4, <1>5, <1>6, <1>7 DEF Inv

\* The profiler refuses to go on.
LEMMA QuitInv == ASSUME Inv, NEW why \in {NoHalt, "never_armed", "multiplexed", "period"},
                        NEW code \in {1, 2, 3, 127, 137}, Quit(why, code), pc # "exited"
                 PROVE  Inv'
<1> USE DEF Quit, targetVars
<1>1. TypeOK'
  BY Sets DEF Inv, TypeOK
<1>2. Places'
  BY DEF Inv, TypeOK, Places
<1>3. Attached'
  BY DEF Inv, TypeOK, Attached, AttachedBeforeExec, Fds
<1>4. Endings'
  BY DEF Inv, TypeOK, Endings
<1>5. Drained'
  BY DEF Inv, TypeOK, Drained
<1>6. FinallyDrained'
  BY DEF Inv, TypeOK, FinallyDrained, Final
<1>7. Outcome'
  BY DEF Inv, TypeOK, Outcome, ReportComplete, ExitCodeMeaning, NoExit
<1> QED
  BY <1>1, <1>2, <1>3, <1>4, <1>5, <1>6, <1>7 DEF Inv

\* The command begins.
LEMMA StartInv == ASSUME Inv, pc = "start", Goto("fork"), UNCHANGED next
                  PROVE  Inv'
<1> USE DEF Goto, targetVars
<1>1. TypeOK'
  BY Sets DEF Inv, TypeOK
<1>2. Places'
  BY DEF Inv, TypeOK, Places
<1>3. Attached'
  BY DEF Inv, TypeOK, Attached, AttachedBeforeExec, Fds
<1>4. Endings'
  BY DEF Inv, TypeOK, Endings
<1>5. Drained'
  BY DEF Inv, TypeOK, Drained
<1>6. FinallyDrained'
  BY DEF Inv, TypeOK, FinallyDrained, Final
<1>7. Outcome'
  BY DEF Inv, TypeOK, Outcome, ReportComplete, ExitCodeMeaning, NoExit
<1> QED
  BY <1>1, <1>2, <1>3, <1>4, <1>5, <1>6, <1>7 DEF Inv

\* A target is forked.
LEMMA ForkInv == ASSUME Inv, Fork, ~Die
                 PROVE  Inv'
<1> USE DEF Fork, targetVars
<1>a. /\ pc' = "wait_stop" /\ child' = "forked" /\ died' = NoStatus /\ armed' = {} /\ left' = FALSE
      /\ ticks' = 0 /\ at_end' = [r \in Rings |-> 0]
      /\ running' = [r \in Rings |-> 0] /\ contended' = [e \in Events |-> 0]
      /\ made' = [r \in Rings |-> << >>]
  OBVIOUS
<1>b. UNCHANGED <<override, run, next, opened, wstatus, taken, enabled, report, halt, exit>> /\ pc = "fork"
  OBVIOUS
<1> HIDE DEF Fork
<1>c. \A r \in Rings : taken'[r] = 0 /\ made'[r] = << >> /\ at_end'[r] = 0
  BY <1>a, <1>b DEF Inv, Drained
<1>d. \A r \in Rings : Len(made'[r]) = 0
  BY <1>c
<1>1. TypeOK'
  <2>1. made' \in [Rings -> Seq(Kinds)] /\ at_end' \in [Rings -> Nat]
    BY <1>a
  <2>2. running' \in [Rings -> Nat] /\ contended' \in [Events -> Nat]
    BY <1>a
  <2>3. \A r \in Rings : taken'[r] <= Len(made'[r])
    BY <1>c, <1>d
  <2>4. died' \in Statuses
    BY <1>a DEF Statuses
  <2>5. /\ pc' = "wait_stop" /\ child' = "forked" /\ armed' \subseteq Rings /\ left' \in BOOLEAN
        /\ ticks' \in Nat
    BY <1>a
  <2> QED
    BY <1>b, <2>1, <2>2, <2>3, <2>4, <2>5 DEF Inv, TypeOK
<1>2. Places'
  BY <1>a, <1>b DEF Inv, Places
<1>3. Attached'
  BY <1>a, <1>b DEF Inv, Attached, AttachedBeforeExec, Fds
<1>4. Endings'
  BY <1>a, <1>c, <1>d DEF Endings
<1>5. Drained'
  BY <1>a, <1>b, <1>c DEF Inv, Drained
<1>6. FinallyDrained'
  BY <1>a DEF FinallyDrained
<1>7. Outcome'
  BY <1>a, <1>b DEF Inv, Outcome, ReportComplete, ExitCodeMeaning, NoExit
<1> QED
  BY <1>1, <1>2, <1>3, <1>4, <1>5, <1>6, <1>7 DEF Inv

\* The target stopped.
LEMMA AwaitStopInv == ASSUME Inv, AwaitStop, ~Die
                      PROVE  Inv'
<1> USE DEF AwaitStop, WaitReturns, Goto, targetVars
<1>a. 0 \in 0..(2 * NCpus)
  BY Sets
<1>1. TypeOK'
  BY <1>a DEF Inv, TypeOK
<1>2. Places'
  BY DEF Inv, TypeOK, Places
<1>3. Attached'
  BY DEF Inv, TypeOK, Attached, AttachedBeforeExec, Fds
<1>4. Endings'
  BY DEF Inv, TypeOK, Endings
<1>5. Drained'
  BY DEF Inv, TypeOK, Drained
<1>6. FinallyDrained'
  BY DEF Inv, TypeOK, FinallyDrained, Final
<1>7. Outcome'
  BY DEF Inv, TypeOK, Outcome, ReportComplete, ExitCodeMeaning, NoExit
<1> QED
  BY <1>1, <1>2, <1>3, <1>4, <1>5, <1>6, <1>7 DEF Inv

\* A descriptor is opened.
LEMMA OpenInv == ASSUME Inv, Open, ~Die
                 PROVE  Inv'
<1> USE DEF Open, AllOpen, targetVars
<1>a. opened \in Nat /\ opened' = opened + 1 /\ opened' <= Fds /\ opened' \in 0..(2 * NCpus)
  <2>1. opened \in Nat /\ opened <= Fds /\ opened # Fds /\ opened' = opened + 1
    BY DEF Inv, TypeOK, Attached
  <2>2. Fds \in Nat /\ Fds <= 2 * NCpus /\ NCpus \in Nat
    BY Sets
  <2> HIDE DEF Open, AllOpen
  <2> QED
    BY <2>1, <2>2
<1>b. Fds' = Fds
  BY DEF Fds
<1>c. child \in {"stopped", "zombie"}
  BY DEF Inv, Places
<1>1. TypeOK'
  BY <1>a DEF Inv, TypeOK
<1>2. Places'
  BY DEF Inv, TypeOK, Places
<1>3. Attached'
  BY <1>a, <1>b, <1>c DEF Inv, Attached, AttachedBeforeExec
<1>4. Endings'
  BY DEF Inv, TypeOK, Endings
<1>5. Drained'
  BY DEF Inv, TypeOK, Drained
<1>6. FinallyDrained'
  BY DEF Inv, TypeOK, FinallyDrained, Final
<1>7. Outcome'
  BY DEF Inv, TypeOK, Outcome, ReportComplete, ExitCodeMeaning, NoExit
<1> QED
  BY <1>1, <1>2, <1>3, <1>4, <1>5, <1>6, <1>7 DEF Inv

\* All descriptors are open, and the target goes on.
LEMMA ResumeInv == ASSUME Inv, Resume
                   PROVE  Inv'
<1> USE DEF Resume, AllOpen
<1>1. TypeOK'
  BY Sets DEF Inv, TypeOK
<1>2. Places'
  BY DEF Inv, TypeOK, Places
<1>3. Attached'
  BY DEF Inv, TypeOK, Attached, AttachedBeforeExec, Fds
<1>4. Endings'
  BY DEF Inv, TypeOK, Endings
<1>5. Drained'
  BY DEF Inv, TypeOK, Drained
<1>6. FinallyDrained'
  BY DEF Inv, TypeOK, FinallyDrained, Final
<1>7. Outcome'
  BY DEF Inv, TypeOK, Outcome, ReportComplete, ExitCodeMeaning, NoExit
<1> QED
  BY <1>1, <1>2, <1>3, <1>4, <1>5, <1>6, <1>7 DEF Inv

\* The calibration run is over.
LEMMA ReapInv == ASSUME Inv, Reap
                 PROVE  Inv'
<1> USE DEF Reap, ReapChild
<1>1. TypeOK'
  BY Sets DEF Inv, TypeOK
<1>2. Places'
  BY DEF Inv, TypeOK, Places
<1>3. Attached'
  BY DEF Inv, TypeOK, Attached, AttachedBeforeExec, Fds
<1>4. Endings'
  BY DEF Inv, TypeOK, Endings
<1>5. Drained'
  BY DEF Inv, TypeOK, Drained
<1>6. FinallyDrained'
  BY DEF Inv, TypeOK, FinallyDrained, Final
<1>7. Outcome'
  BY DEF Inv, TypeOK, Outcome, ReportComplete, ExitCodeMeaning, NoExit
<1> QED
  BY <1>1, <1>2, <1>3, <1>4, <1>5, <1>6, <1>7 DEF Inv

\* The counts of an event are read; after the second one the measurement begins.
LEMMA ReadCountsInv == ASSUME Inv, ReadCounts, ~Die
                       PROVE  Inv'
<1> USE DEF ReadCounts, Goto, targetVars
<1>a. next \in Nat /\ next' \in {next + 1, 0} /\ (next' = next + 1 => next' <= 1)
  BY DEF Inv, TypeOK
<1>b. \/ run' = run /\ opened' = opened /\ pc' = "read_counts" /\ wstatus' = wstatus
      \/ run' = "measurement" /\ opened' = 0 /\ pc' = "fork" /\ wstatus' = NoStatus
  OBVIOUS
<1>c. UNCHANGED <<override, taken, enabled, report, halt, exit, targetVars>>
  OBVIOUS
<1>d. child = "reaped" /\ run = "calibration" /\ pc = "read_counts"
  BY DEF Inv, Places
<1> HIDE DEF ReadCounts
<1>1. TypeOK'
  <2>1. next' \in 0..(2 * NCpus) /\ opened' \in 0..(2 * NCpus)
    BY <1>a, <1>b, Sets DEF Inv, TypeOK
  <2> QED
    BY <1>b, <1>c, <2>1 DEF Inv, TypeOK, Statuses
<1>2. Places'
  BY <1>b, <1>c, <1>d DEF Places
<1>3. Attached'
  <2>1. opened' <= Fds'
    BY <1>b, <1>d, Sets, SessionAssumption DEF Inv, Attached, Fds
  <2> QED
    BY <1>c, <1>d, <2>1 DEF Attached, AttachedBeforeExec
<1>4. Endings'
  BY <1>b, <1>c, <1>d DEF Inv, Endings
<1>5. Drained'
  BY <1>b, <1>c, <1>d DEF Inv, Drained
<1>6. FinallyDrained'
  BY <1>b DEF FinallyDrained
<1>7. Outcome'
  BY <1>b, <1>c, <1>d DEF Inv, Outcome, ReportComplete, ExitCodeMeaning
<1> QED
  BY <1>1, <1>2, <1>3, <1>4, <1>5, <1>6, <1>7 DEF Inv

\* poll() returns.
LEMMA PollInv == ASSUME Inv, Poll, ~Die
                 PROVE  Inv'
<1> USE DEF Poll, Goto, targetVars
<1>a. 0 \in 0..(2 * NCpus)
  BY Sets
<1>1. TypeOK'
  BY <1>a DEF Inv, TypeOK
<1>2. Places'
  BY DEF Inv, TypeOK, Places
<1>3. Attached'
  BY DEF Inv, TypeOK, Attached, AttachedBeforeExec, Fds
<1>4. Endings'
  BY DEF Inv, TypeOK, Endings
<1>5. Drained'
  BY DEF Inv, TypeOK, Drained
<1>6. FinallyDrained'
  BY DEF Inv, TypeOK, FinallyDrained, Final
<1>7. Outcome'
  BY DEF Inv, TypeOK, Outcome, ReportComplete, ExitCodeMeaning, NoExit
<1> QED
  BY <1>1, <1>2, <1>3, <1>4, <1>5, <1>6, <1>7 DEF Inv

\* A ring is drained, in the loop or after it.
LEMMA DrainRingInv == ASSUME Inv, NEW r \in Rings, r = next, pc \in {"drain", "final"},
                             DrainRing(r), ~Die
                      PROVE  Inv'
<1> USE DEF DrainRing, targetVars
<1>a. made[r] \in Seq(Kinds) /\ Len(made[r]) \in Nat /\ taken[r] \in 0..Len(made[r])
  BY Records DEF Inv
<1>b. /\ taken' = [taken EXCEPT ![r] = Len(made[r])] /\ next' = next + 1
      /\ \A i \in DOMAIN Unread(r) : Unread(r)[i] # "throttle"
      /\ UNCHANGED <<override, run, pc, opened, wstatus, enabled, report, halt, exit, targetVars>>
  OBVIOUS
<1> HIDE DEF DrainRing
<1>c. taken' \in [Rings -> Nat] /\ \A s \in Rings : taken'[s] = IF s = r THEN Len(made[r]) ELSE taken[s]
  BY <1>a, <1>b DEF Inv, TypeOK
<1>d. /\ \A s \in Rings : s \in Nat
      /\ next \in Nat /\ next' \in 0..(2 * NCpus) /\ run = "measurement"
  BY <1>b, Sets DEF Inv, Places
<1>1. TypeOK'
  <2>1. \A s \in Rings : taken'[s] <= Len(made[s])
    BY <1>a, <1>c DEF Inv, TypeOK
  <2> QED
    BY <1>b, <1>c, <1>d, <2>1 DEF Inv, TypeOK
<1>2. Places'
  BY <1>b DEF Inv, Places
<1>3. Attached'
  BY <1>b DEF Inv, Attached, AttachedBeforeExec, Fds
<1>4. Endings'
  BY <1>b DEF Inv, Endings
<1>5. Drained'
  <2>1. ASSUME NEW i \in 1..Len(made[r])
        PROVE  made[r][i] # "throttle"
    <3>1. CASE i \in 1..taken[r]
      BY <3>1 DEF Inv, Drained
    <3>2. CASE i > taken[r]
      <4>1. /\ Len(Unread(r)) = Len(made[r]) - taken[r]
            /\ Unread(r) \in Seq(Kinds)
            /\ \A j \in 1..Len(Unread(r)) : Unread(r)[j] = made[r][taken[r] + 1 + j - 1]
        <5>1. \A j \in (taken[r] + 1)..Len(made[r]) : j \in 1..Len(made[r])
          BY <1>a
        <5>2. \A j \in (taken[r] + 1)..Len(made[r]) : made[r][j] \in Kinds
          BY <1>a, <5>1, ElementOfSeq
        <5>3. taken[r] + 1 \in Int /\ Len(made[r]) \in Int /\ taken[r] + 1 <= Len(made[r])
          BY <1>a, <3>2
        <5>4. /\ Unread(r) \in Seq(Kinds) /\ Len(Unread(r)) = Len(made[r]) - (taken[r] + 1) + 1
              /\ \A j \in 1..(Len(made[r]) - (taken[r] + 1) + 1) :
                      Unread(r)[j] = made[r][taken[r] + 1 + j - 1]
          BY <5>2, <5>3, SubSeqProperties DEF Unread
        <5> HIDE DEF Unread
        <5>5. Len(made[r]) - (taken[r] + 1) + 1 = Len(made[r]) - taken[r]
          BY <1>a
        <5> QED
          BY <5>4, <5>5
      <4>2. i - taken[r] \in 1..Len(Unread(r)) /\ taken[r] + 1 + (i - taken[r]) - 1 = i
        BY <1>a, <3>2, <4>1
      <4>3. DOMAIN Unread(r) = 1..Len(Unread(r))
        BY <4>1, LenProperties
      <4> HIDE DEF Unread
      <4> QED
        BY <1>b, <4>1, <4>2, <4>3
    <3> QED
      BY <1>a, <3>1, <3>2
  <2>2. \A s \in Rings : \A i \in 1..taken'[s] : made[s][i] # "throttle"
    BY <1>c, <2>1 DEF Inv, Drained
  <2> QED
    BY <1>b, <1>d, <2>2 DEF Drained
<1>6. FinallyDrained'
  <2>1. at_end[r] <= Len(made[r])
    BY DEF Inv, Endings
  <2>2. Final(r)'
    BY <1>a, <1>b, <1>c, <2>1 DEF Inv, TypeOK, Final
  <2>3. ASSUME NEW s \in Rings, s < next', s # r, pc = "final"
        PROVE  Final(s)'
    <3>1. s < next
      BY <1>b, <1>d, <2>3
    <3>2. Final(s)
      BY <2>3, <3>1 DEF Inv, FinallyDrained
    <3> QED
      BY <1>b, <1>c, <2>3, <3>2 DEF Final
  <2> QED
    BY <1>b, <2>2, <2>3 DEF FinallyDrained
<1>7. Outcome'
  <2>1. ~report /\ pc # "exited"
    BY DEF Inv, Outcome
  <2> QED
    BY <1>b, <2>1 DEF Inv, Outcome, ReportComplete, ExitCodeMeaning
<1> QED
  BY <1>1, <1>2, <1>3, <1>4, <1>5, <1>6, <1>7 DEF Inv

\* A ring is not ready.
LEMMA SkipInv == ASSUME Inv, pc = "drain", next < 2 * NCpus, Goto("drain"), next' = next + 1
                 PROVE  Inv'
<1> USE DEF Goto, targetVars
<1>1. TypeOK'
  BY Sets DEF Inv, TypeOK
<1>2. Places'
  BY DEF Inv, TypeOK, Places
<1>3. Attached'
  BY DEF Inv, TypeOK, Attached, AttachedBeforeExec, Fds
<1>4. Endings'
  BY DEF Inv, TypeOK, Endings
<1>5. Drained'
  BY DEF Inv, TypeOK, Drained
<1>6. FinallyDrained'
  BY DEF Inv, TypeOK, FinallyDrained, Final
<1>7. Outcome'
  BY DEF Inv, TypeOK, Outcome, ReportComplete, ExitCodeMeaning, NoExit
<1> QED
  BY <1>1, <1>2, <1>3, <1>4, <1>5, <1>6, <1>7 DEF Inv

\* The loop ends when the target is reaped.
LEMMA TryReapInv == ASSUME Inv, TryReap
                    PROVE  Inv'
<1> USE DEF TryReap, ReapChild, targetVars
<1>1. TypeOK'
  BY Sets DEF Inv, TypeOK
<1>2. Places'
  BY DEF Inv, TypeOK, Places
<1>3. Attached'
  BY DEF Inv, TypeOK, Attached, AttachedBeforeExec, Fds
<1>4. Endings'
  BY DEF Inv, TypeOK, Endings
<1>5. Drained'
  BY DEF Inv, TypeOK, Drained
<1>6. FinallyDrained'
  <2>1. next' = 0 /\ pc' \in {"final", "poll"} /\ \A r \in Rings : ~(r < 0)
    BY Sets
  <2> QED
    BY <2>1 DEF FinallyDrained
<1>7. Outcome'
  BY DEF Inv, TypeOK, Outcome, ReportComplete, ExitCodeMeaning, NoExit
<1> QED
  BY <1>1, <1>2, <1>3, <1>4, <1>5, <1>6, <1>7 DEF Inv

\* The final drain is over.
LEMMA FinishInv == ASSUME Inv, Finish
                   PROVE  Inv'
<1> USE DEF Finish, Goto, targetVars
<1>a. next = 2 * NCpus /\ \A r \in Rings : r < next
  BY Sets
<1>1. TypeOK'
  BY Sets DEF Inv, TypeOK
<1>2. Places'
  BY DEF Inv, TypeOK, Places
<1>3. Attached'
  BY DEF Inv, TypeOK, Attached, AttachedBeforeExec, Fds
<1>4. Endings'
  BY DEF Inv, TypeOK, Endings
<1>5. Drained'
  BY DEF Inv, TypeOK, Drained
<1>6. FinallyDrained'
  BY <1>a DEF Inv, TypeOK, FinallyDrained, Final
<1>7. Outcome'
  BY DEF Inv, TypeOK, Outcome, ReportComplete, ExitCodeMeaning, NoExit
<1> QED
  BY <1>1, <1>2, <1>3, <1>4, <1>5, <1>6, <1>7 DEF Inv

\* A ring is read and closed.
LEMMA FinishSamplingInv == ASSUME Inv, FinishSampling, ~Die
                           PROVE  Inv'
<1> USE DEF FinishSampling, targetVars
<1>a. next' \in 0..(2 * NCpus)
  BY Sets DEF Inv, TypeOK
<1>b. enabled' \in [Rings -> Nat]
  <2>1. next \in Rings /\ Enabled(next) \in Nat
    BY Sets DEF Inv, TypeOK, Enabled
  <2> QED
    BY <2>1 DEF Inv, TypeOK
<1>1. TypeOK'
  BY <1>a, <1>b DEF Inv, TypeOK
<1>2. Places'
  BY DEF Inv, TypeOK, Places
<1>3. Attached'
  BY DEF Inv, TypeOK, Attached, AttachedBeforeExec, Fds
<1>4. Endings'
  BY DEF Inv, TypeOK, Endings
<1>5. Drained'
  BY DEF Inv, TypeOK, Drained
<1>6. FinallyDrained'
  BY DEF Inv, TypeOK, FinallyDrained, Final
<1>7. Outcome'
  BY DEF Inv, TypeOK, Outcome, ReportComplete, ExitCodeMeaning, NoExit
<1> QED
  BY <1>1, <1>2, <1>3, <1>4, <1>5, <1>6, <1>7 DEF Inv

\* Every ring was armed.
LEMMA CheckArmedInv == ASSUME Inv, CheckArmed, Goto("mux"), next' = 0
                       PROVE  Inv'
<1> USE DEF CheckArmed, Goto, targetVars
<1>1. TypeOK'
  BY Sets DEF Inv, TypeOK
<1>2. Places'
  BY DEF Inv, TypeOK, Places
<1>3. Attached'
  BY DEF Inv, TypeOK, Attached, AttachedBeforeExec, Fds
<1>4. Endings'
  BY DEF Inv, TypeOK, Endings
<1>5. Drained'
  BY DEF Inv, TypeOK, Drained
<1>6. FinallyDrained'
  BY DEF Inv, TypeOK, FinallyDrained, Final
<1>7. Outcome'
  BY DEF Inv, TypeOK, Outcome, ReportComplete, ExitCodeMeaning, NoExit
<1> QED
  BY <1>1, <1>2, <1>3, <1>4, <1>5, <1>6, <1>7 DEF Inv

\* An event was not multiplexed.
LEMMA CheckMuxInv == ASSUME Inv, pc = "mux", NEW l \in {"mux", "periods"}, Goto(l), next' = (next + 1) % 2
                     PROVE  Inv'
<1> USE DEF Goto, targetVars
<1>1. TypeOK'
  <2>1. next' \in 0..(2 * NCpus)
    BY SessionAssumption DEF Inv, TypeOK
  <2> QED
    BY <2>1 DEF Inv, TypeOK
<1>2. Places'
  BY DEF Inv, TypeOK, Places
<1>3. Attached'
  BY DEF Inv, TypeOK, Attached, AttachedBeforeExec, Fds
<1>4. Endings'
  BY DEF Inv, TypeOK, Endings
<1>5. Drained'
  BY DEF Inv, TypeOK, Drained
<1>6. FinallyDrained'
  BY DEF Inv, TypeOK, FinallyDrained, Final
<1>7. Outcome'
  BY DEF Inv, TypeOK, Outcome, ReportComplete, ExitCodeMeaning, NoExit
<1> QED
  BY <1>1, <1>2, <1>3, <1>4, <1>5, <1>6, <1>7 DEF Inv

\* The report.
LEMMA ReportInv == ASSUME Inv, CheckPeriods, PeriodsAgree
                   PROVE  Inv'
<1> USE DEF CheckPeriods, targetVars
<1>a. wstatus = died /\ died \in Statuses \ {NoStatus} /\ child = "reaped"
  BY DEF Inv, TypeOK, Endings, Places
<1>b. exit' \in {0, 1, 3, 127, 137} /\ (exit' = 0 => died = Exited(0))
  BY <1>a, Codes
<1>1. TypeOK'
  BY <1>b DEF Inv, TypeOK
<1>2. Places'
  BY DEF Inv, TypeOK, Places
<1>3. Attached'
  BY DEF Inv, TypeOK, Attached, AttachedBeforeExec, Fds
<1>4. Endings'
  BY DEF Inv, TypeOK, Endings
<1>5. Drained'
  BY DEF Inv, TypeOK, Drained
<1>6. FinallyDrained'
  BY DEF Inv, TypeOK, FinallyDrained, Final
<1>7. Outcome'
  <2>1. ASSUME NEW r \in Rings
        PROVE  Final(r) /\ \A i \in 1..taken[r] : made[r][i] = "sample"
    <3>1. made[r] \in Seq(Kinds) /\ Len(made[r]) \in Nat /\ taken[r] \in 0..Len(made[r])
      BY Records DEF Inv
    <3>2. Final(r)
      BY DEF Inv, FinallyDrained
    <3>3. ASSUME NEW i \in 1..taken[r]
          PROVE  made[r][i] = "sample"
      <4>1. i \in 1..Len(made[r]) /\ taken[r] >= 1
        BY <3>1
      <4>2. made[r][i] \in Kinds
        BY <3>1, <4>1, ElementOfSeq
      <4>3. made[r][i] # "throttle"
        BY DEF Inv, Drained
      <4>4. /\ Samples(r) \in Seq(Kinds) /\ Len(Samples(r)) = taken[r]
            /\ \A j \in 1..taken[r] : Samples(r)[j] = made[r][j]
        BY <3>1, <4>1, SubSeqProperties DEF Samples
      <4>5. i \in DOMAIN Samples(r) /\ Samples(r)[i] = made[r][i]
        BY <4>4, LenProperties
      <4>6. made[r][i] # "odd"
        BY <4>5 DEF PeriodsAgree
      <4> QED
        BY <4>2, <4>3, <4>6 DEF Kinds
    <3> QED
      BY <3>2, <3>3
  <2>2. exit' # NoExit
    BY <1>b DEF NoExit
  <2>3. ReportComplete'
    BY <2>1 DEF ReportComplete, Final
  <2> QED
    BY <1>a, <1>b, <2>2, <2>3 DEF Outcome, ExitCodeMeaning
<1> QED
  BY <1>1, <1>2, <1>3, <1>4, <1>5, <1>6, <1>7 DEF Inv

\* Every step of the target keeps the invariant.
LEMMA TargetInv == Inv /\ Target => Inv'
<1> SUFFICES ASSUME Inv, Target PROVE Inv'
  OBVIOUS
<1>1. {Exited(0), Exited(1), Exited(3), Exited(127), Signaled(9)} \subseteq Statuses \ {NoStatus}
  BY DEF Statuses, Exited, Signaled, NoStatus
<1>2. CASE ChildStops
  BY <1>2, ChildStopsInv
<1>3. CASE ChildFails
  BY <1>1, <1>3, DiesInv DEF ChildFails
<1>4. CASE ChildExecs
  BY <1>4, ChildExecsInv
<1>5. CASE ChildExecFails
  BY <1>1, <1>5, DiesInv DEF ChildExecFails
<1>6. CASE RunsSlice
  BY <1>6, SliceInv DEF RunsSlice
<1>7. CASE RunsEmit
  BY <1>7, EmitInv DEF RunsEmit
<1>8. CASE ChildExits
  <2>1. PICK n \in {0, 3} : Dies(Exited(n))
    BY <1>8 DEF ChildExits
  <2>2. child = "running" /\ Exited(n) \in Statuses \ {NoStatus}
    BY <1>1, <1>8 DEF ChildExits
  <2> QED
    BY <2>1, <2>2, DiesInv
<1>9. CASE ChildKilled
  BY <1>1, <1>9, DiesInv DEF ChildKilled
<1> QED
  BY <1>2, <1>3, <1>4, <1>5, <1>6, <1>7, <1>8, <1>9 DEF Target

\* Every step of the profiler keeps the invariant.
LEMMA ProfilerInv == Inv /\ Profiler => Inv'
<1> SUFFICES ASSUME Inv, Profiler PROVE Inv'
  OBVIOUS
<1>1. CASE pc # "exited" /\ Die
  BY <1>1, DieInv
<1>2. CASE ~Die
  <2>1. CASE Start
    <3>1. CASE Quit(NoHalt, 2)
      BY <2>1, <3>1, QuitInv DEF Start
    <3>2. CASE Goto("fork") /\ UNCHANGED next
      BY <2>1, <3>2, StartInv DEF Start
    <3> QED
      BY <1>2, <2>1, <3>1, <3>2 DEF Start
  <2>2. CASE Fork
    BY <1>2, <2>2, ForkInv
  <2>3. CASE AwaitStop
    BY <1>2, <2>3, AwaitStopInv
  <2>4. CASE Open
    BY <1>2, <2>4, OpenInv
  <2>5. CASE Resume
    BY <2>5, ResumeInv
  <2>6. CASE Reap
    BY <2>6, ReapInv
  <2>7. CASE ReadCounts
    BY <1>2, <2>7, ReadCountsInv
  <2>8. CASE Poll
    BY <1>2, <2>8, PollInv
  <2>9. ASSUME pc \in {"drain", "final"}, next < 2 * NCpus, DrainRing(next)
        PROVE  Inv'
    <3>1. next \in Rings
      BY <2>9, Sets DEF Inv, TypeOK
    <3> QED
      BY <1>2, <2>9, <3>1, DrainRingInv
  <2>10. CASE Drain
    BY <2>9, <2>10, SkipInv DEF Drain
  <2>11. CASE TryReap
    BY <2>11, TryReapInv
  <2>12. CASE FinalDrain
    <3>1. next \in Rings /\ pc = "final" /\ next < 2 * NCpus
      BY <2>12, Sets DEF FinalDrain, Inv, TypeOK
    <3> QED
      BY <2>9, <2>12, <3>1 DEF FinalDrain, FinalRings
  <2>13. CASE CheckArmed
    <3>1. CASE Goto("mux") /\ next' = 0
      BY <2>13, <3>1, CheckArmedInv
    <3>2. CASE Quit("never_armed", IF ExitCode(wstatus) = 0 THEN 1 ELSE ExitCode(wstatus))
      <4>1. pc = "finish" /\ wstatus \in Statuses \ {NoStatus}
        BY <2>13 DEF CheckArmed, Inv, TypeOK, Endings, Places
      <4>2. (IF ExitCode(wstatus) = 0 THEN 1 ELSE ExitCode(wstatus)) \in {1, 2, 3, 127, 137}
        BY <4>1, Codes
      <4> QED
        BY <3>2, <4>1, <4>2, QuitInv
    <3> QED
      BY <2>13, <3>1, <3>2 DEF CheckArmed
  <2>14. CASE CheckMux
    <3>1. CASE Quit("multiplexed", 1)
      BY <2>14, <3>1, QuitInv DEF CheckMux
    <3>2. CASE ~Quit("multiplexed", 1)
      BY <2>14, <3>2, CheckMuxInv DEF CheckMux
    <3> QED
      BY <3>1, <3>2
  <2>15. CASE CheckPeriods
    <3>1. CASE PeriodsAgree
      BY <2>15, <3>1, ReportInv
    <3>2. CASE ~PeriodsAgree
      BY <2>15, <3>2, QuitInv DEF CheckPeriods
    <3> QED
      BY <3>1, <3>2
  <2>16. CASE Finish
    BY <2>16, FinishInv
  <2>17. CASE FinishSampling
    BY <1>2, <2>17, FinishSamplingInv
  <2> QED
    BY <2>1, <2>2, <2>3, <2>4, <2>5, <2>6, <2>7, <2>8, <2>10, <2>11, <2>12, <2>13, <2>14, <2>15,
       <2>16, <2>17 DEF Profiler
<1>3. pc # "exited"
  BY DEF Profiler, Start, Fork, AwaitStop, Open, Resume, Reap, ReadCounts, Poll, Drain, TryReap,
         FinalDrain, Finish, FinishSampling, CheckArmed, CheckMux, CheckPeriods
<1> QED
  BY <1>1, <1>2, <1>3

\* The invariant holds in every state of every session.
THEOREM Invariance == Spec => []Inv
<1>1. Inv /\ UNCHANGED vars => Inv'
  BY DEF vars, profVars, targetVars, Inv, TypeOK, Places, Attached, AttachedBeforeExec, Fds,
         Endings, Drained, FinallyDrained, Final, Outcome, ReportComplete, ExitCodeMeaning
<1>2. Inv /\ [Next]_vars => Inv'
  BY <1>1, TargetInv, ProfilerInv DEF Next, Done
<1> QED
  BY <1>2, InitInv, PTL DEF Spec

-----------------------------------------------------------------------------
(* The multiplexing check.  What it compares are sums over an event's      *)
(* rings, so the invariant it rests on accounts for every slice of time:   *)
(* some counter of the event counted in it, or one was kept off the PMU,   *)
(* or the rings were being read and the times they report differ.          *)

AllArmed == armed = Rings /\ \A r \in Rings : enabled[r] > 0

\* Ring r counts no more.
Shut(r) == Closed(r) \/ pc \in {"mux", "periods", "exited"}

\* The rings are not read yet.
Before == pc \notin {"finish", "mux", "periods", "exited"}

\* The times are still of use: the session is not at an end, or it has passed its verdict on them.
InUse == pc = "exited" => report \/ halt = "multiplexed"

\* Time passes in the measurement run only with every ring armed.  What a ring said is of the
\* past; a ring read later says no less; and all say the same if nothing outlives the target.
Readings ==
    /\ run = "measurement" /\ pc \notin {"fork", "exited"} /\ (ticks > 0 \/ left) => armed = Rings
    /\ Before => \A r \in Rings : enabled[r] = 0
    /\ \A r \in Rings : enabled[r] <= ticks
    /\ InUse => /\ \A r, s \in Rings : r <= s /\ Shut(s) => enabled[r] <= enabled[s]
                /\ ~left => \A r \in Rings : Shut(r) => enabled[r] = ticks

\* How far the account of event e goes: to the reading of its last ring.
Upto(e) == IF Shut(LastRing(e)) THEN enabled[LastRing(e)] ELSE ticks
AtOnce(e) == \A r \in RingsOf(e) : Shut(r) => enabled[r] = Upto(e)

\* A target with one thread runs on one CPU in a slice: nothing is then counted twice.
Accounts ==
    InUse => \A e \in Events : /\ AtOnce(e) => Upto(e) <= TotalRunning(e) + contended[e]
                               /\ Threads = 1 => TotalRunning(e) + contended[e] <= Upto(e)

\* What the check has said of the counts, which nothing changes any more.
Judged ==
    /\ pc = "mux" => next \in Events /\ AllArmed /\ (next = 1 => ~Multiplexed(0))
    /\ pc = "periods" \/ report => AllArmed /\ \A e \in Events : ~Multiplexed(e)
    /\ halt = "multiplexed" => /\ pc = "exited" /\ child = "reaped" /\ AllArmed
                               /\ \E e \in Events : Multiplexed(e)

\* The sum the code takes, as a sum over a finite set.
LEMMA Total == ASSUME NEW e \in Events
               PROVE  /\ IsFiniteSet(RingsOf(e)) /\ RingsOf(e) \subseteq Rings
                      /\ TotalRunning(e) = SumOver(running, RingsOf(e))
                      /\ TotalRunning(e)' = SumOver(running', RingsOf(e))
<1>1. IsFiniteSet(Rings)
  BY Sets, FS_Interval, SessionAssumption DEF Rings
<1>2. RingsOf(e) \subseteq Rings
  BY DEF RingsOf
<1>3. IsFiniteSet(RingsOf(e))
  BY <1>1, <1>2, FS_Subset
<1>4. TotalRunning(e) = SumOver(running, RingsOf(e))
  BY DEF TotalRunning, SumOver
<1>5. TotalRunning(e)' = SumOver(running', RingsOf(e))
  BY DEF TotalRunning, SumOver, MapThenSumSet, MapThenFoldSet
<1> QED
  BY <1>2, <1>3, <1>4, <1>5

LEMMA TotalType == ASSUME TypeOK, NEW e \in Events
                   PROVE  TotalRunning(e) \in Nat
<1>1. \A r \in RingsOf(e) : running[r] \in Nat
  BY Total DEF TypeOK
<1> QED
  BY <1>1, Total, SumPart

\* An event has one ring on every CPU.
LEMMA RingAt == ASSUME NEW e \in Events, NEW c \in Cpus
                PROVE  \E s \in RingsOf(e) : Cpu(s) = c /\ \A r \in RingsOf(e) : Cpu(r) = c => r = s
<1>1. NCpus \in Nat \ {0} /\ c \in 0..(NCpus - 1) /\ e \in {0, 1}
  BY SessionAssumption DEF Cpus, Events
<1> DEFINE s == NCpus * e + c
<1>2. s \in Rings /\ s \in Nat
  BY <1>1 DEF Rings
<1>3. Cpu(s) = c
  BY <1>1, <1>2, ModIs DEF Cpu
<1>4. \A r \in Rings : r \in Nat /\ r = NCpus * Event(r) + Cpu(r) /\ Event(r) \in Nat
  BY <1>1, DivMod, Sets DEF Event, Cpu
<1>5. Event(s) = e
  <2>1. NCpus * Event(s) = NCpus * e /\ Event(s) \in Nat
    BY <1>1, <1>2, <1>3, <1>4
  <2>2. ~(Event(s) < e)
    BY <1>1, <2>1, Mult
  <2>3. ~(e < Event(s))
    BY <1>1, <2>1, Mult
  <2> QED
    BY <1>1, <2>1, <2>2, <2>3
<1> HIDE DEF s
<1>6. \A r \in RingsOf(e) : Cpu(r) = c => r = s
  BY <1>2, <1>3, <1>4, <1>5 DEF RingsOf
<1> QED
  BY <1>2, <1>3, <1>5, <1>6 DEF RingsOf

\* The ring whose time_enabled the check takes is the event's last one.
LEMMA LastRingIs == ASSUME NEW e \in Events
                    PROVE  /\ LastRing(e) \in RingsOf(e) /\ LastRing(e) \in Rings
                           /\ \A r \in RingsOf(e) : r <= LastRing(e)
<1>1. NCpus \in Nat \ {0} /\ NCpus - 1 \in Cpus /\ e \in {0, 1}
  BY SessionAssumption DEF Cpus, Events
<1>2. PICK s \in RingsOf(e) : Cpu(s) = NCpus - 1
  BY <1>1, RingAt
<1>3. \A r \in RingsOf(e) : r \in Nat /\ r \in Rings /\ r = NCpus * e + Cpu(r) /\ Cpu(r) \in 0..(NCpus - 1)
  BY <1>1, DivMod, Sets DEF RingsOf, Event, Cpu
<1>4. s = NCpus * e + (NCpus - 1)
  BY <1>2, <1>3
<1>5. LastRing(e) = s
  <2>1. CASE e = 0
    BY <1>1, <1>4, <2>1 DEF LastRing
  <2>2. CASE e = 1
    BY <1>1, <1>4, <2>2 DEF LastRing
  <2> QED
    BY <1>1, <2>1, <2>2
<1>6. \A r \in RingsOf(e) : r <= s
  <2> SUFFICES ASSUME NEW r \in RingsOf(e)
               PROVE  r <= s
    OBVIOUS
  <2>1. NCpus * e \in Int
    BY <1>1
  <2> QED
    BY <1>1, <1>3, <1>4, <2>1
<1> QED
  BY <1>3, <1>5, <1>6

\* Rings are shut in order: with the last one of an event, all of the event are.
LEMMA ShutBelow == ASSUME NEW e \in Events, Shut(LastRing(e)), TypeOK
                   PROVE  \A r \in RingsOf(e) : Shut(r)
<1>1. \A r \in RingsOf(e) : r \in Rings /\ r <= LastRing(e)
  BY LastRingIs DEF RingsOf
<1>2. next \in Nat /\ LastRing(e) \in Nat /\ \A r \in Rings : r \in Nat
  BY LastRingIs, Sets DEF TypeOK
<1> QED
  BY <1>1, <1>2 DEF Shut, Closed

\* In a slice, the rings of an event that are still open count once for every CPU that runs the
\* target and whose counter is on the PMU.
LEMMA SliceAccounts ==
    ASSUME Inv, Readings, Accounts,
           NEW busy \in SUBSET Cpus, busy # {}, Cardinality(busy) <= Threads,
           NEW off \in SUBSET {r \in Rings : Cpu(r) \in busy /\ ~Closed(r)}, Slice(busy, off)
    PROVE  Accounts'
<1> SUFFICES ASSUME NEW e \in Events
             PROVE  /\ AtOnce(e)' => Upto(e)' <= TotalRunning(e)' + contended'[e]
                    /\ Threads = 1 => TotalRunning(e)' + contended'[e] <= Upto(e)'
  BY DEF Accounts
<1> DEFINE R == RingsOf(e)
           hit(r) == IF Cpu(r) \in busy /\ r \notin off /\ ~Closed(r) THEN 1 ELSE 0
           add == [r \in Rings |-> hit(r)]
           miss == IF \E r \in off : Event(r) = e THEN 1 ELSE 0
<1>1. /\ ticks' = ticks + 1 /\ contended'[e] = contended[e] + miss /\ UNCHANGED <<pc, next, enabled>>
      /\ pc \notin {"mux", "periods", "exited"}
  BY DEF Slice, Counted, profVars
<1>2. \A r \in Rings : (Shut(r) <=> Closed(r)) /\ (Shut(r)' <=> Shut(r)) /\ enabled'[r] = enabled[r]
  BY <1>1 DEF Shut, Closed
<1>3. /\ ticks \in Nat /\ contended[e] \in Nat /\ TotalRunning(e) \in Nat
      /\ AtOnce(e) => Upto(e) <= TotalRunning(e) + contended[e]
      /\ Threads = 1 => TotalRunning(e) + contended[e] <= Upto(e)
      /\ \A r \in Rings : enabled[r] <= ticks /\ enabled[r] \in Nat
  BY <1>1, TotalType DEF Inv, TypeOK, Accounts, InUse, Readings
<1>4. IsFiniteSet(R) /\ R \subseteq Rings /\ LastRing(e) \in R
  BY Total, LastRingIs
<1>5. /\ \A r \in Rings : running[r] \in Nat /\ add[r] \in {0, 1} /\ running'[r] = running[r] + add[r]
      /\ \A r \in Rings : add[r] = 1 <=> Cpu(r) \in busy /\ r \notin off /\ ~Closed(r)
  BY DEF Inv, TypeOK, Slice
<1>6. miss \in {0, 1} /\ (miss = 1 <=> \E r \in off : r \in R)
  BY DEF RingsOf
<1>7. /\ Upto(e) = IF Closed(LastRing(e)) THEN enabled[LastRing(e)] ELSE ticks
      /\ Upto(e)' = IF Closed(LastRing(e)) THEN enabled[LastRing(e)] ELSE ticks + 1
      /\ AtOnce(e) <=> \A r \in R : Closed(r) => enabled[r] = Upto(e)
      /\ AtOnce(e)' <=> \A r \in R : Closed(r) => enabled[r] = Upto(e)'
  <2>1. /\ Upto(e)' = IF Shut(LastRing(e))' THEN enabled'[LastRing(e)] ELSE ticks'
        /\ AtOnce(e)' <=> \A r \in R : Shut(r)' => enabled'[r] = Upto(e)'
    BY DEF AtOnce, Upto, RingsOf, LastRing
  <2> QED
    BY <1>1, <1>2, <1>4, <2>1 DEF AtOnce, Upto
<1> HIDE DEF R, add, miss
<1>8. TotalRunning(e)' = TotalRunning(e) + SumOver(add, R)
  <2>1. \A r \in R : running[r] \in Int /\ add[r] \in Int /\ running'[r] = running[r] + add[r]
    BY <1>4, <1>5
  <2>2. SumOver(running', R) = SumOver(running, R) + SumOver(add, R)
    BY <1>4, <2>1, SumPlus
  <2> QED
    BY <2>2, Total DEF R
<1>9. CASE Closed(LastRing(e))
  <2>1. \A r \in R : Closed(r)
    <3>1. Shut(LastRing(e))
      BY <1>9 DEF Shut
    <3> QED
      BY <1>2, <1>4, <3>1, ShutBelow DEF Inv, R
  <2>2. \A r \in R : add[r] \in Int /\ add[r] = 0
    BY <1>4, <1>5, <2>1
  <2>3. SumOver(add, R) = 0
    BY <1>4, <2>2, SumZero
  <2>4. miss = 0
    BY <1>6, <2>1
  <2> QED
    BY <1>1, <1>3, <1>7, <1>8, <1>9, <2>3, <2>4
<1>10. CASE ~Closed(LastRing(e))
  <2>1. PICK c : c \in busy
    OBVIOUS
  <2>2. PICK s \in R : Cpu(s) = c /\ \A r \in R : Cpu(r) = c => r = s
    BY <2>1, RingAt DEF R
  <2>3. SumOver(add, R) = add[s] + SumOver(add, R \ {s}) /\ SumOver(add, R \ {s}) \in Nat
    <3>1. \A r \in R : add[r] \in Nat /\ add[r] \in Int
      BY <1>4, <1>5
    <3> QED
      BY <1>4, <2>2, <3>1, SumStep, SumPart
  <2>4. add[s] \in {0, 1}
    BY <1>4, <1>5, <2>2
  <2>5. ASSUME AtOnce(e)'
        PROVE  AtOnce(e) /\ add[s] + miss >= 1
    <3>1. \A r \in R : ~Closed(r)
      BY <1>3, <1>4, <1>7, <1>10, <2>5
    <3>2. add[s] = 1 \/ s \in off
      BY <1>4, <1>5, <2>1, <2>2, <3>1
    <3> QED
      BY <1>6, <1>7, <2>2, <2>4, <3>1, <3>2
  <2>6. ASSUME Threads = 1
        PROVE  add[s] + miss <= 1 /\ SumOver(add, R \ {s}) = 0
    <3>1. busy = {c}
      <4>1. IsFiniteSet(busy)
        <5>1. NCpus - 1 \in Int
          BY SessionAssumption
        <5>2. IsFiniteSet(Cpus)
          BY <5>1, FS_Interval DEF Cpus
        <5> QED
          BY <5>2, FS_Subset
      <4>2. Cardinality(busy \ {c}) = Cardinality(busy) - 1 /\ IsFiniteSet(busy \ {c})
        BY <2>1, <4>1, FS_RemoveElement
      <4>3. Cardinality(busy \ {c}) = 0
        <5>1. Cardinality(busy \ {c}) \in Nat /\ Cardinality(busy) \in Nat
          BY <4>1, <4>2, FS_CardinalityType
        <5> QED
          BY <2>6, <4>2, <5>1
      <4> QED
        BY <2>1, <4>2, <4>3, FS_EmptySet
    <3>2. \A r \in R \ {s} : add[r] \in Int /\ add[r] = 0
      BY <1>4, <1>5, <2>2, <3>1
    <3>3. IsFiniteSet(R \ {s})
      BY <1>4, FS_Subset
    <3>4. SumOver(add, R \ {s}) = 0
      BY <3>2, <3>3, SumZero
    <3>5. off \cap R \subseteq {s}
      BY <2>2, <3>1
    <3>6. add[s] = 1 => s \notin off
      BY <1>4, <1>5, <2>2
    <3> QED
      BY <1>6, <2>4, <3>4, <3>5, <3>6
  <2> QED
    BY <1>1, <1>3, <1>6, <1>7, <1>8, <1>10, <2>3, <2>4, <2>5, <2>6
<1> QED
  BY <1>9, <1>10

\* The account of a run begins at nothing.
LEMMA FreshAccounts ==
    ASSUME ticks' = 0, running' = [r \in Rings |-> 0], contended' = [e \in Events |-> 0],
           \A r \in Rings : enabled'[r] = 0
    PROVE  Accounts'
<1> SUFFICES ASSUME NEW e \in Events
             PROVE  TotalRunning(e)' = 0 /\ Upto(e)' = 0
  BY DEF Accounts
<1>1. \A r \in RingsOf(e) : running'[r] \in Int /\ running'[r] = 0
  BY Total
<1>2. TotalRunning(e)' = 0
  BY <1>1, Total, SumZero
<1>3. Upto(e)' = IF Shut(LastRing(e))' THEN enabled'[LastRing(e)] ELSE ticks'
  BY DEF Upto, LastRing
<1> QED
  BY <1>2, <1>3, LastRingIs

LEMMA SameTotal == ASSUME UNCHANGED running, NEW e \in Events
                   PROVE  TotalRunning(e)' = TotalRunning(e)
  BY Total

\* Steps that count nothing and read nothing.
LEMMA SameAccounts ==
    ASSUME Accounts, UNCHANGED <<ticks, running, contended, enabled>>, InUse' => InUse,
           InUse' => \A r \in Rings : (Shut(r)' <=> Shut(r))
    PROVE  Accounts'
<1> SUFFICES ASSUME InUse', NEW e \in Events
             PROVE  /\ AtOnce(e)' => Upto(e)' <= TotalRunning(e)' + contended'[e]
                    /\ Threads = 1 => TotalRunning(e)' + contended'[e] <= Upto(e)'
  BY DEF Accounts
<1>1. TotalRunning(e)' = TotalRunning(e)
  BY SameTotal
<1>2. Upto(e)' = Upto(e)
  <2>1. Upto(e)' = IF Shut(LastRing(e))' THEN enabled'[LastRing(e)] ELSE ticks'
    BY DEF Upto, LastRing
  <2> QED
    BY <2>1, LastRingIs DEF Upto
<1>3. AtOnce(e)' => AtOnce(e)
  <2>1. AtOnce(e)' <=> \A r \in RingsOf(e) : Shut(r)' => enabled'[r] = Upto(e)'
    BY DEF AtOnce, RingsOf
  <2> QED
    BY <1>2, <2>1, Total DEF AtOnce
<1> QED
  BY <1>1, <1>2, <1>3 DEF Accounts

\* What the rings said stands: in a step that changes neither them nor the place they are used at.
LEMMA SameReadings ==
    ASSUME Inv, Readings, UNCHANGED <<ticks, enabled>>, InUse' => InUse,
           InUse' => \A r \in Rings : (Shut(r)' <=> Shut(r)),
           run' = "measurement" /\ pc' \notin {"fork", "exited"} /\ (ticks > 0 \/ left') => armed' = Rings,
           Before' => Before,
           left' = left \/ \A r \in Rings : ~Shut(r)'
    PROVE  Readings'
<1>1. InUse' => /\ \A r, s \in Rings : r <= s /\ Shut(s)' => enabled'[r] <= enabled'[s]
                /\ ~left' => \A r \in Rings : Shut(r)' => enabled'[r] = ticks'
  BY DEF Readings
<1>2. \A r \in Rings : enabled'[r] <= ticks'
  BY DEF Readings
<1>3. Before' => \A r \in Rings : enabled'[r] = 0
  BY DEF Readings
<1> QED
  BY <1>1, <1>2, <1>3 DEF Readings

\* Steps before the rings are read, the one to their reading included.
LEMMA StillBefore ==
    ASSUME Inv, Readings, Accounts, Before, pc # "fork", pc' # "exited",
           UNCHANGED <<run, armed, left, ticks, running, contended, enabled>>,
           Before' \/ (pc' = "finish" /\ next' = 0)
    PROVE  Readings' /\ Accounts'
<1>1. \A r \in Rings : ~Shut(r) /\ ~Shut(r)'
  BY Sets DEF Before, Shut, Closed
<1>2. InUse
  BY DEF InUse, Before
<1>3. pc \notin {"fork", "exited"}
  BY DEF Before
<1> QED
  BY <1>1, <1>2, <1>3, SameReadings, SameAccounts DEF Readings

\* A session that ends without a verdict on the times has no more use for them.
LEMMA GivesUp ==
    ASSUME Readings, UNCHANGED <<ticks, enabled>>,
           pc' = "exited", ~report', halt' # "multiplexed"
    PROVE  Readings' /\ Accounts'
<1>1. ~InUse' /\ ~Before'
  BY DEF InUse, Before
<1>2. \A r \in Rings : enabled'[r] <= ticks'
  BY DEF Readings
<1> QED
  BY <1>1, <1>2 DEF Readings, Accounts

LEMMA SameMultiplexed == ASSUME UNCHANGED <<running, enabled>>, NEW e \in Events
                         PROVE  Multiplexed(e)' = Multiplexed(e)
<1>1. TotalRunning(e)' = TotalRunning(e)
  BY SameTotal
<1> QED
  BY <1>1 DEF Multiplexed, LastRing

\* A step that leaves the counts and the verdicts alone, and does not judge.
LEMMA SameJudged ==
    ASSUME Judged, UNCHANGED <<armed, enabled, running, report, halt>>,
           halt = "multiplexed" => UNCHANGED <<pc, child>>,
           pc' \in {"mux", "periods"} => UNCHANGED <<pc, next>>
    PROVE  Judged'
<1>1. \A e \in Events : Multiplexed(e)' = Multiplexed(e)
  BY SameMultiplexed
<1>2. Multiplexed(0)' = Multiplexed(0)
  BY <1>1 DEF Events
<1> QED
  BY <1>1, <1>2 DEF Judged, AllArmed

\* Nothing is judged yet.
LEMMA Unjudged == ASSUME pc' \notin {"mux", "periods"}, ~report', halt' # "multiplexed"
                  PROVE  Judged'
  BY DEF Judged

\* The target and the kernel: the counts and the readings stand still once they are judged.
LEMMA TargetJudged == ASSUME Inv, Readings, Accounts, Judged, Target
                      PROVE  Readings' /\ Accounts' /\ Judged'
<1>1. child # "reaped" => /\ Before \/ (pc = "exited" /\ ~InUse)
                          /\ ~report /\ halt # "multiplexed" /\ pc \notin {"mux", "periods"}
  BY DEF Inv, TypeOK, Places, Outcome, Judged, Before, InUse
<1>2. Inv'
  BY TargetInv
<1>3. CASE RunsSlice
  <2>1. PICK busy \in SUBSET Cpus :
               \E off \in SUBSET {r \in Rings : Cpu(r) \in busy /\ ~Closed(r)} :
                   busy # {} /\ Cardinality(busy) <= Threads /\ Slice(busy, off)
    BY <1>3 DEF RunsSlice
  <2>2. PICK off \in SUBSET {r \in Rings : Cpu(r) \in busy /\ ~Closed(r)} :
               busy # {} /\ Cardinality(busy) <= Threads /\ Slice(busy, off)
    BY <2>1
  <2>3. Accounts'
    BY <2>2, SliceAccounts
  <2>4. /\ pc \notin {"fork", "mux", "periods", "exited"} /\ (child = "running" \/ left)
        /\ UNCHANGED <<run, pc, next, enabled, report, halt, child, left, armed>> /\ ticks' = ticks + 1
    BY <2>2 DEF Slice, Counted, profVars
  <2>5. ~report /\ halt # "multiplexed"
    BY <2>4 DEF Inv, Outcome, Judged
  <2>6. Readings'
    <3>1. run = "measurement" => armed = Rings
      BY <2>4 DEF Inv, Attached, AttachedBeforeExec, Readings
    <3>2. \A r \in Rings : enabled'[r] <= ticks'
      BY <2>4 DEF Readings, Inv, TypeOK
    <3>3. \A r \in Rings : (Shut(r)' <=> Shut(r))
      BY <2>4 DEF Shut, Closed
    <3>4. ~left => \A r \in Rings : ~Shut(r)
      BY <1>1, <2>4 DEF Shut, Closed, Before
    <3>5. InUse /\ (Before' <=> Before)
      BY <2>4 DEF InUse, Before
    <3> QED
      BY <2>4, <3>1, <3>2, <3>3, <3>4, <3>5 DEF Readings
  <2> QED
    BY <2>3, <2>4, <2>5, <2>6, Unjudged
<1>4. ASSUME child # "reaped", UNCHANGED <<run, pc, next, ticks, running, contended, enabled, report, halt>>,
             run = "measurement" /\ pc \notin {"fork", "exited"} /\ (ticks > 0 \/ left') => armed' = Rings
      PROVE  Readings' /\ Accounts' /\ Judged'
  <2>1. InUse' => Before
    BY <1>1, <1>4 DEF InUse
  <2>2. InUse' => \A r \in Rings : ~Shut(r) /\ ~Shut(r)'
    BY <1>4, <2>1 DEF Shut, Closed, Before
  <2>3. InUse' => InUse
    BY <1>4 DEF InUse
  <2>4. Accounts'
    BY <1>4, <2>2, <2>3, SameAccounts
  <2>5. Readings'
    <3>1. \A r \in Rings : enabled'[r] <= ticks'
      BY <1>4 DEF Readings
    <3>2. Before' => \A r \in Rings : enabled'[r] = 0
      BY <1>4 DEF Readings, Before
    <3>3. InUse' => \A r \in Rings : enabled'[r] = 0 /\ ~Shut(r)'
      BY <1>4, <2>1, <2>2 DEF Readings
    <3>4. \A r, s \in Rings : InUse' /\ Shut(s)' => enabled'[r] <= enabled'[s]
      BY <3>3
    <3> QED
      BY <1>4, <3>1, <3>2, <3>3, <3>4 DEF Readings
  <2> QED
    BY <1>1, <1>4, <2>4, <2>5, Unjudged
<1>5. CASE ChildExecs
  <2>1. /\ child = "resumed" /\ child' = "running"
        /\ UNCHANGED <<run, pc, next, ticks, running, contended, enabled, report, halt>>
    BY <1>5 DEF ChildExecs, profVars
  <2>2. run = "measurement" => armed' = Rings
    BY <1>2, <2>1 DEF Inv, Attached, AttachedBeforeExec
  <2> QED
    BY <1>4, <2>1, <2>2
<1>6. ASSUME NEW how, Dies(how), child # "reaped"
      PROVE  Readings' /\ Accounts' /\ Judged'
  <2>1. /\ UNCHANGED <<run, pc, next, ticks, running, contended, enabled, report, halt, armed>>
        /\ left' => child = "running"
    BY <1>6 DEF Dies, profVars
  <2>2. run = "measurement" /\ pc \notin {"fork", "exited"} /\ (ticks > 0 \/ left') => armed' = Rings
    BY <2>1 DEF Readings, Inv, Attached, AttachedBeforeExec
  <2> QED
    BY <1>4, <1>6, <2>1, <2>2
<1>7. CASE ChildFails \/ ChildExecFails \/ ChildExits \/ ChildKilled
  BY <1>6, <1>7 DEF ChildFails, ChildExecFails, ChildExits, ChildKilled
<1>8. CASE ChildStops
  <2>1. /\ UNCHANGED <<run, pc, next, ticks, running, contended, enabled, report, halt, armed, left>>
        /\ child = "forked"
    BY <1>8 DEF ChildStops, profVars
  <2> QED
    BY <1>4, <2>1 DEF Readings
<1>9. CASE RunsEmit
  <2>1. /\ UNCHANGED <<run, pc, next, ticks, running, contended, enabled, report, halt, armed, left, child>>
        /\ pc \notin {"fork", "mux", "periods", "exited"}
    BY <1>9 DEF RunsEmit, Emit, profVars, Counted
  <2>2. InUse /\ (Before' <=> Before) /\ \A r \in Rings : (Shut(r)' <=> Shut(r))
    BY <2>1 DEF InUse, Before, Shut, Closed
  <2>3. Accounts' /\ Readings'
    BY <2>1, <2>2, SameAccounts, SameReadings DEF Readings
  <2> QED
    BY <2>1, <2>3, SameJudged
<1> QED
  BY <1>3, <1>5, <1>7, <1>8, <1>9 DEF Target

\* finish_sampling() of a ring: it says how long it was enabled, which no ring before it exceeds.
LEMMA FinishSamplingJudged == ASSUME Inv, Readings, Accounts, Judged, FinishSampling, ~Die
                              PROVE  Readings' /\ Accounts' /\ Judged'
<1>1. /\ pc = "finish" /\ pc' = pc /\ next \in Rings /\ next' = next + 1 /\ next \in Nat
      /\ enabled' = [enabled EXCEPT ![next] = Enabled(next)]
      /\ UNCHANGED <<run, report, halt, armed, left, ticks, running, contended>>
  BY Sets DEF FinishSampling, Inv, TypeOK, targetVars
<1>2. Enabled(next) = ticks /\ ticks \in Nat
  BY <1>1 DEF Enabled, Readings, Inv, TypeOK, Places
<1>3. /\ \A r \in Rings : (Shut(r) <=> r < next) /\ (Shut(r)' <=> r < next \/ r = next)
      /\ \A r \in Rings : enabled'[r] = IF r = next THEN ticks ELSE enabled[r]
      /\ \A r \in Rings : r \in Nat /\ enabled[r] \in Nat /\ enabled[r] <= ticks
  <2>1. \A r \in Rings : r \in Nat /\ enabled[r] \in Nat /\ enabled[r] <= ticks
    BY Sets DEF Readings, Inv, TypeOK
  <2>2. \A r \in Rings : enabled'[r] = IF r = next THEN ticks ELSE enabled[r]
    BY <1>1, <1>2 DEF Inv, TypeOK
  <2>3. \A r \in Rings : (Shut(r) <=> r < next) /\ (Shut(r)' <=> r < next + 1)
    BY <1>1 DEF Shut, Closed
  <2>4. \A r \in Rings : r < next + 1 <=> r < next \/ r = next
    BY <1>1, <2>1
  <2> QED
    BY <2>1, <2>2, <2>3, <2>4
<1>4. InUse /\ InUse' /\ ~Before'
  BY <1>1 DEF InUse, Before
<1>5. Readings'
  <2>1. \A r \in Rings : enabled'[r] <= ticks'
    BY <1>1, <1>2, <1>3
  <2>2. ~left' => \A r \in Rings : Shut(r)' => enabled'[r] = ticks'
    BY <1>1, <1>3, <1>4 DEF Readings
  <2>3. ASSUME NEW r \in Rings, NEW s \in Rings, r <= s, Shut(s)'
        PROVE  enabled'[r] <= enabled'[s]
    <3>1. CASE s = next
      BY <1>1, <1>2, <1>3, <2>1, <3>1
    <3>2. CASE s # next
      <4>1. r # next /\ Shut(s)
        BY <1>1, <1>3, <2>3, <3>2
      <4> QED
        BY <1>3, <1>4, <2>3, <3>2, <4>1 DEF Readings
    <3> QED
      BY <3>1, <3>2
  <2>4. run' = "measurement" /\ pc' \notin {"fork", "exited"} /\ (ticks' > 0 \/ left') => armed' = Rings
    BY <1>1 DEF Readings
  <2> QED
    BY <1>4, <2>1, <2>2, <2>3, <2>4 DEF Readings
<1>6. ASSUME NEW e \in Events
      PROVE  Upto(e)' = Upto(e) /\ (AtOnce(e)' => AtOnce(e))
  <2>1. /\ Upto(e)' = IF Shut(LastRing(e))' THEN enabled'[LastRing(e)] ELSE ticks'
        /\ AtOnce(e)' <=> \A r \in RingsOf(e) : Shut(r)' => enabled'[r] = Upto(e)'
    BY DEF AtOnce, Upto, RingsOf, LastRing
  <2>2. PICK l \in Rings : l = LastRing(e)
    BY LastRingIs
  <2>3. /\ Upto(e)' = IF Shut(l)' THEN enabled'[l] ELSE ticks
        /\ Upto(e) = IF Shut(l) THEN enabled[l] ELSE ticks
    BY <1>1, <2>1, <2>2 DEF Upto
  <2>4. Upto(e)' = Upto(e)
    <3>1. CASE l = next
      BY <1>3, <2>3, <3>1
    <3>2. CASE l # next
      BY <1>3, <2>3, <3>2
    <3> QED
      BY <3>1, <3>2
  <2>5. \A r \in RingsOf(e) : Shut(r) => Shut(r)' /\ enabled'[r] = enabled[r]
    <3> SUFFICES ASSUME NEW r \in RingsOf(e), Shut(r)
                 PROVE  Shut(r)' /\ enabled'[r] = enabled[r]
      OBVIOUS
    <3>1. r \in Rings /\ r \in Nat /\ r < next
      BY <1>3, Total
    <3>2. r # next
      BY <1>1, <3>1
    <3> QED
      BY <1>3, <3>1, <3>2
  <2> QED
    BY <2>1, <2>4, <2>5 DEF AtOnce
<1>7. Accounts'
  <2>1. \A e \in Events : TotalRunning(e)' = TotalRunning(e)
    BY <1>1, SameTotal
  <2> QED
    BY <1>1, <1>4, <1>6, <2>1 DEF Accounts
<1>8. Judged'
  BY <1>1, Unjudged DEF Inv, Outcome, Judged
<1> QED
  BY <1>5, <1>7, <1>8

\* The profiler: only CheckArmed, CheckMux and CheckPeriods lead on to a verdict.
LEMMA ProfilerJudged == ASSUME Inv, Readings, Accounts, Judged, Profiler
                        PROVE  Readings' /\ Accounts' /\ Judged'
<1>1. pc # "exited" /\ ~report /\ halt # "multiplexed" /\ InUse
  <2>1. pc # "exited"
    BY DEF Profiler, Start, Fork, AwaitStop, Open, Resume, Reap, ReadCounts, Poll, Drain, TryReap,
           FinalDrain, Finish, FinishSampling, CheckArmed, CheckMux, CheckPeriods
  <2> QED
    BY <2>1 DEF Inv, Outcome, Judged, InUse
<1>2. CASE Fork /\ ~Die
  <2>1. /\ ticks' = 0 /\ running' = [r \in Rings |-> 0] /\ contended' = [e \in Events |-> 0]
        /\ pc = "fork" /\ pc' = "wait_stop" /\ ~left' /\ UNCHANGED <<report, halt, enabled>>
    BY <1>2 DEF Fork
  <2>2. \A r \in Rings : enabled'[r] = 0 /\ ~Shut(r)'
    BY <2>1 DEF Readings, Before, Shut, Closed
  <2>3. Readings'
    BY <2>1, <2>2 DEF Readings
  <2> QED
    BY <1>1, <2>1, <2>2, <2>3, FreshAccounts, Unjudged
<1>3. ASSUME UNCHANGED <<run, armed, left, ticks, running, contended, enabled, report, halt>>,
             Before, pc # "fork", pc' \notin {"finish", "mux", "periods", "exited"}
      PROVE  Readings' /\ Accounts' /\ Judged'
  BY <1>1, <1>3, StillBefore, Unjudged DEF Before
<1>4. ASSUME Die
      PROVE  Readings' /\ Accounts' /\ Judged'
  BY <1>1, <1>4, GivesUp, Unjudged DEF Die, targetVars
<1>5. ASSUME NEW why, NEW code, why # "multiplexed", Quit(why, code)
      PROVE  Readings' /\ Accounts' /\ Judged'
  BY <1>1, <1>5, GivesUp, Unjudged DEF Quit, targetVars
<1>6. ASSUME NEW l, l \notin {"finish", "mux", "periods", "exited"}, Goto(l), Before, pc # "fork"
      PROVE  Readings' /\ Accounts' /\ Judged'
  BY <1>3, <1>6 DEF Goto, targetVars
<1>7. CASE Start
  BY <1>4, <1>5, <1>6, <1>7 DEF Start, NoHalt, Before
<1>8. CASE AwaitStop
  BY <1>4, <1>6, <1>8 DEF AwaitStop, Before
<1>9. CASE Open \/ Resume
  BY <1>3, <1>4, <1>9 DEF Open, Resume, targetVars, Before
<1>10. CASE Reap \/ Poll
  BY <1>3, <1>4, <1>6, <1>10 DEF Reap, ReapChild, Poll, targetVars, Before
<1>11. CASE ReadCounts
  <2>1. CASE pc' = "fork"
    <3>1. \/ Die
          \/ /\ UNCHANGED <<report, halt, armed, left, ticks, running, contended, enabled>>
             /\ pc = "read_counts"
      BY <1>11, <2>1 DEF ReadCounts, Goto, targetVars
    <3>2. CASE /\ UNCHANGED <<report, halt, armed, left, ticks, running, contended, enabled>>
               /\ pc = "read_counts"
      <4>1. Before /\ Before' /\ \A r \in Rings : ~Shut(r) /\ ~Shut(r)'
        BY <2>1, <3>2 DEF Before, Shut, Closed
      <4> QED
        BY <1>1, <2>1, <3>2, <4>1, SameReadings, SameAccounts, Unjudged
    <3> QED
      BY <1>4, <3>1, <3>2
  <2>2. CASE pc' # "fork"
    <3>1. Die \/ (Goto("read_counts") /\ pc = "read_counts")
      BY <1>11, <2>2 DEF ReadCounts
    <3> QED
      BY <1>4, <1>6, <3>1 DEF Before
  <2> QED
    BY <2>1, <2>2
<1>12. CASE TryReap
  BY <1>3, <1>12 DEF TryReap, ReapChild, targetVars, Before
<1>13. ASSUME NEW r, pc \in {"drain", "final"}, DrainRing(r)
       PROVE  Readings' /\ Accounts' /\ Judged'
  <2>1. Die \/ UNCHANGED <<run, armed, left, ticks, running, contended, enabled, report, halt, pc>>
    BY <1>13 DEF DrainRing, targetVars
  <2> QED
    BY <1>3, <1>4, <1>13, <2>1 DEF Before
<1>14. CASE Drain \/ FinalDrain
  BY <1>6, <1>13, <1>14 DEF Drain, FinalDrain, Before
<1>15. CASE Finish
  <2>1. /\ UNCHANGED <<run, armed, left, ticks, running, contended, enabled, report, halt>>
        /\ pc = "final" /\ pc' = "finish" /\ next' = 0
    BY <1>15 DEF Finish, Goto, targetVars
  <2> QED
    BY <1>1, <2>1, StillBefore, Unjudged DEF Before
<1>16. CASE FinishSampling
  BY <1>4, <1>16, FinishSamplingJudged
<1>17. CASE CheckArmed
  <2>1. CASE (\A r \in Rings : enabled[r] > 0) /\ Goto("mux") /\ next' = 0
    <3>1. /\ UNCHANGED <<run, armed, left, ticks, running, contended, enabled, report, halt>>
          /\ pc = "finish" /\ next = 2 * NCpus /\ pc' = "mux"
      BY <1>17, <2>1 DEF CheckArmed, Goto, targetVars
    <3>2. \A r \in Rings : Shut(r) /\ Shut(r)'
      BY <3>1, Sets DEF Shut, Closed
    <3>3. AllArmed'
      <4>1. ticks > 0
        BY <2>1, Sets DEF Readings, Inv, TypeOK
      <4> QED
        BY <2>1, <3>1, <4>1 DEF AllArmed, Readings, Inv, Places
    <3>4. Judged'
      BY <1>1, <2>1, <3>1, <3>3 DEF Judged, Events
    <3>5. InUse /\ ~Before'
      BY <1>1, <3>1 DEF Before
    <3>6. Readings' /\ Accounts'
      BY <3>1, <3>2, <3>5, SameReadings, SameAccounts DEF Readings
    <3> QED
      BY <3>4, <3>6
  <2>2. CASE Quit("never_armed", IF ExitCode(wstatus) = 0 THEN 1 ELSE ExitCode(wstatus))
    BY <1>5, <2>2
  <2> QED
    BY <1>17, <2>1, <2>2 DEF CheckArmed
<1>18. CASE CheckMux \/ (CheckPeriods /\ PeriodsAgree)
  <2>1. /\ UNCHANGED <<run, armed, left, ticks, running, contended, enabled>>
        /\ pc \in {"mux", "periods"} /\ pc' \in {"mux", "periods", "exited"}
    BY <1>18 DEF CheckMux, CheckPeriods, Quit, Goto, targetVars
  <2>2. \A r \in Rings : Shut(r) /\ Shut(r)'
    BY <2>1 DEF Shut
  <2>3. ~Before'
    BY <2>1 DEF Before
  <2>4. Readings' /\ Accounts'
    BY <1>1, <2>1, <2>2, <2>3, SameReadings, SameAccounts DEF Readings
  <2>5. \A e \in Events : Multiplexed(e)' = Multiplexed(e)
    BY <2>1, SameMultiplexed
  <2>6. AllArmed /\ AllArmed'
    BY <2>1 DEF AllArmed, Judged
  <2>7. CASE CheckMux /\ Multiplexed(next)
    <3>1. /\ pc = "mux" /\ pc' = "exited" /\ halt' = "multiplexed" /\ UNCHANGED <<child, report>>
          /\ child = "reaped" /\ next \in Events
      BY <2>7 DEF CheckMux, Quit, targetVars, Inv, Places, Judged
    <3>2. \E e \in Events : Multiplexed(e)'
      BY <2>5, <2>7, <3>1
    <3> QED
      BY <1>1, <2>4, <2>6, <3>1, <3>2 DEF Judged
  <2>8. CASE CheckMux /\ ~Multiplexed(next)
    <3>1. /\ pc' = (IF next = 1 THEN "periods" ELSE "mux") /\ next' = (next + 1) % 2
          /\ UNCHANGED <<halt, report>> /\ next \in Events /\ (next = 1 => ~Multiplexed(0))
      BY <2>8 DEF CheckMux, Goto, Judged
    <3>2. CASE next = 0
      <4>1. pc' = "mux" /\ next' = 1 /\ 1 \in Events /\ ~Multiplexed(0)'
        BY <2>5, <2>8, <3>1, <3>2 DEF Events
      <4> QED
        BY <1>1, <2>4, <2>6, <3>1, <4>1 DEF Judged
    <3>3. CASE next = 1
      <4>1. pc' = "periods" /\ \A e \in Events : ~Multiplexed(e)'
        BY <2>5, <2>8, <3>1, <3>3 DEF Events
      <4> QED
        BY <1>1, <2>4, <2>6, <3>1, <4>1 DEF Judged
    <3> QED
      BY <3>1, <3>2, <3>3 DEF Events
  <2>9. CASE CheckPeriods /\ PeriodsAgree
    <3>1. pc = "periods" /\ pc' = "exited" /\ report' /\ halt' = halt
      BY <2>9 DEF CheckPeriods
    <3>2. \A e \in Events : ~Multiplexed(e)'
      BY <2>5, <3>1 DEF Judged
    <3> QED
      BY <1>1, <2>4, <2>6, <3>1, <3>2 DEF Judged
  <2> QED
    BY <1>18, <2>7, <2>8, <2>9
<1>19. CASE CheckPeriods /\ ~PeriodsAgree
  BY <1>5, <1>19 DEF CheckPeriods
<1> QED
  BY <1>2, <1>4, <1>7, <1>8, <1>9, <1>10, <1>11, <1>12, <1>14, <1>15, <1>16, <1>17, <1>18, <1>19
  DEF Profiler

\* The account and the verdicts hold in every state of every session.
THEOREM Accounted == Spec => [](Inv /\ Readings /\ Accounts /\ Judged)
<1>1. Init => Readings /\ Accounts /\ Judged
  <2> SUFFICES ASSUME Init PROVE Readings /\ Accounts /\ Judged
    OBVIOUS
  <2>1. /\ ticks = 0 /\ running = [r \in Rings |-> 0] /\ contended = [e \in Events |-> 0]
        /\ \A r \in Rings : enabled[r] = 0 /\ ~Shut(r)
        /\ ~left /\ pc = "start" /\ ~report /\ halt # "multiplexed"
    BY DEF Init, Fresh, Shut, Closed, NoHalt
  <2>2. \A e \in Events : TotalRunning(e) = 0
    <3>1. \A e \in Events : \A r \in RingsOf(e) : running[r] \in Int /\ running[r] = 0
      BY <2>1, Total
    <3> QED
      BY <3>1, Total, SumZero
  <2>3. \A e \in Events : Upto(e) = 0
    BY <2>1, LastRingIs DEF Upto
  <2>4. Accounts
    BY <2>1, <2>2, <2>3 DEF Accounts
  <2> QED
    BY <2>1, <2>4 DEF Readings, Judged
<1>2. ASSUME Inv, Readings, Accounts, Judged, [Next]_vars
      PROVE  Readings' /\ Accounts' /\ Judged'
  <2>1. CASE UNCHANGED vars
    <3>1. UNCHANGED <<run, pc, next, enabled, report, halt, child, left, armed, ticks, running, contended>>
      BY <2>1 DEF vars, profVars, targetVars
    <3>2. (InUse' <=> InUse) /\ (Before' <=> Before) /\ \A r \in Rings : (Shut(r)' <=> Shut(r))
      BY <3>1 DEF InUse, Before, Shut, Closed
    <3> QED
      BY <1>2, <3>1, <3>2, SameReadings, SameAccounts, SameJudged DEF Readings
  <2> QED
    BY <1>2, <2>1, TargetJudged, ProfilerJudged DEF Next, Done
<1> QED
  BY <1>1, <1>2, Invariance, PTL DEF Spec

-----------------------------------------------------------------------------
(* The properties.                                                         *)

\* Every variable has its type: in particular the exit code of a session is one of those the
\* code can give, and never that of a target that did not end.
THEOREM TypeCorrect == Spec => []TypeOK
<1>1. Inv => TypeOK
  BY DEF Inv
<1> QED
  BY <1>1, Invariance, PTL

\* The measured target executes nothing before all of its counters are open, whichever of the
\* system calls before that fail and whatever becomes of it meanwhile.
THEOREM CountedFromExec == Spec => []AttachedBeforeExec
<1>1. Inv => AttachedBeforeExec
  BY DEF Inv, Attached
<1> QED
  BY <1>1, Invariance, PTL

\* A report covers all the target recorded, and nothing but samples of the period asked for.
THEOREM ReportsAreComplete == Spec => []ReportComplete
<1>1. Inv => ReportComplete
  BY DEF Inv, Outcome
<1> QED
  BY <1>1, Invariance, PTL

\* Exit code 0 stands for a report of a target that succeeded.
THEOREM ZeroMeansSuccess == Spec => []ExitCodeMeaning
<1>1. Inv => ExitCodeMeaning
  BY DEF Inv, Outcome
<1> QED
  BY <1>1, Invariance, PTL

\* Of a target that runs one thread, no report is made from counters that shared the PMU for
\* more than 1% of its run.  With two threads it may be (the run with Threads = 2).
THEOREM SharedIsRefused == ASSUME Threads = 1
                           PROVE  Spec => []MuxHonest
<1>1. Inv /\ Readings /\ Accounts /\ Judged => MuxHonest
  <2> SUFFICES ASSUME Inv, Readings, Accounts, Judged, report, NEW e \in Events
               PROVE  100 * contended[e] <= ticks
    BY DEF MuxHonest
  <2>1. ticks \in Nat /\ contended[e] \in Nat /\ TotalRunning(e) \in Nat
    BY TotalType DEF Inv, TypeOK
  <2>2. pc = "exited" /\ InUse
    BY DEF Inv, Outcome, InUse
  <2>3. Upto(e) = enabled[LastRing(e)] /\ Upto(e) \in Nat /\ Upto(e) <= ticks
    BY <2>2, LastRingIs DEF Upto, Shut, Readings, Inv, TypeOK
  <2>4. TotalRunning(e) + contended[e] <= Upto(e)
    BY <2>2 DEF Accounts
  <2>5. ~(100 * TotalRunning(e) < 99 * Upto(e))
    BY <2>3 DEF Judged, Multiplexed
  <2> QED
    BY <2>1, <2>3, <2>4, <2>5
<1> QED
  BY <1>1, Accounted, PTL

\* However the target's threads move and however many there are, the session is refused as
\* multiplexed only if a counter was kept off the PMU, or a process that outlived the target ran
\* while the event's rings were read one after the other, and an earlier one says less than the
\* last.  In particular a target that leaves no process behind is never refused for nothing.
THEOREM RefusedOnlyIfShared == Spec => []NoFalseHalt
<1>1. Inv /\ Readings /\ Accounts /\ Judged => NoFalseHalt
  <2> SUFFICES ASSUME Inv, Readings, Accounts, Judged, halt = "multiplexed",
                      \A e \in Events : ~(contended[e] > 0)
               PROVE  left /\ \E e \in Events : \E r \in RingsOf(e) : enabled[r] < enabled[LastRing(e)]
    BY DEF NoFalseHalt
  <2>1. PICK e \in Events : Multiplexed(e)
    BY DEF Judged
  <2>2. /\ pc = "exited" /\ InUse /\ \A r \in Rings : Shut(r)
        /\ Upto(e) = enabled[LastRing(e)]
    BY LastRingIs DEF Judged, InUse, Shut, Upto
  <2>3. /\ contended[e] = 0 /\ TotalRunning(e) \in Nat
        /\ \A r \in Rings : enabled[r] \in Nat /\ enabled[r] > 0
    BY TotalType DEF Inv, TypeOK, Judged, AllArmed
  <2>4. 100 * TotalRunning(e) < 99 * Upto(e) /\ Upto(e) \in Nat
    BY <2>1, <2>2, <2>3, LastRingIs DEF Multiplexed
  <2>5. ~AtOnce(e)
    BY <2>2, <2>3, <2>4 DEF Accounts
  <2>6. PICK r \in RingsOf(e) : enabled[r] # enabled[LastRing(e)]
    BY <2>2, <2>5 DEF AtOnce
  <2>7. r \in Rings /\ LastRing(e) \in Rings /\ r <= LastRing(e)
    BY LastRingIs DEF RingsOf
  <2>8. enabled[r] < enabled[LastRing(e)]
    BY <2>2, <2>3, <2>6, <2>7 DEF Readings
  <2>9. left
    BY <2>2, <2>6, <2>7 DEF Readings
  <2> QED
    BY <2>8, <2>9
<1> QED
  BY <1>1, Accounted, PTL

-----------------------------------------------------------------------------
(* The session implements Profile.                                         *)

\* Nothing is recorded before the measured target is forked.
Blank ==
    /\ run = "calibration" \/ pc \in {"start", "fork"} => \A r \in Rings : made[r] = << >>
    /\ pc = "start" => ~left

\* Steps that record nothing, and lead on from a place where nothing is recorded.
LEMMA StillBlank == ASSUME Blank, UNCHANGED made, run' = run \/ pc' = "fork",
                           pc' = "start" => UNCHANGED <<pc, left>>,
                           pc' = "fork" => run = "calibration" \/ pc \in {"start", "fork"}
                    PROVE  Blank'
  BY DEF Blank

\* The target records only in the measurement run, and only once it was forked.
LEMMA TargetBlank == ASSUME Inv, Blank, Target
                     PROVE  Blank'
<1>1. pc = "start" => child = "none"
  BY DEF Inv, Places
<1>2. ASSUME NEW how, Dies(how), child # "none" PROVE Blank'
  <2>1. UNCHANGED <<made, run, pc>> /\ pc # "start"
    BY <1>1, <1>2 DEF Dies, profVars
  <2> QED
    BY <2>1, StillBlank DEF Blank
<1>3. CASE ChildFails \/ ChildExecFails \/ ChildExits \/ ChildKilled
  BY <1>2, <1>3 DEF ChildFails, ChildExecFails, ChildExits, ChildKilled
<1>4. CASE ChildStops \/ ChildExecs \/ RunsSlice
  <2>1. UNCHANGED <<made, run, pc, left>>
    BY <1>4 DEF ChildStops, ChildExecs, RunsSlice, Slice, profVars
  <2> QED
    BY <2>1 DEF Blank
<1>5. CASE RunsEmit
  <2>1. UNCHANGED <<run, pc, left>> /\ run = "measurement" /\ Counted
    BY <1>5 DEF RunsEmit, Emit, profVars
  <2>2. pc \notin {"start", "fork"}
    BY <1>1, <2>1 DEF Counted, Blank
  <2> QED
    BY <2>1, <2>2 DEF Blank
<1> QED
  BY <1>3, <1>4, <1>5 DEF Target

LEMMA ProfilerBlank == ASSUME Inv, Blank, Profiler
                       PROVE  Blank'
<1>1. CASE Fork /\ ~Die
  <2>1. pc' = "wait_stop" /\ made' = [r \in Rings |-> << >>]
    BY <1>1 DEF Fork
  <2> QED
    BY <2>1 DEF Blank
<1>2. CASE Die
  BY <1>2, StillBlank DEF Die, targetVars
<1>3. ASSUME UNCHANGED <<made, run>>, pc' \notin {"start", "fork"} PROVE Blank'
  BY <1>3, StillBlank
<1>4. CASE Start /\ ~Die
  <2>1. UNCHANGED <<made, run>> /\ pc = "start" /\ pc' # "start"
    BY <1>4 DEF Start, Quit, Goto, targetVars
  <2> QED
    BY <2>1, StillBlank
<1>5. CASE ReadCounts /\ ~Die
  <2>1. UNCHANGED made /\ pc' # "start" /\ run = "calibration" /\ (run' = run \/ pc' = "fork")
    BY <1>5 DEF ReadCounts, Goto, targetVars, Inv, Places
  <2> QED
    BY <2>1, StillBlank
<1>6. CASE AwaitStop /\ ~Die
  BY <1>3, <1>6 DEF AwaitStop, Goto, targetVars
<1>7. CASE (Open \/ Resume \/ Reap \/ Poll \/ TryReap) /\ ~Die
  BY <1>3, <1>7 DEF Open, Resume, Reap, ReapChild, Poll, Goto, TryReap, targetVars
<1>8. ASSUME NEW r, DrainRing(r), ~Die, pc \in {"drain", "final"} PROVE Blank'
  <2>1. UNCHANGED <<made, run, pc>>
    BY <1>8 DEF DrainRing, targetVars
  <2> QED
    BY <1>3, <1>8, <2>1
<1>9. CASE (Drain \/ FinalDrain) /\ ~Die
  BY <1>3, <1>8, <1>9 DEF Drain, FinalDrain, Goto, targetVars
<1>10. CASE (Finish \/ FinishSampling \/ CheckArmed \/ CheckMux \/ CheckPeriods) /\ ~Die
  <2>1. UNCHANGED <<made, run>> /\ pc' \in {"finish", "mux", "periods", "exited"}
    BY <1>10 DEF Finish, FinishSampling, CheckArmed, CheckMux, CheckPeriods, Quit, Goto, targetVars
  <2> QED
    BY <1>3, <2>1
<1> QED
  BY <1>1, <1>2, <1>4, <1>5, <1>6, <1>7, <1>9, <1>10 DEF Profiler

\* In every state of every session nothing was recorded too early.
THEOREM NothingBeforeTheFork == Spec => []Blank
<1>1. Init => Blank
  BY DEF Init, Blank
<1>2. Inv /\ Blank /\ [Next]_vars => Blank'
  <2>1. Blank /\ UNCHANGED vars => Blank'
    BY DEF Blank, vars, profVars, targetVars
  <2> QED
    BY <2>1, TargetBlank, ProfilerBlank DEF Next, Done
<1> QED
  BY <1>1, <1>2, Invariance, PTL DEF Spec

\* A session without a result is one whose profiler runs.
LEMMA Unresolved == ASSUME Inv, pc # "exited"
                    PROVE  Result = "none" /\ ~report /\ exit = NoExit
  BY DEF Inv, Outcome, Result

\* Steps that Profile does not see.
LEMMA Stutter == ASSUME Program' = Program, UNCHANGED <<died, armed, made, at_end, left, exit, report>>,
                        report => UNCHANGED taken
                 PROVE  UNCHANGED Promise!vars
<1>1. Result' = Result /\ Covered' = Covered
  BY DEF Result, Covered
<1> QED
  BY <1>1 DEF Promise!vars

\* The target's steps are those of the program, or time that passes.
LEMMA TargetRefines == ASSUME Inv, Blank, Target
                       PROVE  Promise!Next \/ UNCHANGED Promise!vars
<1>1. ASSUME UNCHANGED profVars PROVE Result' = Result /\ Covered' = Covered
  BY <1>1 DEF profVars, Result, Covered
<1>2. ASSUME NEW how \in Statuses \ {NoStatus}, Dies(how),
             child \in {"forked", "stopped", "resumed", "running"}
      PROVE  Promise!Next
  <2>1. /\ child' = "zombie" /\ died' = how /\ left' \in {FALSE, child = "running"}
        /\ at_end' = [r \in Rings |-> Len(made[r])]
        /\ UNCHANGED <<profVars, armed, made>>
    BY <1>2 DEF Dies
  <2>2. Program \in {"held", "runs"} /\ (child = "running" <=> Program = "runs") /\ Program' = "ended"
    BY <1>2, <2>1 DEF Program
  <2>3. died' # Promise!NotEnded
    BY <1>2, <2>1 DEF NoStatus, Promise!NotEnded
  <2>4. left' \in {FALSE, Program = "runs"}
    BY <2>1, <2>2
  <2>5. exit' = exit
    BY <2>1 DEF profVars
  <2>6. Promise!End
    BY <1>1, <2>1, <2>2, <2>3, <2>4, <2>5 DEF Promise!End
  <2> QED
    BY <2>6 DEF Promise!Next
<1>3. {Exited(0), Exited(1), Exited(3), Exited(127), Signaled(9)} \subseteq Statuses \ {NoStatus}
  BY DEF Statuses, Exited, Signaled, NoStatus
<1>4. CASE ChildFails \/ ChildExecFails \/ ChildKilled
  BY <1>2, <1>3, <1>4 DEF ChildFails, ChildExecFails, ChildKilled
<1>5. CASE ChildExits
  <2>1. PICK n \in {0, 3} : Dies(Exited(n))
    BY <1>5 DEF ChildExits
  <2>2. child = "running" /\ Exited(n) \in Statuses \ {NoStatus}
    BY <1>3, <1>5 DEF ChildExits
  <2> QED
    BY <1>2, <2>1, <2>2
<1>6. CASE ChildStops
  <2>1. Program' = Program
    BY <1>6 DEF ChildStops, Program
  <2> QED
    BY <1>6, <2>1, Stutter DEF ChildStops, profVars
<1>7. CASE ChildExecs
  <2>1. Program = "held" /\ Program' = "runs" /\ armed' \in SUBSET Rings
    BY <1>7 DEF ChildExecs, Program
  <2>2. UNCHANGED <<died, made, at_end, left, exit>> /\ UNCHANGED profVars
    BY <1>7 DEF ChildExecs, profVars
  <2>3. Promise!Release
    BY <1>1, <2>1, <2>2 DEF Promise!Release
  <2> QED
    BY <2>3 DEF Promise!Next
<1>8. CASE RunsSlice
  <2>1. UNCHANGED <<child, died, armed, made, at_end, left, exit, report, taken>>
    BY <1>8 DEF RunsSlice, Slice, profVars
  <2> QED
    BY <2>1, Stutter DEF Program
<1>9. CASE RunsEmit
  <2>1. PICK r \in Rings, kind \in Kinds : Emit(r, kind)
    BY <1>9 DEF RunsEmit
  <2>2. /\ Program = "runs" \/ left
        /\ pc # "exited" /\ r \in armed
        /\ made' = [made EXCEPT ![r] = Append(@, kind)]
        /\ UNCHANGED <<profVars, child, died, left, at_end, armed, exit>>
    BY <2>1 DEF Emit, Counted, Program, profVars
  <2>3. Program' = Program
    BY <2>2 DEF Program
  <2>4. Promise!Record(r, kind)
    BY <1>1, <2>2, <2>3, Unresolved DEF Promise!Record
  <2> QED
    BY <2>4 DEF Promise!Next
<1> QED
  BY <1>4, <1>5, <1>6, <1>7, <1>8, <1>9 DEF Target

\* Giving up, for whatever reason, is a refusal.
LEMMA Refuses == ASSUME Inv, pc # "exited", exit' \in 1..255, ~report', UNCHANGED targetVars
                 PROVE  Promise!Next
<1>1. Result = "none" /\ ~report
  BY Unresolved
<1>2. Result' = "error" /\ Covered' = Covered
  BY <1>1 DEF Result, Covered, NoExit
<1>3. Program' = Program /\ UNCHANGED <<died, armed, made, at_end, left>>
  BY DEF Program, targetVars
<1>4. Promise!Refuse
  BY <1>1, <1>2, <1>3 DEF Promise!Refuse
<1> QED
  BY <1>4 DEF Promise!Next

\* Fork holds a new target.
LEMMA ForkHolds == ASSUME Inv, Blank, Fork, ~Die
                   PROVE  Promise!Next
<1>1. /\ pc = "fork" /\ child' = "forked" /\ died' = NoStatus /\ armed' = {} /\ left' = FALSE
      /\ at_end' = [r \in Rings |-> 0] /\ made' = [r \in Rings |-> << >>]
      /\ UNCHANGED <<report, taken, exit>>
  BY DEF Fork
<1>2. Program \in {"none", "ended"} /\ Program' = "held"
  BY <1>1 DEF Inv, Places, Program
<1>3. made' = made /\ ~Promise!Recorded
  <2>1. made \in [Rings -> Seq(Kinds)] /\ \A r \in Rings : made[r] = << >>
    BY <1>1 DEF Inv, TypeOK, Blank
  <2> QED
    BY <1>1, <2>1 DEF Promise!Recorded
<1>4. Result = "none" /\ Result' = Result /\ Covered' = Covered
  BY <1>1, Unresolved DEF Result, Covered
<1>5. Promise!Hold
  BY <1>1, <1>2, <1>3, <1>4 DEF Promise!Hold, Promise!NotEnded, Promise!Nothing, NoStatus
<1> QED
  BY <1>5 DEF Promise!Next

\* What the profiler exits with after a report is the program's own code.
LEMMA OwnCodes == \A s \in Statuses \ {NoStatus} : ExitCode(s) = Promise!OwnCode(s)
  BY DEF Statuses, NoStatus, Exited, Signaled, ExitCode, Promise!OwnCode

LEMMA ReportReports == ASSUME Inv, Judged, CheckPeriods, PeriodsAgree
                       PROVE  Promise!Next
<1>1. pc = "periods" /\ report' = TRUE /\ exit' = ExitCode(wstatus) /\ UNCHANGED <<taken, targetVars>>
  BY DEF CheckPeriods
<1>2. wstatus = died /\ died \in Statuses \ {NoStatus} /\ child = "reaped" /\ armed = Rings
  BY <1>1 DEF Inv, TypeOK, Endings, Places, Judged, AllArmed
<1>3. exit' = Promise!OwnCode(died) /\ exit' # NoExit
  BY <1>1, <1>2, OwnCodes, Codes DEF NoExit
<1>4. Result = "none" /\ Result' = "report" /\ Covered' = taken
  BY <1>1, <1>3, Unresolved DEF Result, Covered
<1>5. Program = "ended" /\ UNCHANGED <<Program, died, armed, made, at_end, left>>
  BY <1>1, <1>2 DEF Program, targetVars
<1>6. ReportComplete'
  BY ReportInv DEF Inv, Outcome
<1>7. ASSUME NEW r \in Rings
      PROVE  /\ Covered'[r] \in at_end[r]..Len(made[r])
             /\ \A i \in 1..Covered'[r] : made[r][i] = "sample"
  <2>1. taken[r] >= at_end[r] /\ \A i \in 1..taken[r] : made[r][i] = "sample"
    BY <1>1, <1>5, <1>6 DEF ReportComplete
  <2>2. Len(made[r]) \in Nat /\ taken[r] \in 0..Len(made[r]) /\ at_end[r] \in Nat
    BY Records DEF Inv, TypeOK
  <2> QED
    BY <1>4, <2>1, <2>2
<1>8. Promise!Report
  BY <1>2, <1>3, <1>4, <1>5, <1>7 DEF Promise!Report
<1> QED
  BY <1>8 DEF Promise!Next

\* The profiler's steps hold the program, report or refuse, or are not seen.
LEMMA ProfilerRefines == ASSUME Inv, Judged, Blank, Profiler
                         PROVE  Promise!Next \/ UNCHANGED Promise!vars
<1>1. pc # "exited" /\ ~report
  <2>1. pc # "exited"
    BY DEF Profiler, Start, Fork, AwaitStop, Open, Resume, Reap, ReadCounts, Poll, Drain, TryReap,
           FinalDrain, Finish, FinishSampling, CheckArmed, CheckMux, CheckPeriods
  <2> QED
    BY <2>1, Unresolved
<1>2. CASE Die
  BY <1>1, <1>2, Refuses DEF Die
<1>3. ASSUME NEW why, NEW code \in {1, 2, 3, 127, 137}, Quit(why, code) PROVE Promise!Next
  <2>1. exit' \in 1..255 /\ report' = report /\ UNCHANGED targetVars
    BY <1>3 DEF Quit
  <2> QED
    BY <1>1, <2>1, Refuses
<1>4. ASSUME Program' = Program, UNCHANGED <<died, armed, made, at_end, left, exit, report>>
      PROVE  UNCHANGED Promise!vars
  BY <1>1, <1>4, Stutter
<1>5. ASSUME UNCHANGED <<targetVars, exit, report>> PROVE UNCHANGED Promise!vars
  <2>1. Program' = Program
    BY <1>5 DEF Program, targetVars
  <2> QED
    BY <1>4, <1>5, <2>1 DEF targetVars
<1>6. ASSUME NEW l, Goto(l) PROVE UNCHANGED Promise!vars
  BY <1>5, <1>6 DEF Goto
<1>7. CASE Start /\ ~Die
  BY <1>3, <1>6, <1>7 DEF Start
<1>8. CASE Fork /\ ~Die
  BY <1>8, ForkHolds
<1>9. CASE (AwaitStop \/ Open \/ ReadCounts \/ Poll) /\ ~Die
  BY <1>5, <1>6, <1>9 DEF AwaitStop, Open, ReadCounts, Poll
<1>10. CASE Resume
  <2>1. Program' = Program
    BY <1>10 DEF Resume, Program
  <2> QED
    BY <1>4, <1>10, <2>1 DEF Resume
<1>11. CASE Reap
  <2>1. Program' = Program
    BY <1>11 DEF Reap, ReapChild, Program
  <2> QED
    BY <1>4, <1>11, <2>1 DEF Reap, ReapChild
<1>12. CASE TryReap
  <2>1. CASE child = "zombie"
    <3>1. Program' = Program
      BY <1>12, <2>1 DEF TryReap, ReapChild, Program
    <3> QED
      BY <1>4, <1>12, <2>1, <3>1 DEF TryReap, ReapChild
  <2>2. CASE child # "zombie"
    BY <1>5, <1>12, <2>2 DEF TryReap
  <2> QED
    BY <2>1, <2>2
<1>13. ASSUME NEW r, DrainRing(r), ~Die PROVE UNCHANGED Promise!vars
  BY <1>5, <1>13 DEF DrainRing
<1>14. CASE (Drain \/ FinalDrain) /\ ~Die
  BY <1>6, <1>13, <1>14 DEF Drain, FinalDrain
<1>15. CASE CheckArmed /\ ~Die
  <2>1. pc = "finish" /\ wstatus \in Statuses \ {NoStatus}
    BY <1>15 DEF CheckArmed, Inv, TypeOK, Endings, Places
  <2>2. (IF ExitCode(wstatus) = 0 THEN 1 ELSE ExitCode(wstatus)) \in {1, 2, 3, 127, 137}
    BY <2>1, Codes
  <2> QED
    BY <1>3, <1>6, <1>15, <2>2 DEF CheckArmed
<1>16. CASE CheckMux
  BY <1>3, <1>6, <1>16 DEF CheckMux
<1>17. CASE CheckPeriods
  <2>1. CASE PeriodsAgree
    BY <1>17, <2>1, ReportReports
  <2>2. CASE ~PeriodsAgree
    BY <1>3, <1>17, <2>2 DEF CheckPeriods
  <2> QED
    BY <2>1, <2>2
<1>18. CASE (Finish \/ FinishSampling) /\ ~Die
  BY <1>5, <1>6, <1>18 DEF Finish, FinishSampling
<1> QED
  BY <1>2, <1>7, <1>8, <1>9, <1>10, <1>11, <1>12, <1>14, <1>15, <1>16, <1>17, <1>18 DEF Profiler

\* Every session is one that Profile describes: whatever fails, in whatever order profiler,
\* target and kernel take their steps, and whatever outlives the target.
THEOREM Refinement == Spec => ImplementsProfile
<1>1. Init => Promise!Init
  <2> SUFFICES ASSUME Init PROVE Promise!Init
    OBVIOUS
  <2>1. Program = "none" /\ Result = "none" /\ Covered = [r \in Rings |-> 0]
    BY DEF Init, Program, Result, Covered, NoExit
  <2> QED
    BY <2>1 DEF Init, Promise!Init, Promise!NotEnded, Promise!Nothing, NoStatus
<1>2. Inv /\ Judged /\ Blank /\ [Next]_vars => [Promise!Next]_(Promise!vars)
  <2>1. UNCHANGED vars => UNCHANGED Promise!vars
    <3>1. UNCHANGED vars => Program' = Program
      BY DEF vars, targetVars, Program
    <3> QED
      BY <3>1, Stutter DEF vars, profVars, targetVars
  <2> QED
    BY <2>1, TargetRefines, ProfilerRefines DEF Next, Done
<1> QED
  BY <1>1, <1>2, Accounted, NothingBeforeTheFork, PTL DEF Spec, ImplementsProfile, Promise!Spec
=============================================================================
