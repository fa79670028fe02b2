------------------------------- MODULE Session -------------------------------
(***************************************************************************)
(* One run of the cachelens command (main() of src/src/main.cpp): fork the *)
(* target stopped, attach counters, let it exec, drain its rings while it  *)
(* runs, reap it, drain once more, and either print the report or halt.    *)
(* It runs the target twice, first to calibrate and then to measure, or    *)
(* once with --period.  A process the target started may outlive it: the   *)
(* counters are inherited (attr.inherit), so it goes on writing to the     *)
(* rings while the profiler finishes.                                      *)
(*                                                                         *)
(* The profiler is one thread; it interleaves with the target and with the *)
(* kernel, which accounts time and fills the rings (external).  A ring is  *)
(* here the sequence of records that got into it and how many of them were *)
(* taken: PerfRing shows that drain() takes exactly the records published  *)
(* when it loads data_head, in order, so one step drains a ring.           *)
(***************************************************************************)
EXTENDS Integers, Sequences, FiniteSets, FiniteSetsExt

CONSTANTS
    NCpus,          \* online CPUs
    Threads,        \* threads the target runs at once, at most
    MaxTicks,       \* bound: time slices the target runs for
    MaxRecords      \* bound: records in all rings of a run together

ASSUME SessionAssumption ==
    /\ NCpus \in Nat \ {0}
    /\ Threads \in 1..NCpus
    /\ MaxTicks \in Nat \ {0}
    /\ MaxRecords \in Nat

\* Ring r belongs to event r \div NCpus (0 is "miss", 1 is "access") and CPU r % NCpus: the
\* index main() gives its pollfd.
Events == {0, 1}
Cpus == 0..(NCpus - 1)
Rings == 0..(2 * NCpus - 1)
Event(r) == r \div NCpus
Cpu(r) == r % NCpus

VARIABLES
    \* the profiler
    override,       \* --period was given: no calibration run
    run,            \* which run of the target this is
    pc,
    next,           \* the loops' counter
    opened,         \* how many counters or rings of this run are open
    wstatus,        \* what waitpid() said of the target
    taken,          \* ring -> records drained
    enabled,        \* ring -> its time_enabled, as read when it was closed
    report,         \* the report was printed
    halt,           \* which check refused to report
    exit,           \* exit code of the profiler
    \* the target and the kernel
    child,          \* state of the process
    died,           \* how it ended
    left,           \* a process it started is still running
    at_end,         \* ring -> records made before it ended (history, read by no step)
    armed,          \* the counters or rings that were open when it called exec
    ticks,          \* time since then, in slices
    running,        \* ring -> slices in which its counter counted, until it was closed
    contended,      \* event -> slices in which one of its counters should have and did not
    made            \* ring -> records that got in

profVars == <<override, run, pc, next, opened, wstatus, taken, enabled, report, halt, exit>>
targetVars == <<child, died, left, at_end, armed, ticks, running, contended, made>>
vars == <<profVars, targetVars>>

NoHalt == "none"
NoExit == -1                    \* the profiler still runs
NoStatus == [how |-> "none", n |-> 0]
Exited(n) == [how |-> "exited", n |-> n]
Signaled(n) == [how |-> "signaled", n |-> n]

\* Samples carry the period the ring was opened with, or ("odd") another one.
Kinds == {"sample", "odd", "throttle"}

\* How many counters a run opens: one per event to calibrate, one per ring to measure.
Fds == IF run = "calibration" THEN 2 ELSE 2 * NCpus

Fresh == /\ opened = 0 /\ next = 0 /\ wstatus = NoStatus
         /\ taken = [r \in Rings |-> 0] /\ enabled = [r \in Rings |-> 0]

Init ==
    /\ override \in BOOLEAN
    /\ run = IF override THEN "measurement" ELSE "calibration"
    /\ pc = "start" /\ Fresh
    /\ report = FALSE /\ halt = NoHalt /\ exit = NoExit
    /\ child = "none" /\ died = NoStatus /\ armed = {}
    /\ left = FALSE /\ at_end = [r \in Rings |-> 0]
    /\ ticks = 0
    /\ running = [r \in Rings |-> 0]
    /\ contended = [e \in Events |-> 0]
    /\ made = [r \in Rings |-> << >>]

-----------------------------------------------------------------------------
(* The target: fork_stop_exec()'s child branch, then the target's own code. *)

\* It disables ASLR and stops itself, or fails to and exits.
ChildStops ==
    /\ child = "forked"
    /\ child' = "stopped"
    /\ UNCHANGED <<profVars, died, left, at_end, armed, ticks, running, contended, made>>

\* It ends; processes it started need not.
Dies(how) ==
    /\ child' = "zombie" /\ died' = how
    /\ left' \in {FALSE, child = "running"}
    /\ at_end' = [r \in Rings |-> Len(made[r])]
    /\ UNCHANGED <<profVars, armed, ticks, running, contended, made>>

ChildFails == child = "forked" /\ Dies(Exited(1))

\* The counters have enable_on_exec: those open now count from here on.
ChildExecs ==
    /\ child = "resumed"
    /\ child' = "running"
    /\ armed' = {f \in Rings : f < opened}
    /\ UNCHANGED <<profVars, died, left, at_end, ticks, running, contended, made>>

ChildExecFails == child = "resumed" /\ Dies(Exited(127))

\* Something of the target runs, and the descriptors its counters belong to are open: those of
\* the calibration run are closed once they are read.
Counted == (child = "running" \/ left) /\ pc \notin {"fork", "mux", "periods", "exited"}

\* finish_sampling() has read and closed ring r; the next ones still count.
Closed(r) == pc = "finish" /\ r < next

\* A slice of time: the target's threads run on the CPUs busy, the counters in off find no
\* place on the PMU although their CPU runs the target.
Slice(busy, off) ==
    /\ Counted /\ ticks < MaxTicks
    /\ ticks' = ticks + 1
    /\ running' = [r \in Rings |->
                      running[r] + (IF Cpu(r) \in busy /\ r \notin off /\ ~Closed(r) THEN 1 ELSE 0)]
    /\ contended' = [e \in Events |->
                      contended[e] + (IF \E r \in off : Event(r) = e THEN 1 ELSE 0)]
    /\ UNCHANGED <<profVars, child, died, left, at_end, armed, made>>

\* A counter that counts overflows: a record for its ring.
Emit(r, kind) ==
    /\ Counted /\ run = "measurement"
    /\ r \in armed /\ ~Closed(r) /\ running[r] > 0
    /\ MapThenSumSet(LAMBDA s : Len(made[s]), Rings) < MaxRecords
    /\ made' = [made EXCEPT ![r] = Append(@, kind)]
    /\ UNCHANGED <<profVars, child, died, left, at_end, armed, ticks, running, contended>>

ChildExits == child = "running" /\ ticks > 0 /\ \E n \in {0, 3} : Dies(Exited(n))

\* A signal kills it, whatever it is doing.
ChildKilled == child \in {"forked", "stopped", "resumed", "running"} /\ Dies(Signaled(9))

-----------------------------------------------------------------------------
(* The profiler.                                                           *)

\* die(), die_errno(): exit at once with code 1, and leave the target as it is.
Die == /\ pc' = "exited" /\ exit' = 1
       /\ UNCHANGED <<override, run, next, opened, wstatus, taken, enabled, report, halt,
                      targetVars>>

Quit(why, code) ==
    /\ pc' = "exited" /\ exit' = code /\ halt' = why
    /\ UNCHANGED <<override, run, next, opened, wstatus, taken, enabled, report, targetVars>>

Goto(l) ==
    /\ pc' = l
    /\ UNCHANGED <<override, run, opened, wstatus, taken, enabled, report, halt, exit, targetVars>>

\* The arguments are wrong; or the number of CPUs, the target's ELF headers or debug
\* information, or (to calibrate) the limit of the sample rate cannot be read; or all is well.
Start ==
    /\ pc = "start"
    /\ \/ Quit(NoHalt, 2)
       \/ Die
       \/ Goto("fork") /\ UNCHANGED next

Fork ==
    /\ pc = "fork"
    /\ \/ Die
       \/ /\ child' = "forked" /\ died' = NoStatus /\ armed' = {}
          /\ left' = FALSE /\ at_end' = [r \in Rings |-> 0]
          /\ ticks' = 0
          /\ running' = [r \in Rings |-> 0]
          /\ contended' = [e \in Events |-> 0]
          /\ made' = [r \in Rings |-> << >>]
          /\ pc' = "wait_stop"
          /\ UNCHANGED <<override, run, next, opened, wstatus, taken, enabled, report, halt, exit>>

WaitReturnsOnExit == child = "zombie"       \* mutant: waitpid() without WUNTRACED
WaitReturns == child \in {"stopped", "zombie"}

\* waitpid(child, WUNTRACED) returns when the target stopped or ended.
AwaitStop ==
    /\ pc = "wait_stop" /\ WaitReturns
    /\ IF child = "stopped"
         THEN Goto("open") /\ next' = 0
         ELSE Die

AllOpenButLast == opened = Fds - 1          \* mutant: the loop ends one short
AllOpen == opened = Fds

\* open_counting() or open_sampling(), one descriptor after the other; any may fail.
Open ==
    /\ pc = "open" /\ ~AllOpen
    /\ \/ Die
       \/ /\ opened' = opened + 1
          /\ UNCHANGED <<override, run, pc, next, wstatus, taken, enabled, report, halt, exit,
                         targetVars>>

\* kill(child, SIGCONT); a target killed meanwhile is a zombie, and still there to signal.
Resume ==
    /\ pc = "open" /\ AllOpen
    /\ child' = IF child = "stopped" THEN "resumed" ELSE child
    /\ pc' = IF run = "calibration" THEN "reap" ELSE "poll"
    /\ UNCHANGED <<override, run, next, opened, wstatus, taken, enabled, report, halt, exit,
                   died, left, at_end, armed, ticks, running, contended, made>>

ReapChild == /\ child' = "reaped" /\ wstatus' = died
             /\ UNCHANGED <<died, left, at_end, armed, ticks, running, contended, made>>

-----------------------------------------------------------------------------
(* calibrate_both(), after the target was resumed.                          *)

\* reap(): the calibration target's exit code is printed and then forgotten.
Reap ==
    /\ pc = "reap" /\ child = "zombie"
    /\ ReapChild
    /\ pc' = "read_counts" /\ next' = 0
    /\ UNCHANGED <<override, run, opened, taken, enabled, report, halt, exit>>

\* time_enabled and time_running as read from a descriptor of an inherited counter.
Enabled(f) == IF f \in armed THEN ticks ELSE 0

\* One event's counts: unreadable, never armed or contended, they are fatal.  After the last
\* one the measurement run begins.
ReadCounts ==
    /\ pc = "read_counts"
    /\ \/ Die
       \/ /\ Enabled(next) > 0 /\ 100 * (ticks - contended[next]) >= 99 * ticks
          /\ next < 1
          /\ Goto("read_counts") /\ next' = next + 1
       \/ /\ Enabled(next) > 0 /\ 100 * (ticks - contended[next]) >= 99 * ticks
          /\ next = 1
          /\ run' = "measurement" /\ pc' = "fork" /\ next' = 0 /\ opened' = 0
          /\ wstatus' = NoStatus
          /\ UNCHANGED <<override, taken, enabled, report, halt, exit, targetVars>>

-----------------------------------------------------------------------------
(* main(), after the target of the measurement run was resumed.             *)

\* poll() returns: ready, after a timeout or, with the revents it had, after EINTR.
Poll ==
    /\ pc = "poll"
    /\ Die \/ (Goto("drain") /\ next' = 0)

Unread(r) == SubSeq(made[r], taken[r] + 1, Len(made[r]))

\* drain() of one ring: everything in it, unless a throttle record is met, which is fatal.
DrainRing(r) ==
    IF \E i \in DOMAIN Unread(r) : Unread(r)[i] = "throttle"
      THEN Die
      ELSE /\ taken' = [taken EXCEPT ![r] = Len(made[r])]
           /\ next' = next + 1
           /\ UNCHANGED <<override, run, pc, opened, wstatus, enabled, report, halt, exit,
                          targetVars>>

\* The rings in the order of the pollfd array.  One with POLLIN, POLLHUP or POLLERR is drained,
\* whether or not it holds a record; which ones poll() said so of is arbitrary.
Drain ==
    /\ pc = "drain" /\ next < 2 * NCpus
    /\ DrainRing(next) \/ (Goto("drain") /\ next' = next + 1)

\* waitpid(WNOHANG): leave the loop once the target is reaped.
TryReap ==
    /\ pc = "drain" /\ next = 2 * NCpus
    /\ next' = 0
    /\ IF child = "zombie"
         THEN ReapChild /\ pc' = "final"
         ELSE pc' = "poll" /\ UNCHANGED <<wstatus, targetVars>>
    /\ UNCHANGED <<override, run, opened, taken, enabled, report, halt, exit>>

FinalRingsOfMiss == {r \in Rings : Event(r) = 0}    \* mutant: the last drain forgets an event
FinalRings == Rings

\* Every ring once more: what was written since its last drain, below the wakeup mark too.
FinalDrain ==
    /\ pc = "final" /\ next < 2 * NCpus
    /\ IF next \in FinalRings THEN DrainRing(next) ELSE Goto("final") /\ next' = next + 1

\* mutants: a signal counts as success, and a signal number is not told from an exit code
ExitCodeNoOffset(s) == s.n
ExitCodeIgnoresSignal(s) == IF s.how = "exited" THEN s.n ELSE 0
ExitCode(s) == IF s.how = "exited" THEN s.n ELSE 128 + s.n

\* The target is gone and drained; the counters of a process it left behind still count.
Finish == pc = "final" /\ next = 2 * NCpus /\ Goto("finish") /\ next' = 0

\* finish_sampling() of one ring after the other: read its times, which may fail, and close it.
FinishSampling ==
    /\ pc = "finish" /\ next < 2 * NCpus
    /\ \/ Die
       \/ /\ enabled' = [enabled EXCEPT ![next] = Enabled(next)]
          /\ next' = next + 1
          /\ UNCHANGED <<override, run, pc, opened, wstatus, taken, report, halt, exit,
                         targetVars>>

\* Every ring was armed, or there is nothing to report.
CheckArmed ==
    /\ pc = "finish" /\ next = 2 * NCpus
    /\ IF \A r \in Rings : enabled[r] > 0
         THEN Goto("mux") /\ next' = 0
         ELSE Quit("never_armed", IF ExitCode(wstatus) = 0 THEN 1 ELSE ExitCode(wstatus))

RingsOf(e) == {r \in Rings : Event(r) = e}
TotalRunning(e) == MapThenSumSet(LAMBDA r : running[r], RingsOf(e))

\* mutants: the check as it was before it summed the rings, and one that compares no sum
MultiplexedPerRing(e) == \E r \in RingsOf(e) : 100 * running[r] < 99 * enabled[r]
MultiplexedOnlyIfNeverRan(e) == TotalRunning(e) = 0
\* The sum is compared with what the event's last ring said.
LastRing(e) == (e + 1) * NCpus - 1
Multiplexed(e) == \/ enabled[LastRing(e)] = 0
                  \/ 100 * TotalRunning(e) < 99 * enabled[LastRing(e)]

\* The multiplexing halt, one event after the other.
CheckMux ==
    /\ pc = "mux"
    /\ IF Multiplexed(next) THEN Quit("multiplexed", 1)
       ELSE Goto(IF next = 1 THEN "periods" ELSE "mux") /\ next' = (next + 1) % 2

Samples(r) == SubSeq(made[r], 1, taken[r])

PeriodsAgree == \A r \in Rings : \A i \in DOMAIN Samples(r) : Samples(r)[i] # "odd"

\* The period halt; then attribution, the report, and the target's own exit code.
CheckPeriods ==
    /\ pc = "periods"
    /\ IF PeriodsAgree
         THEN /\ report' = TRUE /\ pc' = "exited" /\ exit' = ExitCode(wstatus)
              /\ UNCHANGED <<override, run, next, opened, wstatus, taken, enabled, halt,
                             targetVars>>
         ELSE Quit("period", 1)

-----------------------------------------------------------------------------
RunsSlice == \E busy \in (SUBSET Cpus) \ {{}} :
                 \E off \in SUBSET {r \in Rings : Cpu(r) \in busy /\ ~Closed(r)} :
                     Cardinality(busy) <= Threads /\ Slice(busy, off)
RunsEmit == \E r \in Rings, kind \in Kinds : Emit(r, kind)

Target == \/ ChildStops \/ ChildFails \/ ChildExecs \/ ChildExecFails
          \/ RunsSlice \/ RunsEmit \/ ChildExits \/ ChildKilled

Profiler == \/ Start \/ Fork \/ AwaitStop \/ Open \/ Resume
            \/ Reap \/ ReadCounts
            \/ Poll \/ Drain \/ TryReap \/ FinalDrain
            \/ Finish \/ FinishSampling \/ CheckArmed \/ CheckMux \/ CheckPeriods

Done == pc = "exited" /\ UNCHANGED vars

Next == Target \/ Profiler \/ Done

Spec == Init /\ [][Next]_vars

\* The profiler is scheduled, and so is the target; a target that runs comes to an end.
FairSpec == Spec /\ WF_vars(Profiler)
                 /\ WF_vars(ChildStops \/ ChildFails)
                 /\ WF_vars(ChildExecs \/ ChildExecFails)
                 /\ WF_vars(ChildExits \/ (ticks = 0 /\ RunsSlice))
-----------------------------------------------------------------------------
(* What this promises.  All steps up to the target's exec, the passage of  *)
(* time and the draining are stutters of Profile.                          *)

Program == CASE child = "none" -> "none"
             [] child \in {"forked", "stopped", "resumed"} -> "held"
             [] child = "running" -> "runs"
             [] child \in {"zombie", "reaped"} -> "ended"

Result == IF exit = NoExit THEN "none" ELSE IF report THEN "report" ELSE "error"

Covered == IF report THEN taken ELSE [r \in Rings |-> 0]

Promise == INSTANCE Profile WITH target <- Program, how <- died, counted <- armed, log <- made,
                                 due <- at_end, result <- Result, covered <- Covered, code <- exit

-----------------------------------------------------------------------------
(* Properties.                                                             *)

Statuses == {NoStatus, Exited(0), Exited(1), Exited(3), Exited(127), Signaled(9)}

\* Every variable has its type.
TypeOK ==
    /\ override \in BOOLEAN /\ run \in {"calibration", "measurement"}
    /\ pc \in {"start", "fork", "wait_stop", "open", "reap", "read_counts", "poll", "drain", "final",
               "finish", "mux", "periods", "exited"}
    /\ next \in 0..(2 * NCpus) /\ opened \in 0..(2 * NCpus)
    /\ wstatus \in Statuses /\ died \in Statuses
    /\ taken \in [Rings -> Nat] /\ enabled \in [Rings -> Nat]
    /\ running \in [Rings -> Nat] /\ contended \in [Events -> Nat]
    /\ made \in [Rings -> Seq(Kinds)]
    /\ \A r \in Rings : taken[r] <= Len(made[r])
    /\ report \in BOOLEAN /\ halt \in {NoHalt, "never_armed", "multiplexed", "period"}
    /\ exit \in {NoExit, 0, 1, 2, 3, 127, 137}
    /\ child \in {"none", "forked", "stopped", "resumed", "running", "zombie", "reaped"}
    /\ left \in BOOLEAN /\ at_end \in [Rings -> Nat]
    /\ armed \subseteq Rings /\ ticks \in Nat

\* The measured target runs no instruction of its own before every ring that will be summed
\* is open: however long opening takes, no event of it goes uncounted.
AttachedBeforeExec == run = "measurement" /\ child = "running" => armed = Rings

\* A report covers every record the target made, those between a ring's last drain and the
\* target's end too; of a process that outlives it, what came before the ring's final drain.
\* All it covers are samples at the period the ring was opened with.
ReportComplete ==
    report => \A r \in Rings : /\ taken[r] >= at_end[r]
                               /\ ~left => taken[r] = Len(made[r])
                               /\ \A i \in 1..taken[r] : made[r][i] = "sample"

\* No report is made from counters that shared the PMU for more than 1% of the run
\* ("refusing to compute it", main.cpp:873).
MuxHonest == report => \A e \in Events : 100 * contended[e] <= ticks

\* A target that moved between CPUs while its counters always counted is not refused: the
\* multiplexing halt means that some counter did not count (main.cpp:858-861).  Only for a
\* target that left a process behind may it mean less: that process ran while the rings were
\* read one by one, and the event's times are not those of one moment (main.cpp:821-823, 867).
NoFalseHalt ==
    halt = "multiplexed" =>
        \E e \in Events : \/ contended[e] > 0
                          \/ left /\ \E r \in RingsOf(e) : enabled[r] < enabled[LastRing(e)]

\* Success means a report of a target that itself succeeded; and no halt, failed call or
\* failed target hides behind exit code 0.
ExitCodeMeaning == exit = 0 => report /\ died = Exited(0)

\* The session is one of those Profile describes: it measures one run of the target from its
\* first instruction to its end, gives up no record, and its exit code is the target's own after
\* a report and not 0 otherwise, whatever happens in between.
ImplementsProfile == Promise!Spec

\* The profiler exits: it never waits for a target that waits for it.
Terminates == <>(exit # NoExit)
=============================================================================
