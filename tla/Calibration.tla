----------------------------- MODULE Calibration -----------------------------
(***************************************************************************)
(* How src/src/main.cpp chooses the two sampling periods: the rates of a   *)
(* counting run, a target rate of 60% of the kernel's limit, and the prime *)
(* nearest to their ratio.  Session has the control of the counting run;   *)
(* this module has its arithmetic.                                         *)
(*                                                                         *)
(* Time is measured in counting runs: this one takes one unit, during      *)
(* which all of the target's threads run.  The counters are inherited, so  *)
(* the kernel (external) adds up over the threads what they counted, and   *)
(* the time they ran.  Rates are ratios of integers; the program's doubles *)
(* are exact enough for counts below 2^53.                                 *)
(***************************************************************************)
EXTENDS Naturals

CONSTANTS
    MaxRate,        \* perf_event_max_sample_rate, in samples per unit of time
    Threads,        \* threads of the target
    MaxValue        \* bound: events counted

ASSUME CalibrationAssumption ==
    /\ MaxRate \in Nat \ {0}
    /\ Threads \in Nat \ {0}
    /\ MaxValue \in Nat

Events == {0, 1}                \* "miss" and "access"

VARIABLES
    pc,             \* "count", "plan", "search", "done"
    value,          \* event -> events counted
    event,          \* the event whose period is being chosen
    lo, hi,         \* nearest_prime(): the numbers in between were tried
    period          \* event -> its sampling period

vars == <<pc, value, event, lo, hi, period>>

Init ==
    /\ pc = "count"
    /\ value = [e \in Events |-> 0]
    /\ event = 0
    /\ lo = 0 /\ hi = 0
    /\ period = [e \in Events |-> 0]

-----------------------------------------------------------------------------
\* calibrate_both(): both counters are read once the target is reaped.
Count ==
    /\ pc = "count"
    /\ value' \in [Events -> 0..MaxValue]
    /\ pc' = "plan"
    /\ UNCHANGED <<event, lo, hi, period>>

\* rate / target_rate is 5 * value over this: rate is value / time_running, and the target
\* rate is 0.60 * max_rate.
time_running == Threads
Unit == 3 * MaxRate * time_running

RawTruncated(v) == (5 * v) \div Unit        \* mutant: not rounded
\* rate / target_rate + 0.5, truncated.
Raw(v) == (10 * v + Unit) \div (2 * Unit)

ClampNone(n) == n                           \* mutant: 0 and 1 are searched from as they are
Clamp(n) == IF n < 2 THEN 2 ELSE n

\* The call nearest_prime(raw) begins.
Plan ==
    /\ pc = "plan"
    /\ lo' = Clamp(Raw(value[event])) /\ hi' = Clamp(Raw(value[event]))
    /\ pc' = "search"
    /\ UNCHANGED <<value, event, period>>

is_primeBelowRoot(v) ==                     \* mutant: i * i < v
    v >= 2 /\ IF v % 2 = 0 THEN v = 2
              ELSE \A i \in 3..v : i % 2 = 1 /\ i * i < v => v % i # 0

\* Trial division by 2 and by the odd numbers up to the square root.
is_prime(v) ==
    v >= 2 /\ IF v % 2 = 0 THEN v = 2
              ELSE \A i \in 3..v : i % 2 = 1 /\ i * i <= v => v % i # 0

\* nearest_prime() returns p; on to the next event.
Return(p) ==
    /\ period' = [period EXCEPT ![event] = p]
    /\ pc' = IF event = 1 THEN "done" ELSE "plan"
    /\ event' = IF event = 1 THEN event ELSE event + 1
    /\ UNCHANGED <<value, lo, hi>>

\* One turn of nearest_prime()'s loop: first upwards, then downwards.
Search ==
    /\ pc = "search"
    /\ IF is_prime(hi) THEN Return(hi)
       ELSE IF lo > 2 /\ is_prime(lo) THEN Return(lo)
       ELSE /\ hi' = hi + 1
            /\ lo' = IF lo > 2 THEN lo - 1 ELSE lo
            /\ UNCHANGED <<pc, value, event, period>>

Done == pc = "done" /\ UNCHANGED vars

Next == Count \/ Plan \/ Search \/ Done

Spec == Init /\ [][Next]_vars

-----------------------------------------------------------------------------
(* Properties.                                                             *)

\* Every variable has its type, and the search never leaves the numbers from 2 upwards.
TypeOK ==
    /\ pc \in {"count", "plan", "search", "done"}
    /\ value \in [Events -> 0..MaxValue] /\ event \in Events
    /\ lo \in Nat /\ hi \in Nat
    /\ pc = "search" => 2 <= lo /\ lo <= hi
    /\ period \in [Events -> Nat]

\* The definition of a prime, which trial division and search are measured against.
Prime(p) == p \in Nat /\ p >= 2 /\ \A d \in 2..(p - 1) : p % d # 0

Distance(a, b) == IF a < b THEN b - a ELSE a - b

\* p is a prime, and no prime is nearer to n.
NearestPrime(p, n) ==
    Prime(p) /\ \A q \in 0..(2 * n + 2) : Prime(q) => Distance(p, n) <= Distance(q, n)

\* n is within a half of rate / target_rate.
Rounds(n, v) == 2 * Distance(5 * v, Unit * n) <= Unit

\* The chosen periods are the primes nearest to the rounded ratio of rate and target rate, at
\* the lower end of the numbers too (nearest_prime, main.cpp:444).
PeriodsNearest ==
    pc = "done" => \A e \in Events : \E n \in 0..(5 * MaxValue + 1) :
                       Rounds(n, value[e]) /\ NearestPrime(period[e], Clamp(n))

\* The events of the whole target, sampled at these periods, make no more samples than the
\* 77% of the kernel's limit that main.cpp:728-731 knows to be reliable, rounding included.
\* main.cpp:26-28 says that the rings together sample at "exactly `target_rate` in aggregate".
AggregateRateKept ==
    pc = "done" => \A e \in Events : 100 * value[e] <= 77 * MaxRate * period[e]
=============================================================================
