------------------------------- MODULE Latency -------------------------------
(***************************************************************************)
(* The tail-latency harness src/benchmarks/queue_latency.cpp: a producer   *)
(* that sends on a fixed schedule, a consumer that measures each item from *)
(* its scheduled time, and the percentiles main() computes of them.        *)
(*                                                                         *)
(* push() and pop() are those of spsc_queue.cpp: SpscQueue shows that they *)
(* implement a bounded queue, which is what queue is here.  Time is        *)
(* counted from the producer's reading of start_ns, and passes between any *)
(* two steps: a thread may be delayed anywhere.                            *)
(***************************************************************************)
EXTENDS Integers, Sequences, FiniteSets

CONSTANTS
    Capacity,       \* kCapacity
    kOps,
    kIntervalNs,
    MaxTime         \* bound: how long a run takes at most

ASSUME LatencyAssumption ==
    /\ Capacity \in Nat \ {0} /\ kOps \in Nat \ {0} /\ kIntervalNs \in Nat \ {0}
    /\ MaxTime \in Nat /\ MaxTime >= kOps * kIntervalNs

VARIABLES
    now,            \* what now_ns() returns
    start_flag,
    producer,       \* "start", "release", "wait", "push", "joined"
    i,              \* the producer's loop counter
    intended,       \* when the item it sends was due
    queue,          \* payloads: scheduled times
    consumer,       \* "start", "pop", "receive", "joined"
    intended_send,  \* what the consumer popped
    latencies_ns,   \* the latencies measured so far
    percentiles     \* what main() prints, or nothing yet

producerVars == <<start_flag, producer, i, intended>>
consumerVars == <<consumer, intended_send, latencies_ns>>
vars == <<now, producerVars, queue, consumerVars, percentiles>>

Init ==
    /\ now = 0 /\ start_flag = FALSE
    /\ producer = "start" /\ i = 0 /\ intended = 0
    /\ queue = << >>
    /\ consumer = "start" /\ intended_send = 0
    /\ latencies_ns = << >>
    /\ percentiles = << >>

-----------------------------------------------------------------------------
\* The clock is monotonic.
Tick ==
    /\ producer # "start" /\ now < MaxTime
    /\ now' = now + 1
    /\ UNCHANGED <<producerVars, queue, consumerVars, percentiles>>

ReadStart ==
    /\ producer = "start" /\ producer' = "release"
    /\ UNCHANGED <<now, start_flag, i, intended, queue, consumerVars, percentiles>>

Release ==
    /\ producer = "release" /\ producer' = "wait"
    /\ start_flag' = TRUE
    /\ UNCHANGED <<now, i, intended, queue, consumerVars, percentiles>>

ScheduleSlips == IF now > i * kIntervalNs THEN now ELSE i * kIntervalNs
                                            \* mutant: what is late is scheduled anew
\* start_ns + i * kIntervalNs, however long the items before took.
Schedule == i * kIntervalNs

DueAlways == TRUE                           \* mutant: does not wait
Due == now >= Schedule

\* The producer spins until it is time to send.
AwaitTime ==
    /\ producer = "wait" /\ Due
    /\ producer' = "push" /\ intended' = Schedule
    /\ UNCHANGED <<now, start_flag, i, queue, consumerVars, percentiles>>

\* push() waits while the queue is full.
Push ==
    /\ producer = "push" /\ Len(queue) < Capacity
    /\ queue' = Append(queue, intended)
    /\ i' = i + 1
    /\ producer' = IF i + 1 = kOps THEN "joined" ELSE "wait"
    /\ UNCHANGED <<now, start_flag, intended, consumerVars, percentiles>>

AwaitStart ==
    /\ consumer = "start" /\ start_flag /\ consumer' = "pop"
    /\ UNCHANGED <<now, producerVars, queue, intended_send, latencies_ns, percentiles>>

\* pop() waits while the queue is empty.
Pop ==
    /\ consumer = "pop" /\ queue # << >> /\ consumer' = "receive"
    /\ intended_send' = Head(queue) /\ queue' = Tail(queue)
    /\ UNCHANGED <<now, producerVars, latencies_ns, percentiles>>

LastItemTooLate == Len(latencies_ns) = kOps     \* mutant: one turn too many
LastItem == Len(latencies_ns) + 1 = kOps

Receive ==
    /\ consumer = "receive"
    /\ latencies_ns' = Append(latencies_ns, now - intended_send)
    /\ consumer' = IF LastItem THEN "joined" ELSE "pop"
    /\ UNCHANGED <<now, producerVars, queue, intended_send, percentiles>>

-----------------------------------------------------------------------------
(* compute_percentiles()                                                   *)

PerMille == {500, 990, 999}                 \* p50, p99 and p99.9, in thousandths

Smaller(a, b) == IF a < b THEN a ELSE b

\* latencies_ns[min(n - 1, q * n)] of the sorted vector, whose first index is 0.
RankFromOne(q) == Smaller(kOps - 1, (q * kOps) \div 1000 + 1)   \* mutant: counts from one
Rank(q) == Smaller(kOps - 1, (q * kOps) \div 1000)

\* What std::sort() puts no later than element j: what is smaller, and of equal ones those
\* in front of it.
UpTo(j) == {l \in 1..kOps : \/ latencies_ns[l] < latencies_ns[j]
                            \/ latencies_ns[l] = latencies_ns[j] /\ l <= j}
Place(j) == Cardinality(UpTo(j))
Sorted == [k \in 1..kOps |-> latencies_ns[CHOOSE j \in 1..kOps : Place(j) = k]]

Compute ==
    /\ producer = "joined" /\ consumer = "joined" /\ DOMAIN percentiles = {}
    /\ percentiles' = [q \in PerMille |-> Sorted[Rank(q) + 1]]
    /\ UNCHANGED <<now, producerVars, queue, consumerVars>>

Done == DOMAIN percentiles # {} /\ UNCHANGED vars

Produce == ReadStart \/ Release \/ AwaitTime \/ Push
Consume == AwaitStart \/ Pop \/ Receive

Next == Tick \/ Produce \/ Consume \/ Compute \/ Done

Spec == Init /\ [][Next]_vars

\* Time passes, and both threads run, each on a CPU of its own, and so does main().
FairSpec == Spec /\ WF_vars(Tick) /\ WF_vars(Produce) /\ WF_vars(Consume) /\ WF_vars(Compute)

-----------------------------------------------------------------------------
(* Properties.                                                             *)

\* Every variable has its type; in particular no latency is negative, as it would be if an
\* item was sent before its time.
TypeOK ==
    /\ now \in 0..MaxTime /\ start_flag \in BOOLEAN
    /\ producer \in {"start", "release", "wait", "push", "joined"} /\ i \in 0..kOps
    /\ intended \in Nat
    /\ queue \in Seq(Nat) /\ Len(queue) <= Capacity
    /\ consumer \in {"start", "pop", "receive", "joined"} /\ intended_send \in Nat
    /\ latencies_ns \in Seq(Nat) /\ Len(latencies_ns) <= kOps
    /\ DOMAIN percentiles \in {{}, PerMille}

\* No coordinated omission (queue_latency.cpp:6-17): after a stall of the consumer, of the
\* producer or of a full queue, the items that were due in the meantime are late by what is
\* left of it, so that latencies fall by no more than an interval from one item to the next.
StallsShow ==
    \A k \in DOMAIN latencies_ns :
        k > 1 => latencies_ns[k] + kIntervalNs >= latencies_ns[k - 1]

CountBelow(x) == Cardinality({k \in DOMAIN latencies_ns : latencies_ns[k] < x})
CountUpTo(x) == Cardinality({k \in DOMAIN latencies_ns : latencies_ns[k] <= x})

\* A printed percentile is one: more than the fraction q of the items took no longer, and at
\* most that fraction took less.
PercentilesRight ==
    DOMAIN percentiles # {} => \A q \in PerMille :
        /\ 1000 * CountUpTo(percentiles[q]) > q * kOps
        /\ 1000 * CountBelow(percentiles[q]) <= q * kOps

\* All items are measured and the percentiles computed, though the queue may be full or empty.
AllMeasured == <>(DOMAIN percentiles # {})
=============================================================================
