------------------------------ MODULE MpmcQueue ------------------------------
(***************************************************************************)
(* The bounded queue of src/benchmarks/mpmc_queue.cpp with its producers   *)
(* and consumers.  A position is reserved by a compare-exchange on         *)
(* enqueue_pos or dequeue_pos; the sequence number of its cell, read       *)
(* before, says whether the cell is ready for it.                          *)
(*                                                                         *)
(* push() and pop() have the same shape, so one action stands for the same *)
(* step of both.  One action per access to shared memory; the accesses     *)
(* interleave under sequential consistency: a cell's data is ordered by    *)
(* the acquire loads and release stores of its sequence number, provided   *)
(* no two threads access it at once, which is the property NoDataRace, and *)
(* a stale position makes the compare-exchange fail.  compare_exchange_weak *)
(* does not fail spuriously on x86, which the pause instructions require.  *)
(* Positions do not wrap: the program's are 64 bits wide.                  *)
(***************************************************************************)
EXTENDS Naturals, Sequences, FiniteSetsExt

CONSTANTS
    Capacity,       \* kCapacity: with one cell, published and free look the same
    NProducers,     \* kProducers
    NConsumers,     \* kConsumers
    TotalItems      \* kTotalItems

\* The remainders are static_asserts of the program.
ASSUME QueueAssumption ==
    /\ Capacity \in Nat \ {0, 1}
    /\ NProducers \in Nat \ {0} /\ NConsumers \in Nat \ {0} /\ TotalItems \in Nat \ {0}
    /\ TotalItems % NProducers = 0 /\ TotalItems % NConsumers = 0

\* A thread is named by the CPU it is pinned to.
Producers == 0..(NProducers - 1)
Consumers == NProducers..(NProducers + NConsumers - 1)
Threads == Producers \cup Consumers

PerProducer == TotalItems \div NProducers
PerConsumer == TotalItems \div NConsumers
Quota(t) == IF t \in Producers THEN PerProducer ELSE PerConsumer

VARIABLES
    sequence, data, \* the cells
    enqueue_pos, dequeue_pos,
    pc,             \* thread -> "load", "seq", "cas", "access", "release", "done"
    pos,            \* thread -> the position it tries for, or has reserved
    count,          \* thread -> items pushed or popped
    value,          \* consumer -> what it read
    checksum,       \* consumer -> its partial sum
    items,          \* the item of each reserved position (history, read by no step)
    got             \* consumer -> the items it read (history, read by no step)

cells == <<sequence, data>>
positions == <<enqueue_pos, dequeue_pos>>
history == <<items, got>>
vars == <<cells, positions, pc, pos, count, value, checksum, history>>

\* pos & kMask: the capacity is a power of two.
Slot(p) == p % Capacity
Slots == 0..(Capacity - 1)

Init ==
    /\ sequence = [s \in Slots |-> s]
    /\ data = [s \in Slots |-> 0]
    /\ enqueue_pos = 0 /\ dequeue_pos = 0
    /\ pc = [t \in Threads |-> "load"]
    /\ pos = [t \in Threads |-> 0]
    /\ count = [t \in Threads |-> 0]
    /\ value = [c \in Consumers |-> 0]
    /\ checksum = [c \in Consumers |-> 0]
    /\ items = << >>
    /\ got = [c \in Consumers |-> << >>]

Step(t, from, to) == pc[t] = from /\ pc' = [pc EXCEPT ![t] = to]

-----------------------------------------------------------------------------
\* Producers reserve in one order, consumers in another.
Shared(t) == IF t \in Producers THEN enqueue_pos ELSE dequeue_pos

LoadPos(t) ==
    /\ Step(t, "load", "seq")
    /\ pos' = [pos EXCEPT ![t] = Shared(t)]
    /\ UNCHANGED <<cells, positions, count, value, checksum, history>>

\* The sequence number of a cell that is ready for the thread: freed, or published.
Turn(t) == IF t \in Producers THEN pos[t] ELSE pos[t] + 1

ReadyIfNotAhead(t) == sequence[Slot(pos[t])] <= Turn(t)     \* mutant: full is not told apart
Ready(t) == sequence[Slot(pos[t])] = Turn(t)

RetryAtOnce(t) == IF sequence[Slot(pos[t])] < Turn(t) THEN "load" ELSE "seq"
                                    \* mutant: does not load the position again when it is behind
Retry(t) == "load"

\* Ready: try to reserve.  Else the queue is full or empty, or another thread was faster.
LoadSeq(t) ==
    /\ pc[t] = "seq"
    /\ IF Ready(t) THEN Step(t, "seq", "cas") ELSE Step(t, "seq", Retry(t))
    /\ UNCHANGED <<cells, positions, pos, count, value, checksum, history>>

ReservesAlways(t) == TRUE                                   \* mutant: a store, no compare
Reserves(t) == Shared(t) = pos[t]

ItemWithoutBase(t) == count[t]                              \* mutant: every range begins at 0
Item(t) == t * PerProducer + count[t]

\* compare_exchange_weak(pos, pos + 1): a failure leaves the present position in pos.
Reserve(t) ==
    /\ pc[t] = "cas"
    /\ IF Reserves(t)
         THEN /\ Step(t, "cas", "access")
              /\ IF t \in Producers
                   THEN /\ enqueue_pos' = pos[t] + 1
                        /\ items' = Append(items, Item(t))
                        /\ UNCHANGED dequeue_pos
                   ELSE dequeue_pos' = pos[t] + 1 /\ UNCHANGED <<enqueue_pos, items>>
              /\ UNCHANGED pos
         ELSE /\ Step(t, "cas", "seq")
              /\ pos' = [pos EXCEPT ![t] = Shared(t)]
              /\ UNCHANGED <<positions, items>>
    /\ UNCHANGED <<cells, count, value, checksum, got>>

WriteData(t) ==
    /\ t \in Producers /\ Step(t, "access", "release")
    /\ data' = [data EXCEPT ![Slot(pos[t])] = Item(t)]
    /\ UNCHANGED <<sequence, positions, pos, count, value, checksum, history>>

ReadData(t) ==
    /\ t \in Consumers /\ Step(t, "access", "release")
    /\ value' = [value EXCEPT ![t] = data[Slot(pos[t])]]
    /\ got' = [got EXCEPT ![t] = Append(@, data[Slot(pos[t])])]
    /\ UNCHANGED <<cells, positions, pos, count, checksum, items>>

\* A written cell is published, a read one freed for the next lap.
ReleasedByMask(t) == pos[t] + (IF t \in Producers THEN 1 ELSE Capacity - 1)
                                                            \* mutant: kMask for kCapacity
Released(t) == pos[t] + (IF t \in Producers THEN 1 ELSE Capacity)

LastTooLate(t) == count[t] = Quota(t)                       \* mutant: i <= hi
Last(t) == count[t] + 1 = Quota(t)

\* The store that hands the cell over; the call returns, and the thread's loop goes on.
Release(t) ==
    /\ Step(t, "release", IF Last(t) THEN "done" ELSE "load")
    /\ sequence' = [sequence EXCEPT ![Slot(pos[t])] = Released(t)]
    /\ count' = [count EXCEPT ![t] = @ + 1]
    /\ checksum' = [c \in Consumers |-> checksum[c] + (IF c = t THEN value[c] ELSE 0)]
    /\ UNCHANGED <<data, positions, pos, value, history>>

-----------------------------------------------------------------------------
Run(t) == LoadPos(t) \/ LoadSeq(t) \/ Reserve(t) \/ WriteData(t) \/ ReadData(t) \/ Release(t)

AllDone == \A t \in Threads : pc[t] = "done"

\* main() joins all threads.
Joined == AllDone /\ UNCHANGED vars

Next == (\E t \in Threads : Run(t)) \/ Joined

Spec == Init /\ [][Next]_vars

\* Every thread is pinned to a CPU of its own and spins without blocking.
FairSpec == Spec /\ \A t \in Threads : WF_vars(Run(t))

\* The same, but the first producer may be stopped anywhere.
StallSpec == Spec /\ \A t \in Threads \ {0} : WF_vars(Run(t))

-----------------------------------------------------------------------------
(* Properties.                                                             *)

\* Every variable has its type.
TypeOK ==
    /\ sequence \in [Slots -> Nat] /\ data \in [Slots -> Nat]
    /\ enqueue_pos \in 0..TotalItems /\ dequeue_pos \in 0..TotalItems
    /\ pc \in [Threads -> {"load", "seq", "cas", "access", "release", "done"}]
    /\ pos \in [Threads -> 0..TotalItems]
    /\ \A t \in Threads : count[t] \in 0..Quota(t)
    /\ value \in [Consumers -> Nat] /\ checksum \in [Consumers -> Nat]
    /\ items \in Seq(Nat) /\ got \in [Consumers -> Seq(Nat)]

\* No two threads access a cell at once, reading or writing: its data is not atomic, and
\* the lap it belongs to is known from the sequence number alone.
NoDataRace ==
    \A t, u \in Threads :
        t # u /\ pc[t] = "access" /\ pc[u] = "access" => Slot(pos[t]) # Slot(pos[u])

\* When every thread is joined the partial sums add up to what main() expects
\* (mpmc_queue.cpp:174-185), so that the program returns 0.
ChecksumExact ==
    AllDone => 2 * MapThenSumSet(LAMBDA c : checksum[c], Consumers) + TotalItems
                 = TotalItems * TotalItems

\* The threads implement the shared first-in first-out queue: a push takes effect when its
\* position is reserved, a pop likewise, and the item a consumer then reads is the one that
\* was put in there.
Fifo == INSTANCE SharedQueue WITH
    sent  <- [p \in Producers |-> count[p] + (IF pc[p] \in {"access", "release"} THEN 1 ELSE 0)],
    queue <- SubSeq(items, dequeue_pos + 1, enqueue_pos),
    got   <- [c \in Consumers |->
                 IF pc[c] = "access" THEN Append(got[c], items[pos[c] + 1]) ELSE got[c]]
ImplementsQueue == Fifo!Spec

\* Every item is pushed and popped, and every thread ends.
AllConsumed == <>AllDone

\* "bounded lock-free MPMC queue" (mpmc_queue.cpp:1): wherever one producer is stopped, an
\* item another one published is taken out by the consumers, which go on.
Published(p) == sequence[Slot(p)] = p + 1
LockFree == \A p \in 0..(TotalItems - 1) : Published(p) ~> dequeue_pos > p
=============================================================================
