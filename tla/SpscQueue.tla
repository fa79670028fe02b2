------------------------------ MODULE SpscQueue ------------------------------
(***************************************************************************)
(* The bounded queue of src/benchmarks/spsc_queue.cpp with its producer    *)
(* and its consumer.  Whether a cell may be written or read is decided by  *)
(* the sequence number in the cell alone; tail belongs to the producer and *)
(* head to the consumer, and neither reads the other's.                    *)
(*                                                                         *)
(* One action per access to a cell.  The accesses interleave under         *)
(* sequential consistency: a cell's data is ordered by the acquire loads   *)
(* and release stores of its sequence number, provided the two threads     *)
(* never access it at once, which is the property NoDataRace.  Positions   *)
(* do not wrap: the program's are 64 bits wide.                            *)
(***************************************************************************)
EXTENDS Naturals, Sequences

CONSTANTS
    Capacity,       \* kCapacity: with one cell, published and free look the same
    TotalItems      \* kTotalItems

ASSUME QueueAssumption == Capacity \in Nat \ {0, 1} /\ TotalItems \in Nat

VARIABLES
    sequence, data, \* the cells
    tail, head,
    ppc,            \* the producer: "wait", "write", "publish", "store_tail", "done"
    cpc,            \* the consumer: "wait", "read", "free", "store_head", "done"
    value,          \* what the consumer read
    checksum,
    got             \* values taken out of their cells so far (history, read by no step)

cells == <<sequence, data>>
producer == <<tail, ppc>>
consumer == <<head, cpc, value, checksum, got>>
vars == <<cells, producer, consumer>>

\* pos & kMask: the capacity is a power of two.
Slot(pos) == pos % Capacity
Slots == 0..(Capacity - 1)

Init ==
    /\ sequence = [s \in Slots |-> s]
    /\ data = [s \in Slots |-> 0]
    /\ tail = 0 /\ head = 0
    /\ ppc = IF TotalItems = 0 THEN "done" ELSE "wait"
    /\ cpc = IF TotalItems = 0 THEN "done" ELSE "wait"
    /\ value = 0 /\ checksum = 0 /\ got = << >>

-----------------------------------------------------------------------------
(* push(tail): item i goes to position i.                                  *)

WritableIfNotAhead(pos) == sequence[Slot(pos)] <= pos       \* mutant: waits for less
Writable(pos) == sequence[Slot(pos)] = pos

PushWait ==
    /\ ppc = "wait" /\ Writable(tail)
    /\ ppc' = "write"
    /\ UNCHANGED <<cells, tail, consumer>>

PushWrite ==
    /\ ppc = "write"
    /\ data' = [data EXCEPT ![Slot(tail)] = tail]
    /\ ppc' = "publish"
    /\ UNCHANGED <<sequence, tail, consumer>>

PushPublish ==
    /\ ppc = "publish"
    /\ sequence' = [sequence EXCEPT ![Slot(tail)] = tail + 1]
    /\ ppc' = "store_tail"
    /\ UNCHANGED <<data, tail, consumer>>

LastTooLate(i) == i = TotalItems            \* mutant: i <= kTotalItems
Last(i) == i + 1 = TotalItems

StoreTail ==
    /\ ppc = "store_tail"
    /\ tail' = tail + 1
    /\ ppc' = IF Last(tail) THEN "done" ELSE "wait"
    /\ UNCHANGED <<cells, consumer>>

-----------------------------------------------------------------------------
(* pop()                                                                   *)

ReadableOnceFree(pos) == sequence[Slot(pos)] >= pos         \* mutant: waits for less
Readable(pos) == sequence[Slot(pos)] = pos + 1

PopWait ==
    /\ cpc = "wait" /\ Readable(head)
    /\ cpc' = "read"
    /\ UNCHANGED <<cells, producer, head, value, checksum, got>>

PopRead ==
    /\ cpc = "read"
    /\ value' = data[Slot(head)]
    /\ cpc' = "free"
    /\ UNCHANGED <<cells, producer, head, checksum, got>>

FreedSequenceByMask(pos) == pos + (Capacity - 1)            \* mutant: kMask for kCapacity
FreedSequence(pos) == pos + Capacity

PopFree ==
    /\ cpc = "free"
    /\ sequence' = [sequence EXCEPT ![Slot(head)] = FreedSequence(head)]
    /\ got' = Append(got, value)
    /\ cpc' = "store_head"
    /\ UNCHANGED <<data, producer, head, value, checksum>>

StoreHead ==
    /\ cpc = "store_head"
    /\ head' = head + 1
    /\ checksum' = checksum + value
    /\ cpc' = IF Last(head) THEN "done" ELSE "wait"
    /\ UNCHANGED <<cells, producer, value, got>>

-----------------------------------------------------------------------------
Producer == PushWait \/ PushWrite \/ PushPublish \/ StoreTail
Consumer == PopWait \/ PopRead \/ PopFree \/ StoreHead

\* main() joins both threads.
Joined == ppc = "done" /\ cpc = "done" /\ UNCHANGED vars

Next == Producer \/ Consumer \/ Joined

Spec == Init /\ [][Next]_vars

\* Both threads are pinned to CPUs of their own and spin without blocking.
FairSpec == Spec /\ WF_vars(Producer) /\ WF_vars(Consumer)

-----------------------------------------------------------------------------
(* Properties.                                                             *)

\* Every variable has its type.
TypeOK ==
    /\ sequence \in [Slots -> Nat] /\ data \in [Slots -> Nat]
    /\ tail \in 0..TotalItems /\ head \in 0..TotalItems
    /\ ppc \in {"wait", "write", "publish", "store_tail", "done"}
    /\ cpc \in {"wait", "read", "free", "store_head", "done"}
    /\ value \in Nat /\ checksum \in Nat /\ got \in Seq(Nat)

\* The producer never writes the cell the consumer is reading: data is not atomic.
NoDataRace == ~(ppc = "write" /\ cpc = "read" /\ Slot(tail) = Slot(head))

\* The two threads never wait for each other.
NeverStuck == (ppc = "wait" /\ cpc = "wait") => Writable(tail) \/ Readable(head)

\* When the consumer is done its checksum is the one main() expects (spsc_queue.cpp:221-227),
\* so that the program returns 0.
ChecksumExact == cpc = "done" => 2 * checksum + TotalItems = TotalItems * TotalItems

\* Where the queue begins and ends once a cell is freed or published.
Freed == IF cpc = "store_head" THEN head + 1 ELSE head
Published == IF ppc = "store_tail" THEN tail + 1 ELSE tail

\* The two threads implement the bounded first-in first-out queue.
Fifo == INSTANCE BoundedQueue WITH
    sent  <- Published,
    queue <- [i \in 1..(Published - Freed) |-> data[Slot(Freed + i - 1)]]
ImplementsQueue == Fifo!Spec

\* Every item is pushed and popped, and both threads end.
AllConsumed == <>(ppc = "done" /\ cpc = "done")
=============================================================================
