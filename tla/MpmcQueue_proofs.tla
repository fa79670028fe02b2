-------------------------- MODULE MpmcQueue_proofs --------------------------
(***************************************************************************)
(* Proofs about MpmcQueue, for every capacity of at least two cells and    *)
(* any numbers of producers, consumers and items.  Inv is the inductive    *)
(* invariant.  The positions held by threads and the two shared ones       *)
(* decide every cell's sequence number; a thread that saw its cell ready   *)
(* knows that it still is, for as long as the position is not taken.       *)
(***************************************************************************)
EXTENDS MpmcQueue, Arithmetic, SequenceTheorems, FiniteSetTheorems

\* The types, without the bounds on positions that need Origins.
Shape ==
    /\ sequence \in [Slots -> Nat] /\ data \in [Slots -> Nat]
    /\ enqueue_pos \in Nat /\ dequeue_pos \in Nat
    /\ pc \in [Threads -> {"load", "seq", "cas", "access", "release", "done"}]
    /\ pos \in [Threads -> Nat] /\ count \in [Threads -> Nat]
    /\ value \in [Consumers -> Nat] /\ checksum \in [Consumers -> Nat]
    /\ items \in Seq(Nat) /\ got \in [Consumers -> Seq(Nat)]

\* Thread t has reserved pos[t] and not released its cell.
Holds(t) == pc[t] \in {"access", "release"}
WriterAt(p) == \E t \in Producers : Holds(t) /\ pos[t] = p
ReaderAt(p) == \E c \in Consumers : Holds(c) /\ pos[c] = p

\* The queue never holds more than its capacity, and no thread is ahead of the shared position.
Order == /\ dequeue_pos <= enqueue_pos /\ enqueue_pos <= dequeue_pos + Capacity
         /\ Len(items) = enqueue_pos
         /\ \A t \in Producers : pos[t] <= enqueue_pos
         /\ \A c \in Consumers : pos[c] <= dequeue_pos

\* Consumers pass only what is published, producers only what is freed; each position is
\* held by one thread.
Reservations ==
    /\ \A t \in Producers : Holds(t) => dequeue_pos <= pos[t] /\ pos[t] < enqueue_pos
    /\ \A c \in Consumers : Holds(c) => enqueue_pos <= pos[c] + Capacity /\ pos[c] < dequeue_pos
    /\ \A t, u \in Threads : t # u /\ Holds(t) /\ Holds(u) => pos[t] # pos[u]

\* A producer's cell is not published yet.
Pending ==
    \A t \in Producers : Holds(t) =>
        /\ sequence[Slot(pos[t])] = pos[t]
        /\ items[pos[t] + 1] = Item(t)
        /\ pc[t] = "release" => data[Slot(pos[t])] = items[pos[t] + 1]

\* A consumer's cell is published and not freed yet.
Taken ==
    \A c \in Consumers : Holds(c) =>
        sequence[Slot(pos[c])] = pos[c] + 1 /\ data[Slot(pos[c])] = items[pos[c] + 1]

\* A published position's cell says so, and holds its item.
Occupied ==
    \A p \in Nat : dequeue_pos <= p /\ p < enqueue_pos /\ ~WriterAt(p) =>
        sequence[Slot(p)] = p + 1 /\ data[Slot(p)] = items[p + 1]

\* A free position's cell waits for exactly that position.
Vacant ==
    \A p \in Nat :
        enqueue_pos <= p /\ p < dequeue_pos + Capacity
            /\ (\A c \in Consumers : Holds(c) => pos[c] + Capacity # p)
        => sequence[Slot(p)] = p

\* What a thread knows between reading the sequence number and its compare-exchange.
Ahead ==
    /\ \A t \in Producers : pc[t] = "cas" /\ pos[t] = enqueue_pos =>
           /\ enqueue_pos < dequeue_pos + Capacity
           /\ \A c \in Consumers : Holds(c) => pos[c] + Capacity # enqueue_pos
    /\ \A c \in Consumers : pc[c] = "cas" /\ pos[c] = dequeue_pos =>
           dequeue_pos < enqueue_pos /\ ~WriterAt(dequeue_pos)

\* Each thread moves its share of the items.
Moved(t) == count[t] + (IF Holds(t) THEN 1 ELSE 0)
Shares ==
    /\ \A t \in Threads : /\ pc[t] # "done" => count[t] < Quota(t)
                          /\ pc[t] = "done" => count[t] = Quota(t)
    /\ \A c \in Consumers : Len(got[c]) = count[c] + (IF pc[c] = "release" THEN 1 ELSE 0)

\* Every item that was put in is one of a producer's range, and no other is the same.
Origins ==
    /\ \A i \in 1..enqueue_pos : \E t \in Producers :
           t * PerProducer <= items[i] /\ items[i] < t * PerProducer + Moved(t)
    /\ \A i, j \in 1..enqueue_pos : i # j => items[i] # items[j]

Inv == /\ Shape /\ Order /\ Reservations /\ Pending /\ Taken /\ Occupied /\ Vacant /\ Ahead
       /\ Shares /\ Origins

-----------------------------------------------------------------------------
\* The constants, in the form the provers use.
LEMMA Constants ==
    /\ Capacity \in Nat \ {0, 1} /\ PerProducer \in Nat \ {0} /\ PerConsumer \in Nat \ {0}
    /\ NProducers \in Nat \ {0} /\ NConsumers \in Nat \ {0} /\ TotalItems \in Nat
    /\ NProducers * PerProducer = TotalItems
    /\ \A t \in Threads : t \in Nat /\ Quota(t) \in Nat \ {0}
    /\ \A t \in Producers : t \in Threads /\ t < NProducers /\ Quota(t) = PerProducer
    /\ \A c \in Consumers : c \in Threads /\ c \notin Producers /\ Quota(c) = PerConsumer
    /\ \A t \in Threads : t \notin Producers => t \in Consumers
<1>1. /\ Capacity \in Nat \ {0, 1} /\ NProducers \in Nat \ {0} /\ NConsumers \in Nat \ {0}
      /\ TotalItems \in Nat \ {0}
  BY QueueAssumption
<1>2. PerProducer \in Nat /\ TotalItems = NProducers * PerProducer
  BY <1>1, QueueAssumption, DivMod DEF PerProducer
<1>3. PerConsumer \in Nat /\ TotalItems = NConsumers * PerConsumer
  BY <1>1, QueueAssumption, DivMod DEF PerConsumer
<1>4. PerProducer # 0
  BY <1>1, <1>2
<1>5. PerConsumer # 0
  BY <1>1, <1>3
<1>6. \A t \in Threads : t \in Nat
  BY <1>1 DEF Threads, Producers, Consumers
<1>7. \A t \in Producers : t \in Threads /\ t < NProducers
  BY <1>1 DEF Threads, Producers
<1>8. \A c \in Consumers : c \in Threads /\ c \notin Producers
  BY <1>1 DEF Threads, Producers, Consumers
<1>9. \A t \in Threads : t \notin Producers => t \in Consumers
  BY DEF Threads
<1> QED
  BY <1>1, <1>2, <1>3, <1>4, <1>5, <1>6, <1>7, <1>8, <1>9 DEF Quota

\* A position has a cell.
LEMMA SlotIn == ASSUME NEW p \in Nat PROVE Slot(p) \in Slots
  BY QueueAssumption, DivMod DEF Slot, Slots

\* Positions less than a lap apart have different cells.
LEMMA SlotsDiffer ==
    ASSUME NEW p \in Nat, NEW q \in Nat, p # q, q < p + Capacity, p < q + Capacity
    PROVE  Slot(p) # Slot(q)
<1>1. Capacity \in Nat \ {0}
  BY QueueAssumption
<1>2. CASE p < q
  <2>1. q - p < Capacity
    BY <1>1, <1>2
  <2>2. p % Capacity # q % Capacity
    BY <1>1, <1>2, <2>1, ModInj
  <2> QED
    BY <2>2 DEF Slot
<1>3. CASE q < p
  <2>1. p - q < Capacity
    BY <1>1, <1>3
  <2>2. q % Capacity # p % Capacity
    BY <1>1, <1>3, <2>1, ModInj
  <2> QED
    BY <2>2 DEF Slot
<1> QED
  BY <1>2, <1>3

\* Positions a lap apart have the same cell.
LEMMA SlotLap == ASSUME NEW p \in Nat PROVE Slot(p + Capacity) = Slot(p)
<1>1. Capacity \in Nat \ {0}
  BY QueueAssumption
<1>2. PICK q \in Nat : p = Capacity * q + (p % Capacity)
  BY <1>1, DivMod
<1>3. p % Capacity \in 0..(Capacity - 1)
  BY <1>1, DivMod
<1>4. p + Capacity = Capacity * (q + 1) + (p % Capacity)
  BY <1>1, <1>2, <1>3
<1>5. p + Capacity \in Nat /\ q + 1 \in Nat
  BY <1>1
<1> QED
  BY <1>1, <1>3, <1>4, <1>5, ModIs DEF Slot

\* The range of a later producer begins where that of an earlier one has ended.
LEMMA RangesApart ==
    ASSUME NEW d \in Nat \ {0}, NEW x \in Nat, NEW y \in Nat, x < y,
           NEW a \in Nat, NEW b \in Nat, a < x * d + d, y * d <= b
    PROVE  a # b
<1>1. d * x + d <= d * y
  BY Mult
<1>2. d * x = x * d /\ d * y = y * d /\ x * d \in Nat /\ y * d \in Nat
  OBVIOUS
<1> QED
  BY <1>1, <1>2

\* A step moves one thread's program counter.
LEMMA StepMoves ==
    ASSUME Shape, NEW t \in Threads, NEW from, NEW to, Step(t, from, to)
    PROVE  /\ pc[t] = from /\ pc'[t] = to
           /\ \A u \in Threads : u # t => pc'[u] = pc[u]
  BY DEF Shape, Step

-----------------------------------------------------------------------------
\* The invariant holds after queue_init(), when no thread has started.
LEMMA InitInv == Init => Inv
<1> SUFFICES ASSUME Init PROVE Inv
  OBVIOUS
<1>1. Shape
  BY Constants DEF Init, Shape, Slots
<1>2. \A t \in Threads : ~Holds(t) /\ pc[t] = "load" /\ pos[t] = 0 /\ count[t] = 0
  BY DEF Init, Holds
<1>3. Order /\ Reservations /\ Pending /\ Taken /\ Ahead
  BY <1>1, <1>2, Constants DEF Init, Order, Reservations, Pending, Taken, Ahead
<1>4. Occupied
  BY DEF Init, Occupied
<1>5. Vacant
  <2> SUFFICES ASSUME NEW p \in Nat, p < Capacity PROVE sequence[Slot(p)] = p
    BY Constants DEF Init, Vacant
  <2>1. Capacity * 0 = 0 /\ p \in 0..(Capacity - 1) /\ p = Capacity * 0 + p
    BY Constants
  <2>2. Slot(p) = p
    BY <2>1, Constants, ModIs DEF Slot
  <2> QED
    BY <2>1, <2>2 DEF Init, Slots
<1>6. Shares
  BY <1>2, Constants DEF Init, Shares
<1>7. Origins
  BY DEF Init, Origins
<1> QED
  BY <1>1, <1>3, <1>4, <1>5, <1>6, <1>7 DEF Inv

\* A producer that finds the cell of the next position ready may have it: the position a lap
\* before was published, taken and freed (mpmc_queue.cpp:92-97).
LEMMA ReadyIsFree ==
    ASSUME Inv, NEW t \in Producers, Ready(t), pos[t] = enqueue_pos
    PROVE  /\ enqueue_pos < dequeue_pos + Capacity
           /\ \A c \in Consumers : Holds(c) => pos[c] + Capacity # enqueue_pos
<1>1. /\ Capacity \in Nat \ {0, 1} /\ enqueue_pos \in Nat /\ dequeue_pos \in Nat
      /\ dequeue_pos <= enqueue_pos /\ enqueue_pos <= dequeue_pos + Capacity
      /\ \A c \in Threads : pos[c] \in Nat
  BY Constants DEF Inv, Shape, Order
<1>2. sequence[Slot(enqueue_pos)] = enqueue_pos
  BY DEF Ready, Turn
<1>3. ASSUME enqueue_pos = dequeue_pos + Capacity PROVE FALSE
  <2>1. Slot(enqueue_pos) = Slot(dequeue_pos)
    BY <1>1, <1>3, SlotLap
  <2>2. CASE WriterAt(dequeue_pos)
    BY <1>1, <1>2, <1>3, <2>1, <2>2 DEF WriterAt, Inv, Pending
  <2>3. CASE ~WriterAt(dequeue_pos)
    BY <1>1, <1>2, <1>3, <2>1, <2>3 DEF Inv, Occupied
  <2> QED
    BY <2>2, <2>3
<1>4. ASSUME NEW c \in Consumers, Holds(c), pos[c] + Capacity = enqueue_pos PROVE FALSE
  <2>1. pos[c] \in Nat
    BY <1>1, Constants
  <2>2. Slot(enqueue_pos) = Slot(pos[c])
    BY <1>4, <2>1, SlotLap
  <2>3. sequence[Slot(pos[c])] = pos[c] + 1
    BY <1>4 DEF Inv, Taken
  <2> QED
    BY <1>1, <1>2, <1>4, <2>1, <2>2, <2>3
<1> QED
  BY <1>1, <1>3, <1>4

\* A consumer that finds the cell of the next position ready may have it: it is published
\* (mpmc_queue.cpp:114-118).
LEMMA ReadyIsPublished ==
    ASSUME Inv, NEW c \in Consumers, Ready(c), pos[c] = dequeue_pos
    PROVE  dequeue_pos < enqueue_pos /\ ~WriterAt(dequeue_pos)
<1>1. /\ Capacity \in Nat \ {0, 1} /\ enqueue_pos \in Nat /\ dequeue_pos \in Nat
      /\ dequeue_pos <= enqueue_pos
      /\ \A t \in Threads : pos[t] \in Nat
      /\ c \notin Producers
  BY Constants DEF Inv, Shape, Order
<1>2. sequence[Slot(dequeue_pos)] = dequeue_pos + 1
  BY <1>1 DEF Ready, Turn
<1>3. ASSUME dequeue_pos = enqueue_pos PROVE FALSE
  <2>1. CASE \E d \in Consumers : Holds(d) /\ pos[d] + Capacity = enqueue_pos
    <3>1. PICK d \in Consumers : Holds(d) /\ pos[d] + Capacity = enqueue_pos
      BY <2>1
    <3>2. pos[d] \in Nat
      BY <1>1, Constants
    <3>3. Slot(enqueue_pos) = Slot(pos[d])
      BY <3>1, <3>2, SlotLap
    <3>4. sequence[Slot(pos[d])] = pos[d] + 1
      BY <3>1 DEF Inv, Taken
    <3> QED
      BY <1>1, <1>2, <1>3, <3>1, <3>2, <3>3, <3>4
  <2>2. CASE ~(\E d \in Consumers : Holds(d) /\ pos[d] + Capacity = enqueue_pos)
    <3>1. sequence[Slot(enqueue_pos)] = enqueue_pos
      BY <1>1, <1>3, <2>2 DEF Inv, Vacant
    <3> QED
      BY <1>1, <1>2, <1>3, <3>1
  <2> QED
    BY <2>1, <2>2
<1>4. ASSUME WriterAt(dequeue_pos) PROVE FALSE
  BY <1>1, <1>2, <1>4 DEF WriterAt, Inv, Pending
<1> QED
  BY <1>1, <1>3, <1>4

-----------------------------------------------------------------------------
\* A step between calls, or up to the compare-exchange, leaves cells and reservations alone.
LEMMA QuietInv ==
    ASSUME Inv, NEW t \in Threads,
           NEW from \in {"load", "seq", "cas"}, NEW to \in {"load", "seq", "cas"},
           Step(t, from, to), to = "cas" => Ready(t) /\ pos'[t] = pos[t],
           pos' \in [Threads -> Nat], \A u \in Threads : u # t => pos'[u] = pos[u],
           t \in Producers => pos'[t] <= enqueue_pos,
           t \in Consumers => pos'[t] <= dequeue_pos,
           UNCHANGED <<cells, positions, count, value, checksum, history>>
    PROVE  Inv'
<1>1. pc[t] = from /\ pc'[t] = to /\ \A u \in Threads : u # t => pc'[u] = pc[u]
  BY StepMoves DEF Inv
<1>2. /\ \A u \in Threads : Holds(u)' <=> Holds(u)
      /\ \A u \in Threads : Holds(u) => u # t /\ pos'[u] = pos[u] /\ pc'[u] = pc[u]
  BY <1>1 DEF Holds
<1>3. /\ sequence' = sequence /\ data' = data /\ items' = items /\ got' = got /\ count' = count
      /\ enqueue_pos' = enqueue_pos /\ dequeue_pos' = dequeue_pos
      /\ value' = value /\ checksum' = checksum
  BY DEF cells, positions, history
<1>4. \A p : WriterAt(p)' <=> WriterAt(p)
  BY <1>2, Constants DEF WriterAt
<1>5. Shape'
  BY <1>1, <1>3 DEF Step, Inv, Shape
<1>6. Order'
  BY <1>3, Constants DEF Inv, Order
<1>7. Reservations'
  BY <1>2, <1>3, Constants DEF Inv, Reservations
<1>8. Pending'
  BY <1>2, <1>3, Constants DEF Inv, Pending, Item
<1>9. Taken'
  BY <1>2, <1>3, Constants DEF Inv, Taken
<1>10. Occupied'
  BY <1>3, <1>4 DEF Inv, Occupied
<1>11. Vacant'
  BY <1>2, <1>3, Constants DEF Inv, Vacant
<1>12. Ahead'
  <2>1. ASSUME NEW u \in Producers, pc'[u] = "cas", pos'[u] = enqueue_pos
        PROVE  /\ enqueue_pos < dequeue_pos + Capacity
               /\ \A c \in Consumers : Holds(c) => pos[c] + Capacity # enqueue_pos
    <3>1. CASE u = t
      BY <1>1, <2>1, <3>1, ReadyIsFree
    <3>2. CASE u # t
      BY <1>1, <2>1, <3>2, Constants DEF Inv, Ahead
    <3> QED
      BY <3>1, <3>2
  <2>2. ASSUME NEW c \in Consumers, pc'[c] = "cas", pos'[c] = dequeue_pos
        PROVE  dequeue_pos < enqueue_pos /\ ~WriterAt(dequeue_pos)
    <3>1. CASE c = t
      BY <1>1, <2>2, <3>1, ReadyIsPublished
    <3>2. CASE c # t
      BY <1>1, <2>2, <3>2, Constants DEF Inv, Ahead
    <3> QED
      BY <3>1, <3>2
  <2> QED
    BY <1>2, <1>3, <1>4, <2>1, <2>2, Constants DEF Ahead
<1>13. Shares'
  BY <1>1, <1>3, Constants DEF Inv, Shares, Quota
<1>14. Origins'
  BY <1>2, <1>3, Constants DEF Inv, Origins, Moved
<1> QED
  BY <1>5, <1>6, <1>7, <1>8, <1>9, <1>10, <1>11, <1>12, <1>13, <1>14 DEF Inv

\* Loading the position (mpmc_queue.cpp:91, 113).
LEMMA LoadPosInv == ASSUME Inv, NEW t \in Threads, LoadPos(t) PROVE Inv'
<1>1. Step(t, "load", "seq") /\ UNCHANGED <<cells, positions, count, value, checksum, history>>
  BY DEF LoadPos
<1>2. pos' \in [Threads -> Nat] /\ \A u \in Threads : u # t => pos'[u] = pos[u]
  BY DEF LoadPos, Inv, Shape, Shared
<1>3. pos'[t] = Shared(t)
  BY DEF LoadPos, Inv, Shape
<1>4. /\ t \in Producers => pos'[t] <= enqueue_pos
      /\ t \in Consumers => pos'[t] <= dequeue_pos
  BY <1>3, Constants DEF Shared, Inv, Shape
<1> QED
  BY <1>1, <1>2, <1>4, QuietInv

\* Loading the sequence number (mpmc_queue.cpp:92-96, 114-117).
LEMMA LoadSeqInv == ASSUME Inv, NEW t \in Threads, LoadSeq(t) PROVE Inv'
<1>1. UNCHANGED <<cells, positions, count, value, checksum, history>> /\ pos' = pos
  BY DEF LoadSeq
<1>2. /\ pos' \in [Threads -> Nat] /\ \A u \in Threads : u # t => pos'[u] = pos[u]
      /\ t \in Producers => pos'[t] <= enqueue_pos
      /\ t \in Consumers => pos'[t] <= dequeue_pos
      /\ pos'[t] = pos[t]
  BY <1>1 DEF Inv, Shape, Order
<1>3. CASE Ready(t) /\ Step(t, "seq", "cas")
  BY <1>1, <1>2, <1>3, QuietInv
<1>4. CASE Step(t, "seq", "load")
  BY <1>1, <1>2, <1>4, QuietInv
<1> QED
  BY <1>3, <1>4 DEF LoadSeq, Retry

\* A compare-exchange that another thread made fail (mpmc_queue.cpp:98, 119).
LEMMA ReserveFailsInv ==
    ASSUME Inv, NEW t \in Threads, Reserve(t), ~Reserves(t) PROVE Inv'
<1>1. Step(t, "cas", "seq") /\ UNCHANGED <<cells, positions, count, value, checksum, history>>
  BY DEF Reserve, positions, history
<1>2. pos' \in [Threads -> Nat] /\ \A u \in Threads : u # t => pos'[u] = pos[u]
  BY DEF Reserve, Inv, Shape, Shared
<1>3. pos'[t] = Shared(t)
  BY DEF Reserve, Inv, Shape
<1>4. /\ t \in Producers => pos'[t] <= enqueue_pos
      /\ t \in Consumers => pos'[t] <= dequeue_pos
  BY <1>3, Constants DEF Shared, Inv, Shape
<1> QED
  BY <1>1, <1>2, <1>4, QuietInv

\* A push takes the next position: its cell is free, and is now the producer's
\* (mpmc_queue.cpp:98).
LEMMA ReservePushInv ==
    ASSUME Inv, NEW t \in Producers, Reserve(t), Reserves(t) PROVE Inv'
<1>1. /\ Step(t, "cas", "access") /\ pos[t] = enqueue_pos
      /\ enqueue_pos' = enqueue_pos + 1 /\ items' = Append(items, Item(t))
      /\ dequeue_pos' = dequeue_pos /\ pos' = pos /\ count' = count
      /\ sequence' = sequence /\ data' = data
      /\ value' = value /\ checksum' = checksum /\ got' = got
  BY DEF Reserve, Reserves, Shared, cells
<1>2. pc[t] = "cas" /\ pc'[t] = "access" /\ \A u \in Threads : u # t => pc'[u] = pc[u]
  BY <1>1, StepMoves, Constants DEF Inv
<1>3. /\ ~Holds(t) /\ Holds(t)'
      /\ \A u \in Threads : u # t => (Holds(u)' <=> Holds(u))
      /\ \A c \in Consumers : c # t
  BY <1>2, Constants DEF Holds
<1>4. /\ Capacity \in Nat /\ enqueue_pos \in Nat /\ dequeue_pos \in Nat
      /\ \A u \in Threads : pos[u] \in Nat /\ count[u] \in Nat
      /\ items \in Seq(Nat) /\ Len(items) = enqueue_pos
      /\ dequeue_pos <= enqueue_pos
  BY Constants DEF Inv, Shape, Order
<1>5. /\ enqueue_pos < dequeue_pos + Capacity
      /\ \A c \in Consumers : Holds(c) => pos[c] + Capacity # enqueue_pos
  BY <1>1, <1>2 DEF Inv, Ahead
<1>6. Item(t) \in Nat
  <2>1. t \in Nat /\ PerProducer \in Nat /\ count[t] \in Nat
    BY <1>4, Constants
  <2> QED
    BY <2>1 DEF Item
<1>7. /\ items' \in Seq(Nat) /\ Len(items') = enqueue_pos + 1
      /\ items'[enqueue_pos + 1] = Item(t)
      /\ \A i \in 1..enqueue_pos : items'[i] = items[i]
  BY <1>1, <1>4, <1>6, AppendProperties
<1>8. \A p \in Nat : WriterAt(p)' <=> (WriterAt(p) \/ p = enqueue_pos)
  BY <1>1, <1>3, Constants DEF WriterAt
<1>9. Shape'
  BY <1>1, <1>4, <1>7, Constants DEF Step, Inv, Shape
<1>10. Order'
  BY <1>1, <1>4, <1>5, <1>7, Constants DEF Inv, Order
<1>11. Reservations'
  <2>1. \A u \in Producers : Holds(u)' => dequeue_pos <= pos[u] /\ pos[u] < enqueue_pos + 1
    BY <1>1, <1>3, <1>4, Constants DEF Inv, Reservations
  <2>2. ASSUME NEW c \in Consumers, Holds(c)
        PROVE  enqueue_pos + 1 <= pos[c] + Capacity /\ pos[c] < dequeue_pos
    <3>1. enqueue_pos <= pos[c] + Capacity /\ pos[c] < dequeue_pos
      BY <2>2 DEF Inv, Reservations
    <3>2. pos[c] \in Nat /\ pos[c] + Capacity # enqueue_pos
      BY <1>4, <1>5, <2>2, Constants
    <3> QED
      BY <1>4, <3>1, <3>2
  <2>3. \A u \in Threads : Holds(u) => pos[u] # enqueue_pos
    BY <1>4, Constants DEF Inv, Reservations
  <2> QED
    BY <1>1, <1>3, <2>1, <2>2, <2>3, Constants DEF Inv, Reservations
<1>12. sequence[Slot(enqueue_pos)] = enqueue_pos
  BY <1>4, <1>5 DEF Inv, Vacant
<1>13. \A u \in Threads : Item(u)' = Item(u)
  BY <1>1 DEF Item
<1>14. Pending'
  <2> SUFFICES ASSUME NEW u \in Producers, Holds(u)'
               PROVE  /\ sequence[Slot(pos[u])] = pos[u] /\ items'[pos[u] + 1] = Item(u)
                      /\ pc'[u] = "release" => data[Slot(pos[u])] = items'[pos[u] + 1]
    BY <1>1, <1>13, Constants DEF Pending
  <2>1. CASE u = t
    BY <1>1, <1>2, <1>7, <1>12, <2>1
  <2>2. CASE u # t
    <3>1. Holds(u) /\ pc'[u] = pc[u]
      BY <1>2, <1>3, <2>2, Constants
    <3>2. pos[u] \in Nat /\ pos[u] < enqueue_pos
      BY <1>4, <3>1, Constants DEF Inv, Reservations
    <3>3. items'[pos[u] + 1] = items[pos[u] + 1]
      BY <1>4, <1>7, <3>2
    <3> QED
      BY <3>1, <3>3 DEF Inv, Pending
  <2> QED
    BY <2>1, <2>2
<1>15. Taken'
  <2>1. ASSUME NEW c \in Consumers, Holds(c) PROVE pos[c] + 1 \in 1..enqueue_pos
    <3>1. pos[c] \in Nat /\ pos[c] < dequeue_pos
      BY <1>4, <2>1, Constants DEF Inv, Reservations
    <3> QED
      BY <1>4, <3>1
  <2> QED
    BY <1>1, <1>3, <1>7, <2>1, Constants DEF Inv, Taken
<1>16. Occupied'
  <2> SUFFICES ASSUME NEW p \in Nat, dequeue_pos <= p, p < enqueue_pos + 1, ~WriterAt(p)'
               PROVE  sequence[Slot(p)] = p + 1 /\ data[Slot(p)] = items'[p + 1]
    BY <1>1 DEF Occupied
  <2>1. ~WriterAt(p) /\ p < enqueue_pos /\ p + 1 \in 1..enqueue_pos
    BY <1>4, <1>8
  <2> QED
    BY <1>7, <2>1 DEF Inv, Occupied
<1>17. Vacant'
  BY <1>1, <1>3, <1>4, Constants DEF Inv, Vacant
<1>18. Ahead'
  <2>1. \A u \in Producers : pos[u] # enqueue_pos + 1
    BY <1>4, Constants DEF Inv, Order
  <2>2. ASSUME NEW c \in Consumers, pc'[c] = "cas", pos[c] = dequeue_pos
        PROVE  dequeue_pos < enqueue_pos + 1 /\ ~WriterAt(dequeue_pos)'
    <3>1. pc[c] = "cas"
      BY <1>2, <1>3, <2>2, Constants
    <3>2. dequeue_pos < enqueue_pos /\ ~WriterAt(dequeue_pos)
      BY <2>2, <3>1 DEF Inv, Ahead
    <3> QED
      BY <1>1, <1>4, <1>8, <3>2
  <2> QED
    BY <1>1, <2>1, <2>2 DEF Ahead
<1>19. Shares'
  BY <1>1, <1>2, Constants DEF Inv, Shares, Quota
<1>20. Origins'
  <2>1. Moved(t) = count[t] /\ Moved(t)' = count[t] + 1
    BY <1>1, <1>3, <1>4, Constants DEF Moved
  <2>2. \A u \in Threads : u # t => Moved(u)' = Moved(u)
    BY <1>1, <1>3 DEF Moved
  <2>3. \A u \in Threads : Moved(u) \in Nat /\ Moved(u)' \in Nat /\ Moved(u) <= Moved(u)'
    BY <1>4, <2>1, <2>2, Constants DEF Moved
  <2>4. Item(t) = t * PerProducer + count[t] /\ t * PerProducer \in Nat
    BY Constants DEF Item
  <2>5. ASSUME NEW i \in 1..(enqueue_pos + 1)
        PROVE  \E u \in Producers :
                   u * PerProducer <= items'[i] /\ items'[i] < u * PerProducer + Moved(u)'
    <3>1. CASE i = enqueue_pos + 1
      BY <1>4, <1>7, <2>1, <2>4, <3>1, Constants
    <3>2. CASE i \in 1..enqueue_pos
      <4>1. PICK u \in Producers :
                u * PerProducer <= items[i] /\ items[i] < u * PerProducer + Moved(u)
        BY <3>2 DEF Inv, Origins
      <4>2. u * PerProducer \in Nat /\ items[i] \in Nat
        BY <1>4, <3>2, Constants
      <4>3. items[i] < u * PerProducer + Moved(u)'
        BY <2>3, <4>1, <4>2, Constants
      <4> QED
        BY <1>7, <3>2, <4>1, <4>3
    <3> QED
      BY <1>4, <3>1, <3>2
  <2>6. ASSUME NEW i \in 1..enqueue_pos PROVE items[i] # Item(t)
    <3>1. PICK u \in Producers :
              u * PerProducer <= items[i] /\ items[i] < u * PerProducer + Moved(u)
      BY DEF Inv, Origins
    <3>2. Moved(u) <= PerProducer /\ count[t] < PerProducer
      BY <1>2, <1>4, Constants DEF Inv, Shares, Moved, Holds
    <3>3. /\ u \in Nat /\ t \in Nat /\ items[i] \in Nat /\ PerProducer \in Nat \ {0}
          /\ u * PerProducer \in Nat
      BY <1>4, Constants
    <3>4. CASE u = t
      BY <1>4, <2>1, <2>4, <3>1, <3>3, <3>4, Constants
    <3>5. /\ items[i] < u * PerProducer + PerProducer
          /\ Item(t) < t * PerProducer + PerProducer /\ t * PerProducer <= Item(t)
      <4>1. PICK m \in Nat : m = u * PerProducer
        BY <3>3
      <4>2. PICK n \in Nat : n = t * PerProducer
        BY <2>4
      <4>3. items[i] < m + Moved(u) /\ Moved(u) \in Nat
        BY <2>3, <3>1, <4>1, Constants
      <4>4. Item(t) = n + count[t] /\ count[t] \in Nat
        BY <1>4, <2>4, <4>2, Constants
      <4>5. /\ items[i] < m + PerProducer
            /\ Item(t) < n + PerProducer /\ n <= Item(t)
        BY <3>2, <3>3, <4>3, <4>4
      <4> QED
        BY <4>1, <4>2, <4>5
    <3>6. CASE u < t
      BY <1>6, <3>3, <3>5, <3>6, RangesApart
    <3>7. CASE t < u
      BY <1>6, <3>1, <3>3, <3>5, <3>7, RangesApart
    <3> QED
      BY <3>3, <3>4, <3>6, <3>7
  <2>7. \A i, j \in 1..(enqueue_pos + 1) : i # j => items'[i] # items'[j]
    <3> SUFFICES ASSUME NEW i \in 1..(enqueue_pos + 1), NEW j \in 1..(enqueue_pos + 1), i # j
                 PROVE  items'[i] # items'[j]
      OBVIOUS
    <3>1. CASE i \in 1..enqueue_pos /\ j \in 1..enqueue_pos
      BY <1>7, <3>1 DEF Inv, Origins
    <3>2. CASE i = enqueue_pos + 1
      BY <1>4, <1>7, <2>6, <3>2
    <3>3. CASE j = enqueue_pos + 1
      BY <1>4, <1>7, <2>6, <3>3
    <3> QED
      BY <1>4, <3>1, <3>2, <3>3
  <2> QED
    BY <1>1, <2>5, <2>7 DEF Origins
<1> QED
  BY <1>9, <1>10, <1>11, <1>14, <1>15, <1>16, <1>17, <1>18, <1>19, <1>20 DEF Inv

\* A pop takes the next position: its cell is published, and is now the consumer's
\* (mpmc_queue.cpp:119).
LEMMA ReservePopInv ==
    ASSUME Inv, NEW t \in Consumers, Reserve(t), Reserves(t) PROVE Inv'
<1>1. /\ Step(t, "cas", "access") /\ pos[t] = dequeue_pos
      /\ dequeue_pos' = dequeue_pos + 1 /\ items' = items
      /\ enqueue_pos' = enqueue_pos /\ pos' = pos /\ count' = count
      /\ sequence' = sequence /\ data' = data
      /\ value' = value /\ checksum' = checksum /\ got' = got
  BY Constants DEF Reserve, Reserves, Shared, cells
<1>2. pc[t] = "cas" /\ pc'[t] = "access" /\ \A u \in Threads : u # t => pc'[u] = pc[u]
  BY <1>1, StepMoves, Constants DEF Inv
<1>3. /\ ~Holds(t) /\ Holds(t)'
      /\ \A u \in Threads : u # t => (Holds(u)' <=> Holds(u))
      /\ \A u \in Producers : u # t
  BY <1>2, Constants DEF Holds
<1>4. /\ Capacity \in Nat /\ enqueue_pos \in Nat /\ dequeue_pos \in Nat
      /\ \A u \in Threads : pos[u] \in Nat
      /\ dequeue_pos <= enqueue_pos /\ enqueue_pos <= dequeue_pos + Capacity
  BY Constants DEF Inv, Shape, Order
<1>5. dequeue_pos < enqueue_pos /\ ~WriterAt(dequeue_pos)
  BY <1>1, <1>2 DEF Inv, Ahead
<1>6. \A p : WriterAt(p)' <=> WriterAt(p)
  BY <1>1, <1>3, Constants DEF WriterAt
<1>7. Shape'
  BY <1>1, <1>4, Constants DEF Step, Inv, Shape
<1>8. Order'
  BY <1>1, <1>4, <1>5, Constants DEF Inv, Order
<1>9. Reservations'
  <2>1. \A u \in Producers : Holds(u) => dequeue_pos + 1 <= pos[u] /\ pos[u] < enqueue_pos
    BY <1>4, <1>5, Constants DEF Inv, Reservations, WriterAt
  <2>2. \A c \in Consumers : Holds(c)' =>
            enqueue_pos <= pos[c] + Capacity /\ pos[c] < dequeue_pos + 1
    BY <1>1, <1>3, <1>4, <1>5, Constants DEF Inv, Reservations
  <2>3. \A u \in Threads : Holds(u) => pos[u] # dequeue_pos
    BY <1>4, <1>5, Constants DEF Inv, Reservations, WriterAt
  <2> QED
    BY <1>1, <1>3, <2>1, <2>2, <2>3, Constants DEF Inv, Reservations
<1>10. Pending'
  BY <1>1, <1>2, <1>3, Constants DEF Inv, Pending, Item
<1>11. sequence[Slot(dequeue_pos)] = dequeue_pos + 1
       /\ data[Slot(dequeue_pos)] = items[dequeue_pos + 1]
  BY <1>4, <1>5 DEF Inv, Occupied
<1>12. Taken'
  BY <1>1, <1>3, <1>11, Constants DEF Inv, Taken
<1>13. Occupied'
  BY <1>1, <1>4, <1>6 DEF Inv, Occupied
<1>14. Vacant'
  <2> SUFFICES ASSUME NEW p \in Nat, enqueue_pos <= p, p < dequeue_pos + 1 + Capacity,
                      \A c \in Consumers : Holds(c)' => pos[c] + Capacity # p
               PROVE  sequence[Slot(p)] = p
    BY <1>1 DEF Vacant
  <2>1. p # dequeue_pos + Capacity /\ \A c \in Consumers : Holds(c) => pos[c] + Capacity # p
    BY <1>1, <1>3, Constants
  <2> QED
    BY <1>4, <2>1 DEF Inv, Vacant
<1>15. Ahead'
  <2>1. ASSUME NEW u \in Producers, pc'[u] = "cas", pos[u] = enqueue_pos
        PROVE  /\ enqueue_pos < dequeue_pos + 1 + Capacity
               /\ \A c \in Consumers : Holds(c)' => pos[c] + Capacity # enqueue_pos
    <3>1. pc[u] = "cas"
      BY <1>2, <1>3, <2>1, Constants
    <3>2. /\ enqueue_pos < dequeue_pos + Capacity
          /\ \A c \in Consumers : Holds(c) => pos[c] + Capacity # enqueue_pos
      BY <2>1, <3>1 DEF Inv, Ahead
    <3> QED
      BY <1>1, <1>3, <1>4, <3>2, Constants
  <2>2. \A c \in Consumers : pos[c] # dequeue_pos + 1
    BY <1>4, Constants DEF Inv, Order
  <2> QED
    BY <1>1, <2>1, <2>2 DEF Ahead
<1>16. Shares'
  BY <1>1, <1>2, Constants DEF Inv, Shares, Quota
<1>17. Origins'
  <2>1. \A u \in Producers : Moved(u)' = Moved(u)
    BY <1>1, <1>3, Constants DEF Moved
  <2> QED
    BY <1>1, <2>1 DEF Inv, Origins
<1> QED
  BY <1>7, <1>8, <1>9, <1>10, <1>12, <1>13, <1>14, <1>15, <1>16, <1>17 DEF Inv

\* The producer writes its item into a cell no other thread holds (mpmc_queue.cpp:99).
LEMMA WriteDataInv == ASSUME Inv, NEW t \in Threads, WriteData(t) PROVE Inv'
<1>1. /\ t \in Producers /\ Step(t, "access", "release")
      /\ data' = [data EXCEPT ![Slot(pos[t])] = Item(t)]
      /\ sequence' = sequence /\ enqueue_pos' = enqueue_pos /\ dequeue_pos' = dequeue_pos
      /\ pos' = pos /\ count' = count /\ value' = value /\ checksum' = checksum
      /\ items' = items /\ got' = got
  BY DEF WriteData, positions, history
<1>2. pc[t] = "access" /\ pc'[t] = "release" /\ \A u \in Threads : u # t => pc'[u] = pc[u]
  BY <1>1, StepMoves DEF Inv
<1>3. Holds(t) /\ \A u \in Threads : Holds(u)' <=> Holds(u)
  BY <1>2 DEF Holds
<1>4. /\ Capacity \in Nat /\ enqueue_pos \in Nat /\ dequeue_pos \in Nat
      /\ \A u \in Threads : pos[u] \in Nat
      /\ dequeue_pos <= enqueue_pos /\ enqueue_pos <= dequeue_pos + Capacity
      /\ data \in [Slots -> Nat] /\ count[t] \in Nat
  BY Constants DEF Inv, Shape, Order
<1>5. dequeue_pos <= pos[t] /\ pos[t] < enqueue_pos /\ Slot(pos[t]) \in Slots
  BY <1>1, <1>3, <1>4, SlotIn DEF Inv, Reservations
<1>6. /\ data'[Slot(pos[t])] = Item(t) /\ items[pos[t] + 1] = Item(t)
      /\ Item(t) \in Nat
  BY <1>1, <1>3, <1>4, <1>5, Constants DEF Inv, Pending, Item
<1>7. ASSUME NEW p \in Nat, p # pos[t], p < pos[t] + Capacity, pos[t] < p + Capacity
      PROVE  data'[Slot(p)] = data[Slot(p)]
  BY <1>1, <1>4, <1>7, SlotsDiffer, SlotIn
<1>8. \A p : WriterAt(p)' <=> WriterAt(p)
  BY <1>1, <1>3, Constants DEF WriterAt
<1>9. Shape'
  BY <1>1, <1>4, <1>6 DEF Step, Inv, Shape
<1>10. Order' /\ Shares'
  BY <1>1, <1>2, Constants DEF Inv, Order, Shares, Quota
<1>11. Reservations'
  BY <1>1, <1>3, Constants DEF Inv, Reservations
<1>12. Pending'
  <2> SUFFICES ASSUME NEW u \in Producers, Holds(u)
               PROVE  /\ sequence[Slot(pos[u])] = pos[u] /\ items[pos[u] + 1] = Item(u)
                      /\ pc'[u] = "release" => data'[Slot(pos[u])] = items[pos[u] + 1]
    BY <1>1, <1>3, Constants DEF Pending, Item
  <2>1. sequence[Slot(pos[u])] = pos[u] /\ items[pos[u] + 1] = Item(u)
    BY DEF Inv, Pending
  <2>2. CASE u = t
    BY <1>6, <2>1, <2>2
  <2>3. CASE u # t
    <3>1. /\ pos[u] # pos[t] /\ pos[u] < pos[t] + Capacity /\ pos[t] < pos[u] + Capacity
          /\ pos[u] \in Nat
      BY <1>1, <1>3, <1>4, <1>5, <2>3, Constants DEF Inv, Reservations
    <3>2. data'[Slot(pos[u])] = data[Slot(pos[u])]
      BY <1>7, <3>1
    <3> QED
      BY <1>2, <2>1, <2>3, <3>2, Constants DEF Inv, Pending
  <2> QED
    BY <2>2, <2>3
<1>13. Taken'
  <2> SUFFICES ASSUME NEW c \in Consumers, Holds(c)
               PROVE  sequence[Slot(pos[c])] = pos[c] + 1 /\ data'[Slot(pos[c])] = items[pos[c] + 1]
    BY <1>1, <1>3, Constants DEF Taken
  <2>1. /\ pos[c] # pos[t] /\ pos[c] < pos[t] + Capacity /\ pos[t] < pos[c] + Capacity
        /\ pos[c] \in Nat
    BY <1>4, <1>5, Constants DEF Inv, Reservations
  <2>2. data'[Slot(pos[c])] = data[Slot(pos[c])]
    BY <1>7, <2>1
  <2> QED
    BY <2>2 DEF Inv, Taken
<1>14. Occupied'
  <2> SUFFICES ASSUME NEW p \in Nat, dequeue_pos <= p, p < enqueue_pos, ~WriterAt(p)
               PROVE  sequence[Slot(p)] = p + 1 /\ data'[Slot(p)] = items[p + 1]
    BY <1>1, <1>8 DEF Occupied
  <2>1. p # pos[t] /\ p < pos[t] + Capacity /\ pos[t] < p + Capacity
    BY <1>1, <1>3, <1>4, <1>5, Constants DEF WriterAt
  <2>2. data'[Slot(p)] = data[Slot(p)]
    BY <1>7, <2>1
  <2> QED
    BY <2>2 DEF Inv, Occupied
<1>15. Vacant'
  BY <1>1, <1>3, Constants DEF Inv, Vacant
<1>16. Ahead'
  BY <1>1, <1>2, <1>3, <1>8, Constants DEF Inv, Ahead
<1>17. Origins'
  BY <1>1, <1>3, Constants DEF Inv, Origins, Moved
<1> QED
  BY <1>9, <1>10, <1>11, <1>12, <1>13, <1>14, <1>15, <1>16, <1>17 DEF Inv

\* The consumer reads the item that was put in at its position (mpmc_queue.cpp:120).
LEMMA ReadDataInv == ASSUME Inv, NEW t \in Threads, ReadData(t) PROVE Inv'
<1>1. /\ t \in Consumers /\ Step(t, "access", "release")
      /\ value' = [value EXCEPT ![t] = data[Slot(pos[t])]]
      /\ got' = [got EXCEPT ![t] = Append(got[t], data[Slot(pos[t])])]
      /\ sequence' = sequence /\ data' = data
      /\ enqueue_pos' = enqueue_pos /\ dequeue_pos' = dequeue_pos
      /\ pos' = pos /\ count' = count /\ checksum' = checksum /\ items' = items
  BY DEF ReadData, positions, cells
<1>2. pc[t] = "access" /\ pc'[t] = "release" /\ \A u \in Threads : u # t => pc'[u] = pc[u]
  BY <1>1, StepMoves DEF Inv
<1>3. Holds(t) /\ \A u \in Threads : Holds(u)' <=> Holds(u)
  BY <1>2 DEF Holds
<1>4. data[Slot(pos[t])] \in Nat /\ got[t] \in Seq(Nat) /\ count[t] \in Nat
  BY <1>1, SlotIn, Constants DEF Inv, Shape
<1>5. \A p : WriterAt(p)' <=> WriterAt(p)
  BY <1>1, <1>3, Constants DEF WriterAt
<1>6. Append(got[t], data[Slot(pos[t])]) \in Seq(Nat)
      /\ Len(Append(got[t], data[Slot(pos[t])])) = Len(got[t]) + 1
  BY <1>4, AppendProperties
<1>7. Shape'
  BY <1>1, <1>4, <1>6 DEF Step, Inv, Shape
<1>8. Order'
  BY <1>1 DEF Inv, Order
<1>9. Reservations' /\ Taken'
  BY <1>1, <1>3, Constants DEF Inv, Reservations, Taken
<1>10. Pending'
  BY <1>1, <1>2, <1>3, Constants DEF Inv, Pending, Item
<1>11. Occupied' /\ Vacant'
  BY <1>1, <1>3, <1>5, Constants DEF Inv, Occupied, Vacant
<1>12. Ahead'
  BY <1>1, <1>2, <1>3, <1>5, Constants DEF Inv, Ahead
<1>13. Shares'
  <2>1. ASSUME NEW c \in Consumers
        PROVE  Len(got'[c]) = count[c] + (IF pc'[c] = "release" THEN 1 ELSE 0)
    <3>1. CASE c = t
      <4>1. got'[t] = Append(got[t], data[Slot(pos[t])])
        BY <1>1 DEF Inv, Shape
      <4>2. Len(got[t]) = count[t]
        BY <1>1, <1>2, <1>4 DEF Inv, Shares
      <4> QED
        BY <1>2, <1>4, <1>6, <3>1, <4>1, <4>2
    <3>2. CASE c # t
      BY <1>1, <1>2, <3>2, Constants DEF Inv, Shape, Shares
    <3> QED
      BY <3>1, <3>2
  <2>2. \A u \in Threads : /\ pc'[u] # "done" => count[u] < Quota(u)
                           /\ pc'[u] = "done" => count[u] = Quota(u)
    BY <1>2 DEF Inv, Shares
  <2> QED
    BY <1>1, <2>1, <2>2 DEF Shares, Quota
<1>14. Origins'
  BY <1>1, <1>3, Constants DEF Inv, Origins, Moved
<1> QED
  BY <1>7, <1>8, <1>9, <1>10, <1>11, <1>12, <1>13, <1>14 DEF Inv

\* What a release leaves of the shares of the threads: one more of this thread is moved.
LEMMA ReleaseShares ==
    ASSUME Inv, NEW t \in Threads, Release(t)
    PROVE  /\ Shape' /\ Order' /\ Shares' /\ Origins'
           /\ pc[t] = "release" /\ pc'[t] \in {"done", "load"}
           /\ \A u \in Threads : u # t => pc'[u] = pc[u] /\ (Holds(u)' <=> Holds(u))
           /\ Holds(t) /\ ~Holds(t)' /\ \A u \in Threads : Holds(u)' => Holds(u) /\ u # t
           /\ \A u \in Threads : u # t => Item(u)' = Item(u)
           /\ \A u \in Threads : Moved(u)' = Moved(u)
<1>1. /\ Step(t, "release", IF Last(t) THEN "done" ELSE "load")
      /\ sequence' = [sequence EXCEPT ![Slot(pos[t])] = Released(t)]
      /\ count' = [count EXCEPT ![t] = count[t] + 1]
      /\ checksum' = [c \in Consumers |-> checksum[c] + (IF c = t THEN value[c] ELSE 0)]
      /\ data' = data /\ enqueue_pos' = enqueue_pos /\ dequeue_pos' = dequeue_pos
      /\ pos' = pos /\ value' = value /\ items' = items /\ got' = got
  BY DEF Release, positions, history
<1>2. /\ pc[t] = "release" /\ pc'[t] = (IF Last(t) THEN "done" ELSE "load")
      /\ \A u \in Threads : u # t => pc'[u] = pc[u]
  BY <1>1, StepMoves DEF Inv
<1>3. /\ Holds(t) /\ ~Holds(t)' /\ pc'[t] \in {"done", "load"}
      /\ \A u \in Threads : u # t => (Holds(u)' <=> Holds(u))
  BY <1>2 DEF Holds
<1>4. /\ count \in [Threads -> Nat] /\ count[t] \in Nat /\ pos[t] \in Nat
      /\ sequence \in [Slots -> Nat]
  BY DEF Inv, Shape
<1>5. count'[t] = count[t] + 1 /\ \A u \in Threads : u # t => count'[u] = count[u]
  BY <1>1, <1>4
<1>6. \A u \in Threads : Moved(u)' = Moved(u)
  BY <1>3, <1>4, <1>5 DEF Moved
<1>7. Shape'
  <2>1. sequence' \in [Slots -> Nat]
    <3>1. Released(t) \in Nat
      BY <1>4, Constants DEF Released
    <3> QED
      BY <1>1, <1>4, <3>1
  <2>2. checksum' \in [Consumers -> Nat]
    <3> SUFFICES ASSUME NEW c \in Consumers
                 PROVE  checksum[c] + (IF c = t THEN value[c] ELSE 0) \in Nat
      BY <1>1
    <3>1. checksum[c] \in Nat /\ value[c] \in Nat
      BY DEF Inv, Shape
    <3> QED
      BY <3>1
  <2>3. pc' \in [Threads -> {"load", "seq", "cas", "access", "release", "done"}]
    BY <1>1 DEF Step, Inv, Shape
  <2>4. count' \in [Threads -> Nat]
    BY <1>1, <1>4
  <2> QED
    BY <1>1, <2>1, <2>2, <2>3, <2>4 DEF Inv, Shape
<1>8. Order'
  BY <1>1 DEF Inv, Order
<1>9. Shares'
  <2>1. count[t] < Quota(t)
    BY <1>2 DEF Inv, Shares
  <2>2. ASSUME NEW u \in Threads
        PROVE  /\ pc'[u] # "done" => count'[u] < Quota(u)
               /\ pc'[u] = "done" => count'[u] = Quota(u)
    <3>1. CASE u = t
      BY <1>2, <1>4, <1>5, <2>1, <3>1, Constants DEF Last
    <3>2. CASE u # t
      BY <1>2, <1>5, <3>2 DEF Inv, Shares
    <3> QED
      BY <3>1, <3>2
  <2>3. ASSUME NEW c \in Consumers
        PROVE  Len(got[c]) = count'[c] + (IF pc'[c] = "release" THEN 1 ELSE 0)
    <3>1. Len(got[c]) = count[c] + (IF pc[c] = "release" THEN 1 ELSE 0)
      BY DEF Inv, Shares
    <3>2. CASE c = t
      BY <1>2, <1>3, <1>4, <1>5, <3>1, <3>2
    <3>3. CASE c # t
      BY <1>2, <1>5, <3>1, <3>3, Constants
    <3> QED
      BY <3>2, <3>3
  <2> QED
    BY <1>1, <2>2, <2>3 DEF Shares, Quota
<1>10. Origins'
  BY <1>1, <1>6, Constants DEF Inv, Origins
<1>11. \A u \in Threads : u # t => Item(u)' = Item(u)
  BY <1>5 DEF Item
<1> QED
  BY <1>2, <1>3, <1>6, <1>7, <1>8, <1>9, <1>10, <1>11

\* The release of a pushed position publishes its item, and changes no other cell
\* (mpmc_queue.cpp:100).
LEMMA ReleasePushInv == ASSUME Inv, NEW t \in Producers, Release(t) PROVE Inv'
<1>1. /\ sequence' = [sequence EXCEPT ![Slot(pos[t])] = pos[t] + 1]
      /\ data' = data /\ enqueue_pos' = enqueue_pos /\ dequeue_pos' = dequeue_pos
      /\ pos' = pos /\ items' = items
  BY DEF Release, Released, positions, history
<1>2. /\ Shape' /\ Order' /\ Shares' /\ Origins'
      /\ pc[t] = "release" /\ Holds(t) /\ ~Holds(t)' /\ pc'[t] \in {"done", "load"}
      /\ \A u \in Threads : u # t => pc'[u] = pc[u] /\ (Holds(u)' <=> Holds(u))
      /\ \A u \in Threads : Holds(u)' => Holds(u) /\ u # t
      /\ \A u \in Threads : u # t => Item(u)' = Item(u)
  BY ReleaseShares, Constants
<1>3. /\ Capacity \in Nat /\ enqueue_pos \in Nat /\ dequeue_pos \in Nat
      /\ \A u \in Threads : pos[u] \in Nat
      /\ dequeue_pos <= enqueue_pos /\ enqueue_pos <= dequeue_pos + Capacity
      /\ sequence \in [Slots -> Nat] /\ t \in Threads /\ pos[t] \in Nat
  BY Constants DEF Inv, Shape, Order
<1>4. dequeue_pos <= pos[t] /\ pos[t] < enqueue_pos /\ Slot(pos[t]) \in Slots
  BY <1>2, <1>3, SlotIn DEF Inv, Reservations
<1>5. sequence'[Slot(pos[t])] = pos[t] + 1 /\ data[Slot(pos[t])] = items[pos[t] + 1]
  BY <1>1, <1>2, <1>3, <1>4 DEF Inv, Pending
<1>6. ASSUME NEW p \in Nat, p # pos[t], p < pos[t] + Capacity, pos[t] < p + Capacity
      PROVE  sequence'[Slot(p)] = sequence[Slot(p)]
  BY <1>1, <1>3, <1>6, SlotsDiffer, SlotIn
<1>7. \A p \in Nat : WriterAt(p) => WriterAt(p)' \/ p = pos[t]
  BY <1>1, <1>2, Constants DEF WriterAt
<1>8. \A c \in Consumers : c # t
  BY Constants
<1>9. Reservations'
  BY <1>1, <1>2, Constants DEF Inv, Reservations
<1>10. Pending'
  <2> SUFFICES ASSUME NEW u \in Producers, Holds(u)'
               PROVE  /\ sequence'[Slot(pos[u])] = pos[u] /\ items[pos[u] + 1] = Item(u)'
                      /\ pc'[u] = "release" => data[Slot(pos[u])] = items[pos[u] + 1]
    BY <1>1 DEF Pending
  <2>1. u # t /\ Holds(u) /\ pc'[u] = pc[u] /\ Item(u)' = Item(u)
    BY <1>2, Constants
  <2>2. /\ pos[u] # pos[t] /\ pos[u] < pos[t] + Capacity /\ pos[t] < pos[u] + Capacity
        /\ pos[u] \in Nat
    BY <1>2, <1>3, <1>4, <2>1, Constants DEF Inv, Reservations
  <2>3. sequence'[Slot(pos[u])] = sequence[Slot(pos[u])]
    BY <1>6, <2>2
  <2> QED
    BY <2>1, <2>3 DEF Inv, Pending
<1>11. Taken'
  <2> SUFFICES ASSUME NEW c \in Consumers, Holds(c)
               PROVE  sequence'[Slot(pos[c])] = pos[c] + 1 /\ data[Slot(pos[c])] = items[pos[c] + 1]
    BY <1>1, <1>2, Constants DEF Taken
  <2>1. /\ pos[c] # pos[t] /\ pos[c] < pos[t] + Capacity /\ pos[t] < pos[c] + Capacity
        /\ pos[c] \in Nat
    BY <1>3, <1>4, Constants DEF Inv, Reservations
  <2>2. sequence'[Slot(pos[c])] = sequence[Slot(pos[c])]
    BY <1>6, <2>1
  <2> QED
    BY <2>2 DEF Inv, Taken
<1>12. Occupied'
  <2> SUFFICES ASSUME NEW p \in Nat, dequeue_pos <= p, p < enqueue_pos, ~WriterAt(p)'
               PROVE  sequence'[Slot(p)] = p + 1 /\ data[Slot(p)] = items[p + 1]
    BY <1>1 DEF Occupied
  <2>1. CASE p = pos[t]
    BY <1>5, <2>1
  <2>2. CASE p # pos[t]
    <3>1. p < pos[t] + Capacity /\ pos[t] < p + Capacity /\ ~WriterAt(p)
      BY <1>3, <1>4, <1>7, <2>2
    <3>2. sequence'[Slot(p)] = sequence[Slot(p)]
      BY <1>6, <2>2, <3>1
    <3> QED
      BY <3>1, <3>2 DEF Inv, Occupied
  <2> QED
    BY <2>1, <2>2
<1>13. Vacant'
  <2> SUFFICES ASSUME NEW p \in Nat, enqueue_pos <= p, p < dequeue_pos + Capacity,
                      \A c \in Consumers : Holds(c) => pos[c] + Capacity # p
               PROVE  sequence'[Slot(p)] = p
    BY <1>1, <1>2, <1>8, Constants DEF Vacant
  <2>1. p # pos[t] /\ p < pos[t] + Capacity /\ pos[t] < p + Capacity
    BY <1>3, <1>4
  <2>2. sequence'[Slot(p)] = sequence[Slot(p)]
    BY <1>6, <2>1
  <2> QED
    BY <2>2 DEF Inv, Vacant
<1>14. Ahead'
  <2>1. ASSUME NEW u \in Producers, pc'[u] = "cas", pos[u] = enqueue_pos
        PROVE  /\ enqueue_pos < dequeue_pos + Capacity
               /\ \A c \in Consumers : Holds(c)' => pos[c] + Capacity # enqueue_pos
    <3>1. pc[u] = "cas"
      BY <1>2, <2>1, Constants
    <3> QED
      BY <1>2, <2>1, <3>1, Constants DEF Inv, Ahead
  <2>2. ASSUME NEW c \in Consumers, pc'[c] = "cas", pos[c] = dequeue_pos
        PROVE  dequeue_pos < enqueue_pos /\ ~WriterAt(dequeue_pos)'
    <3>1. pc[c] = "cas"
      BY <1>2, <1>8, <2>2, Constants
    <3>2. dequeue_pos < enqueue_pos /\ ~WriterAt(dequeue_pos)
      BY <2>2, <3>1 DEF Inv, Ahead
    <3> QED
      BY <1>1, <1>2, <3>2, Constants DEF WriterAt
  <2> QED
    BY <1>1, <2>1, <2>2 DEF Ahead
<1> QED
  BY <1>2, <1>9, <1>10, <1>11, <1>12, <1>13, <1>14 DEF Inv

\* The release of a popped position frees its cell for the position a lap later, and changes
\* no other cell (mpmc_queue.cpp:121).
LEMMA ReleasePopInv == ASSUME Inv, NEW t \in Consumers, Release(t) PROVE Inv'
<1>1. /\ sequence' = [sequence EXCEPT ![Slot(pos[t])] = pos[t] + Capacity]
      /\ data' = data /\ enqueue_pos' = enqueue_pos /\ dequeue_pos' = dequeue_pos
      /\ pos' = pos /\ items' = items
  BY Constants DEF Release, Released, positions, history
<1>2. /\ Shape' /\ Order' /\ Shares' /\ Origins'
      /\ pc[t] = "release" /\ Holds(t) /\ ~Holds(t)' /\ pc'[t] \in {"done", "load"}
      /\ \A u \in Threads : u # t => pc'[u] = pc[u] /\ (Holds(u)' <=> Holds(u))
      /\ \A u \in Threads : Holds(u)' => Holds(u) /\ u # t
      /\ \A u \in Threads : u # t => Item(u)' = Item(u)
  BY ReleaseShares, Constants
<1>3. /\ Capacity \in Nat /\ enqueue_pos \in Nat /\ dequeue_pos \in Nat
      /\ \A u \in Threads : pos[u] \in Nat
      /\ dequeue_pos <= enqueue_pos /\ enqueue_pos <= dequeue_pos + Capacity
      /\ sequence \in [Slots -> Nat] /\ t \in Threads /\ pos[t] \in Nat
  BY Constants DEF Inv, Shape, Order
<1>4. enqueue_pos <= pos[t] + Capacity /\ pos[t] < dequeue_pos /\ Slot(pos[t]) \in Slots
  BY <1>2, <1>3, SlotIn DEF Inv, Reservations
<1>5. sequence'[Slot(pos[t])] = pos[t] + Capacity
  BY <1>1, <1>3, <1>4
<1>6. ASSUME NEW p \in Nat, p # pos[t], p < pos[t] + Capacity, pos[t] < p + Capacity
      PROVE  sequence'[Slot(p)] = sequence[Slot(p)]
  BY <1>1, <1>3, <1>6, SlotsDiffer, SlotIn
<1>7. \A u \in Producers : u # t /\ (Holds(u)' <=> Holds(u)) /\ pc'[u] = pc[u]
  BY <1>2, Constants
<1>8. \A p : WriterAt(p)' <=> WriterAt(p)
  BY <1>1, <1>7 DEF WriterAt
<1>9. Reservations'
  BY <1>1, <1>2, Constants DEF Inv, Reservations
<1>10. Pending'
  <2> SUFFICES ASSUME NEW u \in Producers, Holds(u)
               PROVE  /\ sequence'[Slot(pos[u])] = pos[u] /\ items[pos[u] + 1] = Item(u)
                      /\ pc[u] = "release" => data[Slot(pos[u])] = items[pos[u] + 1]
    BY <1>1, <1>2, <1>7, Constants DEF Pending
  <2>1. /\ pos[u] # pos[t] /\ pos[u] < pos[t] + Capacity /\ pos[t] < pos[u] + Capacity
        /\ pos[u] \in Nat
    BY <1>3, <1>4, Constants DEF Inv, Reservations
  <2>2. sequence'[Slot(pos[u])] = sequence[Slot(pos[u])]
    BY <1>6, <2>1
  <2> QED
    BY <2>2 DEF Inv, Pending
<1>11. Taken'
  <2> SUFFICES ASSUME NEW c \in Consumers, Holds(c)'
               PROVE  sequence'[Slot(pos[c])] = pos[c] + 1 /\ data[Slot(pos[c])] = items[pos[c] + 1]
    BY <1>1 DEF Taken
  <2>1. c # t /\ Holds(c)
    BY <1>2, Constants
  <2>2. /\ pos[c] # pos[t] /\ pos[c] < pos[t] + Capacity /\ pos[t] < pos[c] + Capacity
        /\ pos[c] \in Nat
    BY <1>2, <1>3, <1>4, <2>1, Constants DEF Inv, Reservations
  <2>3. sequence'[Slot(pos[c])] = sequence[Slot(pos[c])]
    BY <1>6, <2>2
  <2> QED
    BY <2>1, <2>3 DEF Inv, Taken
<1>12. Occupied'
  <2> SUFFICES ASSUME NEW p \in Nat, dequeue_pos <= p, p < enqueue_pos, ~WriterAt(p)
               PROVE  sequence'[Slot(p)] = p + 1 /\ data[Slot(p)] = items[p + 1]
    BY <1>1, <1>8 DEF Occupied
  <2>1. p # pos[t] /\ p < pos[t] + Capacity /\ pos[t] < p + Capacity
    BY <1>3, <1>4
  <2>2. sequence'[Slot(p)] = sequence[Slot(p)]
    BY <1>6, <2>1
  <2> QED
    BY <2>2 DEF Inv, Occupied
<1>13. Vacant'
  <2> SUFFICES ASSUME NEW p \in Nat, enqueue_pos <= p, p < dequeue_pos + Capacity,
                      \A c \in Consumers : Holds(c)' => pos[c] + Capacity # p
               PROVE  sequence'[Slot(p)] = p
    BY <1>1 DEF Vacant
  <2>1. CASE p = pos[t] + Capacity
    BY <1>3, <1>5, <2>1, SlotLap
  <2>2. CASE p # pos[t] + Capacity
    <3>1. p < pos[t] + Capacity + Capacity /\ pos[t] + Capacity < p + Capacity
      BY <1>3, <1>4
    <3>2. pos[t] + Capacity \in Nat
      BY <1>3
    <3>3. Slot(p) # Slot(pos[t])
      BY <1>3, <2>2, <3>1, <3>2, SlotsDiffer, SlotLap
    <3>4. sequence'[Slot(p)] = sequence[Slot(p)]
      BY <1>1, <1>3, <3>3, SlotIn
    <3>5. \A c \in Consumers : Holds(c) => pos[c] + Capacity # p
      BY <1>2, <2>2, Constants
    <3> QED
      BY <3>4, <3>5 DEF Inv, Vacant
  <2> QED
    BY <2>1, <2>2
<1>14. Ahead'
  <2>1. ASSUME NEW u \in Producers, pc'[u] = "cas", pos[u] = enqueue_pos
        PROVE  /\ enqueue_pos < dequeue_pos + Capacity
               /\ \A c \in Consumers : Holds(c)' => pos[c] + Capacity # enqueue_pos
    BY <1>2, <1>7, <2>1, Constants DEF Inv, Ahead
  <2>2. ASSUME NEW c \in Consumers, pc'[c] = "cas", pos[c] = dequeue_pos
        PROVE  dequeue_pos < enqueue_pos /\ ~WriterAt(dequeue_pos)
    <3>1. pc[c] = "cas"
      BY <1>2, <2>2, Constants
    <3> QED
      BY <2>2, <3>1 DEF Inv, Ahead
  <2> QED
    BY <1>1, <1>8, <2>1, <2>2 DEF Ahead
<1> QED
  BY <1>2, <1>9, <1>10, <1>11, <1>12, <1>13, <1>14 DEF Inv

-----------------------------------------------------------------------------
\* The invariant holds in every state of the program.
THEOREM Invariance == Spec => []Inv
<1>1. Inv /\ UNCHANGED vars => Inv'
  <2> SUFFICES ASSUME Inv, UNCHANGED vars PROVE Inv'
    OBVIOUS
  <2>1. /\ sequence' = sequence /\ data' = data /\ items' = items /\ got' = got
        /\ enqueue_pos' = enqueue_pos /\ dequeue_pos' = dequeue_pos
        /\ pc' = pc /\ pos' = pos /\ count' = count /\ value' = value /\ checksum' = checksum
    BY DEF vars, cells, positions, history
  <2>2. Shape' /\ Order' /\ Reservations'
    BY <2>1 DEF Inv, Shape, Order, Reservations, Holds
  <2>3. Pending' /\ Taken' /\ Occupied'
    BY <2>1 DEF Inv, Pending, Taken, Occupied, Holds, WriterAt, Item
  <2>4. Vacant' /\ Ahead'
    BY <2>1 DEF Inv, Vacant, Ahead, Holds, WriterAt
  <2>5. Shares' /\ Origins'
    BY <2>1 DEF Inv, Shares, Origins, Holds, Quota, Moved
  <2> QED
    BY <2>2, <2>3, <2>4, <2>5 DEF Inv
<1>2. ASSUME Inv, NEW t \in Threads, Reserve(t) PROVE Inv'
  <2>1. CASE ~Reserves(t)
    BY <1>2, <2>1, ReserveFailsInv
  <2>2. CASE Reserves(t) /\ t \in Producers
    BY <1>2, <2>2, ReservePushInv
  <2>3. CASE Reserves(t) /\ t \in Consumers
    BY <1>2, <2>3, ReservePopInv
  <2> QED
    BY <2>1, <2>2, <2>3, Constants
<1>3. ASSUME Inv, NEW t \in Threads, Release(t) PROVE Inv'
  <2>1. CASE t \in Producers
    BY <1>3, <2>1, ReleasePushInv
  <2>2. CASE t \in Consumers
    BY <1>3, <2>2, ReleasePopInv
  <2> QED
    BY <2>1, <2>2, Constants
<1>4. ASSUME Inv, NEW t \in Threads, Run(t) PROVE Inv'
  BY <1>2, <1>3, <1>4, LoadPosInv, LoadSeqInv, WriteDataInv, ReadDataInv DEF Run
<1>5. Inv /\ [Next]_vars => Inv'
  BY <1>1, <1>4 DEF Next, Joined
<1> QED
  BY <1>5, InitInv, PTL DEF Spec

-----------------------------------------------------------------------------
(* The properties.                                                         *)

\* No more positions are reserved than there are items: two would hold the same item.
LEMMA ItemsBound == Inv => enqueue_pos <= TotalItems
<1> SUFFICES ASSUME Inv, TotalItems < enqueue_pos PROVE FALSE
  BY Constants DEF Inv, Shape
<1>1. enqueue_pos \in Nat /\ TotalItems \in Nat /\ items \in Seq(Nat) /\ Len(items) = enqueue_pos
  BY Constants DEF Inv, Shape, Order
<1>2. ASSUME NEW i \in 1..enqueue_pos PROVE items[i] \in 1..TotalItems \cup {0} /\ items[i] < TotalItems
  <2>1. PICK t \in Producers :
            t * PerProducer <= items[i] /\ items[i] < t * PerProducer + Moved(t)
    BY DEF Inv, Origins
  <2>2. /\ t \in Nat /\ t < NProducers /\ PerProducer \in Nat \ {0} /\ NProducers \in Nat
        /\ items[i] \in Nat /\ t * PerProducer \in Nat
        /\ NProducers * PerProducer = TotalItems
    BY <1>1, Constants
  <2>3. Moved(t) \in Nat /\ Moved(t) <= PerProducer
    <3>1. t \in Threads /\ Quota(t) = PerProducer /\ count[t] \in Nat
      BY Constants DEF Inv, Shape
    <3>2. CASE pc[t] = "done"
      BY <2>2, <3>1, <3>2 DEF Inv, Shares, Moved, Holds
    <3>3. CASE pc[t] # "done"
      BY <2>2, <3>1, <3>3 DEF Inv, Shares, Moved
    <3> QED
      BY <3>2, <3>3
  <2>4. PerProducer * t + PerProducer <= PerProducer * NProducers
    BY <2>2, Mult
  <2>5. PICK m \in Nat : m = t * PerProducer /\ m + PerProducer <= TotalItems
    <3>1. PerProducer * t = t * PerProducer /\ PerProducer * NProducers = NProducers * PerProducer
      BY <2>2
    <3> QED
      BY <2>2, <2>4, <3>1
  <2>6. items[i] < TotalItems
    <3>1. items[i] < m + Moved(t)
      BY <2>1, <2>5
    <3> QED
      BY <1>1, <2>2, <2>3, <2>5, <3>1
  <2> QED
    BY <1>1, <2>2, <2>6
<1> DEFINE f == [i \in 1..enqueue_pos |-> items[i]]
<1>3. f \in [1..enqueue_pos -> 0..(TotalItems - 1)]
  <2>1. \A i \in 1..enqueue_pos : items[i] \in 0..(TotalItems - 1)
    BY <1>1, <1>2
  <2> QED
    BY <2>1
<1>4. /\ IsFiniteSet(1..enqueue_pos) /\ IsFiniteSet(0..(TotalItems - 1))
      /\ Cardinality(0..(TotalItems - 1)) < Cardinality(1..enqueue_pos)
  <2>1. /\ IsFiniteSet(1..enqueue_pos)
        /\ Cardinality(1..enqueue_pos) = IF 1 > enqueue_pos THEN 0 ELSE enqueue_pos - 1 + 1
    BY <1>1, FS_Interval
  <2>2. TotalItems - 1 \in Int
    BY <1>1
  <2>3. /\ IsFiniteSet(0..(TotalItems - 1))
        /\ Cardinality(0..(TotalItems - 1)) = IF 0 > TotalItems - 1 THEN 0 ELSE TotalItems - 1 - 0 + 1
    BY <2>2, FS_Interval
  <2>4. Cardinality(1..enqueue_pos) = enqueue_pos /\ Cardinality(0..(TotalItems - 1)) = TotalItems
    BY <1>1, <2>1, <2>3
  <2> QED
    BY <2>1, <2>3, <2>4
<1> HIDE DEF f
<1>5. \E i, j \in 1..enqueue_pos : i # j /\ f[i] = f[j]
  BY <1>3, <1>4, FS_PigeonHole
<1> QED
  BY <1>5 DEF f, Inv, Origins

\* Every variable has its type: no position passes the number of items, and no thread
\* moves more than its share.
THEOREM TypeCorrect == Spec => []TypeOK
<1>1. Inv => TypeOK
  <2> SUFFICES ASSUME Inv PROVE TypeOK
    OBVIOUS
  <2>1. /\ enqueue_pos \in Nat /\ dequeue_pos \in Nat /\ dequeue_pos <= enqueue_pos
        /\ enqueue_pos <= TotalItems /\ TotalItems \in Nat
    BY ItemsBound, Constants DEF Inv, Shape, Order
  <2>2. \A t \in Threads : pos[t] \in 0..TotalItems
    BY <2>1, Constants DEF Inv, Shape, Order
  <2>3. \A t \in Threads : count[t] \in 0..Quota(t)
    <3> SUFFICES ASSUME NEW t \in Threads PROVE count[t] \in 0..Quota(t)
      OBVIOUS
    <3>1. count[t] \in Nat /\ Quota(t) \in Nat /\ (count[t] < Quota(t) \/ count[t] = Quota(t))
      BY Constants DEF Inv, Shape, Shares
    <3> QED
      BY <3>1
  <2>4. pos \in [Threads -> 0..TotalItems]
    BY <2>2 DEF Inv, Shape
  <2> QED
    BY <2>1, <2>3, <2>4 DEF Inv, Shape, TypeOK
<1> QED
  BY <1>1, Invariance, PTL

\* No cell is accessed by two threads at once, whatever laps they are in.
THEOREM DataRaceFree == Spec => []NoDataRace
<1>1. Inv => NoDataRace
  <2> SUFFICES ASSUME Inv, NEW t \in Threads, NEW u \in Threads,
                      t # u, Holds(t), Holds(u)
               PROVE  Slot(pos[t]) # Slot(pos[u])
    BY DEF NoDataRace, Holds
  <2>1. /\ Capacity \in Nat /\ pos[t] \in Nat /\ pos[u] \in Nat
        /\ enqueue_pos \in Nat /\ dequeue_pos \in Nat
        /\ dequeue_pos <= enqueue_pos /\ enqueue_pos <= dequeue_pos + Capacity
    BY Constants DEF Inv, Shape, Order
  <2>2. pos[t] # pos[u]
    BY DEF Inv, Reservations
  <2>3. pos[t] < enqueue_pos /\ enqueue_pos <= pos[t] + Capacity
    BY <2>1, Constants DEF Inv, Reservations
  <2>4. pos[u] < enqueue_pos /\ enqueue_pos <= pos[u] + Capacity
    BY <2>1, Constants DEF Inv, Reservations
  <2>5. pos[t] < pos[u] + Capacity /\ pos[u] < pos[t] + Capacity
    BY <2>1, <2>3, <2>4
  <2> QED
    BY <2>1, <2>2, <2>5, SlotsDiffer
<1> QED
  BY <1>1, Invariance, PTL

-----------------------------------------------------------------------------
(* The refinement.                                                         *)

\* The items of the positions reserved for a push and not yet for a pop.
Content == SubSeq(items, dequeue_pos + 1, enqueue_pos)

\* What a consumer took out, with the item it is about to read.
TakenBy(c) == IF pc[c] = "access" THEN Append(got[c], items[pos[c] + 1]) ELSE got[c]

LEMMA ContentShape ==
    ASSUME NEW s \in Seq(Nat), NEW d \in Nat, NEW n \in Nat, d <= n, n <= Len(s)
    PROVE  /\ SubSeq(s, d + 1, n) \in Seq(Nat)
           /\ Len(SubSeq(s, d + 1, n)) = n - d
           /\ \A i \in 1..(n - d) : SubSeq(s, d + 1, n)[i] = s[d + i]
<1> DEFINE a == SubSeq(s, d + 1, n)
<1>1. Len(s) \in Nat /\ d + 1 \in Int
  BY LenProperties
<1>2. \A i \in (d + 1)..n : s[i] \in Nat
  BY <1>1, ElementOfSeq
<1>3. /\ a \in Seq(Nat) /\ Len(a) = IF d + 1 <= n THEN n - (d + 1) + 1 ELSE 0
      /\ \A i \in 1..(n - (d + 1) + 1) : a[i] = s[(d + 1) + i - 1]
  BY <1>1, <1>2, SubSeqProperties
<1> HIDE DEF a
<1>4. Len(a) = n - d
  BY <1>3
<1>5. ASSUME NEW i \in 1..(n - d) PROVE a[i] = s[d + i]
  <2>1. i \in 1..(n - (d + 1) + 1) /\ (d + 1) + i - 1 = d + i
    OBVIOUS
  <2>2. a[i] = s[(d + 1) + i - 1]
    BY <1>3, <2>1
  <2> QED
    BY <2>1, <2>2
<1> QED
  BY <1>3, <1>4, <1>5 DEF a

\* A reserved push appends to the content.
LEMMA ContentAppend ==
    ASSUME NEW s \in Seq(Nat), NEW d \in Nat, d <= Len(s), NEW x \in Nat
    PROVE  SubSeq(Append(s, x), d + 1, Len(s) + 1) = Append(SubSeq(s, d + 1, Len(s)), x)
<1> DEFINE r == Append(s, x)
           a == SubSeq(r, d + 1, Len(s) + 1)
           c == SubSeq(s, d + 1, Len(s))
           b == Append(c, x)
<1>1. /\ Len(s) \in Nat /\ r \in Seq(Nat) /\ Len(r) = Len(s) + 1
      /\ r[Len(s) + 1] = x /\ \A i \in 1..Len(s) : r[i] = s[i]
  BY LenProperties, AppendProperties
<1>2. /\ c \in Seq(Nat) /\ Len(c) = Len(s) - d
      /\ \A i \in 1..(Len(s) - d) : c[i] = s[d + i]
  BY <1>1, ContentShape
<1> HIDE DEF r, c
<1>3. /\ a \in Seq(Nat) /\ Len(a) = Len(s) + 1 - d
      /\ \A i \in 1..(Len(s) + 1 - d) : a[i] = r[d + i]
  <2>1. PICK n \in Nat : n = Len(s) + 1 /\ d <= n /\ n <= Len(r)
    BY <1>1
  <2>2. /\ SubSeq(r, d + 1, n) \in Seq(Nat) /\ Len(SubSeq(r, d + 1, n)) = n - d
        /\ \A i \in 1..(n - d) : SubSeq(r, d + 1, n)[i] = r[d + i]
    <3>1. r \in Seq(Nat) /\ d <= n /\ n <= Len(r)
      BY <1>1, <2>1
    <3> QED
      BY <3>1, ContentShape
  <2> QED
    BY <2>1, <2>2
<1>4. /\ b \in Seq(Nat) /\ Len(b) = Len(c) + 1 /\ b[Len(c) + 1] = x
      /\ \A i \in 1..Len(c) : b[i] = c[i]
  BY <1>2, AppendProperties
<1> HIDE DEF a, b
<1>5. ASSUME NEW i \in 1..Len(a) PROVE a[i] = b[i]
  <2>1. CASE i = Len(c) + 1
    <3>1. d + i = Len(s) + 1 /\ i \in 1..(Len(s) + 1 - d)
      BY <1>1, <1>2, <1>3, <2>1
    <3>2. a[i] = r[Len(s) + 1]
      BY <1>3, <3>1
    <3> QED
      BY <1>1, <1>4, <2>1, <3>2
  <2>2. CASE i \in 1..Len(c)
    <3>1. d + i \in 1..Len(s) /\ i \in 1..(Len(s) - d) /\ i \in 1..(Len(s) + 1 - d)
      BY <1>1, <1>2, <2>2
    <3> QED
      BY <1>1, <1>2, <1>3, <1>4, <2>2, <3>1
  <2>3. i = Len(c) + 1 \/ i \in 1..Len(c)
    BY <1>1, <1>2, <1>3
  <2> QED
    BY <2>1, <2>2, <2>3
<1>6. Len(a) = Len(b)
  BY <1>1, <1>2, <1>3, <1>4
<1>7. a = b
  BY <1>3, <1>4, <1>5, <1>6, SeqEqual
<1> QED
  BY <1>7 DEF a, b, c, r

\* A reserved pop takes the content's head.
LEMMA ContentTail ==
    ASSUME NEW s \in Seq(Nat), NEW d \in Nat, d < Len(s)
    PROVE  /\ SubSeq(s, d + 1, Len(s)) # << >>
           /\ Head(SubSeq(s, d + 1, Len(s))) = s[d + 1]
           /\ Tail(SubSeq(s, d + 1, Len(s))) = SubSeq(s, (d + 1) + 1, Len(s))
<1> DEFINE a == SubSeq(s, d + 1, Len(s))
           b == SubSeq(s, (d + 1) + 1, Len(s))
<1>1. Len(s) \in Nat /\ d + 1 \in Nat /\ d + 1 <= Len(s) /\ d <= Len(s)
  BY LenProperties
<1>2. /\ a \in Seq(Nat) /\ Len(a) = Len(s) - d
      /\ \A i \in 1..(Len(s) - d) : a[i] = s[d + i]
  <2>1. Len(s) <= Len(s)
    BY <1>1
  <2> QED
    BY <1>1, <2>1, ContentShape
<1>3. /\ b \in Seq(Nat) /\ Len(b) = Len(s) - (d + 1)
      /\ \A i \in 1..(Len(s) - (d + 1)) : b[i] = s[(d + 1) + i]
  <2>1. PICK e \in Nat : e = d + 1 /\ e <= Len(s) /\ Len(s) <= Len(s)
    BY <1>1
  <2>2. /\ SubSeq(s, e + 1, Len(s)) \in Seq(Nat) /\ Len(SubSeq(s, e + 1, Len(s))) = Len(s) - e
        /\ \A i \in 1..(Len(s) - e) : SubSeq(s, e + 1, Len(s))[i] = s[e + i]
    BY <1>1, <2>1, ContentShape
  <2> QED
    BY <2>1, <2>2
<1> HIDE DEF a, b
<1>4. a # << >> /\ a[1] = s[d + 1]
  <2>1. 1 \in 1..(Len(s) - d) /\ Len(a) # 0
    BY <1>1, <1>2
  <2>2. a # << >>
    BY <2>1
  <2> QED
    BY <1>2, <2>1, <2>2
<1>5. Head(a) = a[1]
  BY <1>2, <1>4
<1>6. /\ Tail(a) \in Seq(Nat) /\ Len(Tail(a)) = Len(a) - 1
      /\ \A i \in 1..Len(Tail(a)) : Tail(a)[i] = a[i + 1]
  BY <1>2, <1>4, HeadTailProperties
<1>7. ASSUME NEW i \in 1..Len(Tail(a)) PROVE Tail(a)[i] = b[i]
  <2>1. i + 1 \in 1..(Len(s) - d) /\ i \in 1..(Len(s) - (d + 1)) /\ d + (i + 1) = (d + 1) + i
    BY <1>1, <1>2, <1>6
  <2>2. a[i + 1] = s[d + (i + 1)] /\ b[i] = s[(d + 1) + i]
    BY <1>2, <1>3, <2>1
  <2> QED
    BY <1>6, <2>1, <2>2
<1>8. Len(Tail(a)) = Len(b)
  BY <1>1, <1>2, <1>3, <1>6
<1>9. Tail(a) = b
  BY <1>3, <1>6, <1>7, <1>8, SeqEqual
<1> QED
  BY <1>4, <1>5, <1>9 DEF a, b

\* A step that reserves nothing moves no item.
LEMMA Stutter ==
    ASSUME enqueue_pos' = enqueue_pos, dequeue_pos' = dequeue_pos, items' = items,
           \A p \in Producers : Moved(p)' = Moved(p),
           \A c \in Consumers : TakenBy(c)' = TakenBy(c)
    PROVE  UNCHANGED Fifo!vars
  BY DEF Fifo!vars, Moved, Holds, TakenBy

\* The compare-exchange of push() puts the producer's next item in.
LEMMA PushStep ==
    ASSUME Inv, NEW t \in Producers, Reserve(t), Reserves(t)
    PROVE  Fifo!Push(t)
<1>1. /\ Step(t, "cas", "access") /\ pos[t] = enqueue_pos
      /\ enqueue_pos' = enqueue_pos + 1 /\ items' = Append(items, Item(t))
      /\ dequeue_pos' = dequeue_pos /\ pos' = pos /\ count' = count /\ got' = got
  BY DEF Reserve, Reserves, Shared
<1>2. pc[t] = "cas" /\ pc'[t] = "access" /\ \A u \in Threads : u # t => pc'[u] = pc[u]
  BY <1>1, StepMoves, Constants DEF Inv
<1>3. /\ Capacity \in Nat /\ enqueue_pos \in Nat /\ dequeue_pos \in Nat
      /\ \A u \in Threads : pos[u] \in Nat /\ count[u] \in Nat
      /\ items \in Seq(Nat) /\ Len(items) = enqueue_pos /\ dequeue_pos <= enqueue_pos
      /\ enqueue_pos < dequeue_pos + Capacity
  BY <1>1, <1>2, Constants DEF Inv, Shape, Order, Ahead
<1>4. Moved(t) = count[t] /\ Moved(t)' = count[t] + 1 /\ count[t] < PerProducer
  BY <1>1, <1>2, <1>3, Constants DEF Moved, Holds, Inv, Shares
<1>5. \A p \in Producers : p # t => Moved(p)' = Moved(p)
  BY <1>1, <1>2, Constants DEF Moved, Holds
<1>6. Item(t) = t * PerProducer + Moved(t) /\ Item(t) \in Nat
  BY <1>3, <1>4, Constants DEF Item
<1>7. Content' = Append(Content, Item(t)) /\ Len(Content) = enqueue_pos - dequeue_pos
  BY <1>1, <1>3, <1>6, ContentAppend, ContentShape DEF Content
<1>8. Len(Content) < Capacity
  BY <1>3, <1>7
<1>9. ASSUME NEW c \in Consumers PROVE TakenBy(c)' = TakenBy(c)
  <2>1. pc'[c] = pc[c]
    BY <1>2, Constants
  <2>2. ASSUME pc[c] = "access" PROVE items'[pos[c] + 1] = items[pos[c] + 1]
    <3>1. pos[c] < dequeue_pos
      BY <2>2 DEF Inv, Reservations, Holds
    <3>2. pos[c] + 1 \in 1..Len(items)
      BY <1>3, <3>1, Constants
    <3> QED
      BY <1>1, <1>3, <1>6, <3>2, AppendProperties
  <2> QED
    BY <1>1, <2>1, <2>2 DEF TakenBy
<1>10. [p \in Producers |-> Moved(p)]' = [[p \in Producers |-> Moved(p)] EXCEPT ![t] = @ + 1]
  BY <1>4, <1>5
<1>11. [c \in Consumers |-> TakenBy(c)]' = [c \in Consumers |-> TakenBy(c)]
  BY <1>9
<1> QED
  BY <1>4, <1>6, <1>7, <1>8, <1>10, <1>11 DEF Fifo!Push, Moved, Holds, TakenBy, Content

\* The compare-exchange of pop() takes the oldest item out.
LEMMA PopStep ==
    ASSUME Inv, NEW t \in Consumers, Reserve(t), Reserves(t)
    PROVE  Fifo!Pop(t)
<1>1. /\ Step(t, "cas", "access") /\ pos[t] = dequeue_pos
      /\ dequeue_pos' = dequeue_pos + 1 /\ items' = items
      /\ enqueue_pos' = enqueue_pos /\ pos' = pos /\ count' = count /\ got' = got
  BY Constants DEF Reserve, Reserves, Shared
<1>2. pc[t] = "cas" /\ pc'[t] = "access" /\ \A u \in Threads : u # t => pc'[u] = pc[u]
  BY <1>1, StepMoves, Constants DEF Inv
<1>3. /\ enqueue_pos \in Nat /\ dequeue_pos \in Nat /\ count[t] \in Nat
      /\ items \in Seq(Nat) /\ Len(items) = enqueue_pos /\ dequeue_pos < enqueue_pos
      /\ got[t] \in Seq(Nat)
  BY <1>1, <1>2, Constants DEF Inv, Shape, Order, Ahead
<1>4. TakenBy(t) = got[t] /\ Len(got[t]) = count[t] /\ count[t] < PerConsumer
  BY <1>2, <1>3, Constants DEF TakenBy, Inv, Shares
<1>5. TakenBy(t)' = Append(got[t], items[dequeue_pos + 1])
  BY <1>1, <1>2 DEF TakenBy
<1>6. \A c \in Consumers : c # t => TakenBy(c)' = TakenBy(c)
  BY <1>1, <1>2, Constants DEF TakenBy
<1>7. Content # << >> /\ Head(Content) = items[dequeue_pos + 1] /\ Content' = Tail(Content)
  <2>1. Content' = SubSeq(items, (dequeue_pos + 1) + 1, Len(items))
    BY <1>1, <1>3 DEF Content
  <2> QED
    BY <1>3, <2>1, ContentTail DEF Content
<1>8. \A p \in Producers : Moved(p)' = Moved(p)
  BY <1>1, <1>2, Constants DEF Moved, Holds
<1>9. [c \in Consumers |-> TakenBy(c)]'
        = [[c \in Consumers |-> TakenBy(c)] EXCEPT ![t] = Append(@, Head(Content))]
  BY <1>4, <1>5, <1>6, <1>7
<1>10. [p \in Producers |-> Moved(p)]' = [p \in Producers |-> Moved(p)]
  BY <1>8
<1>11. Len([c \in Consumers |-> TakenBy(c)][t]) < PerConsumer
  BY <1>4
<1> QED
  BY <1>7, <1>9, <1>10, <1>11 DEF Fifo!Pop, Moved, Holds, TakenBy, Content

\* Every step of a thread is a step of the shared queue, or a stutter.
LEMMA QueueStep == Inv /\ [Next]_vars => [Fifo!Next]_(Fifo!vars)
<1> SUFFICES ASSUME Inv, [Next]_vars PROVE [Fifo!Next]_(Fifo!vars)
  OBVIOUS
<1>1. CASE UNCHANGED vars
  <2>1. \A p \in Producers : Moved(p)' = Moved(p)
    BY <1>1 DEF vars, Moved, Holds
  <2>2. \A c \in Consumers : TakenBy(c)' = TakenBy(c)
    BY <1>1 DEF vars, history, TakenBy
  <2> QED
    BY <1>1, <2>1, <2>2, Stutter DEF vars, positions, history
<1>2. ASSUME NEW t \in Threads, NEW from, NEW to, Step(t, from, to),
             from \notin {"access", "release"}, to \notin {"access", "release"},
             UNCHANGED <<positions, count, history>>,
             \A u \in Threads : u # t => pos'[u] = pos[u]
      PROVE  UNCHANGED Fifo!vars
  <2>1. pc[t] = from /\ pc'[t] = to /\ \A u \in Threads : u # t => pc'[u] = pc[u]
    BY <1>2, StepMoves DEF Inv
  <2>2. /\ enqueue_pos' = enqueue_pos /\ dequeue_pos' = dequeue_pos /\ items' = items
        /\ got' = got /\ count' = count
    BY <1>2 DEF positions, history
  <2>3. \A p \in Producers : Moved(p)' = Moved(p)
    BY <1>2, <2>1, <2>2, Constants DEF Moved, Holds
  <2>4. \A c \in Consumers : TakenBy(c)' = TakenBy(c)
    BY <1>2, <2>1, <2>2, Constants DEF TakenBy
  <2> QED
    BY <2>2, <2>3, <2>4, Stutter
<1>3. ASSUME NEW t \in Threads, LoadPos(t) PROVE UNCHANGED Fifo!vars
  <2>1. Step(t, "load", "seq") /\ UNCHANGED <<positions, count, history>>
    BY <1>3 DEF LoadPos
  <2>2. \A u \in Threads : u # t => pos'[u] = pos[u]
    BY <1>3 DEF LoadPos, Inv, Shape
  <2> QED
    BY <1>2, <2>1, <2>2
<1>4. ASSUME NEW t \in Threads, LoadSeq(t) PROVE UNCHANGED Fifo!vars
  <2>1. \E to \in {"cas", "load"} : Step(t, "seq", to)
    BY <1>4 DEF LoadSeq, Retry
  <2>2. UNCHANGED <<positions, count, history>> /\ \A u \in Threads : u # t => pos'[u] = pos[u]
    BY <1>4 DEF LoadSeq
  <2> QED
    BY <1>2, <2>1, <2>2
<1>5. ASSUME NEW t \in Threads, Reserve(t) PROVE [Fifo!Next]_(Fifo!vars)
  <2>1. CASE ~Reserves(t)
    <3>1. Step(t, "cas", "seq") /\ UNCHANGED <<positions, count, history>>
      BY <1>5, <2>1 DEF Reserve, positions, history
    <3>2. \A u \in Threads : u # t => pos'[u] = pos[u]
      BY <1>5, <2>1 DEF Reserve, Inv, Shape
    <3> QED
      BY <1>2, <3>1, <3>2
  <2>2. CASE Reserves(t) /\ t \in Producers
    BY <1>5, <2>2, PushStep DEF Fifo!Next
  <2>3. CASE Reserves(t) /\ t \in Consumers
    BY <1>5, <2>3, PopStep DEF Fifo!Next
  <2> QED
    BY <2>1, <2>2, <2>3, Constants
<1>6. ASSUME NEW t \in Threads, WriteData(t) PROVE UNCHANGED Fifo!vars
  <2>1. /\ t \in Producers /\ pc[t] = "access" /\ pc'[t] = "release"
        /\ \A u \in Threads : u # t => pc'[u] = pc[u]
    BY <1>6, StepMoves DEF WriteData, Inv
  <2>2. /\ enqueue_pos' = enqueue_pos /\ dequeue_pos' = dequeue_pos /\ items' = items
        /\ got' = got /\ count' = count /\ pos' = pos
    BY <1>6 DEF WriteData, positions, history
  <2>3. \A p \in Producers : Moved(p)' = Moved(p)
    BY <2>1, <2>2, Constants DEF Moved, Holds
  <2>4. \A c \in Consumers : TakenBy(c)' = TakenBy(c)
    BY <2>1, <2>2, Constants DEF TakenBy
  <2> QED
    BY <2>2, <2>3, <2>4, Stutter
<1>7. ASSUME NEW t \in Threads, ReadData(t) PROVE UNCHANGED Fifo!vars
  <2>1. /\ t \in Consumers /\ pc[t] = "access" /\ pc'[t] = "release"
        /\ \A u \in Threads : u # t => pc'[u] = pc[u]
    BY <1>7, StepMoves DEF ReadData, Inv
  <2>2. /\ enqueue_pos' = enqueue_pos /\ dequeue_pos' = dequeue_pos /\ items' = items
        /\ got' = [got EXCEPT ![t] = Append(got[t], data[Slot(pos[t])])]
        /\ count' = count /\ pos' = pos
    BY <1>7 DEF ReadData, positions, cells
  <2>3. \A p \in Producers : Moved(p)' = Moved(p)
    BY <2>1, <2>2, Constants DEF Moved, Holds
  <2>4. got'[t] = Append(got[t], items[pos[t] + 1])
    BY <2>1, <2>2 DEF Inv, Shape, Taken, Holds
  <2>5. \A c \in Consumers : c # t => got'[c] = got[c]
    BY <2>1, <2>2 DEF Inv, Shape
  <2>6. \A c \in Consumers : TakenBy(c)' = TakenBy(c)
    BY <2>1, <2>2, <2>4, <2>5, Constants DEF TakenBy
  <2> QED
    BY <2>2, <2>3, <2>6, Stutter
<1>8. ASSUME NEW t \in Threads, Release(t) PROVE UNCHANGED Fifo!vars
  <2>1. /\ pc[t] = "release" /\ pc'[t] \in {"done", "load"}
        /\ \A u \in Threads : u # t => pc'[u] = pc[u]
        /\ \A u \in Threads : Moved(u)' = Moved(u)
    BY <1>8, ReleaseShares
  <2>2. /\ enqueue_pos' = enqueue_pos /\ dequeue_pos' = dequeue_pos /\ items' = items
        /\ got' = got /\ pos' = pos
    BY <1>8 DEF Release, positions, history
  <2>3. \A c \in Consumers : TakenBy(c)' = TakenBy(c)
    BY <2>1, <2>2, Constants DEF TakenBy
  <2> QED
    BY <2>1, <2>2, <2>3, Constants, Stutter
<1> QED
  BY <1>1, <1>3, <1>4, <1>5, <1>6, <1>7, <1>8 DEF Next, Run, Joined

\* Every behaviour of the threads, in whatever order they reserve and release, is one of a
\* first-in first-out queue of Capacity items that delivers each item once.
THEOREM Refinement == Spec => ImplementsQueue
<1>1. Init => Fifo!Init
  BY SubSeqEmpty, Constants DEF Init, Fifo!Init
<1> QED
  BY <1>1, QueueStep, Invariance, PTL DEF Spec, ImplementsQueue, Fifo!Spec

-----------------------------------------------------------------------------
(* The checksum.  Sums over the threads account for what is in the queue:  *)
(* each position was reserved by one push, and at most one pop; the items  *)
(* a producer pushed are an initial piece of its range; a consumer's sum   *)
(* is that of the positions it popped but for the one it has in hand.      *)

\* Twice the sum of the items that producer p put in so far: p * PerProducer and those after it.
Pushed(p) == 2 * (p * PerProducer) * Moved(p) + Moved(p) * (Moved(p) - 1)

\* What a consumer's sum will be when it has released the cell it has reserved.
Owed(c) == checksum[c] + (IF pc[c] = "access" THEN items[pos[c] + 1]
                          ELSE IF pc[c] = "release" THEN value[c] ELSE 0)

Sums ==
    /\ enqueue_pos = SumOver([p \in Producers |-> Moved(p)], Producers)
    /\ dequeue_pos = SumOver([c \in Consumers |-> Moved(c)], Consumers)
    /\ 2 * SumOver(items, 1..enqueue_pos) = SumOver([p \in Producers |-> Pushed(p)], Producers)
    /\ SumOver(items, 1..dequeue_pos) = SumOver([c \in Consumers |-> Owed(c)], Consumers)

LEMMA Finite == IsFiniteSet(Producers) /\ IsFiniteSet(Consumers)
<1>1. NProducers - 1 \in Int /\ NConsumers \in Int /\ NProducers + NConsumers - 1 \in Int
  BY Constants
<1> QED
  BY <1>1, Constants, FS_Interval DEF Producers, Consumers

\* The terms of the sums are integers.
LEMMA Terms ==
    ASSUME Inv
    PROVE  /\ \A t \in Threads : Moved(t) \in Nat
           /\ \A p \in Producers : Pushed(p) \in Int
           /\ \A c \in Consumers : Owed(c) \in Int
           /\ \A i \in 1..enqueue_pos : items[i] \in Int
           /\ enqueue_pos \in Nat /\ dequeue_pos \in Nat /\ 1..dequeue_pos \subseteq 1..enqueue_pos
<1>1. /\ enqueue_pos \in Nat /\ dequeue_pos \in Nat /\ dequeue_pos <= enqueue_pos
      /\ items \in Seq(Nat) /\ Len(items) = enqueue_pos
      /\ \A t \in Threads : count[t] \in Nat /\ pos[t] \in Nat
      /\ \A c \in Consumers : checksum[c] \in Nat /\ value[c] \in Nat
  BY DEF Inv, Shape, Order
<1>2. \A t \in Threads : Moved(t) \in Nat
  BY <1>1 DEF Moved
<1>3. ASSUME NEW p \in Producers PROVE Pushed(p) \in Int
  <2>1. p * PerProducer \in Int /\ Moved(p) \in Int
    BY <1>2, Constants
  <2>2. 2 * (p * PerProducer) * Moved(p) \in Int /\ Moved(p) * (Moved(p) - 1) \in Int
    BY <2>1
  <2> QED
    BY <2>2 DEF Pushed
<1>4. \A i \in 1..enqueue_pos : items[i] \in Nat
  BY <1>1, ElementOfSeq
<1>5. ASSUME NEW c \in Consumers PROVE Owed(c) \in Int
  <2>1. pc[c] = "access" => pos[c] + 1 \in 1..enqueue_pos
    BY <1>1, Constants DEF Inv, Reservations, Holds
  <2>2. pc[c] = "access" => items[pos[c] + 1] \in Nat
    BY <1>4, <2>1
  <2> QED
    BY <1>1, <2>2 DEF Owed
<1> QED
  BY <1>1, <1>2, <1>3, <1>4, <1>5

\* A step that reserves nothing leaves the sums alone.
LEMMA SumsStay ==
    ASSUME Sums, enqueue_pos' = enqueue_pos, dequeue_pos' = dequeue_pos, items' = items,
           \A t \in Threads : Moved(t)' = Moved(t), \A c \in Consumers : Owed(c)' = Owed(c)
    PROVE  Sums'
<1>1. \A p \in Producers : Moved(p)' = Moved(p)
  BY Constants
<1>2. \A p \in Producers : Pushed(p)' = Pushed(p)
  BY <1>1 DEF Pushed
<1>3. \A c \in Consumers : Moved(c)' = Moved(c)
  BY Constants
<1>4. /\ [p \in Producers |-> Moved(p)]' = [p \in Producers |-> Moved(p)]
      /\ [c \in Consumers |-> Moved(c)]' = [c \in Consumers |-> Moved(c)]
      /\ [p \in Producers |-> Pushed(p)]' = [p \in Producers |-> Pushed(p)]
      /\ [c \in Consumers |-> Owed(c)]' = [c \in Consumers |-> Owed(c)]
  BY <1>1, <1>2, <1>3
<1> QED
  BY <1>4 DEF Sums

\* An item more at the end of a sum.
LEMMA SumNext ==
    ASSUME NEW n \in Nat, NEW f, \A i \in 1..(n + 1) : f[i] \in Int
    PROVE  SumOver(f, 1..(n + 1)) = f[n + 1] + SumOver(f, 1..n) /\ SumOver(f, 1..n) \in Int
<1>1. (1..(n + 1)) \ {n + 1} = 1..n /\ n + 1 \in 1..(n + 1)
  OBVIOUS
<1>2. IsFiniteSet(1..(n + 1))
  BY FS_Interval
<1> QED
  BY <1>1, <1>2, SumStep

\* A push adds its item.
LEMMA SumsPush ==
    ASSUME Inv, Inv', Sums, NEW t \in Producers, Reserve(t), Reserves(t) PROVE Sums'
<1>1. /\ Step(t, "cas", "access") /\ enqueue_pos' = enqueue_pos + 1 /\ pos[t] = enqueue_pos
      /\ items' = Append(items, Item(t)) /\ dequeue_pos' = dequeue_pos /\ pos' = pos
      /\ count' = count /\ value' = value /\ checksum' = checksum
  BY DEF Reserve, Reserves, Shared
<1>2. pc[t] = "cas" /\ pc'[t] = "access" /\ \A u \in Threads : u # t => pc'[u] = pc[u]
  BY <1>1, StepMoves, Constants DEF Inv
<1>3. /\ t \in Threads /\ \A c \in Consumers : c # t /\ c \in Threads
      /\ \A p \in Producers : p \in Threads
  BY Constants
<1>4. /\ count[t] \in Nat /\ Moved(t) = count[t] /\ Moved(t)' = count[t] + 1
      /\ \A u \in Threads : u # t => Moved(u)' = Moved(u)
  BY <1>1, <1>2, <1>3 DEF Moved, Holds, Inv, Shape
<1>5. Item(t) = t * PerProducer + Moved(t) /\ Item(t) \in Nat
  <2>1. t * PerProducer \in Nat
    BY Constants
  <2> QED
    BY <1>4, <2>1 DEF Item
<1>6. /\ items \in Seq(Nat) /\ Len(items) = enqueue_pos /\ enqueue_pos \in Nat
      /\ \A u \in Threads : pos[u] \in Nat
  BY DEF Inv, Shape, Order
<1>7. items'[enqueue_pos + 1] = Item(t) /\ \A i \in 1..enqueue_pos : items'[i] = items[i]
  BY <1>1, <1>5, <1>6, AppendProperties
<1>8. \A c \in Consumers : Owed(c)' = Owed(c)
  <2> SUFFICES ASSUME NEW c \in Consumers PROVE Owed(c)' = Owed(c)
    OBVIOUS
  <2>1. pc'[c] = pc[c]
    BY <1>2, <1>3
  <2>2. pc[c] = "access" => pos[c] + 1 \in 1..enqueue_pos
    BY <1>3, <1>6, Terms DEF Inv, Reservations, Holds, Order
  <2> QED
    BY <1>1, <1>7, <2>1, <2>2 DEF Owed
<1>9. Pushed(t)' = Pushed(t) + 2 * Item(t)
  <2>1. PICK a \in Int, m \in Int : a = t * PerProducer /\ m = count[t]
    BY <1>4, Constants
  <2>2. 2 * a * (m + 1) + (m + 1) * (m + 1 - 1) = 2 * a * m + m * (m - 1) + 2 * (a + m)
    BY <2>1
  <2> QED
    BY <1>4, <1>5, <2>1, <2>2 DEF Pushed
<1>10. /\ \A p \in Producers : p # t => Moved(p)' = Moved(p) /\ Pushed(p)' = Pushed(p)
       /\ \A c \in Consumers : Moved(c)' = Moved(c)
  BY <1>3, <1>4 DEF Pushed
<1>t. /\ \A p \in Producers : /\ Moved(p) \in Int /\ Moved(p)' \in Int
                              /\ Pushed(p) \in Int /\ Pushed(p)' \in Int
      /\ \A i \in 1..enqueue_pos : items[i] \in Int
      /\ \A i \in 1..(enqueue_pos + 1) : items'[i] \in Int
  <2>1. \A p \in Producers : Moved(p) \in Int /\ Pushed(p) \in Int
    BY <1>3, Terms
  <2>2. \A p \in Producers : Moved(p)' \in Int
    BY <1>4, <1>10, <2>1
  <2>3. \A p \in Producers : Pushed(p)' \in Int
    BY <1>5, <1>9, <1>10, <2>1
  <2>4. \A i \in 1..enqueue_pos : items[i] \in Int
    BY Terms
  <2>5. \A i \in 1..(enqueue_pos + 1) : i \in 1..enqueue_pos \/ i = enqueue_pos + 1
    BY <1>6
  <2> QED
    BY <1>5, <1>7, <2>1, <2>2, <2>3, <2>4, <2>5
<1>11. SumOver([p \in Producers |-> Moved(p)]', Producers)
         = SumOver([p \in Producers |-> Moved(p)], Producers) + 1
  <2> DEFINE f == [p \in Producers |-> Moved(p)]
             g == [p \in Producers |-> Moved(p)']
  <2>1. /\ \A p \in Producers : f[p] \in Int /\ g[p] \in Int
        /\ \A p \in Producers : p # t => f[p] = g[p]
        /\ g[t] - f[t] = 1
    BY <1>4, <1>10, <1>t
  <2> HIDE DEF f, g
  <2>2. SumOver(g, Producers) = SumOver(f, Producers) + (g[t] - f[t])
    BY <2>1, Finite, SumChange
  <2> QED
    BY <2>1, <2>2 DEF f, g
<1>12. SumOver([p \in Producers |-> Pushed(p)]', Producers)
         = SumOver([p \in Producers |-> Pushed(p)], Producers) + 2 * Item(t)
  <2> DEFINE f == [p \in Producers |-> Pushed(p)]
             g == [p \in Producers |-> Pushed(p)']
  <2>1. /\ \A p \in Producers : f[p] \in Int /\ g[p] \in Int
        /\ \A p \in Producers : p # t => f[p] = g[p]
        /\ g[t] - f[t] = 2 * Item(t)
    BY <1>5, <1>9, <1>10, <1>t
  <2> HIDE DEF f, g
  <2>2. SumOver(g, Producers) = SumOver(f, Producers) + (g[t] - f[t])
    BY <2>1, Finite, SumChange
  <2> QED
    BY <2>1, <2>2 DEF f, g
<1>13. /\ SumOver(items', 1..(enqueue_pos + 1)) = Item(t) + SumOver(items, 1..enqueue_pos)
       /\ SumOver(items, 1..enqueue_pos) \in Int
  <2>1. SumOver(items', 1..(enqueue_pos + 1)) = items'[enqueue_pos + 1] + SumOver(items', 1..enqueue_pos)
    BY <1>6, <1>t, SumNext
  <2>2. IsFiniteSet(1..enqueue_pos)
    BY <1>6, FS_Interval
  <2>3. SumOver(items, 1..enqueue_pos) = SumOver(items', 1..enqueue_pos)
    BY <1>7, <1>t, <2>2, SumSame
  <2>4. SumOver(items, 1..enqueue_pos) \in Int
    BY <1>t, <2>2, SumType
  <2> QED
    BY <1>7, <2>1, <2>3, <2>4
<1>14. SumOver(items', 1..dequeue_pos) = SumOver(items, 1..dequeue_pos)
  <2>1. \A i \in 1..dequeue_pos : items[i] \in Int /\ items[i] = items'[i]
    BY <1>7, <1>t, Terms
  <2>2. IsFiniteSet(1..dequeue_pos)
    BY Terms, FS_Interval
  <2> QED
    BY <2>1, <2>2, SumSame
<1>15. /\ [c \in Consumers |-> Moved(c)]' = [c \in Consumers |-> Moved(c)]
       /\ [c \in Consumers |-> Owed(c)]' = [c \in Consumers |-> Owed(c)]
  BY <1>8, <1>10
<1>16. enqueue_pos' = SumOver([p \in Producers |-> Moved(p)]', Producers)
  BY <1>1, <1>11 DEF Sums
<1>17. 2 * SumOver(items', 1..enqueue_pos') = SumOver([p \in Producers |-> Pushed(p)]', Producers)
  <2>1. 2 * SumOver(items, 1..enqueue_pos) = SumOver([p \in Producers |-> Pushed(p)], Producers)
    BY DEF Sums
  <2>2. \A a, b, c \in Int : a = b + c => 2 * a = 2 * c + 2 * b
    OBVIOUS
  <2> QED
    BY <1>1, <1>5, <1>12, <1>13, <2>1, <2>2
<1> QED
  BY <1>1, <1>14, <1>15, <1>16, <1>17 DEF Sums

\* A pop owes the item of the position it reserved.
LEMMA SumsPop ==
    ASSUME Inv, Inv', Sums, NEW t \in Consumers, Reserve(t), Reserves(t) PROVE Sums'
<1>1. /\ Step(t, "cas", "access") /\ dequeue_pos' = dequeue_pos + 1 /\ pos[t] = dequeue_pos
      /\ items' = items /\ enqueue_pos' = enqueue_pos /\ pos' = pos
      /\ count' = count /\ value' = value /\ checksum' = checksum
  BY Constants DEF Reserve, Reserves, Shared
<1>2. pc[t] = "cas" /\ pc'[t] = "access" /\ \A u \in Threads : u # t => pc'[u] = pc[u]
  BY <1>1, StepMoves, Constants DEF Inv
<1>3. /\ t \in Threads /\ \A p \in Producers : p # t /\ p \in Threads
      /\ \A c \in Consumers : c \in Threads
  BY Constants
<1>4. /\ count[t] \in Nat /\ Moved(t) = count[t] /\ Moved(t)' = count[t] + 1
      /\ \A u \in Threads : u # t => Moved(u)' = Moved(u)
  BY <1>1, <1>2, <1>3 DEF Moved, Holds, Inv, Shape
<1>5. \A c \in Consumers : c # t => Owed(c)' = Owed(c)
  BY <1>1, <1>2, <1>3 DEF Owed
<1>6. Owed(t) = checksum[t] /\ Owed(t)' = checksum[t] + items[dequeue_pos + 1] /\ checksum[t] \in Int
  BY <1>1, <1>2 DEF Owed, Inv, Shape
<1>7. dequeue_pos \in Nat /\ dequeue_pos + 1 <= enqueue_pos /\ enqueue_pos \in Nat
  <2>1. dequeue_pos' <= enqueue_pos'
    BY DEF Inv, Order
  <2> QED
    BY <1>1, <2>1, Terms
<1>8. items[dequeue_pos + 1] \in Int /\ \A i \in 1..(dequeue_pos + 1) : items[i] \in Int
  BY <1>7, Terms
<1>9. /\ \A c \in Consumers : /\ Moved(c) \in Int /\ Moved(c)' \in Int
                              /\ Owed(c) \in Int /\ Owed(c)' \in Int
      /\ \A c \in Consumers : c # t => Moved(c)' = Moved(c) /\ Owed(c)' = Owed(c)
  <2>1. \A c \in Consumers : Moved(c) \in Int /\ Owed(c) \in Int
    BY <1>3, Terms
  <2>2. \A c \in Consumers : c # t => Moved(c)' = Moved(c) /\ Owed(c)' = Owed(c)
    BY <1>3, <1>4, <1>5
  <2>3. Moved(t)' \in Int /\ Owed(t)' \in Int
    BY <1>4, <1>6, <1>8
  <2> QED
    BY <2>1, <2>2, <2>3
<1>10. SumOver([c \in Consumers |-> Moved(c)]', Consumers)
         = SumOver([c \in Consumers |-> Moved(c)], Consumers) + 1
  <2> DEFINE f == [c \in Consumers |-> Moved(c)]
             g == [c \in Consumers |-> Moved(c)']
  <2>1. /\ \A c \in Consumers : f[c] \in Int /\ g[c] \in Int
        /\ \A c \in Consumers : c # t => f[c] = g[c]
        /\ g[t] - f[t] = 1
    BY <1>4, <1>9
  <2> HIDE DEF f, g
  <2>2. SumOver(g, Consumers) = SumOver(f, Consumers) + (g[t] - f[t])
    BY <2>1, Finite, SumChange
  <2> QED
    BY <2>1, <2>2 DEF f, g
<1>11. SumOver([c \in Consumers |-> Owed(c)]', Consumers)
         = SumOver([c \in Consumers |-> Owed(c)], Consumers) + items[dequeue_pos + 1]
  <2> DEFINE f == [c \in Consumers |-> Owed(c)]
             g == [c \in Consumers |-> Owed(c)']
  <2>1. /\ \A c \in Consumers : f[c] \in Int /\ g[c] \in Int
        /\ \A c \in Consumers : c # t => f[c] = g[c]
        /\ g[t] - f[t] = items[dequeue_pos + 1]
    BY <1>6, <1>8, <1>9
  <2> HIDE DEF f, g
  <2>2. SumOver(g, Consumers) = SumOver(f, Consumers) + (g[t] - f[t])
    BY <2>1, Finite, SumChange
  <2> QED
    BY <2>1, <2>2 DEF f, g
<1>12. /\ SumOver(items, 1..(dequeue_pos + 1))
            = items[dequeue_pos + 1] + SumOver(items, 1..dequeue_pos)
       /\ SumOver(items, 1..dequeue_pos) \in Int
  BY <1>7, <1>8, SumNext
<1>13. /\ [p \in Producers |-> Moved(p)]' = [p \in Producers |-> Moved(p)]
       /\ [p \in Producers |-> Pushed(p)]' = [p \in Producers |-> Pushed(p)]
  BY <1>3, <1>4 DEF Pushed
<1>14. SumOver(items', 1..dequeue_pos') = SumOver([c \in Consumers |-> Owed(c)]', Consumers)
  <2>1. SumOver(items, 1..dequeue_pos) = SumOver([c \in Consumers |-> Owed(c)], Consumers)
    BY DEF Sums
  <2> QED
    BY <1>1, <1>8, <1>11, <1>12, <2>1
<1>15. dequeue_pos' = SumOver([c \in Consumers |-> Moved(c)]', Consumers)
  BY <1>1, <1>10 DEF Sums
<1> QED
  BY <1>1, <1>13, <1>14, <1>15 DEF Sums

\* Every step keeps the sums.
LEMMA SumsNext == ASSUME Inv, Inv', Sums, [Next]_vars PROVE Sums'
<1>0. \A t \in Threads : pos[t] \in Nat /\ count[t] \in Nat
  BY DEF Inv, Shape
<1>1. CASE UNCHANGED vars
  <2>1. \A t \in Threads : Moved(t)' = Moved(t)
    BY <1>1 DEF vars, Moved, Holds
  <2>2. \A c \in Consumers : Owed(c)' = Owed(c)
    BY <1>1 DEF vars, history, Owed
  <2> QED
    BY <1>1, <2>1, <2>2, SumsStay DEF vars, positions, history
<1>2. ASSUME NEW t \in Threads, NEW from, NEW to, Step(t, from, to),
             from \notin {"access", "release"}, to \notin {"access", "release"},
             UNCHANGED <<positions, count, value, checksum, history>>,
             \A u \in Threads : u # t => pos'[u] = pos[u]
      PROVE  Sums'
  <2>1. pc[t] = from /\ pc'[t] = to /\ \A u \in Threads : u # t => pc'[u] = pc[u]
    BY <1>2, StepMoves DEF Inv
  <2>2. /\ enqueue_pos' = enqueue_pos /\ dequeue_pos' = dequeue_pos /\ items' = items
        /\ count' = count /\ value' = value /\ checksum' = checksum
    BY <1>2 DEF positions, history
  <2>3. \A u \in Threads : Moved(u)' = Moved(u)
    BY <1>2, <2>1, <2>2 DEF Moved, Holds
  <2>4. \A c \in Consumers : Owed(c)' = Owed(c)
    BY <1>2, <2>1, <2>2, Constants DEF Owed
  <2> QED
    BY <2>2, <2>3, <2>4, SumsStay
<1>3. ASSUME NEW t \in Threads, LoadPos(t) PROVE Sums'
  <2>1. /\ Step(t, "load", "seq") /\ UNCHANGED <<positions, count, value, checksum, history>>
        /\ \A u \in Threads : u # t => pos'[u] = pos[u]
    BY <1>3 DEF LoadPos, Inv, Shape
  <2> QED
    BY <1>2, <2>1
<1>4. ASSUME NEW t \in Threads, LoadSeq(t) PROVE Sums'
  <2>1. \E to \in {"cas", "load"} : Step(t, "seq", to)
    BY <1>4 DEF LoadSeq, Retry
  <2>2. /\ UNCHANGED <<positions, count, value, checksum, history>>
        /\ \A u \in Threads : u # t => pos'[u] = pos[u]
    BY <1>4 DEF LoadSeq
  <2> QED
    BY <1>2, <2>1, <2>2
<1>5. ASSUME NEW t \in Threads, Reserve(t) PROVE Sums'
  <2>1. CASE ~Reserves(t)
    <3>1. /\ Step(t, "cas", "seq") /\ UNCHANGED <<positions, count, value, checksum, history>>
          /\ \A u \in Threads : u # t => pos'[u] = pos[u]
      BY <1>5, <2>1 DEF Reserve, positions, history, Inv, Shape
    <3> QED
      BY <1>2, <3>1
  <2> QED
    BY <1>5, <2>1, SumsPush, SumsPop, Constants
<1>6. ASSUME NEW t \in Threads, WriteData(t) PROVE Sums'
  <2>1. /\ t \in Producers /\ pc[t] = "access" /\ pc'[t] = "release"
        /\ \A u \in Threads : u # t => pc'[u] = pc[u]
    BY <1>6, StepMoves DEF WriteData, Inv
  <2>2. /\ enqueue_pos' = enqueue_pos /\ dequeue_pos' = dequeue_pos /\ items' = items
        /\ count' = count /\ pos' = pos /\ value' = value /\ checksum' = checksum
    BY <1>6 DEF WriteData, positions, history
  <2>3. \A u \in Threads : Moved(u)' = Moved(u)
    BY <2>1, <2>2 DEF Moved, Holds
  <2>4. \A c \in Consumers : Owed(c)' = Owed(c)
    BY <2>1, <2>2, Constants DEF Owed
  <2> QED
    BY <2>2, <2>3, <2>4, SumsStay
<1>7. ASSUME NEW t \in Threads, ReadData(t) PROVE Sums'
  <2>1. /\ t \in Consumers /\ pc[t] = "access" /\ pc'[t] = "release"
        /\ \A u \in Threads : u # t => pc'[u] = pc[u]
    BY <1>7, StepMoves DEF ReadData, Inv
  <2>2. /\ enqueue_pos' = enqueue_pos /\ dequeue_pos' = dequeue_pos /\ items' = items
        /\ count' = count /\ pos' = pos /\ checksum' = checksum
        /\ value' = [value EXCEPT ![t] = data[Slot(pos[t])]]
    BY <1>7 DEF ReadData, positions
  <2>3. \A u \in Threads : Moved(u)' = Moved(u)
    BY <2>1, <2>2 DEF Moved, Holds
  <2>4. value'[t] = items[pos[t] + 1] /\ \A c \in Consumers : c # t => value'[c] = value[c]
    BY <2>1, <2>2 DEF Inv, Shape, Taken, Holds
  <2>5. \A c \in Consumers : Owed(c)' = Owed(c)
    BY <2>1, <2>2, <2>4, Constants DEF Owed
  <2> QED
    BY <2>2, <2>3, <2>5, SumsStay
<1>8. ASSUME NEW t \in Threads, Release(t) PROVE Sums'
  <2>1. /\ pc[t] = "release" /\ pc'[t] \in {"done", "load"}
        /\ \A u \in Threads : u # t => pc'[u] = pc[u]
        /\ \A u \in Threads : Moved(u)' = Moved(u)
    BY <1>8, ReleaseShares
  <2>2. /\ enqueue_pos' = enqueue_pos /\ dequeue_pos' = dequeue_pos /\ items' = items
        /\ pos' = pos /\ value' = value
        /\ checksum' = [c \in Consumers |-> checksum[c] + (IF c = t THEN value[c] ELSE 0)]
    BY <1>8 DEF Release, positions, history
  <2>3. \A c \in Consumers : checksum[c] \in Int /\ value[c] \in Int /\ items[pos[c] + 1] = items'[pos'[c] + 1]
    BY <2>2 DEF Inv, Shape
  <2>4. ASSUME NEW c \in Consumers PROVE Owed(c)' = Owed(c)
    <3>1. CASE c = t
      BY <2>1, <2>2, <2>3, <3>1 DEF Owed
    <3>2. CASE c # t
      <4>1. checksum'[c] = checksum[c] /\ pc'[c] = pc[c]
        BY <2>1, <2>2, <2>3, <3>2, Constants
      <4> QED
        BY <2>2, <2>3, <4>1 DEF Owed
    <3> QED
      BY <3>1, <3>2
  <2> QED
    BY <2>1, <2>2, <2>4, SumsStay
<1> QED
  BY <1>1, <1>3, <1>4, <1>5, <1>6, <1>7, <1>8 DEF Next, Run, Joined

LEMMA SumsInit == Init => Sums
<1> SUFFICES ASSUME Init PROVE Sums
  OBVIOUS
<1>1. /\ enqueue_pos = 0 /\ dequeue_pos = 0
      /\ \A t \in Threads : pc[t] = "load" /\ count[t] = 0
      /\ \A c \in Consumers : checksum[c] = 0
  BY DEF Init
<1>2. \A t \in Threads : Moved(t) = 0
  BY <1>1 DEF Moved, Holds
<1>3. \A p \in Producers : Moved(p) = 0 /\ Pushed(p) = 0
  <2>1. \A p \in Producers : 2 * (p * PerProducer) * 0 = 0
    BY Constants
  <2> QED
    BY <1>2, <2>1, Constants DEF Pushed
<1>4. \A c \in Consumers : Moved(c) = 0 /\ Owed(c) = 0
  BY <1>1, <1>2, Constants DEF Owed
<1>5. /\ SumOver([p \in Producers |-> Moved(p)], Producers) = 0
      /\ SumOver([p \in Producers |-> Pushed(p)], Producers) = 0
      /\ SumOver([c \in Consumers |-> Moved(c)], Consumers) = 0
      /\ SumOver([c \in Consumers |-> Owed(c)], Consumers) = 0
  BY <1>3, <1>4, Finite, SumZero
<1>6. 1..0 = {}
  OBVIOUS
<1>7. SumOver(items, 1..0) = 0
  BY <1>6, SumEmpty
<1> QED
  BY <1>1, <1>5, <1>7 DEF Sums

\* Twice the sum of all the items: N numbers, from 0 to N - 1.
LEMMA Expected ==
    ASSUME NEW f, \A p \in Producers :
               f[p] = 2 * (p * PerProducer) * PerProducer + PerProducer * (PerProducer - 1)
    PROVE  SumOver(f, Producers) = TotalItems * TotalItems - TotalItems
<1> DEFINE d == PerProducer
           F == [i \in 0..NProducers |-> (d * d) * (i * i - i) + i * (d * d - d)]
<1>1. NProducers \in Nat /\ d \in Int /\ NProducers * d = TotalItems
  BY Constants
<1>2. F[0] = 0
  <2>1. (d * d) * (0 * 0 - 0) + 0 * (d * d - d) = 0
    BY <1>1
  <2> QED
    BY <1>1, <2>1
<1>3. F[NProducers] = TotalItems * TotalItems - TotalItems
  <2>1. PICK n \in Int : n = NProducers
    BY <1>1
  <2>2. (d * d) * (n * n - n) + n * (d * d - d) = (n * d) * (n * d) - n * d
    BY <1>1
  <2> QED
    BY <1>1, <2>1, <2>2
<1>4. Telescopes(f, F, 0, NProducers)
  <2>1. ASSUME NEW i \in 0..(NProducers - 1)
        PROVE  /\ f[0 + i] \in Int /\ F[i] \in Int /\ F[i + 1] \in Int /\ f[0 + i] = F[i + 1] - F[i]
    <3>1. i \in Producers /\ i \in Int /\ i + 1 \in Int /\ 0 + i = i
      BY DEF Producers
    <3>2. i \in 0..NProducers /\ i + 1 \in 0..NProducers
      BY <1>1
    <3>3. /\ F[i] = (d * d) * (i * i - i) + i * (d * d - d)
          /\ F[i + 1] = (d * d) * ((i + 1) * (i + 1) - (i + 1)) + (i + 1) * (d * d - d)
      BY <3>2
    <3> HIDE DEF F
    <3>4. F[i] \in Int /\ F[i + 1] \in Int
      <4>1. /\ (d * d) * (i * i - i) + i * (d * d - d) \in Int
            /\ (d * d) * ((i + 1) * (i + 1) - (i + 1)) + (i + 1) * (d * d - d) \in Int
        BY <1>1, <3>1
      <4> QED
        BY <3>3, <4>1
    <3>5. F[i + 1] - F[i] = 2 * (i * d) * d + d * (d - 1)
      <4> DEFINE u == (d * d) * (i * i - i) + i * (d * d - d)
                 v == (d * d) * ((i + 1) * (i + 1) - (i + 1)) + (i + 1) * (d * d - d)
                 w == 2 * (i * d) * d + d * (d - 1)
      <4>1. F[i] = u /\ F[i + 1] = v
        BY <3>3, Zenon
      <4>2. v - u = w
        BY <1>1, <3>1
      <4> HIDE DEF u, v, w
      <4>3. F[i + 1] - F[i] = w
        BY <4>1, <4>2
      <4> QED
        BY <4>3 DEF w
    <3>6. f[i] = 2 * (i * d) * d + d * (d - 1)
      BY <3>1
    <3> HIDE DEF d
    <3> QED
      BY <3>1, <3>4, <3>5, <3>6
  <2> HIDE DEF F
  <2> QED
    BY <1>2, <2>1 DEF Telescopes
<1> HIDE DEF F
<1>5. SumOver(f, 0..(0 + NProducers - 1)) = F[NProducers] - F[0]
  BY <1>1, <1>4, SumTelescope
<1>6. 0..(0 + NProducers - 1) = Producers
  BY <1>1 DEF Producers
<1>7. TotalItems * TotalItems - TotalItems \in Int
  BY Constants
<1> QED
  BY <1>2, <1>3, <1>5, <1>6, <1>7

\* What main() compares with is what it computes, for any numbers of threads, cells and items:
\* when all threads are joined the consumers' sums are the sum of the items.
THEOREM SumExact == Spec => []ChecksumExact
<1>1. ASSUME Inv, Sums, AllDone
      PROVE  2 * MapThenSumSet(LAMBDA c : checksum[c], Consumers) + TotalItems
               = TotalItems * TotalItems
  <2>1. \A t \in Threads : pc[t] = "done" /\ Moved(t) = Quota(t)
    <3>1. \A t \in Threads : pc[t] = "done" /\ count[t] = Quota(t) /\ Quota(t) \in Nat
      BY <1>1, Constants DEF AllDone, Inv, Shares
    <3> QED
      BY <3>1 DEF Moved, Holds
  <2>2. /\ PerProducer \in Int /\ PerConsumer \in Int /\ NProducers \in Nat /\ NConsumers \in Nat
        /\ NProducers * PerProducer = TotalItems /\ NConsumers * PerConsumer = TotalItems
        /\ TotalItems \in Int
    BY Constants, QueueAssumption, DivMod DEF PerConsumer
  <2>3. enqueue_pos = TotalItems
    <3> DEFINE f == [p \in Producers |-> Moved(p)]
    <3>1. Producers = 0..(0 + NProducers - 1) /\ \A p \in Producers : f[p] = PerProducer
      BY <2>1, <2>2, Constants DEF Producers
    <3> HIDE DEF f
    <3>2. Repeats(f, PerProducer, 0, NProducers)
      BY <3>1 DEF Repeats
    <3>3. SumOver(f, 0..(0 + NProducers - 1)) = NProducers * PerProducer
      BY <2>2, <3>2, SumConst
    <3> QED
      BY <1>1, <2>2, <3>1, <3>3 DEF Sums, f
  <2>4. dequeue_pos = TotalItems
    <3> DEFINE f == [c \in Consumers |-> Moved(c)]
    <3>1. /\ Consumers = NProducers..(NProducers + NConsumers - 1)
          /\ \A c \in Consumers : f[c] = PerConsumer
      BY <2>1, Constants DEF Consumers
    <3> HIDE DEF f
    <3>2. Repeats(f, PerConsumer, NProducers, NConsumers)
      BY <3>1 DEF Repeats
    <3>3. SumOver(f, NProducers..(NProducers + NConsumers - 1)) = NConsumers * PerConsumer
      BY <2>2, <3>2, SumConst
    <3> QED
      BY <1>1, <2>2, <3>1, <3>3 DEF Sums, f
  <2>5. 2 * SumOver(items, 1..TotalItems) = TotalItems * TotalItems - TotalItems
    <3> DEFINE f == [p \in Producers |-> Pushed(p)]
    <3>1. \A p \in Producers :
             f[p] = 2 * (p * PerProducer) * PerProducer + PerProducer * (PerProducer - 1)
      BY <2>1, Constants DEF Pushed
    <3> HIDE DEF f
    <3>2. SumOver(f, Producers) = TotalItems * TotalItems - TotalItems
      BY <3>1, Expected
    <3> QED
      BY <1>1, <2>3, <3>2 DEF Sums, f
  <2>6. SumOver(items, 1..TotalItems) = SumOver(checksum, Consumers)
    <3> DEFINE f == [c \in Consumers |-> Owed(c)]
    <3>1. \A c \in Consumers : f[c] \in Int /\ f[c] = checksum[c]
      BY <1>1, <2>1, Constants DEF Owed, Inv, Shape
    <3> HIDE DEF f
    <3>2. SumOver(f, Consumers) = SumOver(checksum, Consumers)
      BY <3>1, Finite, SumSame
    <3> QED
      BY <1>1, <2>4, <3>2 DEF Sums, f
  <2>7. SumOver(checksum, Consumers) \in Int /\ TotalItems * TotalItems \in Int
    <3>1. \A c \in Consumers : checksum[c] \in Int
      BY <1>1 DEF Inv, Shape
    <3> QED
      BY <2>2, <3>1, Finite, SumType
  <2>8. 2 * SumOver(checksum, Consumers) + TotalItems = TotalItems * TotalItems
    <3> HIDE DEF Sums
    <3> QED
      BY <2>2, <2>5, <2>6, <2>7
  <2> QED
    BY <2>8 DEF SumOver
<1>2. Inv /\ Sums => ChecksumExact
  BY <1>1 DEF ChecksumExact
<1> QED
  BY <1>2, SumsInit, SumsNext, Invariance, PTL DEF Spec
=============================================================================
