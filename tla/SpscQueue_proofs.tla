-------------------------- MODULE SpscQueue_proofs --------------------------
(***************************************************************************)
(* Proofs about SpscQueue, for every capacity of at least two cells and    *)
(* any number of items.  Inv is the inductive invariant: which positions   *)
(* are published and which are free decides every sequence number.         *)
(***************************************************************************)
EXTENDS SpscQueue, Arithmetic, SequenceTheorems, TLAPS

\* The queue never holds more than its capacity.
Bounds == /\ Freed <= Published /\ Published <= Freed + Capacity
          /\ ppc # "done" => tail < TotalItems
          /\ ppc = "done" => tail = TotalItems
          /\ cpc # "done" => head < TotalItems
          /\ cpc = "done" => head = TotalItems

\* A published position's cell says so, and holds its item.
Occupied == \A p \in Nat : Freed <= p /\ p < Published =>
                sequence[Slot(p)] = p + 1 /\ data[Slot(p)] = p

\* A free position's cell waits for exactly that position.
Vacant == \A p \in Nat : Published <= p /\ p < Freed + Capacity => sequence[Slot(p)] = p

\* What the threads know between two accesses.
Local == /\ ppc \in {"write", "publish"} => tail < Freed + Capacity
         /\ ppc = "publish" => data[Slot(tail)] = tail
         /\ cpc \in {"read", "free"} => head < Published
         /\ cpc \in {"free", "store_head"} => value = head

\* The sum of the first head items.
Sum == 2 * checksum + head = head * head

Inv == TypeOK /\ Bounds /\ Occupied /\ Vacant /\ Local /\ Sum

-----------------------------------------------------------------------------
\* A position has a cell.
LEMMA SlotIn == ASSUME NEW p \in Nat PROVE Slot(p) \in Slots
  BY QueueAssumption, DivMod DEF Slot, Slots

\* Positions less than a lap apart have different cells.
LEMMA SlotsDiffer ==
    ASSUME NEW p \in Nat, NEW q \in Nat, p < q, q < p + Capacity
    PROVE  Slot(p) # Slot(q)
<1>1. Capacity \in Nat \ {0} /\ q - p < Capacity
  BY QueueAssumption
<1> QED
  BY <1>1, ModInj DEF Slot

\* Positions a lap apart have the same cell.
LEMMA SlotLap == ASSUME NEW p \in Nat PROVE Slot(p + Capacity) = Slot(p)
<1>1. Capacity \in Nat \ {0}
  BY QueueAssumption
<1>2. PICK q \in Nat : p = Capacity * q + (p % Capacity)
  BY <1>1, DivMod
<1>3. p % Capacity \in 0..(Capacity - 1)
  BY <1>1, DivMod
<1>4. p + Capacity = Capacity * (q + 1) + (p % Capacity)
  BY <1>1, <1>2, <1>3
<1>5. p + Capacity \in Nat /\ q + 1 \in Nat
  BY <1>1
<1> QED
  BY <1>1, <1>3, <1>4, <1>5, ModIs DEF Slot

\* A cell found writable is free: with two cells or more a published one looks different.
LEMMA WritableIsFree ==
    ASSUME Inv, ppc = "wait", Writable(tail)
    PROVE  tail < Freed + Capacity
<1>1. Capacity \in Nat \ {0, 1} /\ tail \in Nat /\ head \in Nat /\ TotalItems \in Nat
  BY QueueAssumption DEF Inv, TypeOK
<1>2. Published = tail /\ Freed \in Nat
  BY <1>1 DEF Published, Freed
<1>3. ASSUME tail = Freed + Capacity PROVE FALSE
  <2>1. sequence[Slot(Freed)] = Freed + 1
    BY <1>1, <1>2, <1>3 DEF Inv, Occupied
  <2>2. Slot(tail) = Slot(Freed)
    BY <1>2, <1>3, SlotLap
  <2> QED
    BY <1>1, <1>2, <1>3, <2>1, <2>2 DEF Writable
<1> QED
  BY <1>1, <1>2, <1>3 DEF Inv, Bounds

\* A cell found readable is published.
LEMMA ReadableIsPublished ==
    ASSUME Inv, cpc = "wait", Readable(head)
    PROVE  head < Published
<1>1. Capacity \in Nat \ {0, 1} /\ tail \in Nat /\ head \in Nat
  BY QueueAssumption DEF Inv, TypeOK
<1>2. Freed = head /\ Published \in Nat
  BY <1>1 DEF Published, Freed
<1>3. ASSUME head = Published PROVE FALSE
  <2>1. sequence[Slot(head)] = head
    BY <1>1, <1>2, <1>3 DEF Inv, Vacant
  <2> QED
    BY <1>1, <2>1 DEF Readable
<1> QED
  BY <1>1, <1>2, <1>3 DEF Inv, Bounds

-----------------------------------------------------------------------------
\* The invariant holds after queue_init().
LEMMA InitInv == Init => Inv
<1> SUFFICES ASSUME Init PROVE Inv
  OBVIOUS
<1>1. Capacity \in Nat \ {0, 1} /\ TotalItems \in Nat
  BY QueueAssumption
<1>2. Freed = 0 /\ Published = 0
  BY DEF Init, Freed, Published
<1>4. TypeOK
  BY <1>1 DEF Init, TypeOK, Slots
<1>5. Bounds /\ Local
  BY <1>1, <1>2 DEF Init, Bounds, Local
<1>6. Occupied
  BY <1>2 DEF Occupied
<1>7. Sum
  BY DEF Init, Sum
<1>3. Vacant
  <2> SUFFICES ASSUME NEW p \in Nat, p < Capacity PROVE sequence[Slot(p)] = p
    BY <1>1 DEF Init, Vacant, Freed, Published
  <2>1. Slot(p) = p
    <3>1. Capacity * 0 = 0 /\ p \in 0..(Capacity - 1)
      BY <1>1
    <3>2. p = Capacity * 0 + p
      BY <3>1
    <3> QED
      BY <1>1, <3>1, <3>2, ModIs DEF Slot
  <2> QED
    BY <1>1, <2>1 DEF Init, Slots
<1> QED
  BY <1>3, <1>4, <1>5, <1>6, <1>7 DEF Inv

\* Finding a cell writable gives the producer a free cell (spsc_queue.cpp:162-169).
LEMMA PushWaitInv == Inv /\ PushWait => Inv'
<1> SUFFICES ASSUME Inv, PushWait PROVE Inv'
  OBVIOUS
<1>1. tail < Freed + Capacity
  BY WritableIsFree DEF PushWait
<1>2. Freed' = Freed /\ Published' = Published
  BY DEF PushWait, consumer, Freed, Published
<1> QED
  BY <1>1, <1>2 DEF Inv, PushWait, cells, consumer, TypeOK, Bounds, Occupied, Vacant, Local, Sum

\* The producer writes into a cell the consumer does not look at.
LEMMA PushWriteInv == Inv /\ PushWrite => Inv'
<1> SUFFICES ASSUME Inv, PushWrite PROVE Inv'
  OBVIOUS
<1>1. Freed' = Freed /\ Published' = Published /\ Published = tail
  BY DEF PushWrite, consumer, Freed, Published
<1>2. tail \in Nat /\ head \in Nat /\ Freed \in Nat /\ Slot(tail) \in Slots /\ Capacity \in Nat
  BY QueueAssumption, SlotIn DEF Inv, TypeOK, Freed
<1>3. data' = [data EXCEPT ![Slot(tail)] = tail]
  BY DEF PushWrite
<1>4. data'[Slot(tail)] = tail
  BY <1>2, <1>3 DEF Inv, TypeOK
<1>5. TypeOK'
  BY <1>2 DEF Inv, TypeOK, PushWrite, consumer
<1>6. Occupied'
  <2> SUFFICES ASSUME NEW p \in Nat, Freed <= p, p < tail
               PROVE sequence[Slot(p)] = p + 1 /\ data'[Slot(p)] = p
    BY <1>1 DEF Occupied, PushWrite
  <2>1. Slot(p) # Slot(tail)
    <3>1. tail < p + Capacity
      BY <1>2 DEF Inv, Local, PushWrite
    <3> QED
      BY <1>2, <3>1, SlotsDiffer
  <2>2. data'[Slot(p)] = data[Slot(p)]
    BY <1>3, <2>1, SlotIn DEF Inv, TypeOK
  <2> QED
    BY <1>1, <2>2 DEF Inv, Occupied
<1> QED
  BY <1>1, <1>4, <1>5, <1>6 DEF Inv, PushWrite, consumer, Bounds, Vacant, Local, Sum

\* Publishing an item appends it to the queue's contents (spsc_queue.cpp:171).
LEMMA PushPublishInv == Inv /\ PushPublish => Inv'
<1> SUFFICES ASSUME Inv, PushPublish PROVE Inv'
  OBVIOUS
<1>1. Freed' = Freed /\ Published' = tail + 1 /\ Published = tail
  BY DEF PushPublish, consumer, Freed, Published
<1>2. /\ tail \in Nat /\ head \in Nat /\ Freed \in Nat /\ Slot(tail) \in Slots /\ Capacity \in Nat
      /\ TotalItems \in Nat /\ Freed <= tail /\ tail < Freed + Capacity
  <2>1. tail \in Nat /\ head \in Nat /\ Capacity \in Nat /\ TotalItems \in Nat
    BY QueueAssumption DEF Inv, TypeOK
  <2>2. Freed \in Nat /\ Slot(tail) \in Slots
    BY <2>1, SlotIn DEF Freed
  <2>3. Freed <= tail /\ tail < Freed + Capacity
    BY <1>1 DEF Inv, Bounds, Local, PushPublish
  <2> QED
    BY <2>1, <2>2, <2>3
<1>3. sequence' = [sequence EXCEPT ![Slot(tail)] = tail + 1]
  BY DEF PushPublish
<1>4. sequence'[Slot(tail)] = tail + 1
  BY <1>2, <1>3 DEF Inv, TypeOK
<1>5. TypeOK'
  BY <1>2 DEF Inv, TypeOK, PushPublish, consumer
<1>6. \A p \in Nat : Slot(p) # Slot(tail) => sequence'[Slot(p)] = sequence[Slot(p)]
  BY <1>3, SlotIn DEF Inv, TypeOK
<1>7. Occupied'
  <2> SUFFICES ASSUME NEW p \in Nat, Freed <= p, p < tail + 1
               PROVE sequence'[Slot(p)] = p + 1 /\ data[Slot(p)] = p
    BY <1>1 DEF Occupied, PushPublish
  <2>1. CASE p = tail
    BY <1>4, <2>1 DEF Inv, Local, PushPublish
  <2>2. CASE p < tail
    <3>1. tail < p + Capacity
      BY <1>2
    <3>2. Slot(p) # Slot(tail)
      BY <1>2, <2>2, <3>1, SlotsDiffer
    <3> QED
      BY <1>1, <1>6, <2>2, <3>2 DEF Inv, Occupied
  <2> QED
    BY <1>2, <2>1, <2>2
<1>8. Vacant'
  <2> SUFFICES ASSUME NEW p \in Nat, tail + 1 <= p, p < Freed + Capacity
               PROVE sequence'[Slot(p)] = p
    BY <1>1 DEF Vacant
  <2>1. tail < p /\ p < tail + Capacity
    BY <1>2
  <2>2. Slot(p) # Slot(tail)
    BY <1>2, <2>1, SlotsDiffer
  <2> QED
    BY <1>1, <1>2, <1>6, <2>1, <2>2 DEF Inv, Vacant
<1>9. Bounds'
  BY <1>1, <1>2 DEF Inv, Bounds, PushPublish, consumer
<1>10. Local'
  BY <1>1, <1>2 DEF Inv, Local, PushPublish, consumer
<1> QED
  BY <1>5, <1>7, <1>8, <1>9, <1>10 DEF Inv, Sum, PushPublish, consumer

\* Storing tail moves the producer to its next position.
LEMMA StoreTailInv == Inv /\ StoreTail => Inv'
<1> SUFFICES ASSUME Inv, StoreTail PROVE Inv'
  OBVIOUS
<1>1. tail \in Nat /\ TotalItems \in Nat /\ tail < TotalItems
  BY QueueAssumption DEF Inv, TypeOK, Bounds, StoreTail
<1>2. Freed' = Freed /\ Published' = Published
  BY DEF StoreTail, consumer, Freed, Published
<1>3. TypeOK'
  BY <1>1 DEF Inv, TypeOK, StoreTail, cells, consumer
<1>4. Bounds'
  BY <1>1, <1>2 DEF Inv, Bounds, StoreTail, Last, consumer
<1>5. Local'
  BY <1>2 DEF Inv, Local, StoreTail, consumer
<1> QED
  BY <1>2, <1>3, <1>4, <1>5 DEF Inv, Occupied, Vacant, Sum, StoreTail, cells, consumer

\* Finding a cell readable gives the consumer a published item (spsc_queue.cpp:178-185).
LEMMA PopWaitInv == Inv /\ PopWait => Inv'
<1> SUFFICES ASSUME Inv, PopWait PROVE Inv'
  OBVIOUS
<1>1. head < Published
  BY ReadableIsPublished DEF PopWait
<1>2. Freed' = Freed /\ Published' = Published
  BY DEF PopWait, producer, Freed, Published
<1> QED
  BY <1>1, <1>2 DEF Inv, PopWait, cells, producer, TypeOK, Bounds, Occupied, Vacant, Local, Sum

\* The consumer reads the item at the front.
LEMMA PopReadInv == Inv /\ PopRead => Inv'
<1> SUFFICES ASSUME Inv, PopRead PROVE Inv'
  OBVIOUS
<1>1. Freed' = Freed /\ Published' = Published /\ Freed = head
  BY DEF PopRead, producer, Freed, Published
<1>2. head \in Nat /\ head < Published
  BY DEF Inv, TypeOK, Local, PopRead
<1>3. value' = head
  BY <1>1, <1>2 DEF Inv, Occupied, PopRead
<1>4. TypeOK'
  BY <1>2, <1>3 DEF Inv, TypeOK, PopRead, cells, producer
<1> QED
  BY <1>1, <1>2, <1>3, <1>4 DEF Inv, PopRead, cells, producer, Bounds, Occupied, Vacant, Local, Sum

\* Freeing a cell removes the item at the front (spsc_queue.cpp:187).
LEMMA PopFreeInv == Inv /\ PopFree => Inv'
<1> SUFFICES ASSUME Inv, PopFree PROVE Inv'
  OBVIOUS
<1>1. Freed' = head + 1 /\ Freed = head /\ Published' = Published
  BY DEF PopFree, producer, Freed, Published
<1>2. /\ tail \in Nat /\ head \in Nat /\ Published \in Nat /\ Slot(head) \in Slots /\ Capacity \in Nat
      /\ TotalItems \in Nat /\ head < Published /\ Published <= head + Capacity
  <2>1. tail \in Nat /\ head \in Nat /\ Capacity \in Nat /\ TotalItems \in Nat
    BY QueueAssumption DEF Inv, TypeOK
  <2>2. Published \in Nat /\ Slot(head) \in Slots
    BY <2>1, SlotIn DEF Published
  <2>3. head < Published /\ Published <= head + Capacity
    BY <1>1 DEF Inv, Bounds, Local, PopFree
  <2> QED
    BY <2>1, <2>2, <2>3
<1>3. sequence' = [sequence EXCEPT ![Slot(head)] = head + Capacity]
  BY DEF PopFree, FreedSequence
<1>4. sequence'[Slot(head)] = head + Capacity
  BY <1>2, <1>3 DEF Inv, TypeOK
<1>5. TypeOK'
  <2>1. sequence' \in [Slots -> Nat]
    BY <1>2, <1>3 DEF Inv, TypeOK
  <2> QED
    BY <2>1 DEF Inv, TypeOK, PopFree, producer
<1>6. \A p \in Nat : Slot(p) # Slot(head) => sequence'[Slot(p)] = sequence[Slot(p)]
  BY <1>3, SlotIn DEF Inv, TypeOK
<1>7. Occupied'
  <2> SUFFICES ASSUME NEW p \in Nat, head + 1 <= p, p < Published
               PROVE sequence'[Slot(p)] = p + 1 /\ data[Slot(p)] = p
    BY <1>1 DEF Occupied, PopFree
  <2>1. head < p /\ p < head + Capacity
    BY <1>2
  <2>2. Slot(p) # Slot(head)
    BY <1>2, <2>1, SlotsDiffer
  <2> QED
    BY <1>1, <1>2, <1>6, <2>1, <2>2 DEF Inv, Occupied
<1>8. Vacant'
  <2> SUFFICES ASSUME NEW p \in Nat, Published <= p, p < (head + 1) + Capacity
               PROVE sequence'[Slot(p)] = p
    BY <1>1 DEF Vacant
  <2>1. CASE p = head + Capacity
    BY <1>2, <1>4, <2>1, SlotLap
  <2>2. CASE p < head + Capacity
    <3>1. head < p
      BY <1>2
    <3>2. Slot(p) # Slot(head)
      BY <1>2, <2>2, <3>1, SlotsDiffer
    <3> QED
      BY <1>1, <1>6, <2>2, <3>2 DEF Inv, Vacant
  <2> QED
    BY <1>2, <2>1, <2>2
<1>9. Bounds'
  BY <1>1, <1>2 DEF Inv, Bounds, PopFree, producer
<1>10. Local'
  BY <1>1, <1>2 DEF Inv, Local, PopFree, producer
<1> QED
  BY <1>5, <1>7, <1>8, <1>9, <1>10 DEF Inv, Sum, PopFree, producer

\* Storing head adds the item to the checksum and moves to the next position.
LEMMA StoreHeadInv == Inv /\ StoreHead => Inv'
<1> SUFFICES ASSUME Inv, StoreHead PROVE Inv'
  OBVIOUS
<1>1. head \in Nat /\ TotalItems \in Nat /\ head < TotalItems /\ value = head /\ checksum \in Nat
  BY QueueAssumption DEF Inv, TypeOK, Bounds, Local, StoreHead
<1>2. Freed' = Freed /\ Published' = Published
  BY DEF StoreHead, producer, Freed, Published
<1>3. TypeOK'
  BY <1>1 DEF Inv, TypeOK, StoreHead, cells, producer
<1>4. Bounds'
  BY <1>1, <1>2 DEF Inv, Bounds, StoreHead, Last, producer
<1>5. Local'
  BY <1>2 DEF Inv, Local, StoreHead, cells, producer
<1>6. Sum'
  <2>1. 2 * checksum + head = head * head /\ head' = head + 1 /\ checksum' = checksum + head
    BY <1>1 DEF Inv, Sum, StoreHead
  <2>2. (head + 1) * (head + 1) = head * head + 2 * head + 1
    BY <1>1
  <2> QED
    BY <1>1, <2>1, <2>2 DEF Sum
<1> QED
  BY <1>2, <1>3, <1>4, <1>5, <1>6 DEF Inv, Occupied, Vacant, StoreHead, cells, producer

\* The invariant is inductive: one step per action of the two threads.
LEMMA StepInv == Inv /\ [Next]_vars => Inv'
<1> SUFFICES ASSUME Inv, [Next]_vars PROVE Inv'
  OBVIOUS
<1>1. CASE UNCHANGED vars
  BY <1>1 DEF Inv, TypeOK, Bounds, Occupied, Vacant, Local, Sum, Freed, Published, Slots, Slot,
     vars, cells, producer, consumer
<1> QED
  BY <1>1, PushWaitInv, PushWriteInv, PushPublishInv, StoreTailInv,
     PopWaitInv, PopReadInv, PopFreeInv, StoreHeadInv DEF Next, Producer, Consumer, Joined

\* Published positions hold their items and free ones wait for theirs, in every state.
THEOREM Invariance == Spec => []Inv
  BY InitInv, StepInv, PTL DEF Spec
\* Every variable has its type, for every capacity and number of items.
THEOREM TypeCorrect == Spec => []TypeOK
<1>1. Inv => TypeOK
  BY DEF Inv
<1> QED
  BY <1>1, Invariance, PTL

\* The producer never writes the cell the consumer reads: data needs no atomicity.
THEOREM RaceFree == Spec => []NoDataRace
<1>1. ASSUME Inv PROVE NoDataRace
  <2> SUFFICES ASSUME ppc = "write", cpc = "read", Slot(tail) = Slot(head) PROVE FALSE
    BY DEF NoDataRace
  <2>1. Published = tail /\ Freed = head /\ tail \in Nat /\ head \in Nat
    BY <1>1 DEF Published, Freed, Inv, TypeOK
  <2>2. head < tail /\ tail < head + Capacity
    BY <1>1, <2>1 DEF Inv, Local
  <2> QED
    BY <2>1, <2>2, SlotsDiffer
<1> QED
  BY <1>1, Invariance, PTL

\* The producer and the consumer never both spin in vain.
THEOREM DeadlockFree == Spec => []NeverStuck
<1>1. ASSUME Inv PROVE NeverStuck
  <2> SUFFICES ASSUME ppc = "wait", cpc = "wait", ~Readable(head) PROVE Writable(tail)
    BY DEF NeverStuck
  <2>1. /\ Published = tail /\ Freed = head /\ tail \in Nat /\ head \in Nat
        /\ Capacity \in Nat \ {0, 1}
    BY <1>1, QueueAssumption DEF Published, Freed, Inv, TypeOK
  <2>2. tail = head
    <3>1. CASE head < tail
      BY <1>1, <2>1, <3>1 DEF Inv, Occupied, Readable
    <3> QED
      BY <1>1, <2>1, <3>1 DEF Inv, Bounds
  <2> QED
    BY <1>1, <2>1, <2>2 DEF Inv, Vacant, Writable
<1> QED
  BY <1>1, Invariance, PTL

\* Whatever the interleaving, the checksum main() compares is the expected one.
THEOREM ChecksumCorrect == Spec => []ChecksumExact
<1>1. Inv => ChecksumExact
  BY DEF Inv, Bounds, Sum, ChecksumExact
<1> QED
  BY <1>1, Invariance, PTL
-----------------------------------------------------------------------------
(* The two threads implement the bounded first-in first-out queue.         *)

\* The items of positions h up to, and without, t.
Run(h, t) == [i \in 1..(t - h) |-> h + i - 1]

\* What a run of positions looks like as a sequence.
LEMMA RunShape ==
    ASSUME NEW h \in Nat, NEW t \in Nat, h <= t
    PROVE  Run(h, t) \in Seq(Nat) /\ Len(Run(h, t)) = t - h
  BY DEF Run

\* Publishing position t puts its item at the end.
LEMMA RunAppend ==
    ASSUME NEW h \in Nat, NEW t \in Nat, h <= t
    PROVE  Run(h, t + 1) = Append(Run(h, t), t)
<1>1. /\ Run(h, t + 1) \in Seq(Nat) /\ Len(Run(h, t + 1)) = t + 1 - h
      /\ Run(h, t) \in Seq(Nat) /\ Len(Run(h, t)) = t - h
  <2>1. t + 1 \in Nat /\ h <= t + 1
    OBVIOUS
  <2>2. Run(h, t + 1) \in Seq(Nat) /\ Len(Run(h, t + 1)) = (t + 1) - h
    BY <2>1, RunShape
  <2>3. Run(h, t) \in Seq(Nat) /\ Len(Run(h, t)) = t - h
    BY RunShape
  <2> QED
    BY <2>2, <2>3
<1>2. \A i \in 1..(t + 1 - h) : Run(h, t + 1)[i] = h + i - 1
  BY DEF Run
<1>3. \A i \in 1..(t - h) : Run(h, t)[i] = h + i - 1
  BY DEF Run
<1>4. Append(Run(h, t), t) \in Seq(Nat) /\ Len(Append(Run(h, t), t)) = t + 1 - h
  BY <1>1
<1>5. ASSUME NEW i \in 1..(t + 1 - h) PROVE Append(Run(h, t), t)[i] = h + i - 1
  <2>1. CASE i \in 1..(t - h)
    <3>1. Append(Run(h, t), t)[i] = Run(h, t)[i]
      BY <1>1, <2>1
    <3> QED
      BY <1>3, <2>1, <3>1
  <2>2. CASE i = t - h + 1
    <3>1. Append(Run(h, t), t)[Len(Run(h, t)) + 1] = t
      BY <1>1, AppendProperties
    <3>2. i = Len(Run(h, t)) + 1 /\ h + i - 1 = t
      BY <1>1, <2>2
    <3> QED
      BY <3>1, <3>2
  <2>3. i \in 1..(t - h) \/ i = t - h + 1
    OBVIOUS
  <2> QED
    BY <2>1, <2>2, <2>3
<1>6. \A i \in 1..Len(Run(h, t + 1)) : Run(h, t + 1)[i] = Append(Run(h, t), t)[i]
  BY <1>1, <1>2, <1>5
<1> QED
  BY <1>1, <1>4, <1>6, SeqEqual

\* Freeing position h takes its item from the front.
LEMMA RunTail ==
    ASSUME NEW h \in Nat, NEW t \in Nat, h < t
    PROVE  Run(h, t) # << >> /\ Head(Run(h, t)) = h /\ Tail(Run(h, t)) = Run(h + 1, t)
<1>1. /\ Run(h, t) \in Seq(Nat) /\ Len(Run(h, t)) = t - h
      /\ Run(h + 1, t) \in Seq(Nat) /\ Len(Run(h + 1, t)) = t - (h + 1)
  <2>1. h + 1 \in Nat /\ h + 1 <= t /\ h <= t
    OBVIOUS
  <2> QED
    BY <2>1, RunShape
<1>2. \A i \in 1..(t - h) : Run(h, t)[i] = h + i - 1
  BY DEF Run
<1>3. \A i \in 1..(t - (h + 1)) : Run(h + 1, t)[i] = (h + 1) + i - 1
  BY DEF Run
<1>4. Run(h, t) # << >> /\ Head(Run(h, t)) = h
  BY <1>1, <1>2
<1>5. Tail(Run(h, t)) \in Seq(Nat) /\ Len(Tail(Run(h, t))) = t - (h + 1)
  BY <1>1, <1>4
<1>6. ASSUME NEW i \in 1..(t - (h + 1)) PROVE Tail(Run(h, t))[i] = (h + 1) + i - 1
  <2>1. Tail(Run(h, t))[i] = Run(h, t)[i + 1]
    BY <1>1, <1>4
  <2>2. i + 1 \in 1..(t - h)
    OBVIOUS
  <2>3. Run(h, t)[i + 1] = h + (i + 1) - 1
    BY <1>2, <2>2
  <2>4. h + (i + 1) - 1 = (h + 1) + i - 1
    OBVIOUS
  <2> QED
    BY <2>1, <2>3, <2>4
<1>7. \A i \in 1..Len(Tail(Run(h, t))) : Tail(Run(h, t))[i] = Run(h + 1, t)[i]
  BY <1>3, <1>5, <1>6
<1>8. Tail(Run(h, t)) = Run(h + 1, t)
  BY <1>1, <1>5, <1>7, SeqEqual
<1> QED
  BY <1>4, <1>8

\* The queue's content is the run of the published positions that are not freed.
Content == [i \in 1..(Published - Freed) |-> data[Slot(Freed + i - 1)]]

\* The items in the queue are consecutive numbers.
LEMMA ContentIsRun == Inv => Content = Run(Freed, Published)
<1> SUFFICES ASSUME Inv PROVE Content = Run(Freed, Published)
  OBVIOUS
<1>1. Freed \in Nat /\ Published \in Nat
  BY DEF Inv, TypeOK, Freed, Published
<1>2. ASSUME NEW i \in 1..(Published - Freed) PROVE data[Slot(Freed + i - 1)] = Freed + i - 1
  <2>1. Freed + i - 1 \in Nat /\ Freed <= Freed + i - 1 /\ Freed + i - 1 < Published
    BY <1>1
  <2> QED
    BY <2>1 DEF Inv, Occupied
<1> QED
  BY <1>2 DEF Content, Run

\* Every step of the two threads is a step of the bounded queue, or a stutter.
LEMMA QueueStep == Inv /\ Inv' /\ [Next]_vars => [Fifo!Next]_(Fifo!vars)
<1> SUFFICES ASSUME Inv, Inv', [Next]_vars PROVE [Fifo!Next]_(Fifo!vars)
  OBVIOUS
<1>1. Content = Run(Freed, Published) /\ Content' = Run(Freed, Published)'
  <2>1. Inv' => (Content = Run(Freed, Published))'
    BY ContentIsRun, PTL
  <2> QED
    BY <2>1, ContentIsRun
<1>2. /\ tail \in Nat /\ head \in Nat /\ Freed \in Nat /\ Published \in Nat
      /\ Capacity \in Nat /\ TotalItems \in Nat /\ Freed <= Published
  BY QueueAssumption DEF Inv, TypeOK, Bounds, Freed, Published
<1>3. ASSUME Freed' = Freed, Published' = Published, got' = got
      PROVE  UNCHANGED Fifo!vars
  <2>1. Content' = Content
    BY <1>1, <1>3 DEF Run
  <2> QED
    BY <1>3, <2>1 DEF Fifo!vars, Content
<1>4. CASE PushWait \/ PushWrite \/ StoreTail \/ PopWait \/ PopRead \/ StoreHead \/ UNCHANGED vars
  <2>1. Freed' = Freed /\ Published' = Published /\ got' = got
    BY <1>4 DEF PushWait, PushWrite, StoreTail, PopWait, PopRead, StoreHead, vars, producer,
       consumer, Freed, Published
  <2> QED
    BY <1>3, <2>1
<1>5. CASE PushPublish
  <2>1. Freed' = Freed /\ Published = tail /\ Published' = tail + 1 /\ got' = got
    BY <1>5 DEF PushPublish, consumer, Freed, Published
  <2>2. tail < TotalItems /\ tail < Freed + Capacity
    BY <1>5 DEF PushPublish, Inv, Bounds, Local
  <2>3. Content' = Append(Content, tail)
    <3>1. Run(Freed, Published)' = Run(Freed, tail + 1)
      BY <2>1 DEF Run
    <3> QED
      BY <1>1, <1>2, <2>1, <3>1, RunAppend
  <2>4. Len(Content) < Capacity
    BY <1>1, <1>2, <2>1, <2>2, RunShape
  <2> QED
    BY <2>1, <2>2, <2>3, <2>4 DEF Fifo!Push, Fifo!Next, Content
<1>6. CASE PopFree
  <2>1. Freed = head /\ Freed' = head + 1 /\ Published' = Published /\ got' = Append(got, value)
    BY <1>6 DEF PopFree, producer, Freed, Published
  <2>2. head < Published /\ value = head
    BY <1>6 DEF PopFree, Inv, Local
  <2>3. Content # << >> /\ Head(Content) = head
    BY <1>1, <1>2, <2>1, <2>2, RunTail
  <2>4. Content' = Tail(Content)
    <3>1. Run(Freed, Published)' = Run(head + 1, Published)
      BY <2>1 DEF Run
    <3> QED
      BY <1>1, <1>2, <2>1, <2>2, <3>1, RunTail
  <2> QED
    BY <2>1, <2>2, <2>3, <2>4 DEF Fifo!Pop, Fifo!Next, Content
<1> QED
  BY <1>4, <1>5, <1>6 DEF Next, Producer, Consumer, Joined

\* Every behaviour of the two threads is one of a first-in first-out queue of Capacity items.
THEOREM Refinement == Spec => ImplementsQueue
<1>1. Init => Fifo!Init
  BY DEF Init, Fifo!Init, Freed, Published
<1> QED
  BY <1>1, QueueStep, Invariance, PTL DEF Spec, ImplementsQueue, Fifo!Spec
=============================================================================
