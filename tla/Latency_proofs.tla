--------------------------- MODULE Latency_proofs ---------------------------
(***************************************************************************)
(* Proofs about Latency, for any capacity, number of items and interval:   *)
(* types, no negative latency, no coordinated omission, and percentiles    *)
(* that are what they are called.                                          *)
(***************************************************************************)
EXTENDS Latency, FiniteSetTheorems, TLAPS

\* The consumer has taken this many items.
Taken == IF consumer = "receive" THEN Len(latencies_ns) + 1 ELSE Len(latencies_ns)

\* Every item is where it should be and carries its scheduled time, which has come.
Scheduled ==
    /\ producer = "push" => intended = i * kIntervalNs /\ intended <= now
    /\ i = Taken + Len(queue)
    /\ \A j \in 1..Len(queue) : queue[j] = (Taken + j - 1) * kIntervalNs
    /\ \A j \in 0..(i - 1) : j * kIntervalNs <= now
    /\ consumer = "receive" => intended_send = Len(latencies_ns) * kIntervalNs

\* The threads leave their loops after kOps items.
Loops ==
    /\ producer \in {"wait", "push"} => i < kOps
    /\ consumer = "pop" => Len(latencies_ns) < kOps
    /\ consumer = "receive" => Len(latencies_ns) < kOps
    /\ producer = "start" => i = 0
    /\ producer = "release" => i = 0
    /\ consumer = "start" => Len(latencies_ns) = 0

\* No item was received later than now.
Measured == \A k \in 1..Len(latencies_ns) : latencies_ns[k] + (k - 1) * kIntervalNs <= now

Inv == TypeOK /\ Scheduled /\ Loops /\ Measured /\ StallsShow

-----------------------------------------------------------------------------
\* Multiples of an interval are times.
LEMMA MultipleNat ==
    ASSUME NEW a \in Nat
    PROVE  a * kIntervalNs \in Nat
  BY LatencyAssumption

\* The run begins with the invariant.
LEMMA Initially == Init => Inv
<1> SUFFICES ASSUME Init PROVE Inv
  OBVIOUS
<1> USE LatencyAssumption DEF Init
<1>1. TypeOK
  <2>1. queue \in Seq(Nat) /\ Len(queue) = 0 /\ latencies_ns \in Seq(Nat) /\ Len(latencies_ns) = 0
    OBVIOUS
  <2>2. DOMAIN percentiles = {}
    OBVIOUS
  <2>3. now \in 0..MaxTime /\ intended \in Nat /\ i \in 0..kOps /\ intended_send \in Nat
    OBVIOUS
  <2>4. producer \in {"start", "release", "wait", "push", "joined"}
    OBVIOUS
  <2>5. consumer \in {"start", "pop", "receive", "joined"} /\ start_flag \in BOOLEAN
    OBVIOUS
  <2>6. Len(queue) <= Capacity /\ Len(latencies_ns) <= kOps
    BY <2>1
  <2> QED
    BY <2>1, <2>2, <2>3, <2>4, <2>5, <2>6 DEF TypeOK
<1>2. Scheduled /\ Loops /\ Measured /\ StallsShow
  BY DEF Scheduled, Loops, Measured, StallsShow, Taken
<1> QED
  BY <1>1, <1>2 DEF Inv

\* Time passes.
LEMMA TickKeeps == Inv /\ Tick => Inv'
<1> SUFFICES ASSUME Inv, Tick PROVE Inv'
  OBVIOUS
<1> USE LatencyAssumption DEF Inv, Tick, producerVars, consumerVars
<1>1. TypeOK'
  BY DEF TypeOK
<1>2. now \in Nat /\ now' = now + 1
  BY DEF TypeOK
<1>3. Scheduled'
  <2>1. \A j \in 0..(i - 1) : j * kIntervalNs \in Int
    BY DEF TypeOK
  <2>2. intended \in Nat
    BY DEF TypeOK
  <2> QED
    BY <1>2, <2>1, <2>2 DEF Scheduled, Taken
<1>4. Measured'
  <2> SUFFICES ASSUME NEW k \in 1..Len(latencies_ns)
               PROVE  latencies_ns[k] + (k - 1) * kIntervalNs <= now'
    BY DEF Measured
  <2>1. latencies_ns[k] \in Nat /\ (k - 1) * kIntervalNs \in Int
    BY DEF TypeOK
  <2>2. latencies_ns[k] + (k - 1) * kIntervalNs <= now
    BY DEF Measured
  <2> HIDE DEF Inv
  <2> QED
    BY <1>2, <2>1, <2>2
<1>5. Loops' /\ StallsShow'
  BY DEF Loops, StallsShow
<1> QED
  BY <1>1, <1>3, <1>4, <1>5

\* The producer sends on its schedule.
LEMMA ProduceKeeps == Inv /\ Produce => Inv'
<1> SUFFICES ASSUME Inv, Produce PROVE Inv'
  OBVIOUS
<1> USE LatencyAssumption DEF Inv, producerVars, consumerVars
<1>1. CASE ReadStart \/ Release
  <2>1. kOps > 0 /\ i = 0 /\ i' = 0
    BY <1>1 DEF ReadStart, Release, Loops
  <2>2. TypeOK'
    BY <1>1 DEF ReadStart, Release, TypeOK
  <2>3. Loops'
    BY <1>1, <2>1 DEF ReadStart, Release, Loops
  <2> QED
    BY <1>1, <2>2, <2>3 DEF ReadStart, Release, Scheduled, Measured, StallsShow, Taken
<1>2. CASE AwaitTime
  <2>1. i * kIntervalNs \in Nat
    BY MultipleNat DEF TypeOK
  <2> QED
    BY <1>2, <2>1 DEF AwaitTime, Due, Schedule, TypeOK, Scheduled, Loops, Measured, StallsShow, Taken
<1>3. CASE Push
  <2> USE <1>3 DEF Push
  <2>1. /\ queue \in Seq(Nat) /\ intended \in Nat /\ i \in Nat /\ latencies_ns \in Seq(Nat)
        /\ Taken' = Taken /\ Taken \in Nat /\ i = Taken + Len(queue)
    BY DEF TypeOK, Scheduled, Taken
  <2>2. /\ queue' \in Seq(Nat) /\ Len(queue') = Len(queue) + 1
        /\ queue'[Len(queue) + 1] = intended
        /\ \A j \in 1..Len(queue) : queue'[j] = queue[j]
    BY <2>1
  <2>3. TypeOK'
    BY <2>2 DEF TypeOK, Loops
  <2>4. i' = Taken' + Len(queue')
    BY <2>1, <2>2
  <2>5. \A j \in 1..Len(queue') : queue'[j] = (Taken' + j - 1) * kIntervalNs
    <3> SUFFICES ASSUME NEW j \in 1..Len(queue') PROVE queue'[j] = (Taken + j - 1) * kIntervalNs
      BY <2>1
    <3>1. CASE j \in 1..Len(queue)
      BY <3>1, <2>2 DEF Scheduled
    <3>2. CASE j = Len(queue) + 1
      <4>1. Taken + j - 1 = i
        BY <3>2, <2>1
      <4>2. intended = i * kIntervalNs
        BY DEF Scheduled
      <4> QED
        BY <4>1, <4>2, <3>2, <2>2
    <3> QED
      BY <3>1, <3>2, <2>1, <2>2
  <2>6. \A j \in 0..(i' - 1) : j * kIntervalNs <= now'
    <3> SUFFICES ASSUME NEW j \in 0..(i' - 1) PROVE j * kIntervalNs <= now
      OBVIOUS
    <3>1. CASE j \in 0..(i - 1)
      BY <3>1 DEF Scheduled
    <3>2. CASE j = i
      BY <3>2 DEF Scheduled
    <3> QED
      BY <3>1, <3>2, <2>1
  <2>7. Scheduled'
    BY <2>4, <2>5, <2>6 DEF Scheduled
  <2>8. Loops' /\ Measured' /\ StallsShow'
    BY <2>1 DEF Loops, Measured, StallsShow
  <2> QED
    BY <2>3, <2>7, <2>8
<1> QED
  BY <1>1, <1>2, <1>3 DEF Produce

\* The consumer takes the items in order and measures each one.
LEMMA ConsumeKeeps == Inv /\ Consume => Inv'
<1> SUFFICES ASSUME Inv, Consume PROVE Inv'
  OBVIOUS
<1> USE LatencyAssumption DEF Inv, producerVars, consumerVars
<1>1. CASE AwaitStart
  BY <1>1 DEF AwaitStart, TypeOK, Scheduled, Loops, Measured, StallsShow, Taken
<1>2. CASE Pop
  <2> USE <1>2 DEF Pop
  <2>1. queue \in Seq(Nat) /\ queue # << >> /\ latencies_ns \in Seq(Nat) /\ i \in Nat
    BY DEF TypeOK
  <2>2. /\ Len(queue) >= 1 /\ queue' \in Seq(Nat) /\ Len(queue') = Len(queue) - 1
        /\ intended_send' = queue[1] /\ queue[1] \in Nat
        /\ \A j \in 1..Len(queue') : queue'[j] = queue[j + 1]
    BY <2>1
  <2>3. Taken = Len(latencies_ns) /\ Taken' = Taken + 1 /\ Taken \in Nat
    BY <2>1 DEF Taken
  <2>4. TypeOK'
    BY <2>2 DEF TypeOK
  <2>5. i' = Taken' + Len(queue')
    BY <2>1, <2>2, <2>3 DEF Scheduled
  <2>6. \A j \in 1..Len(queue') : queue'[j] = (Taken' + j - 1) * kIntervalNs
    <3> SUFFICES ASSUME NEW j \in 1..Len(queue') PROVE queue'[j] = (Taken' + j - 1) * kIntervalNs
      OBVIOUS
    <3>1. j + 1 \in 1..Len(queue) /\ Taken' + j - 1 = Taken + (j + 1) - 1
      BY <2>1, <2>2, <2>3
    <3> QED
      BY <3>1, <2>2 DEF Scheduled
  <2>7. intended_send' = Len(latencies_ns') * kIntervalNs
    <3>1. 1 \in 1..Len(queue) /\ Taken + 1 - 1 = Len(latencies_ns)
      BY <2>1, <2>2, <2>3
    <3> QED
      BY <3>1, <2>2 DEF Scheduled
  <2>8. Scheduled'
    BY <2>5, <2>6, <2>7 DEF Scheduled
  <2>9. Loops' /\ Measured' /\ StallsShow'
    BY DEF Loops, Measured, StallsShow
  <2> QED
    BY <2>4, <2>8, <2>9
<1>3. CASE Receive
  <2> USE <1>3 DEF Receive
  <2> DEFINE n == Len(latencies_ns)
             x == now - intended_send
  <2>1. /\ latencies_ns \in Seq(Nat) /\ n \in Nat /\ now \in Nat /\ queue \in Seq(Nat) /\ i \in Nat
        /\ n < kOps /\ kOps \in Nat /\ n * kIntervalNs \in Nat
    BY MultipleNat DEF TypeOK, Loops
  <2>2. intended_send = n * kIntervalNs /\ n * kIntervalNs <= now
    <3>1. n + 1 + Len(queue) = i
      BY DEF Scheduled, Taken
    <3>2. n \in 0..(i - 1)
      BY <3>1, <2>1
    <3> QED
      BY <3>2 DEF Scheduled
  <2>3. x \in Nat /\ x + n * kIntervalNs = now
    BY <2>1, <2>2
  <2>4. /\ latencies_ns' \in Seq(Nat) /\ Len(latencies_ns') = n + 1
        /\ latencies_ns'[n + 1] = x
        /\ \A k \in 1..n : latencies_ns'[k] = latencies_ns[k]
    BY <2>1, <2>3
  <2>5. TypeOK'
    BY <2>1, <2>4 DEF TypeOK
  <2>6. Taken' = Taken
    BY <2>1, <2>4 DEF Taken
  <2>7. Scheduled'
    BY <2>6 DEF Scheduled
  <2>8. Loops'
    BY <2>1, <2>4 DEF Loops, LastItem
  <2>9. Measured'
    <3> SUFFICES ASSUME NEW k \in 1..(n + 1)
                 PROVE  latencies_ns'[k] + (k - 1) * kIntervalNs <= now
      BY <2>4 DEF Measured
    <3>1. CASE k \in 1..n
      BY <3>1, <2>4 DEF Measured
    <3>2. CASE k = n + 1
      <4>1. k - 1 = n
        BY <3>2, <2>1
      <4> QED
        BY <4>1, <3>2, <2>1, <2>3, <2>4
    <3> QED
      BY <3>1, <3>2, <2>1
  <2>10. StallsShow'
    <3> SUFFICES ASSUME NEW k \in 1..(n + 1), k > 1
                 PROVE  latencies_ns'[k] + kIntervalNs >= latencies_ns'[k - 1]
      BY <2>4 DEF StallsShow
    <3>1. CASE k \in 1..n
      <4>1. k \in DOMAIN latencies_ns /\ k - 1 \in 1..n
        BY <3>1, <2>1
      <4> QED
        BY <4>1, <3>1, <2>4 DEF StallsShow
    <3>2. CASE k = n + 1
      <4>1. k - 1 = n /\ n \in 1..n /\ latencies_ns[n] \in Nat
        BY <3>2, <2>1
      <4>2. latencies_ns[n] + (n - 1) * kIntervalNs <= now
        BY <4>1 DEF Measured
      <4>3. (n - 1) * kIntervalNs \in Int /\ n * kIntervalNs = (n - 1) * kIntervalNs + kIntervalNs
        BY <2>1
      <4> HIDE DEF Inv, x
      <4>4. x + kIntervalNs >= latencies_ns[n]
        BY <4>1, <4>2, <4>3, <2>1, <2>3
      <4> QED
        BY <4>1, <4>4, <3>2, <2>4
    <3> QED
      BY <3>1, <3>2, <2>1
  <2> QED
    BY <2>5, <2>7, <2>8, <2>9, <2>10
<1> QED
  BY <1>1, <1>2, <1>3 DEF Consume

\* main() reads the latencies after the threads are joined.
LEMMA ComputeKeeps == Inv /\ Compute => Inv'
<1> SUFFICES ASSUME Inv, Compute PROVE Inv'
  OBVIOUS
<1>1. DOMAIN percentiles' = PerMille
  BY DEF Compute
<1> QED
  BY <1>1 DEF Inv, Compute, producerVars, consumerVars, TypeOK, Scheduled, Loops, Measured,
     StallsShow, Taken

\* The invariant holds throughout.
THEOREM Invariance == Spec => []Inv
<1>1. Inv /\ [Next]_vars => Inv'
  <2> SUFFICES ASSUME Inv, [Next]_vars PROVE Inv'
    OBVIOUS
  <2>1. CASE UNCHANGED vars
    BY <2>1 DEF Inv, vars, producerVars, consumerVars, TypeOK, Scheduled, Loops, Measured,
       StallsShow, Taken
  <2>2. CASE Done
    BY <2>1, <2>2 DEF Done
  <2> QED
    BY <2>1, <2>2, TickKeeps, ProduceKeeps, ConsumeKeeps, ComputeKeeps DEF Next
<1> QED
  BY Initially, <1>1, PTL DEF Spec

\* Types of all variables; no latency is negative, since nothing is sent before its time
\* (queue_latency.cpp:187-191).
THEOREM TypeCorrect == Spec => []TypeOK
<1>1. Inv => TypeOK
  BY DEF Inv
<1> QED
  BY Invariance, <1>1, PTL

\* A stall shows in every item that was due during it: the loop is open
\* (queue_latency.cpp:6-17).
THEOREM NoCoordinatedOmission == Spec => []StallsShow
<1>1. Inv => StallsShow
  BY DEF Inv
<1> QED
  BY Invariance, <1>1, PTL

-----------------------------------------------------------------------------
\* All items are measured when the consumer ends, and percentiles are computed after that.
Ended ==
    /\ consumer = "joined" => Len(latencies_ns) = kOps
    /\ DOMAIN percentiles # {} => consumer = "joined"

\* Different elements have different places, from 1 to kOps.
LEMMA PlaceIs ==
    ASSUME latencies_ns \in [1..kOps -> Nat], NEW j \in 1..kOps
    PROVE  /\ UpTo(j) \subseteq 1..kOps /\ IsFiniteSet(UpTo(j)) /\ j \in UpTo(j)
           /\ Place(j) \in 1..kOps
           /\ \A l \in 1..kOps : l # j => Place(l) # Place(j)
<1> USE LatencyAssumption
<1>1. /\ IsFiniteSet(1..kOps) /\ Cardinality(1..kOps) = kOps
      /\ \A l \in 1..kOps : latencies_ns[l] \in Nat /\ l \in Nat
  <2>1. 1 \in Int /\ kOps \in Int /\ ~(1 > kOps) /\ kOps - 1 + 1 = kOps
    OBVIOUS
  <2>2. IsFiniteSet(1..kOps) /\ Cardinality(1..kOps) = kOps
    BY <2>1, FS_Interval
  <2> QED
    BY <2>2
<1>2. \A l \in 1..kOps : UpTo(l) \subseteq 1..kOps /\ l \in UpTo(l)
  BY <1>1 DEF UpTo
<1>3. \A l \in 1..kOps : IsFiniteSet(UpTo(l)) /\ Place(l) \in Nat /\ Place(l) <= kOps
  BY <1>1, <1>2, FS_Subset, FS_CardinalityType DEF Place
<1>4. ASSUME NEW k \in 1..kOps, NEW l \in 1..kOps, l # k, Place(k) = Place(l), UpTo(k) \subseteq UpTo(l)
      PROVE  FALSE
  <2>1. UpTo(k) = UpTo(l)
    BY <1>3, <1>4, FS_Subset DEF Place
  <2>2. l \in UpTo(k) /\ k \in UpTo(l)
    BY <1>2, <2>1
  <2> QED
    BY <1>1, <1>4, <2>2 DEF UpTo
<1>5. ASSUME NEW l \in 1..kOps PROVE UpTo(l) \subseteq UpTo(j) \/ UpTo(j) \subseteq UpTo(l)
  BY <1>1 DEF UpTo
<1>6. Place(j) # 0
  BY <1>2, <1>3, FS_EmptySet DEF Place
<1>7. ASSUME NEW l \in 1..kOps, l # j PROVE Place(l) # Place(j)
  BY <1>4, <1>5, <1>7
<1> QED
  BY <1>2, <1>3, <1>6, <1>7

\* So each place has its element.
LEMMA PlaceTaken ==
    ASSUME latencies_ns \in [1..kOps -> Nat], NEW k \in 1..kOps
    PROVE  \E j \in 1..kOps : Place(j) = k
<1> DEFINE D == 1..kOps
           place == [j \in D |-> Place(j)]
<1>1. IsFiniteSet(D)
  BY LatencyAssumption, FS_Interval
<1>2. place \in [D -> D] /\ \A j, l \in D : j # l => place[j] # place[l]
  BY PlaceIs
<1> HIDE DEF place, D
<1>3. place \in Injection(D, D)
  BY <1>2 DEF Injection, IsInjective
<1>4. place \in Surjection(D, D)
  BY <1>1, <1>3, FS_Injection
<1> QED
  BY <1>4 DEF Surjection, place, D

\* The vector that compute_percentiles() indexes has the latencies in ascending order, each
\* once, as std::sort() leaves it (queue_latency.cpp:145).
THEOREM SortedIs ==
    ASSUME latencies_ns \in [1..kOps -> Nat]
    PROVE  /\ \A k \in 1..kOps : Sorted[k] \in Nat
           /\ \A j, k \in 1..kOps : j < k => Sorted[j] <= Sorted[k]
           /\ \E p \in Bijection(1..kOps, 1..kOps) : Sorted = [k \in 1..kOps |-> latencies_ns[p[k]]]
<1> DEFINE D == 1..kOps
           p == [k \in D |-> CHOOSE j \in D : Place(j) = k]
<1>1. \A k \in D : p[k] \in D /\ Place(p[k]) = k
  BY PlaceTaken
<1>2. Sorted = [k \in D |-> latencies_ns[p[k]]]
  BY DEF Sorted
<1> HIDE DEF p
<1>3. \A l \in D : latencies_ns[l] \in Nat
  OBVIOUS
<1>4. ASSUME NEW j \in D, NEW k \in D, j < k PROVE Sorted[j] <= Sorted[k]
  <2> DEFINE x == p[j]
             y == p[k]
  <2>1. x \in D /\ y \in D /\ Place(x) = j /\ Place(y) = k
    BY <1>1
  <2> HIDE DEF x, y
  <2> SUFFICES ASSUME latencies_ns[x] > latencies_ns[y] PROVE FALSE
    BY <1>2, <1>3, <2>1 DEF x, y
  <2>2. UpTo(y) \subseteq UpTo(x)
    BY <1>3, <2>1 DEF UpTo
  <2>3. IsFiniteSet(UpTo(x))
    BY <2>1, PlaceIs
  <2>4. Place(y) <= Place(x)
    BY <2>2, <2>3, FS_Subset DEF Place
  <2> QED
    BY <1>4, <2>1, <2>4, LatencyAssumption
<1>5. p \in Bijection(D, D)
  <2>1. p \in [D -> D]
    BY <1>1 DEF p
  <2>2. \A j, k \in D : p[j] = p[k] => j = k
    BY <1>1
  <2>3. p \in Injection(D, D)
    BY <2>1, <2>2 DEF Injection, IsInjective
  <2>4. p \in Surjection(D, D)
    BY <2>3, FS_Injection, FS_Interval, LatencyAssumption
  <2> QED
    BY <2>3, <2>4 DEF Bijection
<1>6. \A k \in D : Sorted[k] \in Nat
  BY <1>1, <1>2, <1>3
<1> QED
  BY <1>2, <1>4, <1>5, <1>6

\* How many elements are smaller than, and how many up to, the one at a place.
LEMMA CountsAtPlace ==
    ASSUME latencies_ns \in Seq(Nat), Len(latencies_ns) = kOps, NEW k \in 1..kOps
    PROVE  CountUpTo(Sorted[k]) \in Nat /\ CountUpTo(Sorted[k]) >= k
           /\ CountBelow(Sorted[k]) \in Nat /\ CountBelow(Sorted[k]) < k
<1> USE LatencyAssumption
<1>1. DOMAIN latencies_ns = 1..kOps /\ latencies_ns \in [1..kOps -> Nat] /\ IsFiniteSet(1..kOps)
  <2>1. DOMAIN latencies_ns = 1..kOps /\ latencies_ns \in [1..kOps -> Nat]
    OBVIOUS
  <2>2. 1 \in Int /\ kOps \in Int
    OBVIOUS
  <2> QED
    BY <2>1, <2>2, FS_Interval
<1>2. PICK j \in 1..kOps : Place(j) = k /\ Sorted[k] = latencies_ns[j]
  BY <1>1, PlaceTaken DEF Sorted
<1> DEFINE v == latencies_ns[j]
           upto == {l \in 1..kOps : latencies_ns[l] <= v}
           below == {l \in 1..kOps : latencies_ns[l] < v}
<1>3. CountUpTo(v) = Cardinality(upto) /\ CountBelow(v) = Cardinality(below)
  BY <1>1 DEF CountUpTo, CountBelow
<1>4. IsFiniteSet(upto) /\ Cardinality(upto) \in Nat
  BY <1>1, FS_Subset, FS_CardinalityType
<1>5. UpTo(j) \subseteq upto /\ below \subseteq UpTo(j) \ {j}
  <2>1. \A l \in 1..kOps : latencies_ns[l] \in Nat
    BY <1>1
  <2> QED
    BY <1>2, <2>1 DEF UpTo
<1>6. IsFiniteSet(UpTo(j)) /\ j \in UpTo(j)
  BY <1>1, <1>2, PlaceIs
<1> HIDE DEF upto, below, v
<1>7. Cardinality(upto) >= k
  BY <1>2, <1>4, <1>5, <1>6, FS_Subset, FS_CardinalityType DEF Place
<1>8. Cardinality(below) \in Nat /\ Cardinality(below) < k
  <2>1. IsFiniteSet(UpTo(j) \ {j}) /\ Cardinality(UpTo(j) \ {j}) = k - 1
    BY <1>2, <1>6, FS_RemoveElement DEF Place
  <2>2. IsFiniteSet(below) /\ Cardinality(below) <= k - 1
    BY <1>5, <2>1, FS_Subset
  <2>3. Cardinality(below) \in Nat
    BY <2>2, FS_CardinalityType
  <2> QED
    BY <2>2, <2>3
<1> QED
  BY <1>2, <1>3, <1>4, <1>7, <1>8 DEF v

\* The element of rank q has more than the fraction q up to it, and no more below.
LEMMA RankIs ==
    ASSUME NEW q \in PerMille
    PROVE  /\ Rank(q) \in Nat /\ Rank(q) + 1 \in 1..kOps
           /\ 1000 * (Rank(q) + 1) > q * kOps /\ 1000 * Rank(q) <= q * kOps
<1> DEFINE x == q * kOps
           d == x \div 1000
<1>1. q \in Nat /\ q < 1000 /\ kOps \in Nat /\ kOps >= 1
  BY LatencyAssumption DEF PerMille
<1>2. x \in Nat /\ x < 1000 * kOps
  BY LatencyAssumption DEF PerMille
<1> HIDE DEF x
<1>3. d \in Nat /\ 1000 * d <= x /\ x < 1000 * d + 1000
  BY <1>2
<1> HIDE DEF d
<1>4. Rank(q) = IF kOps - 1 < d THEN kOps - 1 ELSE d
  BY DEF Rank, Smaller, x, d
<1>5. /\ Rank(q) \in Nat /\ Rank(q) + 1 \in 1..kOps
      /\ 1000 * (Rank(q) + 1) > x /\ 1000 * Rank(q) <= x
  BY <1>1, <1>2, <1>3, <1>4
<1> QED
  BY <1>5 DEF x

\* So main() computes percentiles,
LEMMA ComputeRight == Inv /\ Ended /\ Compute => PercentilesRight'
<1> SUFFICES ASSUME Inv, Ended, Compute PROVE PercentilesRight'
  OBVIOUS
<1>0. latencies_ns' = latencies_ns
  BY DEF Compute, consumerVars
<1> SUFFICES ASSUME NEW q \in PerMille
             PROVE  /\ 1000 * CountUpTo(percentiles'[q]) > q * kOps
                    /\ 1000 * CountBelow(percentiles'[q]) <= q * kOps
  BY <1>0 DEF PercentilesRight, CountUpTo, CountBelow
<1> DEFINE k == Rank(q) + 1
           v == percentiles'[q]
<1>1. v = Sorted[k]
  BY DEF Compute
<1>2. latencies_ns \in Seq(Nat) /\ Len(latencies_ns) = kOps
  BY DEF Inv, TypeOK, Ended, Compute
<1>3. k \in 1..kOps /\ 1000 * k > q * kOps /\ 1000 * (k - 1) <= q * kOps
  BY RankIs DEF PerMille
<1> HIDE DEF k, v
<1>4. /\ CountUpTo(v) \in Nat /\ CountUpTo(v) >= k
      /\ CountBelow(v) \in Nat /\ CountBelow(v) < k
  BY <1>1, <1>2, <1>3, CountsAtPlace
<1> DEFINE x == q * kOps
<1>5. x \in Nat
  BY LatencyAssumption DEF PerMille
<1>6. 1000 * k > x /\ 1000 * (k - 1) <= x
  BY <1>3
<1> HIDE DEF x
<1>7. 1000 * CountUpTo(v) > x /\ 1000 * CountBelow(v) <= x
  BY <1>3, <1>4, <1>5, <1>6, LatencyAssumption
<1> QED
  BY <1>7 DEF x, v

\* and no step before or after it changes that.
LEMMA PercentilesKept ==
    Inv /\ Ended /\ PercentilesRight /\ [Next]_vars => (Ended /\ PercentilesRight)'
<1> SUFFICES ASSUME Inv, Ended, PercentilesRight, [Next]_vars
             PROVE  (Ended /\ PercentilesRight)'
  OBVIOUS
<1>1. CASE Tick \/ Produce \/ Done \/ UNCHANGED vars
  <2>1. latencies_ns' = latencies_ns /\ consumer' = consumer /\ percentiles' = percentiles
    BY <1>1 DEF Tick, Produce, ReadStart, Release, AwaitTime, Push, Done, vars, consumerVars
  <2>2. Ended'
    BY <2>1 DEF Ended
  <2>3. PercentilesRight'
    BY <2>1 DEF PercentilesRight, CountUpTo, CountBelow
  <2> QED
    BY <2>2, <2>3
<1>2. CASE Consume
  <2>1. consumer # "joined" /\ percentiles' = percentiles
    BY <1>2 DEF Consume, AwaitStart, Pop, Receive
  <2>2. consumer' = "joined" => Len(latencies_ns') = kOps
    <3>1. CASE Receive
      <4>1. latencies_ns \in Seq(Nat) /\ now - intended_send \in Int
        BY DEF Inv, TypeOK
      <4>2. Len(latencies_ns') = Len(latencies_ns) + 1
        BY <3>1, <4>1 DEF Receive
      <4> QED
        BY <3>1, <4>2 DEF Receive, LastItem
    <3>2. CASE AwaitStart \/ Pop
      BY <3>2 DEF AwaitStart, Pop
    <3> QED
      BY <1>2, <3>1, <3>2 DEF Consume
  <2> QED
    BY <2>1, <2>2 DEF Ended, PercentilesRight
<1>3. CASE Compute
  <2>1. Ended'
    BY <1>3 DEF Ended, Compute, consumerVars
  <2> QED
    BY <1>3, <2>1, ComputeRight
<1> QED
  BY <1>1, <1>2, <1>3 DEF Next

\* What main() prints are percentiles of the measured latencies, for any number of items
\* (compute_percentiles, queue_latency.cpp:144).
THEOREM PercentilesAreRight == Spec => []PercentilesRight
<1>1. Init => Ended /\ PercentilesRight
  <2> SUFFICES ASSUME Init PROVE DOMAIN percentiles = {} /\ consumer = "start"
    BY DEF Ended, PercentilesRight
  <2> QED
    BY DEF Init
<1> QED
  BY <1>1, Invariance, PercentilesKept, PTL DEF Spec
=============================================================================
