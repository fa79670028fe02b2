------------------------- MODULE Calibration_proofs -------------------------
(***************************************************************************)
(* Proofs about Calibration, for any limit, any number of threads and any  *)
(* count: trial division is right, and so is the search for the nearest    *)
(* prime, whatever it starts from.                                         *)
(***************************************************************************)
EXTENDS Calibration, Arithmetic

\* The number whose nearest prime the search is after.
Start == Clamp(Raw(value[event]))

\* The search widens evenly on both sides, and no prime is left behind in between.
Searching ==
    pc = "search" => /\ lo + hi = 2 * Start
                     /\ \A q \in Nat : lo < q /\ q < hi => ~Prime(q)

\* Period p is right for v events counted.
Right(p, v) == \E n \in 0..(5 * MaxValue + 1) : Rounds(n, v) /\ NearestPrime(p, Clamp(n))

ChosenSoFar == \A e \in Events : e < event \/ pc = "done" => Right(period[e], value[e])

\* The counting run comes before the first period.
CountsFirst == pc = "count" => event = 0

Inv == TypeOK /\ CountsFirst /\ Searching /\ ChosenSoFar

-----------------------------------------------------------------------------
\* A divisor leaves no remainder.
LEMMA Divides ==
    ASSUME NEW v \in Nat, NEW d \in Nat \ {0}, v % d = 0
    PROVE  \E q \in Nat : v = d * q
<1>1. v \div d \in Nat /\ v = d * (v \div d) + (v % d)
  BY DivMod
<1> QED
  BY <1>1

\* A multiple leaves no remainder.
LEMMA Multiple ==
    ASSUME NEW d \in Nat \ {0}, NEW q \in Nat, NEW v \in Nat, v = d * q
    PROVE  v % d = 0
<1>1. 0 \in 0..(d - 1) /\ v = d * q + 0
  OBVIOUS
<1> QED
  BY <1>1, ModIs

\* A number that a smaller one divides is divided by one not above its square root.
LEMMA SmallDivisor ==
    ASSUME NEW v \in Nat, NEW d \in 2..(v - 1), v % d = 0
    PROVE  \E c \in 2..(v - 1) : v % c = 0 /\ c * c <= v
<1>1. PICK q \in Nat : v = d * q
  BY Divides
<1>2. q \in 2..(v - 1)
  <2>1. q # 0 /\ q # 1
    BY <1>1
  <2>2. q < v
    <3>1. d * q = 2 * q + (d - 2) * q
      OBVIOUS
    <3>2. (d - 2) * q >= 0
      OBVIOUS
    <3> QED
      BY <1>1, <2>1, <3>1, <3>2
  <2> QED
    BY <2>1, <2>2
<1>3. v % q = 0
  <2>1. q \in Nat \ {0} /\ d \in Nat /\ v = q * d
    BY <1>1, <1>2
  <2> QED
    BY <2>1, Multiple
<1>4. CASE d <= q
  <2>1. d * d <= d * q
    <3>1. d * q = d * d + d * (q - d)
      OBVIOUS
    <3>2. d * (q - d) >= 0
      BY <1>4
    <3> QED
      BY <3>1, <3>2
  <2> QED
    BY <1>1, <2>1
<1>5. CASE q <= d
  <2>1. q * q <= d * q
    <3>1. d * q = q * q + (d - q) * q
      OBVIOUS
    <3>2. (d - q) * q >= 0
      BY <1>5
    <3> QED
      BY <3>1, <3>2
  <2> QED
    BY <1>1, <1>2, <1>3, <2>1
<1> QED
  BY <1>4, <1>5

\* An odd number has odd divisors only.
LEMMA OddDivisor ==
    ASSUME NEW v \in Nat, NEW d \in Nat \ {0}, v % 2 # 0, v % d = 0
    PROVE  d % 2 = 1
<1>1. PICK q \in Nat : v = d * q
  BY Divides
<1>2. d % 2 \in 0..1
  BY DivMod
<1>3. ASSUME d % 2 = 0 PROVE FALSE
  <2>1. PICK h \in Nat : d = 2 * h
    BY <1>3, Divides
  <2>2. h * q \in Nat /\ v = 2 * (h * q)
    BY <1>1, <2>1
  <2>3. v % 2 = 0
    BY <2>2, Multiple
  <2> QED
    BY <2>3
<1> QED
  BY <1>2, <1>3

\* is_prime() (main.cpp:436-442) tells exactly the primes, although it tries only 2 and the
\* odd numbers up to the square root.
THEOREM PrimeTest == \A v \in Nat : is_prime(v) <=> Prime(v)
<1> SUFFICES ASSUME NEW v \in Nat, v >= 2
             PROVE  is_prime(v) <=> Prime(v)
  BY DEF is_prime, Prime
<1>1. CASE v % 2 = 0
  <2>1. v # 2 => ~Prime(v)
    <3>1. v # 2 => 2 \in 2..(v - 1)
      OBVIOUS
    <3> QED
      BY <1>1, <3>1 DEF Prime
  <2>2. Prime(2)
    BY DEF Prime
  <2> QED
    BY <1>1, <2>1, <2>2 DEF is_prime
<1>2. CASE v % 2 # 0
  <2>1. ASSUME is_prime(v) PROVE Prime(v)
    <3>1. \A i \in 3..v : i % 2 = 1 /\ i * i <= v => v % i # 0
      BY <1>2, <2>1 DEF is_prime
    <3>2. ASSUME NEW d \in 2..(v - 1), v % d = 0 PROVE FALSE
      <4>1. PICK c \in 2..(v - 1) : v % c = 0 /\ c * c <= v
        BY <3>2, SmallDivisor
      <4>2. c % 2 = 1
        <5>1. c \in Nat \ {0}
          OBVIOUS
        <5> QED
          BY <1>2, <4>1, <5>1, OddDivisor
      <4>3. c # 2
        BY <1>2, <4>1
      <4> QED
        BY <3>1, <4>1, <4>2, <4>3
    <3> QED
      BY <3>2 DEF Prime
  <2>2. ASSUME Prime(v) PROVE is_prime(v)
    <3>1. ASSUME NEW i \in 3..v, i * i <= v PROVE v % i # 0
      <4>1. i \in 2..(v - 1)
        <5>1. i * i = 3 * i + (i - 3) * i
          OBVIOUS
        <5>2. (i - 3) * i >= 0
          OBVIOUS
        <5> QED
          BY <3>1, <5>1, <5>2
      <4> QED
        BY <2>2, <4>1 DEF Prime
    <3> QED
      BY <1>2, <3>1 DEF is_prime
  <2> QED
    BY <2>1, <2>2
<1> QED
  BY <1>1, <1>2

-----------------------------------------------------------------------------
\* The unit of the ratio is a positive number.
LEMMA UnitPositive == Unit \in Nat \ {0}
  BY CalibrationAssumption DEF Unit, time_running

\* Adding a half and truncating rounds (main.cpp:742), and the result is in bounds.
LEMMA RawRounds ==
    ASSUME NEW v \in 0..MaxValue
    PROVE  Raw(v) \in 0..(5 * MaxValue + 1) /\ Rounds(Raw(v), v)
<1> DEFINE u == Unit
           r == Raw(v)
<1>1. u \in Nat \ {0} /\ v \in Nat /\ MaxValue \in Nat
  BY UnitPositive, CalibrationAssumption
<1>2. /\ r \in Nat
      /\ (10 * v + u) % (2 * u) \in 0..(2 * u - 1)
      /\ 10 * v + u = (2 * u) * r + ((10 * v + u) % (2 * u))
  <2>1. 10 * v + u \in Nat /\ 2 * u \in Nat \ {0}
    BY <1>1
  <2> HIDE DEF u
  <2> QED
    BY <2>1, DivMod DEF Raw, u
<1> HIDE DEF u, r
<1>3. PICK p \in Nat : p = u * r
  BY <1>1, <1>2
<1>4. (2 * u) * r = 2 * p
  BY <1>1, <1>2, <1>3
<1>5. 2 * p <= 10 * v + u /\ 10 * v + u < 2 * p + 2 * u
  BY <1>1, <1>2, <1>4
<1>6. Rounds(r, v)
  BY <1>1, <1>3, <1>5 DEF Rounds, Distance, u
<1>7. r <= 5 * MaxValue + 1
  <2>1. ASSUME r > 5 * v + 1 PROVE FALSE
    <3>1. 5 * v + 1 < r /\ 5 * v + 1 \in Int
      BY <1>1, <2>1
    <3>2. u * (5 * v + 1) + u <= u * r
      BY <1>1, <1>2, <3>1, Mult
    <3>3. u * (5 * v + 1) = 5 * (u * v) + u
      BY <1>1
    <3>4. u * v >= v
      <4>1. u * v = v + (u - 1) * v
        BY <1>1
      <4>2. (u - 1) * v >= 0
        BY <1>1
      <4> QED
        BY <1>1, <4>1, <4>2
    <3>5. PICK w \in Nat : w = u * v
      BY <1>1
    <3> QED
      BY <1>1, <1>3, <1>5, <3>2, <3>3, <3>4, <3>5
  <2> QED
    BY <1>1, <1>2, <2>1
<1> QED
  BY <1>2, <1>6, <1>7 DEF r

\* What the search starts from is at least 2, the first prime.
LEMMA StartFact ==
    ASSUME TypeOK
    PROVE  Start \in Nat /\ Start >= 2 /\ value[event] \in 0..MaxValue
<1>1. value[event] \in 0..MaxValue
  BY DEF TypeOK
<1>2. Raw(value[event]) \in Nat
  BY <1>1, RawRounds
<1> QED
  BY <1>1, <1>2 DEF Start, Clamp

-----------------------------------------------------------------------------
\* Every step keeps the types and the bounds of the search.
LEMMA TypeStep == TypeOK /\ Searching /\ [Next]_vars => TypeOK'
<1> SUFFICES ASSUME TypeOK, Searching, [Next]_vars PROVE TypeOK'
  OBVIOUS
<1>1. CASE Count
  BY <1>1 DEF TypeOK, Count
<1>2. CASE Plan
  BY <1>2, StartFact DEF TypeOK, Plan, Start
<1>3. CASE Search
  <2>1. ASSUME NEW p \in Nat, Return(p) PROVE TypeOK'
    BY <2>1 DEF TypeOK, Return, Events
  <2>2. lo \in Nat /\ hi \in Nat
    BY DEF TypeOK
  <2> QED
    BY <1>3, <2>1, <2>2 DEF TypeOK, Search
<1>4. CASE UNCHANGED vars
  BY <1>4 DEF TypeOK, vars
<1> QED
  BY <1>1, <1>2, <1>3, <1>4 DEF Next, Done

\* While nothing between lo and hi is prime and neither is returned, there is room below.
LEMMA StillAbove ==
    ASSUME Inv, pc = "search", ~Prime(hi)
    PROVE  lo > 2
<1>1. lo \in Nat /\ hi \in Nat /\ 2 <= lo /\ lo <= hi /\ lo + hi = 2 * Start /\ Start \in Nat
  BY StartFact DEF Inv, TypeOK, Searching
<1>2. Prime(2) /\ Prime(3)
  <2>1. 3 % 2 = 1
    OBVIOUS
  <2> QED
    BY <2>1 DEF Prime
<1>3. hi # 2 /\ hi # 3
  BY <1>2
<1>4. ~(lo < 3 /\ 3 < hi)
  BY <1>2 DEF Inv, Searching
<1> QED
  BY <1>1, <1>3, <1>4

\* A prime at either end of the searched interval is one nearest to where it began.
LEMMA EndIsNearest ==
    ASSUME Inv, pc = "search", NEW p \in {lo, hi}, Prime(p)
    PROVE  NearestPrime(p, Start)
<1>1. lo \in Nat /\ hi \in Nat /\ lo <= hi /\ lo + hi = 2 * Start /\ Start \in Nat
  BY StartFact DEF Inv, TypeOK, Searching
<1>2. ASSUME NEW q \in 0..(2 * Start + 2), Prime(q)
      PROVE  Distance(p, Start) <= Distance(q, Start)
  <2>1. ~(lo < q /\ q < hi)
    BY <1>2 DEF Inv, Searching
  <2> QED
    BY <1>1, <2>1 DEF Distance
<1> QED
  BY <1>2 DEF NearestPrime

\* nearest_prime() returns a prime nearest to its argument.
LEMMA ReturnChosen ==
    ASSUME Inv, pc = "search", NEW p \in {lo, hi}, Prime(p), Return(p)
    PROVE  Inv'
<1>1. TypeOK'
  <2>1. p \in Nat
    BY DEF Prime
  <2> QED
    BY <2>1 DEF Inv, TypeOK, Return, Events
<1>2. Searching' /\ CountsFirst'
  BY DEF Return, Searching, CountsFirst
<1>3. ChosenSoFar'
  <2>1. /\ event \in Events /\ period \in [Events -> Nat] /\ value' = value
        /\ period' = [period EXCEPT ![event] = p]
        /\ event' = (IF event = 1 THEN event ELSE event + 1)
        /\ pc' = (IF event = 1 THEN "done" ELSE "plan")
    BY DEF Inv, TypeOK, Return
  <2>2. Right(p, value[event])
    <3>1. NearestPrime(p, Start)
      BY EndIsNearest
    <3>2. value[event] \in 0..MaxValue
      BY StartFact DEF Inv
    <3>3. /\ Raw(value[event]) \in 0..(5 * MaxValue + 1)
          /\ Rounds(Raw(value[event]), value[event])
      BY <3>2, RawRounds
    <3> QED
      BY <3>1, <3>3 DEF Right, Start
  <2>3. ASSUME NEW e \in Events, e < event' \/ pc' = "done"
        PROVE  Right(period'[e], value'[e])
    <3>1. CASE e = event
      BY <2>1, <2>2, <3>1
    <3>2. CASE e # event
      <4>1. e < event
        BY <2>1, <2>3, <3>2 DEF Events
      <4>2. Right(period[e], value[e])
        BY <4>1 DEF Inv, ChosenSoFar
      <4> QED
        BY <2>1, <3>2, <4>2
    <3> QED
      BY <3>1, <3>2
  <2> QED
    BY <2>3 DEF ChosenSoFar
<1> QED
  BY <1>1, <1>2, <1>3 DEF Inv

\* The invariant holds before the counting run.
LEMMA InitInv == Init => Inv
<1> SUFFICES ASSUME Init PROVE Inv
  OBVIOUS
<1>1. TypeOK
  BY CalibrationAssumption DEF Init, TypeOK, Events
<1> QED
  BY <1>1 DEF Init, Inv, CountsFirst, Searching, ChosenSoFar, Events

\* The invariant is inductive: one step per action.
LEMMA StepInv == Inv /\ [Next]_vars => Inv'
<1> SUFFICES ASSUME Inv, [Next]_vars PROVE Inv'
  OBVIOUS
<1>1. CASE Count
  <2>1. TypeOK'
    BY <1>1, TypeStep DEF Inv, Next
  <2>2. Searching' /\ ChosenSoFar' /\ CountsFirst'
    <3>1. event = 0
      BY <1>1 DEF Inv, CountsFirst, Count
    <3> QED
      BY <1>1, <3>1 DEF Count, Searching, ChosenSoFar, CountsFirst, Events
  <2> QED
    BY <2>1, <2>2 DEF Inv
<1>2. CASE Plan
  <2>1. TypeOK'
    BY <1>2, TypeStep DEF Inv, Next
  <2>2. lo' = Start /\ hi' = Start /\ Start' = Start /\ Start \in Nat
    BY <1>2, StartFact DEF Inv, Plan, Start
  <2>3. Searching'
    BY <2>2 DEF Searching
  <2>4. ChosenSoFar'
    BY <1>2 DEF Inv, Plan, ChosenSoFar
  <2> QED
    BY <1>2, <2>1, <2>3, <2>4 DEF Inv, CountsFirst, Plan
<1>3. CASE Search
  <2>1. pc = "search" /\ lo \in Nat /\ hi \in Nat
    BY <1>3 DEF Inv, TypeOK, Search
  <2>2. CASE is_prime(hi)
    <3>1. Prime(hi) /\ Return(hi)
      BY <1>3, <2>1, <2>2, PrimeTest DEF Search
    <3> QED
      BY <2>1, <3>1, ReturnChosen
  <2>3. CASE ~is_prime(hi) /\ lo > 2 /\ is_prime(lo)
    <3>1. Prime(lo) /\ Return(lo)
      BY <1>3, <2>1, <2>3, PrimeTest DEF Search
    <3> QED
      BY <2>1, <3>1, ReturnChosen
  <2>4. CASE ~is_prime(hi) /\ ~(lo > 2 /\ is_prime(lo))
    <3>1. ~Prime(hi)
      BY <2>1, <2>4, PrimeTest
    <3>2. lo > 2
      BY <2>1, <3>1, StillAbove
    <3>3. ~Prime(lo)
      BY <2>1, <2>4, <3>2, PrimeTest
    <3>4. hi' = hi + 1 /\ lo' = lo - 1 /\ UNCHANGED <<pc, value, event, period>>
      BY <1>3, <2>4, <3>2 DEF Search
    <3>5. TypeOK'
      BY <1>3, TypeStep DEF Inv, Next
    <3>6. Searching'
      <4>1. lo + hi = 2 * Start /\ Start \in Nat /\ Start' = Start
        BY <2>1, <3>4, StartFact DEF Inv, Searching, Start
      <4>2. lo' + hi' = 2 * Start'
        BY <2>1, <3>4, <4>1
      <4>3. ASSUME NEW q \in Nat, lo' < q, q < hi' PROVE ~Prime(q)
        <5>1. q = lo \/ q = hi \/ (lo < q /\ q < hi)
          BY <2>1, <3>4, <4>3
        <5> QED
          BY <2>1, <3>1, <3>3, <5>1 DEF Inv, Searching
      <4> QED
        BY <4>2, <4>3 DEF Searching
    <3>7. ChosenSoFar'
      BY <3>4 DEF Inv, ChosenSoFar
    <3> QED
      BY <2>1, <3>4, <3>5, <3>6, <3>7 DEF Inv, CountsFirst
  <2> QED
    BY <2>2, <2>3, <2>4
<1>4. CASE UNCHANGED vars
  <2>1. TypeOK' /\ CountsFirst' /\ Searching' /\ ChosenSoFar'
    BY <1>4 DEF Inv, vars, TypeOK, CountsFirst, Searching, ChosenSoFar, Start
  <2> QED
    BY <2>1 DEF Inv
<1> QED
  BY <1>1, <1>2, <1>3, <1>4 DEF Next, Done

-----------------------------------------------------------------------------
\* Every state of every run satisfies the inductive invariant.
THEOREM Invariance == Spec => []Inv
  BY InitInv, StepInv, PTL DEF Spec

\* Every variable has its type, and the search stays at 2 or above (main.cpp:444-453).
THEOREM TypeCorrect == Spec => []TypeOK
<1>1. Inv => TypeOK
  BY DEF Inv
<1> QED
  BY <1>1, Invariance, PTL

\* The chosen periods are nearest primes of the rounded ratios (main.cpp:741-744).
THEOREM PeriodsArePrimes == Spec => []PeriodsNearest
<1>1. Inv => PeriodsNearest
  BY DEF Inv, ChosenSoFar, Right, PeriodsNearest
<1> QED
  BY <1>1, Invariance, PTL

-----------------------------------------------------------------------------
(* How far down the nearest prime can lie.  That depends on the gaps       *)
(* between primes: Ladder climbs to 17 million, each rung a prime not more *)
(* than 47/30 times the one before.                                        *)

\* Nothing from 2 to k divides v, and k is its square root or more.
Tried(v, k) ==
    /\ v >= 2 /\ v < (k + 1) * (k + 1)
    /\ \A i \in 2..k, q \in Nat : v # i * q

\* A period p below n, of which n is not nearer to a prime b above it, is not too short.
Close(a, b) == \A p, n \in Nat : a <= p /\ p < n /\ 2 * n < p + b => 30 * (2 * n + 1) <= 77 * p

\* All numbers below the prime m are between two primes that are close.
Between(n) == \E a, b \in Nat : Prime(a) /\ Prime(b) /\ a <= n /\ n < b /\ Close(a, b)
Reached(m) == Prime(m) /\ \A n \in 2..(m - 1) : Between(n)

\* What was tried in vain up to its square root is a prime.
LEMMA TriedPrime ==
    ASSUME NEW v \in Nat, NEW k \in Nat, Tried(v, k)
    PROVE  Prime(v)
<1> SUFFICES ASSUME NEW d \in 2..(v - 1), v % d = 0
             PROVE  FALSE
  BY DEF Prime, Tried
<1>1. PICK c \in 2..(v - 1) : v % c = 0 /\ c * c <= v
  BY SmallDivisor
<1>2. c <= k
  <2>1. ASSUME c >= k + 1 PROVE FALSE
    <3>1. c * c = (k + 1) * (k + 1) + (c - (k + 1)) * (c + (k + 1))
      OBVIOUS
    <3>2. (c - (k + 1)) * (c + (k + 1)) >= 0
      BY <2>1
    <3> QED
      BY <1>1, <3>1, <3>2 DEF Tried
  <2> QED
    BY <2>1
<1>3. PICK q \in Nat : v = c * q
  <2>1. c \in Nat \ {0}
    OBVIOUS
  <2> QED
    BY <1>1, <2>1, Divides
<1>4. c \in 2..k /\ q \in Nat /\ v = c * q
  BY <1>2, <1>3
<1> QED
  BY <1>4 DEF Tried

\* From one rung to the next.
LEMMA Climb ==
    ASSUME NEW a \in Nat, NEW b \in Nat, NEW k \in Nat, Reached(a), Tried(b, k), Close(a, b)
    PROVE  Reached(b)
<1>1. Prime(a) /\ Prime(b)
  BY TriedPrime DEF Reached
<1>2. ASSUME NEW n \in 2..(b - 1) PROVE Between(n)
  <2>1. CASE n < a
    BY <2>1 DEF Reached
  <2>2. CASE n >= a
    BY <1>1, <2>2 DEF Between
  <2> QED
    BY <2>1, <2>2
<1> QED
  BY <1>1, <1>2 DEF Reached

\* The first primes, where the gaps are wide for their size.
LEMMA Bottom == Reached(13)
<1>1. Reached(2)
  BY DEF Reached, Prime
<1>2. Reached(3)
  <2>1. Tried(3, 1) /\ Close(2, 3)
    BY SMT DEF Tried, Close
  <2> QED
    BY <1>1, <2>1, Climb
<1>3. Reached(5)
  <2>1. Tried(5, 2) /\ Close(3, 5)
    BY SMT DEF Tried, Close
  <2> QED
    BY <1>2, <2>1, Climb
<1>4. Reached(7)
  <2>1. Tried(7, 2) /\ Close(5, 7)
    BY SMT DEF Tried, Close
  <2> QED
    BY <1>3, <2>1, Climb
<1>5. Reached(11)
  <2>1. Tried(11, 3) /\ Close(7, 11)
    BY SMT DEF Tried, Close
  <2> QED
    BY <1>4, <2>1, Climb
<1>6. Reached(13)
  <2>1. Tried(13, 3) /\ Close(11, 13)
    BY SMT DEF Tried, Close
  <2> QED
    BY <1>5, <2>1, Climb
<1> QED
  BY <1>6

\* Between any two rungs the nearest prime is close enough.
LEMMA Ladder == Reached(17053331)
<1>1. Reached(13)
  BY Bottom
<1>2. Reached(19)
  <2>1. Tried(19, 4)
    BY SMT DEF Tried
  <2>2. Close(13, 19)
    BY SMT DEF Close
  <2> QED
    BY <1>1, <2>1, <2>2, Climb, SMT
<1>3. Reached(29)
  <2>1. Tried(29, 5)
    BY SMT DEF Tried
  <2>2. Close(19, 29)
    BY SMT DEF Close
  <2> QED
    BY <1>2, <2>1, <2>2, Climb, SMT
<1>4. Reached(43)
  <2>1. Tried(43, 6)
    BY SMT DEF Tried
  <2>2. Close(29, 43)
    BY SMT DEF Close
  <2> QED
    BY <1>3, <2>1, <2>2, Climb, SMT
<1>5. Reached(67)
  <2>1. Tried(67, 8)
    BY SMT DEF Tried
  <2>2. Close(43, 67)
    BY SMT DEF Close
  <2> QED
    BY <1>4, <2>1, <2>2, Climb, SMT
<1>6. Reached(103)
  <2>1. Tried(103, 10)
    BY SMT DEF Tried
  <2>2. Close(67, 103)
    BY SMT DEF Close
  <2> QED
    BY <1>5, <2>1, <2>2, Climb, SMT
<1>7. Reached(157)
  <2>1. Tried(157, 12)
    BY SMT DEF Tried
  <2>2. Close(103, 157)
    BY SMT DEF Close
  <2> QED
    BY <1>6, <2>1, <2>2, Climb, SMT
<1>8. Reached(241)
  <2>1. Tried(241, 15)
    BY SMT DEF Tried
  <2>2. Close(157, 241)
    BY SMT DEF Close
  <2> QED
    BY <1>7, <2>1, <2>2, Climb, SMT
<1>9. Reached(373)
  <2>1. Tried(373, 19)
    BY SMT DEF Tried
  <2>2. Close(241, 373)
    BY SMT DEF Close
  <2> QED
    BY <1>8, <2>1, <2>2, Climb, SMT
<1>10. Reached(577)
  <2>1. Tried(577, 24)
    BY SMT DEF Tried
  <2>2. Close(373, 577)
    BY SMT DEF Close
  <2> QED
    BY <1>9, <2>1, <2>2, Climb, SMT
<1>11. Reached(887)
  <2>1. Tried(887, 29)
    BY SMT DEF Tried
  <2>2. Close(577, 887)
    BY SMT DEF Close
  <2> QED
    BY <1>10, <2>1, <2>2, Climb, SMT
<1>12. Reached(1381)
  <2>1. Tried(1381, 37)
    BY SMT DEF Tried
  <2>2. Close(887, 1381)
    BY SMT DEF Close
  <2> QED
    BY <1>11, <2>1, <2>2, Climb, SMT
<1>13. Reached(2161)
  <2>1. Tried(2161, 46)
    BY SMT DEF Tried
  <2>2. Close(1381, 2161)
    BY SMT DEF Close
  <2> QED
    BY <1>12, <2>1, <2>2, Climb, SMT
<1>14. Reached(3373)
  <2>1. Tried(3373, 58)
    BY SMT DEF Tried
  <2>2. Close(2161, 3373)
    BY SMT DEF Close
  <2> QED
    BY <1>13, <2>1, <2>2, Climb, SMT
<1>15. Reached(5281)
  <2>1. Tried(5281, 72)
    BY SMT DEF Tried
  <2>2. Close(3373, 5281)
    BY SMT DEF Close
  <2> QED
    BY <1>14, <2>1, <2>2, Climb, SMT
<1>16. Reached(8273)
  <2>1. Tried(8273, 90)
    BY SMT DEF Tried
  <2>2. Close(5281, 8273)
    BY SMT DEF Close
  <2> QED
    BY <1>15, <2>1, <2>2, Climb, SMT
<1>17. Reached(12959)
  <2>1. Tried(12959, 113)
    BY SMT DEF Tried
  <2>2. Close(8273, 12959)
    BY SMT DEF Close
  <2> QED
    BY <1>16, <2>1, <2>2, Climb, SMT
<1>18. Reached(20297)
  <2>1. Tried(20297, 142)
    BY SMT DEF Tried
  <2>2. Close(12959, 20297)
    BY SMT DEF Close
  <2> QED
    BY <1>17, <2>1, <2>2, Climb, SMT
<1>19. Reached(31793)
  <2>1. Tried(31793, 178)
    BY SMT DEF Tried
  <2>2. Close(20297, 31793)
    BY SMT DEF Close
  <2> QED
    BY <1>18, <2>1, <2>2, Climb, SMT
<1>20. Reached(49807)
  <2>1. Tried(49807, 223)
    BY SMT DEF Tried
  <2>2. Close(31793, 49807)
    BY SMT DEF Close
  <2> QED
    BY <1>19, <2>1, <2>2, Climb, SMT
<1>21. Reached(78017)
  <2>1. Tried(78017, 279)
    BY SMT DEF Tried
  <2>2. Close(49807, 78017)
    BY SMT DEF Close
  <2> QED
    BY <1>20, <2>1, <2>2, Climb, SMT
<1>22. Reached(122219)
  <2>1. Tried(122219, 349)
    BY SMT DEF Tried
  <2>2. Close(78017, 122219)
    BY SMT DEF Close
  <2> QED
    BY <1>21, <2>1, <2>2, Climb, SMT
<1>23. Reached(191473)
  <2>1. Tried(191473, 437)
    BY SMT DEF Tried
  <2>2. Close(122219, 191473)
    BY SMT DEF Close
  <2> QED
    BY <1>22, <2>1, <2>2, Climb, SMT
<1>24. Reached(299969)
  <2>1. Tried(299969, 547)
    BY SMT DEF Tried
  <2>2. Close(191473, 299969)
    BY SMT DEF Close
  <2> QED
    BY <1>23, <2>1, <2>2, Climb, SMT
<1>25. Reached(469939)
  <2>1. Tried(469939, 685)
    BY SMT DEF Tried
  <2>2. Close(299969, 469939)
    BY SMT DEF Close
  <2> QED
    BY <1>24, <2>1, <2>2, Climb, SMT
<1>26. Reached(736187)
  <2>1. Tried(736187, 858)
    BY SMT DEF Tried
  <2>2. Close(469939, 736187)
    BY SMT DEF Close
  <2> QED
    BY <1>25, <2>1, <2>2, Climb, SMT
<1>27. Reached(1153349)
  <2>1. Tried(1153349, 1073)
    BY SMT DEF Tried
  <2>2. Close(736187, 1153349)
    BY SMT DEF Close
  <2> QED
    BY <1>26, <2>1, <2>2, Climb, SMT
<1>28. Reached(1806901)
  <2>1. Tried(1806901, 1344)
    BY SMT DEF Tried
  <2>2. Close(1153349, 1806901)
    BY SMT DEF Close
  <2> QED
    BY <1>27, <2>1, <2>2, Climb, SMT
<1>29. Reached(2830801)
  <2>1. Tried(2830801, 1682)
    BY SMT DEF Tried
  <2>2. Close(1806901, 2830801)
    BY SMT DEF Close
  <2> QED
    BY <1>28, <2>1, <2>2, Climb, SMT
<1>30. Reached(4434907)
  <2>1. Tried(4434907, 2105)
    BY SMT DEF Tried
  <2>2. Close(2830801, 4434907)
    BY SMT DEF Close
  <2> QED
    BY <1>29, <2>1, <2>2, Climb, SMT
<1>31. Reached(6947959)
  <2>1. Tried(6947959, 2635)
    BY SMT DEF Tried
  <2>2. Close(4434907, 6947959)
    BY SMT DEF Close
  <2> QED
    BY <1>30, <2>1, <2>2, Climb, SMT
<1>32. Reached(10885111)
  <2>1. Tried(10885111, 3299)
    BY SMT DEF Tried
  <2>2. Close(6947959, 10885111)
    BY SMT DEF Close
  <2> QED
    BY <1>31, <2>1, <2>2, Climb, SMT
<1>33. Reached(17053331)
  <2>1. Tried(17053331, 4129)
    BY SMT DEF Tried
  <2>2. Close(10885111, 17053331)
    BY SMT DEF Close
  <2> QED
    BY <1>32, <2>1, <2>2, Climb, SMT
<1> QED
  BY <1>33, SMT

\* A period below the ratio was preferred to all primes above: of two as near the search meets
\* the upper one first.
Clear(p, n) == p < n => \A q \in Nat : Prime(q) => q <= p \/ 2 * n < p + q

ClearSoFar == \A e \in Events : e < event \/ pc = "done" => Clear(period[e], Clamp(Raw(value[e])))

\* What nearest_prime() returns is clear.
LEMMA ReturnClear ==
    ASSUME Inv, ClearSoFar, pc = "search", NEW p \in {lo, hi}, Prime(p), Return(p),
           p = hi \/ ~Prime(hi)
    PROVE  ClearSoFar'
<1>1. lo \in Nat /\ hi \in Nat /\ lo <= hi /\ lo + hi = 2 * Start /\ Start \in Nat
  BY StartFact DEF Inv, TypeOK, Searching
<1>2. Clear(p, Start)
  <2> SUFFICES ASSUME p < Start, NEW q \in Nat, Prime(q)
               PROVE  q <= p \/ 2 * Start < p + q
    BY DEF Clear
  <2>1. p = lo /\ q # hi
    BY <1>1
  <2>2. ~(lo < q /\ q < hi)
    BY DEF Inv, Searching
  <2> QED
    BY <1>1, <2>1, <2>2
<1>3. /\ event \in Events /\ period \in [Events -> Nat] /\ value' = value
      /\ period' = [period EXCEPT ![event] = p]
      /\ event' = (IF event = 1 THEN event ELSE event + 1)
      /\ pc' = (IF event = 1 THEN "done" ELSE "plan")
  BY DEF Inv, TypeOK, Return
<1>4. ASSUME NEW e \in Events, e < event' \/ pc' = "done"
      PROVE  Clear(period'[e], Clamp(Raw(value'[e])))
  <2>1. CASE e = event
    BY <1>2, <1>3, <2>1 DEF Start
  <2>2. CASE e # event
    <3>1. e < event
      BY <1>3, <1>4, <2>2 DEF Events
    <3>2. Clear(period[e], Clamp(Raw(value[e])))
      BY <3>1 DEF ClearSoFar
    <3> QED
      BY <1>3, <2>2, <3>2
  <2> QED
    BY <2>1, <2>2
<1> QED
  BY <1>4 DEF ClearSoFar

\* In every state of every run the periods chosen are clear.
THEOREM Cleared == Spec => [](Inv /\ ClearSoFar)
<1>1. Init => ClearSoFar
  BY DEF Init, ClearSoFar, Events
<1>2. Inv /\ ClearSoFar /\ [Next]_vars => ClearSoFar'
  <2> SUFFICES ASSUME Inv, ClearSoFar, [Next]_vars PROVE ClearSoFar'
    OBVIOUS
  <2>1. CASE Count
    <3>1. event = 0
      BY <2>1 DEF Inv, CountsFirst, Count
    <3> QED
      BY <2>1, <3>1 DEF Count, ClearSoFar, Events
  <2>2. CASE Plan
    BY <2>2 DEF Plan, ClearSoFar
  <2>3. CASE Search
    <3>1. pc = "search" /\ lo \in Nat /\ hi \in Nat
      BY <2>3 DEF Inv, TypeOK, Search
    <3>2. CASE is_prime(hi)
      <4>1. Prime(hi) /\ Return(hi)
        BY <2>3, <3>1, <3>2, PrimeTest DEF Search
      <4> QED
        BY <3>1, <4>1, ReturnClear
    <3>3. CASE ~is_prime(hi) /\ lo > 2 /\ is_prime(lo)
      <4>1. Prime(lo) /\ Return(lo) /\ ~Prime(hi)
        BY <2>3, <3>1, <3>3, PrimeTest DEF Search
      <4> QED
        BY <3>1, <4>1, ReturnClear
    <3>4. CASE ~is_prime(hi) /\ ~(lo > 2 /\ is_prime(lo))
      <4>1. UNCHANGED <<pc, value, event, period>>
        BY <2>3, <3>4 DEF Search
      <4> QED
        BY <4>1 DEF ClearSoFar
    <3> QED
      BY <3>2, <3>3, <3>4
  <2>4. CASE UNCHANGED vars
    BY <2>4 DEF vars, ClearSoFar
  <2> QED
    BY <2>1, <2>2, <2>3, <2>4 DEF Next, Done
<1> QED
  BY <1>1, <1>2, Invariance, PTL DEF Spec

\* The ratios the ladder reaches: ten million events for each sample the kernel allows.
Reach == 17000000
EventsInReach == MaxValue <= 10000000 * MaxRate

LEMMA BelowRung == ASSUME NEW m \in Nat, Reached(m), NEW n \in Nat, n >= 2, n < m
                   PROVE  Between(n)
  BY DEF Reached

\* A clear period is not much shorter than the ratio it stands for.
LEMMA LongEnough ==
    ASSUME NEW p \in Nat, NEW n \in Nat, n >= 2, n <= Reach, Clear(p, n), Prime(p)
    PROVE  30 * (2 * n + 1) <= 77 * p
<1>1. CASE p >= n
  BY <1>1
<1>2. CASE p < n
  <2>1. n < 17053331
    BY SMT DEF Reach
  <2>2. Between(n)
    BY <2>1, Ladder, BelowRung, SMT
  <2>3. PICK a \in Nat, b \in Nat : Prime(a) /\ Prime(b) /\ a <= n /\ n < b /\ Close(a, b)
    BY <2>2 DEF Between
  <2>4. a <= p /\ 2 * n < p + b
    <3>1. a <= p \/ 2 * n < p + a
      BY <1>2, <2>3 DEF Clear
    <3>2. b <= p \/ 2 * n < p + b
      BY <1>2, <2>3 DEF Clear
    <3> QED
      BY <1>2, <2>3, <3>1, <3>2
  <2> QED
    BY <1>2, <2>3, <2>4 DEF Close
<1> QED
  BY <1>1, <1>2

\* A unit is three limits or more.
LEMMA UnitAtLeast == Unit >= 3 * MaxRate
<1>1. Unit = 3 * MaxRate + 3 * MaxRate * (Threads - 1)
  BY CalibrationAssumption DEF Unit, time_running
<1>2. 3 * MaxRate * (Threads - 1) >= 0 /\ 3 * MaxRate * (Threads - 1) \in Int /\ 3 * MaxRate \in Nat
  BY CalibrationAssumption
<1> QED
  BY <1>1, <1>2

\* With so many events the ratio is still on the ladder.
LEMMA RawInReach ==
    ASSUME NEW v \in 0..MaxValue, EventsInReach
    PROVE  Clamp(Raw(v)) \in Nat /\ Clamp(Raw(v)) >= 2 /\ Clamp(Raw(v)) <= Reach
<1> DEFINE u == Unit
           r == Raw(v)
<1>1. u \in Nat \ {0} /\ v \in Nat /\ MaxRate \in Nat \ {0} /\ MaxValue \in Nat
  BY UnitPositive, CalibrationAssumption
<1>2. u >= 3 * MaxRate
  BY UnitAtLeast
<1>3. r \in Nat /\ Rounds(r, v)
  BY RawRounds
<1> HIDE DEF u, r
<1>4. PICK w \in Nat : w = u * r
  BY <1>1, <1>3
<1>5. 2 * w <= 10 * v + u
  BY <1>1, <1>3, <1>4 DEF Rounds, Distance, u
<1>6. Reach \in Nat /\ Reach >= 2
  BY SMT DEF Reach
<1>7. ASSUME r > Reach PROVE FALSE
  <2>1. u * Reach + u <= u * r
    BY <1>1, <1>3, <1>6, <1>7, Mult
  <2> QED
    BY <1>1, <1>2, <1>4, <1>5, <2>1, SMT DEF Reach, EventsInReach
<1> QED
  BY <1>3, <1>6, <1>7 DEF Clamp, r

\* A ratio is at most half a unit above the number it was rounded to.
LEMMA RatioAtMost ==
    ASSUME NEW v \in 0..MaxValue
    PROVE  10 * v <= Unit * (2 * Clamp(Raw(v)) + 1)
<1> DEFINE u == Unit
           r == Raw(v)
           n == Clamp(r)
<1>1. r \in Nat /\ Rounds(r, v) /\ u \in Nat /\ v \in Nat
  BY RawRounds, UnitPositive, CalibrationAssumption
<1>2. n \in Nat /\ r <= n
  BY <1>1 DEF Clamp
<1> HIDE DEF u, r, n
<1>3. n - r \in Nat /\ n = r + (n - r)
  BY <1>1, <1>2
<1>4. PICK w \in Nat : w = u * r
  BY <1>1
<1>5. 10 * v <= 2 * w + u
  BY <1>1, <1>4 DEF Rounds, Distance, u
<1>6. PICK x \in Nat : x = u * (n - r)
  BY <1>1, <1>3
<1>7. u * (2 * n + 1) = 2 * (u * r) + u + 2 * (u * (n - r))
  BY <1>1, <1>2
<1> QED
  BY <1>1, <1>4, <1>5, <1>6, <1>7 DEF u, r, n

\* What a thread makes of a period that is long enough.
LEMMA RateOf ==
    ASSUME NEW v \in 0..MaxValue, NEW p \in Nat,
           30 * (2 * Clamp(Raw(v)) + 1) <= 77 * p
    PROVE  100 * v <= 77 * (MaxRate * Threads * p)
<1> DEFINE g == MaxRate * Threads
           k == 2 * Clamp(Raw(v)) + 1
<1>1. Unit = 3 * g /\ g \in Nat /\ v \in Nat /\ k \in Nat
  <2>1. Raw(v) \in Nat
    BY RawRounds
  <2> QED
    BY <2>1, CalibrationAssumption DEF Unit, time_running, Clamp
<1>2. 10 * v <= Unit * k /\ 30 * k <= 77 * p
  BY RatioAtMost
<1> HIDE DEF g, k
<1>3. 10 * v <= 3 * (g * k)
  BY <1>1, <1>2
<1>4. g * (77 * p) = g * (30 * k) + g * (77 * p - 30 * k) /\ g * (77 * p - 30 * k) >= 0
  BY <1>1, <1>2
<1>5. g * k \in Nat /\ g * p \in Nat /\ g * (77 * p) = 77 * (g * p) /\ g * (30 * k) = 30 * (g * k)
  BY <1>1
<1>6. 30 * (g * k) <= 77 * (g * p)
  <2>1. g * (77 * p - 30 * k) \in Int
    BY <1>1
  <2> QED
    BY <1>4, <1>5, <2>1
<1> QED
  BY <1>1, <1>3, <1>5, <1>6 DEF g

\* Each thread's events, sampled at these periods, make no more than 77% of the limit.
ThreadRate == pc = "done" => \A e \in Events : 100 * value[e] <= 77 * (MaxRate * Threads * period[e])

\* Whatever the number of threads, each of them is sampled at no more than the 77% of the
\* limit (main.cpp:728-731), for targets of up to ten million events per sample allowed.
THEOREM ThreadRateKept == ASSUME EventsInReach
                          PROVE  Spec => []ThreadRate
<1>1. Inv /\ ClearSoFar => ThreadRate
  <2> SUFFICES ASSUME Inv, ClearSoFar, pc = "done", NEW e \in Events
               PROVE  100 * value[e] <= 77 * (MaxRate * Threads * period[e])
    BY DEF ThreadRate
  <2>1. value[e] \in 0..MaxValue /\ period[e] \in Nat /\ Prime(period[e])
    BY DEF Inv, TypeOK, ChosenSoFar, Right, NearestPrime
  <2>2. Clear(period[e], Clamp(Raw(value[e])))
    BY DEF ClearSoFar
  <2>3. LET n == Clamp(Raw(value[e])) IN n \in Nat /\ n >= 2 /\ n <= Reach
    BY <2>1, RawInReach
  <2>4. 30 * (2 * Clamp(Raw(value[e])) + 1) <= 77 * period[e]
    BY <2>1, <2>2, <2>3, LongEnough
  <2> QED
    BY <2>1, <2>4, RateOf
<1> QED
  BY <1>1, Cleared, PTL

\* A target of one thread is sampled at no more than 77% of the limit.  One of two threads may
\* be sampled at more, which is what the run with Threads = 2 shows.
THEOREM OneThreadRateKept == ASSUME EventsInReach, Threads = 1
                             PROVE  Spec => []AggregateRateKept
<1>1. Inv /\ ThreadRate => AggregateRateKept
  <2> SUFFICES ASSUME Inv, ThreadRate, pc = "done", NEW e \in Events
               PROVE  100 * value[e] <= 77 * MaxRate * period[e]
    BY DEF AggregateRateKept
  <2>1. 100 * value[e] <= 77 * (MaxRate * Threads * period[e])
    BY DEF ThreadRate
  <2>2. MaxRate \in Nat /\ period[e] \in Nat
    BY CalibrationAssumption DEF Inv, TypeOK
  <2>3. 77 * (MaxRate * Threads * period[e]) = 77 * MaxRate * period[e]
    BY <2>2
  <2> QED
    BY <2>1, <2>3
<1> QED
  BY <1>1, ThreadRateKept, Invariance, PTL
=============================================================================
