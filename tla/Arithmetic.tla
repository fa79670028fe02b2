----------------------------- MODULE Arithmetic -----------------------------
(***************************************************************************)
(* What the proofs about the other modules need to know of numbers.        *)
(*                                                                         *)
(* Remainders: positions modulo the size of a ring, for any size.          *)
(*                                                                         *)
(* Sums over finite sets.  A fold is a recursive function, and what it     *)
(* computes is an induction over its argument.  The induction is done as a *)
(* search for a smallest exception (Smallest): among subsets of a finite   *)
(* set on which a claim fails, one has no smaller one.  FoldExists is the  *)
(* recursion itself: the equation of a fold has a solution.                *)
(***************************************************************************)
EXTENDS Integers, FiniteSets, FiniteSetsExt, FiniteSetTheorems, TLAPS

(* Remainders. *)

\* Quotient and remainder: the remainder is a slot of the ring.
LEMMA DivMod ==
    ASSUME NEW d \in Nat \ {0}, NEW a \in Nat
    PROVE  /\ a % d \in 0..(d-1)
           /\ a \div d \in Nat
           /\ a = d * (a \div d) + (a % d)
  OBVIOUS

\* A later lap begins at least d positions later.
LEMMA Mult ==
    ASSUME NEW d \in Nat \ {0}, NEW x \in Int, NEW y \in Int, x < y
    PROVE  d * x + d <= d * y
<1>1. PICK z \in Nat : y = x + 1 + z
  OBVIOUS
<1>2. d * y = d * x + d + d * z
  BY <1>1
<1>3. d * z >= 0
  OBVIOUS
<1> QED
  BY <1>2, <1>3

\* A position has one slot only.
LEMMA Unique ==
    ASSUME NEW d \in Nat \ {0}, NEW q \in Int, NEW p \in Int,
           NEW r \in 0..(d-1), NEW s \in 0..(d-1), d * q + r = d * p + s
    PROVE  r = s
<1>1. ~(q < p)
  BY Mult
<1>2. ~(p < q)
  BY Mult
<1> QED
  BY <1>1, <1>2

\* A position written as whole laps and a slot is in that slot.
LEMMA ModIs ==
    ASSUME NEW d \in Nat \ {0}, NEW a \in Nat, NEW q \in Nat, NEW r \in 0..(d-1), a = d * q + r
    PROVE  a % d = r
  BY DivMod, Unique

\* Reducing before an addition changes nothing.
LEMMA ModAdd ==
    ASSUME NEW d \in Nat \ {0}, NEW a \in Nat, NEW b \in Nat
    PROVE  ((a % d) + b) % d = (a + b) % d
<1>1. PICK q \in Nat : a = d * q + (a % d)
  BY DivMod
<1>2. a % d \in 0..(d-1)
  BY DivMod
<1>3. PICK c \in Nat : c = (a % d) + b
  BY <1>2
<1>4. PICK p \in Nat : c = d * p + (c % d)
  BY DivMod
<1>5. c % d \in 0..(d-1)
  BY DivMod
<1>6. a + b = d * q + c
  BY <1>1, <1>2, <1>3
<1>7. a + b = d * (q + p) + (c % d)
  BY <1>4, <1>5, <1>6
<1>8. q + p \in Nat /\ a + b \in Nat
  OBVIOUS
<1>9. (a + b) % d = c % d
  BY <1>5, <1>7, <1>8, ModIs
<1> QED
  BY <1>3, <1>9

\* Positions less than a lap apart have different slots.
LEMMA ModInj ==
    ASSUME NEW d \in Nat \ {0}, NEW a \in Nat, NEW b \in Nat, a < b, b - a < d
    PROVE  a % d # b % d
<1>1. SUFFICES ASSUME a % d = b % d PROVE FALSE
  OBVIOUS
<1>2. PICK q \in Nat : a = d * q + (a % d)
  BY DivMod
<1>3. PICK p \in Nat : b = d * p + (b % d)
  BY DivMod
<1>4. a % d \in 0..(d-1)
  BY DivMod
<1>5. CASE q < p
  <2>1. d * q + d <= d * p
    BY <1>5, Mult
  <2> QED
    BY <2>1, <1>1, <1>2, <1>3, <1>4
<1>6. CASE p < q
  <2>1. d * p + d <= d * q
    BY <1>6, Mult
  <2> QED
    BY <2>1, <1>1, <1>2, <1>3, <1>4
<1>7. CASE p = q
  BY <1>7, <1>1, <1>2, <1>3, <1>4
<1> QED
  BY <1>5, <1>6, <1>7

-----------------------------------------------------------------------------
(* Sums. *)

\* Among subsets of a finite set, some have no smaller ones.
LEMMA Smallest ==
    ASSUME NEW S, IsFiniteSet(S), NEW T, T \subseteq SUBSET S, T # {}
    PROVE  \E x \in T : \A y \in T : y \subseteq x => y = x
<1>1. IsWellFoundedOn(StrictSubsetOrdering(S), SUBSET S)
  BY FS_StrictSubsetOrderingWellFounded, FS_FiniteSubsetsOfFinite
<1>2. PICK x \in T : \A y \in T : ~ (<<y, x>> \in StrictSubsetOrdering(S))
  BY <1>1, WFMin
<1> QED
  BY <1>2 DEF StrictSubsetOrdering

\* The value of a fold over s that takes pick[s] first, given those over smaller sets.
Unfold(g, s, base, pick, step) ==
    IF s = {} THEN base ELSE step[<<pick[s], g[s \ {pick[s]}]>>]
Unfolds(g, U, base, pick, step) ==
    \A s \in SUBSET U : g[s] = Unfold(g, s, base, pick, step)

\* A fold is determined by its equation.
LEMMA FoldUnique ==
    ASSUME NEW S, IsFiniteSet(S), NEW base, NEW pick, NEW step,
           \A s \in SUBSET S : s # {} => pick[s] \in s,
           NEW U \in SUBSET S, NEW W \in SUBSET S, NEW g, NEW h,
           Unfolds(g, U, base, pick, step), Unfolds(h, W, base, pick, step)
    PROVE  \A s \in SUBSET S : s \subseteq U /\ s \subseteq W => g[s] = h[s]
<1> DEFINE Bad == {s \in SUBSET S : s \subseteq U /\ s \subseteq W /\ g[s] # h[s]}
<1> SUFFICES ASSUME Bad # {} PROVE FALSE
  OBVIOUS
<1>1. PICK s \in Bad : \A y \in Bad : y \subseteq s => y = s
  <2>1. Bad \subseteq SUBSET S
    OBVIOUS
  <2> HIDE DEF Bad
  <2> QED
    BY <2>1, Smallest
<1>2. g[s] = Unfold(g, s, base, pick, step) /\ h[s] = Unfold(h, s, base, pick, step)
  BY DEF Unfolds
<1>3. s # {} /\ pick[s] \in s
  BY <1>2 DEF Unfold
<1>4. s \ {pick[s]} \notin Bad
  BY <1>1, <1>3
<1>5. g[s \ {pick[s]}] = h[s \ {pick[s]}]
  BY <1>4
<1> QED
  BY <1>2, <1>3, <1>5 DEF Unfold

\* And there is one that has it.
LEMMA FoldExists ==
    ASSUME NEW S, IsFiniteSet(S), NEW V, NEW base \in V, NEW pick, NEW step \in [S \X V -> V],
           \A s \in SUBSET S : s # {} => pick[s] \in s
    PROVE  \E g \in [SUBSET S -> V] : Unfolds(g, S, base, pick, step)
<1> DEFINE Has(U) == \E g \in [SUBSET U -> V] : Unfolds(g, U, base, pick, step)
           Bad == {U \in SUBSET S : ~Has(U)}
<1> SUFFICES ASSUME Bad # {} PROVE FALSE
  OBVIOUS
<1>1. PICK U \in Bad : \A y \in Bad : y \subseteq U => y = U
  <2>1. Bad \subseteq SUBSET S
    OBVIOUS
  <2> HIDE DEF Bad
  <2> QED
    BY <2>1, Smallest
<1>2. \A W \in SUBSET U : W # U => Has(W)
  BY <1>1
<1> DEFINE H(W) == CHOOSE g \in [SUBSET W -> V] : Unfolds(g, W, base, pick, step)
           less(s) == s \ {pick[s]}
           g == [s \in SUBSET U |-> IF s = {} THEN base
                                    ELSE step[<<pick[s], H(less(s))[less(s)]>>]]
<1>3. \A W \in SUBSET U : W # U => H(W) \in [SUBSET W -> V] /\ Unfolds(H(W), W, base, pick, step)
  <2> SUFFICES ASSUME NEW W \in SUBSET U, W # U
               PROVE  H(W) \in [SUBSET W -> V] /\ Unfolds(H(W), W, base, pick, step)
    OBVIOUS
  <2>1. \E k \in [SUBSET W -> V] : Unfolds(k, W, base, pick, step)
    BY <1>2
  <2> QED
    BY <2>1
<1> HIDE DEF H
<1>4. \A s \in SUBSET U : s # {} => /\ pick[s] \in s /\ less(s) \in SUBSET U /\ less(s) # U
                                    /\ less(s) \in SUBSET S /\ less(s) # s
                                    /\ H(less(s))[less(s)] \in V
  <2> SUFFICES ASSUME NEW s \in SUBSET U, s # {}
               PROVE  /\ pick[s] \in s /\ less(s) \in SUBSET U /\ less(s) # U
                      /\ less(s) \in SUBSET S /\ less(s) # s
                      /\ H(less(s))[less(s)] \in V
    OBVIOUS
  <2>1. pick[s] \in s /\ less(s) \in SUBSET U /\ less(s) # U /\ less(s) \in SUBSET S /\ less(s) # s
    OBVIOUS
  <2>2. H(less(s)) \in [SUBSET less(s) -> V] /\ less(s) \in SUBSET less(s)
    BY <1>3, <2>1
  <2> HIDE DEF less
  <2> QED
    BY <2>1, <2>2
<1>5. g \in [SUBSET U -> V]
  <2> SUFFICES ASSUME NEW s \in SUBSET U, s # {} PROVE step[<<pick[s], H(less(s))[less(s)]>>] \in V
    OBVIOUS
  <2>1. pick[s] \in S /\ H(less(s))[less(s)] \in V
    BY <1>4
  <2> QED
    BY <2>1
<1>6. \A s \in SUBSET U : s # U => g[s] = H(s)[s]
  <2> SUFFICES ASSUME NEW s \in SUBSET U, s # U PROVE g[s] = H(s)[s]
    OBVIOUS
  <2>1. Unfolds(H(s), s, base, pick, step)
    BY <1>3
  <2>2. H(s)[s] = Unfold(H(s), s, base, pick, step)
    BY <2>1 DEF Unfolds
  <2>3. CASE s = {}
    BY <2>2, <2>3 DEF Unfold
  <2>4. CASE s # {}
    <3>1. Unfolds(H(less(s)), less(s), base, pick, step)
      BY <1>3, <1>4
    <3>2. \A t \in SUBSET S : t \subseteq s /\ t \subseteq less(s) => H(s)[t] = H(less(s))[t]
      <4>1. s \in SUBSET S /\ less(s) \in SUBSET S
        OBVIOUS
      <4> HIDE DEF less
      <4> QED
        BY <2>1, <3>1, <4>1, FoldUnique
    <3>3. H(s)[less(s)] = H(less(s))[less(s)]
      BY <3>2
    <3> QED
      BY <2>2, <2>4, <3>3 DEF Unfold
  <2> QED
    BY <2>3, <2>4
<1>7. Unfolds(g, U, base, pick, step)
  <2> SUFFICES ASSUME NEW s \in SUBSET U PROVE g[s] = Unfold(g, s, base, pick, step)
    BY DEF Unfolds
  <2>1. CASE s = {}
    BY <2>1 DEF Unfold
  <2>2. CASE s # {}
    <3>1. g[less(s)] = H(less(s))[less(s)]
      BY <1>4, <1>6, <2>2
    <3>2. g[s] = step[<<pick[s], H(less(s))[less(s)]>>]
      BY <2>2
    <3> HIDE DEF g
    <3> QED
      BY <2>2, <3>1, <3>2 DEF Unfold
  <2> QED
    BY <2>1, <2>2
<1> HIDE DEF g
<1> QED
  BY <1>5, <1>7

-----------------------------------------------------------------------------
\* The sum of f over S, and the function its definition recurses with.
SumOver(f, S) == MapThenSumSet(LAMBDA x : f[x], S)
Pick(s) == CHOOSE x \in s : TRUE
SumIter(f, S) ==
    CHOOSE g : g = [s \in SUBSET S |-> IF s = {} THEN 0 ELSE f[Pick(s)] + g[s \ {Pick(s)}]]

LEMMA SumIterOf == ASSUME NEW f, NEW S PROVE SumOver(f, S) = SumIter(f, S)[S]
  BY DEF SumOver, SumIter, MapThenSumSet, MapThenFoldSet, Pick

IsSumIter(g, f, S) ==
    \A s \in SUBSET S : g[s] = IF s = {} THEN 0 ELSE f[Pick(s)] + g[s \ {Pick(s)}]

\* The recursion has a solution.
LEMMA SumIterExists ==
    ASSUME NEW S, IsFiniteSet(S), NEW f, \A x \in S : f[x] \in Int
    PROVE  /\ IsSumIter(SumIter(f, S), f, S)
           /\ \A s \in SUBSET S : SumIter(f, S)[s] \in Int
<1> DEFINE pick == [s \in SUBSET S |-> Pick(s)]
           step == [p \in S \X Int |-> f[p[1]] + p[2]]
           Rhs(g) == [s \in SUBSET S |-> IF s = {} THEN 0 ELSE f[Pick(s)] + g[s \ {Pick(s)}]]
<1>1. \A s \in SUBSET S : s # {} => pick[s] \in s /\ pick[s] = Pick(s)
  BY DEF Pick
<1>2. step \in [S \X Int -> Int]
  OBVIOUS
<1>3. PICK g \in [SUBSET S -> Int] : Unfolds(g, S, 0, pick, step)
  <2>1. \A s \in SUBSET S : s # {} => pick[s] \in s
    BY <1>1
  <2>2. 0 \in Int
    OBVIOUS
  <2> HIDE DEF pick, step
  <2> QED
    BY <1>2, <2>1, <2>2, FoldExists, Zenon
<1>4. \A s \in SUBSET S : g[s] = IF s = {} THEN 0 ELSE f[Pick(s)] + g[s \ {Pick(s)}]
  <2> SUFFICES ASSUME NEW s \in SUBSET S
               PROVE  g[s] = IF s = {} THEN 0 ELSE f[Pick(s)] + g[s \ {Pick(s)}]
    OBVIOUS
  <2>1. g[s] = Unfold(g, s, 0, pick, step)
    BY <1>3 DEF Unfolds
  <2>2. s # {} => /\ Pick(s) \in S /\ g[s \ {Pick(s)}] \in Int /\ pick[s] = Pick(s)
    BY <1>1
  <2>3. s # {} => step[<<Pick(s), g[s \ {Pick(s)}]>>] = f[Pick(s)] + g[s \ {Pick(s)}]
    BY <2>2
  <2> HIDE DEF pick, step
  <2> QED
    BY <2>1, <2>2, <2>3 DEF Unfold
<1>5. g = Rhs(g)
  BY <1>4
<1>6. SumIter(f, S) = Rhs(SumIter(f, S))
  BY <1>5 DEF SumIter
<1>7. IsSumIter(SumIter(f, S), f, S)
  <2> DEFINE h == SumIter(f, S)
  <2> HIDE DEF h
  <2>1. h = Rhs(h)
    BY <1>6 DEF h
  <2>2. \A s \in SUBSET S : h[s] = IF s = {} THEN 0 ELSE f[Pick(s)] + h[s \ {Pick(s)}]
    BY <2>1
  <2> QED
    BY <2>2 DEF h, IsSumIter
<1>8. \A s \in SUBSET S : SumIter(f, S)[s] \in Int
  <2> DEFINE h == SumIter(f, S)
             Bad == {s \in SUBSET S : h[s] \notin Int}
  <2> SUFFICES ASSUME Bad # {} PROVE FALSE
    OBVIOUS
  <2>1. PICK s \in Bad : \A y \in Bad : y \subseteq s => y = s
    <3>1. Bad \subseteq SUBSET S
      OBVIOUS
    <3> HIDE DEF Bad
    <3> QED
      BY <3>1, Smallest
  <2>2. h[s] = IF s = {} THEN 0 ELSE f[Pick(s)] + h[s \ {Pick(s)}]
    BY <1>7 DEF IsSumIter
  <2> HIDE DEF h
  <2>3. s # {} /\ Pick(s) \in s
    BY <2>2 DEF Pick
  <2>4. s \ {Pick(s)} \notin Bad
    BY <2>1, <2>3
  <2> QED
    BY <2>2, <2>3, <2>4
<1> QED
  BY <1>7, <1>8

\* A sum can be taken on any larger finite set's recursion.
LEMMA SumIterSubset ==
    ASSUME NEW S, IsFiniteSet(S), NEW f, \A x \in S : f[x] \in Int, NEW T \in SUBSET S
    PROVE  SumOver(f, T) = SumIter(f, S)[T]
<1> DEFINE g == SumIter(f, S)
           h == SumIter(f, T)
           Bad == {s \in SUBSET T : g[s] # h[s]}
<1>1. IsFiniteSet(T)
  BY FS_Subset
<1>2. IsSumIter(g, f, S) /\ IsSumIter(h, f, T)
  BY <1>1, SumIterExists
<1> HIDE DEF g, h
<1>3. Bad = {}
  <2> SUFFICES ASSUME Bad # {} PROVE FALSE
    OBVIOUS
  <2>1. PICK s \in Bad : \A y \in Bad : y \subseteq s => y = s
    <3>1. Bad \subseteq SUBSET T
      OBVIOUS
    <3> HIDE DEF Bad
    <3> QED
      BY <3>1, <1>1, Smallest
  <2>2. /\ g[s] = IF s = {} THEN 0 ELSE f[Pick(s)] + g[s \ {Pick(s)}]
        /\ h[s] = IF s = {} THEN 0 ELSE f[Pick(s)] + h[s \ {Pick(s)}]
    BY <1>2 DEF IsSumIter
  <2>3. s # {} /\ Pick(s) \in s
    BY <2>2 DEF Pick
  <2>4. s \ {Pick(s)} \notin Bad
    BY <2>1, <2>3
  <2> QED
    BY <2>2, <2>3, <2>4
<1>4. g[T] = h[T]
  BY <1>3
<1> QED
  BY <1>4, SumIterOf DEF g, h

\* A sum is an integer, of nothing it is 0, and any element may be taken first.
LEMMA SumType ==
    ASSUME NEW S, IsFiniteSet(S), NEW f, \A x \in S : f[x] \in Int
    PROVE  SumOver(f, S) \in Int
  BY SumIterExists, SumIterOf

LEMMA SumEmpty == ASSUME NEW f PROVE SumOver(f, {}) = 0
<1>1. IsFiniteSet({}) /\ \A x \in {} : f[x] \in Int
  BY FS_EmptySet
<1>2. IsSumIter(SumIter(f, {}), f, {})
  BY <1>1, SumIterExists
<1> QED
  BY <1>2, SumIterOf DEF IsSumIter

LEMMA SumStep ==
    ASSUME NEW S, IsFiniteSet(S), NEW f, \A x \in S : f[x] \in Int, NEW x \in S
    PROVE  /\ SumOver(f, S \ {x}) \in Int
           /\ SumOver(f, S) = f[x] + SumOver(f, S \ {x})
<1> DEFINE g == SumIter(f, S)
           Bad == {s \in SUBSET S : \E y \in s : g[s] # f[y] + g[s \ {y}]}
<1>1. IsSumIter(g, f, S) /\ \A s \in SUBSET S : g[s] \in Int
  BY SumIterExists
<1>2. \A T \in SUBSET S : SumOver(f, T) = g[T]
  BY SumIterSubset
<1> HIDE DEF g
<1>3. Bad = {}
  <2> SUFFICES ASSUME Bad # {} PROVE FALSE
    OBVIOUS
  <2>1. PICK s \in Bad : \A y \in Bad : y \subseteq s => y = s
    <3>1. Bad \subseteq SUBSET S
      OBVIOUS
    <3> HIDE DEF Bad
    <3> QED
      BY <3>1, Smallest
  <2>2. PICK y \in s : g[s] # f[y] + g[s \ {y}]
    OBVIOUS
  <2> DEFINE p == Pick(s)
  <2>3. p \in s
    BY DEF Pick
  <2>4. g[s] = f[p] + g[s \ {p}]
    BY <1>1, <2>3 DEF IsSumIter
  <2>5. p # y
    BY <2>2, <2>4
  <2>6. s \ {p} \notin Bad /\ s \ {y} \notin Bad /\ s \ {p} \in SUBSET S /\ s \ {y} \in SUBSET S
    BY <2>1, <2>2, <2>3
  <2>7. g[s \ {p}] = f[y] + g[(s \ {p}) \ {y}]
    BY <2>5, <2>6
  <2>8. g[s \ {y}] = f[p] + g[(s \ {y}) \ {p}]
    BY <2>3, <2>5, <2>6
  <2>9. (s \ {p}) \ {y} = (s \ {y}) \ {p} /\ (s \ {p}) \ {y} \in SUBSET S
    OBVIOUS
  <2>10. /\ f[p] \in Int /\ f[y] \in Int /\ g[(s \ {p}) \ {y}] \in Int
    BY <1>1, <2>3, <2>9
  <2>11. g[s \ {y}] = f[p] + g[(s \ {p}) \ {y}]
    BY <2>8, <2>9
  <2>12. g[s] = f[p] + (f[y] + g[(s \ {p}) \ {y}])
    BY <2>4, <2>7
  <2> HIDE DEF p
  <2> QED
    BY <2>2, <2>10, <2>11, <2>12
<1>4. S \in SUBSET S /\ S \ {x} \in SUBSET S
  OBVIOUS
<1>5. g[S] = f[x] + g[S \ {x}]
  BY <1>3, <1>4
<1> HIDE DEF Bad
<1> QED
  BY <1>1, <1>2, <1>4, <1>5

\* What holds of the sum over no element, and of a sum if it does of one with an element less,
\* holds of all sums: the induction, as a search for a smallest exception.
LEMMA SmallestException ==
    ASSUME NEW S, IsFiniteSet(S), NEW Bad, Bad \subseteq SUBSET S, {} \notin Bad,
           \A T \in Bad : \E x \in T : T \ {x} \in Bad
    PROVE  Bad = {}
<1> SUFFICES ASSUME Bad # {} PROVE FALSE
  OBVIOUS
<1>1. PICK s \in Bad : \A y \in Bad : y \subseteq s => y = s
  BY Smallest
<1>2. PICK x \in s : s \ {x} \in Bad
  OBVIOUS
<1> QED
  BY <1>1, <1>2

\* What is nowhere greater has no greater sum.
LEMMA SumLe ==
    ASSUME NEW S, IsFiniteSet(S), NEW f, NEW g,
           \A x \in S : f[x] \in Int /\ g[x] \in Int /\ f[x] <= g[x]
    PROVE  SumOver(f, S) <= SumOver(g, S)
<1> DEFINE Bad == {T \in SUBSET S : ~(SumOver(f, T) <= SumOver(g, T))}
<1>1. {} \notin Bad
  BY SumEmpty
<1>2. ASSUME NEW T \in Bad PROVE \E x \in T : T \ {x} \in Bad
  <2>1. PICK x \in T : TRUE
    BY <1>1
  <2>2. IsFiniteSet(T) /\ x \in S
    BY FS_Subset
  <2>3. /\ SumOver(f, T \ {x}) \in Int /\ SumOver(f, T) = f[x] + SumOver(f, T \ {x})
        /\ SumOver(g, T \ {x}) \in Int /\ SumOver(g, T) = g[x] + SumOver(g, T \ {x})
    BY <2>2, SumStep
  <2>4. ~(SumOver(f, T \ {x}) <= SumOver(g, T \ {x}))
    BY <2>2, <2>3
  <2> QED
    BY <2>1, <2>4
<1>3. Bad = {}
  <2> HIDE DEF Bad
  <2>1. Bad \subseteq SUBSET S
    BY DEF Bad
  <2> QED
    BY <1>1, <1>2, <2>1, SmallestException
<1> QED
  BY <1>3

\* The same terms have the same sum.
LEMMA SumSame ==
    ASSUME NEW S, IsFiniteSet(S), NEW f, NEW g, \A x \in S : f[x] \in Int /\ f[x] = g[x]
    PROVE  SumOver(f, S) = SumOver(g, S)
<1>1. SumOver(f, S) \in Int /\ SumOver(g, S) \in Int
  BY SumType
<1>2. SumOver(f, S) <= SumOver(g, S) /\ SumOver(g, S) <= SumOver(f, S)
  BY SumLe
<1> QED
  BY <1>1, <1>2

\* A term that changes changes the sum by as much.
LEMMA SumChange ==
    ASSUME NEW S, IsFiniteSet(S), NEW f, NEW g, NEW x \in S,
           \A y \in S : f[y] \in Int /\ g[y] \in Int,
           \A y \in S : y # x => f[y] = g[y]
    PROVE  SumOver(g, S) = SumOver(f, S) + (g[x] - f[x])
<1>1. IsFiniteSet(S \ {x})
  BY FS_RemoveElement
<1>2. SumOver(f, S \ {x}) = SumOver(g, S \ {x})
  BY <1>1, SumSame
<1>3. /\ SumOver(f, S \ {x}) \in Int /\ SumOver(f, S) = f[x] + SumOver(f, S \ {x})
      /\ SumOver(g, S \ {x}) \in Int /\ SumOver(g, S) = g[x] + SumOver(g, S \ {x})
  BY SumStep
<1> QED
  BY <1>2, <1>3

\* A sum of sums is taken term by term.
LEMMA SumPlus ==
    ASSUME NEW S, IsFiniteSet(S), NEW f, NEW g, NEW h,
           \A x \in S : f[x] \in Int /\ g[x] \in Int /\ h[x] = f[x] + g[x]
    PROVE  SumOver(h, S) = SumOver(f, S) + SumOver(g, S)
<1> DEFINE Bad == {T \in SUBSET S : SumOver(h, T) # SumOver(f, T) + SumOver(g, T)}
<1>1. {} \notin Bad
  BY SumEmpty
<1>2. ASSUME NEW T \in Bad PROVE \E x \in T : T \ {x} \in Bad
  <2>1. PICK x \in T : TRUE
    BY <1>1
  <2>2. IsFiniteSet(T) /\ x \in S /\ \A y \in T : h[y] \in Int
    BY FS_Subset
  <2>3. /\ SumOver(f, T \ {x}) \in Int /\ SumOver(f, T) = f[x] + SumOver(f, T \ {x})
        /\ SumOver(g, T \ {x}) \in Int /\ SumOver(g, T) = g[x] + SumOver(g, T \ {x})
        /\ SumOver(h, T \ {x}) \in Int /\ SumOver(h, T) = h[x] + SumOver(h, T \ {x})
    BY <2>2, SumStep
  <2>4. SumOver(h, T \ {x}) # SumOver(f, T \ {x}) + SumOver(g, T \ {x})
    BY <2>2, <2>3
  <2> QED
    BY <2>1, <2>4
<1>3. Bad = {}
  <2> HIDE DEF Bad
  <2>1. Bad \subseteq SUBSET S
    BY DEF Bad
  <2> QED
    BY <1>1, <1>2, <2>1, SmallestException
<1> QED
  BY <1>3

\* A sum of zeros.
LEMMA SumZero ==
    ASSUME NEW S, IsFiniteSet(S), NEW f, \A x \in S : f[x] \in Int /\ f[x] = 0
    PROVE  SumOver(f, S) = 0
<1>1. SumOver(f, S) \in Int
  BY SumType
<1>2. SumOver(f, S) = SumOver(f, S) + SumOver(f, S)
  BY SumPlus
<1>3. \A n \in Int : n = n + n => n = 0
  OBVIOUS
<1> QED
  BY <1>1, <1>2, <1>3

\* No term is negative: then no part is greater than the whole, and a sum is 0 only of zeros.
LEMMA SumPart ==
    ASSUME NEW S, IsFiniteSet(S), NEW f, \A x \in S : f[x] \in Nat, NEW T \in SUBSET S
    PROVE  /\ SumOver(f, S) \in Nat /\ SumOver(f, T) \in Nat
           /\ SumOver(f, T) <= SumOver(f, S)
<1> DEFINE Bad == {U \in SUBSET S : ~(SumOver(f, U) >= 0)}
<1>1. \A U \in SUBSET S : IsFiniteSet(U) /\ SumOver(f, U) \in Int
  <2> SUFFICES ASSUME NEW U \in SUBSET S PROVE IsFiniteSet(U) /\ SumOver(f, U) \in Int
    OBVIOUS
  <2>1. IsFiniteSet(U)
    BY FS_Subset
  <2> QED
    BY <2>1, SumType
<1>2. {} \notin Bad
  BY SumEmpty
<1>3. ASSUME NEW U \in Bad PROVE \E x \in U : U \ {x} \in Bad
  <2>1. PICK x \in U : TRUE
    BY <1>2
  <2>2. SumOver(f, U \ {x}) \in Int /\ SumOver(f, U) = f[x] + SumOver(f, U \ {x})
    BY <1>1, SumStep
  <2> QED
    BY <2>1, <2>2
<1>4. Bad = {}
  <2> HIDE DEF Bad
  <2>1. Bad \subseteq SUBSET S
    BY DEF Bad
  <2> QED
    BY <1>2, <1>3, <2>1, SmallestException
<1>5. \A U \in SUBSET S : SumOver(f, U) \in Nat
  BY <1>1, <1>4
<1> DEFINE Worse == {U \in SUBSET S : T \subseteq U /\ ~(SumOver(f, T) <= SumOver(f, U))}
           Without == {U \in SUBSET (S \ T) : U \cup T \in Worse}
<1>6. {} \notin Without
  BY <1>5
<1>7. ASSUME NEW U \in Without PROVE \E x \in U : U \ {x} \in Without
  <2>1. PICK x \in U : TRUE
    BY <1>6
  <2>2. U \cup T \in SUBSET S /\ (U \cup T) \ {x} = (U \ {x}) \cup T /\ (U \ {x}) \cup T \in SUBSET S
    OBVIOUS
  <2>3. IsFiniteSet(U \cup T) /\ \A y \in U \cup T : f[y] \in Int
    BY <1>1, <2>2
  <2>4. SumOver(f, U \cup T) = f[x] + SumOver(f, (U \ {x}) \cup T)
    BY <2>2, <2>3, SumStep
  <2>5. SumOver(f, U \cup T) \in Nat /\ SumOver(f, (U \ {x}) \cup T) \in Nat /\ f[x] \in Nat /\ SumOver(f, T) \in Nat
    BY <1>5, <2>2
  <2>6. ~(SumOver(f, T) <= SumOver(f, (U \ {x}) \cup T))
    BY <2>4, <2>5
  <2> QED
    BY <2>1, <2>2, <2>6
<1>8. Without = {}
  <2> HIDE DEF Without
  <2>1. Without \subseteq SUBSET (S \ T) /\ IsFiniteSet(S \ T)
    BY FS_Difference DEF Without
  <2> QED
    BY <1>6, <1>7, <2>1, SmallestException
<1>9. SumOver(f, T) <= SumOver(f, S)
  <2>1. S \ T \notin Without /\ (S \ T) \cup T = S
    BY <1>8
  <2> QED
    BY <2>1
<1> QED
  BY <1>5, <1>9

\* A sum of differences: only the ends remain.
Telescopes(f, F, a, n) ==
    /\ F[0] \in Int
    /\ \A i \in 0..(n - 1) : /\ f[a + i] \in Int /\ F[i] \in Int /\ F[i + 1] \in Int
                             /\ f[a + i] = F[i + 1] - F[i]

LEMMA SumTelescope ==
    ASSUME NEW a \in Int, NEW n \in Nat, NEW f, NEW F, Telescopes(f, F, a, n)
    PROVE  SumOver(f, a..(a + n - 1)) = F[n] - F[0]
<1> DEFINE S == a..(a + n - 1)
           Bad == {T \in SUBSET S :
                       \E k \in 0..n : T = a..(a + k - 1) /\ SumOver(f, T) # F[k] - F[0]}
<1>0. /\ F[0] \in Int
      /\ \A i \in 0..(n - 1) : /\ f[a + i] \in Int /\ F[i] \in Int /\ F[i + 1] \in Int
                               /\ f[a + i] = F[i + 1] - F[i]
  BY DEF Telescopes
<1>1. IsFiniteSet(S)
  BY FS_Interval
<1>2. \A x \in S : f[x] \in Int
  <2> SUFFICES ASSUME NEW x \in S PROVE f[x] \in Int
    OBVIOUS
  <2>1. x - a \in 0..(n - 1) /\ a + (x - a) = x
    OBVIOUS
  <2> QED
    BY <1>0, <2>1
<1>3. {} \notin Bad
  <2>1. \A k \in 0..n : {} = a..(a + k - 1) => k = 0
    <3> SUFFICES ASSUME NEW k \in 0..n, k # 0 PROVE a \in a..(a + k - 1)
      OBVIOUS
    <3> QED
      OBVIOUS
  <2>2. SumOver(f, {}) = F[0] - F[0]
    BY <1>0, SumEmpty
  <2> QED
    BY <2>1, <2>2
<1>4. ASSUME NEW T \in Bad PROVE \E x \in T : T \ {x} \in Bad
  <2>1. PICK k \in 0..n : T = a..(a + k - 1) /\ SumOver(f, T) # F[k] - F[0]
    OBVIOUS
  <2>2. k # 0
    BY <1>3, <2>1
  <2> DEFINE x == a + k - 1
  <2>3. k - 1 \in 0..(n - 1) /\ (k - 1) + 1 = k /\ a + (k - 1) = x /\ x \in T
    BY <2>1, <2>2
  <2>4. T \ {x} = a..(a + (k - 1) - 1) /\ T \in SUBSET S
    BY <2>1, <2>2
  <2>5. F[k] \in Int /\ F[k - 1] \in Int /\ f[x] = F[k] - F[k - 1]
    BY <1>0, <2>3
  <2>6. SumOver(f, T \ {x}) \in Int /\ SumOver(f, T) = f[x] + SumOver(f, T \ {x})
    <3>1. IsFiniteSet(T) /\ \A y \in T : f[y] \in Int
      BY <1>1, <1>2, <2>4, FS_Subset
    <3> QED
      BY <2>3, <3>1, SumStep
  <2> HIDE DEF S, x
  <2>7. SumOver(f, T \ {x}) # F[k - 1] - F[0]
    BY <1>0, <2>1, <2>5, <2>6
  <2>8. T \ {x} \in SUBSET S /\ k - 1 \in 0..n
    BY <2>3, <2>4
  <2> QED
    BY <2>3, <2>4, <2>7, <2>8
<1>5. Bad = {}
  <2>1. Bad \subseteq SUBSET S
    OBVIOUS
  <2> HIDE DEF S, Bad
  <2> QED
    BY <1>1, <1>3, <1>4, <2>1, SmallestException
<1>6. S \in SUBSET S /\ n \in 0..n
  OBVIOUS
<1> QED
  BY <1>5, <1>6

\* Equal terms.
Repeats(f, k, a, n) == \A x \in a..(a + n - 1) : f[x] = k

LEMMA SumConst ==
    ASSUME NEW a \in Int, NEW n \in Nat, NEW k \in Int, NEW f, Repeats(f, k, a, n)
    PROVE  SumOver(f, a..(a + n - 1)) = n * k
<1> DEFINE F == [i \in 0..n |-> i * k]
<1>1. F[0] = 0 /\ F[n] = n * k
  OBVIOUS
<1>2. ASSUME NEW i \in 0..(n - 1)
      PROVE  /\ f[a + i] \in Int /\ F[i] \in Int /\ F[i + 1] \in Int
             /\ f[a + i] = F[i + 1] - F[i]
  <2>1. a + i \in a..(a + n - 1) /\ i \in 0..n /\ i + 1 \in 0..n
    OBVIOUS
  <2>2. F[i] = i * k /\ F[i + 1] = (i + 1) * k
    BY <2>1
  <2>3. i * k \in Int /\ (i + 1) * k = i * k + k
    OBVIOUS
  <2>4. f[a + i] = k
    BY <2>1 DEF Repeats
  <2> HIDE DEF F
  <2> QED
    BY <2>2, <2>3, <2>4
<1>3. n * k \in Int
  OBVIOUS
<1> HIDE DEF F
<1>4. Telescopes(f, F, a, n)
  BY <1>1, <1>2 DEF Telescopes
<1>5. SumOver(f, a..(a + n - 1)) = F[n] - F[0]
  BY <1>4, SumTelescope
<1> QED
  BY <1>1, <1>3, <1>5
=============================================================================
