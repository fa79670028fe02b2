--------------------------- MODULE Report_proofs ---------------------------
(***************************************************************************)
(* Proofs about Report, for every target, all samples and every bound: the *)
(* range of the text, what the cache of classify_and_attribute() may hold, *)
(* what the counts add up to, how the ranking comes about, and what the    *)
(* score makes of misses and accesses.                                     *)
(*                                                                         *)
(* FoldLeft and the sums are recursive functions over finite sets.  What   *)
(* they compute is shown by looking at a smallest set where it would not   *)
(* hold (SmallestException).                                               *)
(***************************************************************************)
EXTENDS Report, Arithmetic, TLAPS

\* A finite set of numbers that is not empty has a largest.
LEMMA MaxExists ==
    ASSUME NEW S, IsFiniteSet(S), S \subseteq Int, S # {}
    PROVE  /\ Max(S) \in S
           /\ \A x \in S : Max(S) >= x
<1> DEFINE Bad == {T \in SUBSET S : T # {} /\ ~ \E x \in T : \A y \in T : x >= y}
<1>1. Bad = {}
  <2>1. \A T \in Bad : \E x \in T : T \ {x} \in Bad
    <3> SUFFICES ASSUME NEW T \in Bad PROVE \E x \in T : T \ {x} \in Bad
      OBVIOUS
    <3>1. PICK x \in T : TRUE
      OBVIOUS
    <3>2. T \ {x} # {}
      <4> SUFFICES ASSUME T \ {x} = {} PROVE FALSE
        OBVIOUS
      <4>1. \A y \in T : x >= y
        OBVIOUS
      <4> QED
        BY <4>1
    <3>3. ~ \E z \in T \ {x} : \A y \in T \ {x} : z >= y
      <4> SUFFICES ASSUME NEW z \in T \ {x}, \A y \in T \ {x} : z >= y PROVE FALSE
        OBVIOUS
      <4>1. x \in Int /\ z \in Int /\ T \subseteq Int
        OBVIOUS
      <4>2. CASE z >= x
        <5>1. \A y \in T : z >= y
          BY <4>2
        <5> QED
          BY <5>1
      <4>3. CASE x > z
        <5>1. \A y \in T : x >= y
          BY <4>1, <4>3
        <5> QED
          BY <5>1
      <4> QED
        BY <4>1, <4>2, <4>3
    <3> QED
      BY <3>2, <3>3
  <2>2. Bad \subseteq SUBSET S /\ {} \notin Bad
    OBVIOUS
  <2> HIDE DEF Bad
  <2> QED
    BY <2>1, <2>2, SmallestException
<1>2. \E x \in S : \A y \in S : x >= y
  BY <1>1
<1> QED
  BY <1>2 DEF Max

\* The recursion by which FoldLeft widens the range, over the indices it has seen.
WidenIter(t) ==
    CHOOSE g : g = [s \in SUBSET DOMAIN t |-> IF s = {} THEN NoRange
                                              ELSE Widen(g[s \ {Max(s)}], t[Max(s)])]

LEMMA WidenIterOf == ASSUME NEW t PROVE get_target_text_range(t) = WidenIter(t)[DOMAIN t]
  BY DEF get_target_text_range, FoldLeft, MapThenFoldSet, WidenIter

\* What a program header may be.
Headers == [lo : Nat, hi : 0..kUserHalfEnd, exec : BOOLEAN]
Ranges == [found : BOOLEAN, lo : Nat, hi : Nat]

\* The smaller and the larger of two numbers.
LEMMA MinMaxOfTwo ==
    ASSUME NEW a \in Int, NEW b \in Int
    PROVE  /\ Min({a, b}) \in {a, b} /\ Min({a, b}) <= a /\ Min({a, b}) <= b
           /\ Max({a, b}) \in {a, b} /\ Max({a, b}) >= a /\ Max({a, b}) >= b
<1> DEFINE S == {a, b}
<1>1. \E x \in S : \A y \in S : x <= y
  BY a <= b \/ b <= a
<1>2. \E x \in S : \A y \in S : x >= y
  BY a <= b \/ b <= a
<1>3. Min(S) \in S /\ \A y \in S : Min(S) <= y
  <2> HIDE DEF S
  <2> QED
    BY <1>1, Zenon DEF Min
<1>4. Max(S) \in S /\ \A y \in S : Max(S) >= y
  <2> HIDE DEF S
  <2> QED
    BY <1>2, Zenon DEF Max
<1> QED
  BY <1>3, <1>4

\* Widening a range by a segment makes a range.
LEMMA WidenType ==
    ASSUME NEW out \in Ranges, NEW ph \in Headers
    PROVE  Widen(out, ph) \in Ranges
<1> DEFINE lo == IF out.found THEN Min({out.lo, ph.lo}) ELSE ph.lo
           hi == IF out.found THEN Max({out.hi, ph.hi}) ELSE ph.hi
<1>1. lo \in Nat /\ hi \in Nat
  <2>1. out.lo \in Nat /\ out.hi \in Nat /\ ph.lo \in Nat /\ ph.hi \in Nat
    BY ReportAssumption DEF Ranges, Headers
  <2>2. Min({out.lo, ph.lo}) \in {out.lo, ph.lo}
    <3>1. out.lo \in Int /\ ph.lo \in Int
      BY <2>1
    <3> QED
      BY <3>1, MinMaxOfTwo, Zenon
  <2>3. Max({out.hi, ph.hi}) \in {out.hi, ph.hi}
    <3>1. out.hi \in Int /\ ph.hi \in Int
      BY <2>1
    <3> QED
      BY <3>1, MinMaxOfTwo, Zenon
  <2> QED
    BY <2>1, <2>2, <2>3
<1>2. Widen(out, ph) = IF ~ph.exec THEN out ELSE [found |-> TRUE, lo |-> lo, hi |-> hi]
  BY DEF Widen
<1> HIDE DEF lo, hi
<1>3. [found |-> TRUE, lo |-> lo, hi |-> hi] \in Ranges
  BY <1>1 DEF Ranges
<1> QED
  BY <1>2, <1>3

\* It has a solution.
LEMMA WidenIterExists ==
    ASSUME NEW t \in Seq(Headers)
    PROVE  \A s \in SUBSET DOMAIN t :
               /\ WidenIter(t)[s] \in Ranges
               /\ WidenIter(t)[s] = IF s = {} THEN NoRange
                                    ELSE Widen(WidenIter(t)[s \ {Max(s)}], t[Max(s)])
<1> DEFINE S == DOMAIN t
           pick == [s \in SUBSET S |-> Max(s)]
           step == [p \in S \X Ranges |-> Widen(p[2], t[p[1]])]
           Rhs(g) == [s \in SUBSET S |-> IF s = {} THEN NoRange
                                         ELSE Widen(g[s \ {Max(s)}], t[Max(s)])]
<1>1. IsFiniteSet(S) /\ S \subseteq Int /\ \A i \in S : t[i] \in Headers
  <2>1. S = 1..Len(t) /\ Len(t) \in Nat
    OBVIOUS
  <2>2. IsFiniteSet(1..Len(t))
    BY <2>1, FS_Interval
  <2> QED
    BY <2>1, <2>2
<1>2. \A s \in SUBSET S : s # {} => Max(s) \in s
  BY <1>1, MaxExists, FS_Subset
<1>3. step \in [S \X Ranges -> Ranges]
  BY <1>1, WidenType
<1>4. NoRange \in Ranges
  BY DEF NoRange, Ranges
<1>5. PICK g \in [SUBSET S -> Ranges] : Unfolds(g, S, NoRange, pick, step)
  <2>1. \A s \in SUBSET S : s # {} => pick[s] \in s
    BY <1>2
  <2> HIDE DEF S, pick, step
  <2> QED
    BY <1>1, <1>3, <1>4, <2>1, FoldExists, Zenon
<1>6. \A s \in SUBSET S : g[s] = IF s = {} THEN NoRange
                                 ELSE Widen(g[s \ {Max(s)}], t[Max(s)])
  <2> SUFFICES ASSUME NEW s \in SUBSET S
               PROVE  g[s] = IF s = {} THEN NoRange ELSE Widen(g[s \ {Max(s)}], t[Max(s)])
    OBVIOUS
  <2>1. g[s] = Unfold(g, s, NoRange, pick, step)
    BY <1>5 DEF Unfolds
  <2>2. s # {} => Max(s) \in S /\ g[s \ {Max(s)}] \in Ranges /\ pick[s] = Max(s)
    BY <1>2
  <2>3. s # {} => step[<<Max(s), g[s \ {Max(s)}]>>] = Widen(g[s \ {Max(s)}], t[Max(s)])
    BY <2>2
  <2> HIDE DEF pick, step
  <2> QED
    BY <2>1, <2>2, <2>3 DEF Unfold
<1>7. g = Rhs(g)
  BY <1>6
<1>8. WidenIter(t) = Rhs(WidenIter(t))
  BY <1>7 DEF WidenIter
<1> DEFINE h == WidenIter(t)
<1>9. \A s \in SUBSET S : h[s] = IF s = {} THEN NoRange
                                 ELSE Widen(h[s \ {Max(s)}], t[Max(s)])
  <2> HIDE DEF h
  <2>1. h = Rhs(h)
    BY <1>8 DEF h
  <2> QED
    BY <2>1
<1>10. \A s \in SUBSET S : h[s] = g[s]
  <2> DEFINE Bad == {s \in SUBSET S : h[s] # g[s]}
  <2>1. Bad \subseteq SUBSET S /\ {} \notin Bad
    BY <1>6, <1>9
  <2>2. \A s \in Bad : \E x \in s : s \ {x} \in Bad
    <3> SUFFICES ASSUME NEW s \in Bad PROVE s \ {Max(s)} \in Bad /\ Max(s) \in s
      OBVIOUS
    <3>1. s # {} /\ Max(s) \in s
      BY <2>1, <1>2
    <3>2. /\ h[s] = Widen(h[s \ {Max(s)}], t[Max(s)])
          /\ g[s] = Widen(g[s \ {Max(s)}], t[Max(s)])
      BY <1>6, <1>9, <3>1
    <3> HIDE DEF h
    <3> QED
      BY <3>1, <3>2
  <2> HIDE DEF Bad
  <2>3. Bad = {}
    BY <1>1, <2>1, <2>2, SmallestException
  <2> QED
    BY <2>3 DEF Bad
<1> QED
  BY <1>9, <1>10

\* What the segments with indices in s add up to.
Summary(out, t, s) ==
    /\ out.found <=> \E i \in s : t[i].exec
    /\ \A i \in s : t[i].exec => out.lo <= t[i].lo /\ t[i].hi <= out.hi
    /\ out.found => \E i, j \in s : /\ t[i].exec /\ t[i].lo = out.lo
                                    /\ t[j].exec /\ t[j].hi = out.hi
    /\ ~out.found => out = NoRange

\* Widening by a segment takes account of it.
LEMMA WidenSummary ==
    ASSUME NEW t \in Seq(Headers), NEW s \in SUBSET DOMAIN t, NEW k \in s,
           NEW out \in Ranges, Summary(out, t, s \ {k})
    PROVE  Summary(Widen(out, t[k]), t, s)
<1> DEFINE ph == t[k]
           new == Widen(out, ph)
<1>1. \A i \in s : t[i].lo \in Nat /\ t[i].hi \in Nat /\ t[i].exec \in BOOLEAN
  <2>1. \A i \in s : t[i] \in Headers
    OBVIOUS
  <2> QED
    BY <2>1, ReportAssumption DEF Headers
<1>2. CASE ~ph.exec
  <2>1. new = out
    BY <1>2 DEF Widen
  <2> QED
    BY <1>2, <2>1 DEF Summary
<1>3. CASE ph.exec /\ ~out.found
  <2>1. new = [found |-> TRUE, lo |-> ph.lo, hi |-> ph.hi]
    BY <1>3 DEF Widen
  <2>2. \A i \in s : t[i].exec => i = k
    BY <1>3 DEF Summary
  <2> HIDE DEF new
  <2>3. new.found /\ new.lo = ph.lo /\ new.hi = ph.hi
    BY <2>1
  <2> QED
    BY <1>1, <1>3, <2>2, <2>3 DEF Summary, new
<1>4. CASE ph.exec /\ out.found
  <2> DEFINE lo == Min({out.lo, ph.lo})
             hi == Max({out.hi, ph.hi})
  <2>1. new = [found |-> TRUE, lo |-> lo, hi |-> hi]
    BY <1>4 DEF Widen
  <2>2. /\ lo \in {out.lo, ph.lo} /\ lo <= out.lo /\ lo <= ph.lo
        /\ hi \in {out.hi, ph.hi} /\ hi >= out.hi /\ hi >= ph.hi
    <3>1. out.lo \in Int /\ out.hi \in Int /\ ph.lo \in Int /\ ph.hi \in Int
      BY <1>1 DEF Ranges
    <3> QED
      BY <3>1, MinMaxOfTwo
  <2>3. out.lo \in Nat /\ out.hi \in Nat /\ lo \in Nat /\ hi \in Nat
    BY <1>1, <2>2 DEF Ranges
  <2> HIDE DEF new, lo, hi
  <2>4. new.found /\ new.lo = lo /\ new.hi = hi
    BY <2>1
  <2>5. \A i \in s : t[i].exec => new.lo <= t[i].lo /\ t[i].hi <= new.hi
    <3> SUFFICES ASSUME NEW i \in s, t[i].exec PROVE lo <= t[i].lo /\ t[i].hi <= hi
      BY <2>4
    <3>1. CASE i = k
      BY <3>1, <2>2
    <3>2. CASE i # k
      <4>1. out.lo <= t[i].lo /\ t[i].hi <= out.hi
        BY <3>2 DEF Summary
      <4> QED
        BY <4>1, <1>1, <2>2, <2>3
    <3> QED
      BY <3>1, <3>2
  <2>6. \E i \in s : t[i].exec /\ t[i].lo = lo
    BY <1>4, <2>2 DEF Summary
  <2>7. \E i \in s : t[i].exec /\ t[i].hi = hi
    BY <1>4, <2>2 DEF Summary
  <2> QED
    BY <1>4, <2>4, <2>5, <2>6, <2>7 DEF Summary, new
<1> QED
  BY <1>2, <1>3, <1>4

\* get_target_text_range() returns the smallest range that has every executable segment.
LEMMA RangeIs ==
    ASSUME NEW t \in Seq(Headers)
    PROVE  /\ get_target_text_range(t) \in Ranges
           /\ Summary(get_target_text_range(t), t, DOMAIN t)
<1> DEFINE h == WidenIter(t)
           Bad == {s \in SUBSET DOMAIN t : ~Summary(h[s], t, s)}
<1>1. IsFiniteSet(DOMAIN t) /\ DOMAIN t \subseteq Int
  <2>1. DOMAIN t = 1..Len(t) /\ Len(t) \in Nat
    OBVIOUS
  <2>2. IsFiniteSet(1..Len(t))
    BY <2>1, FS_Interval
  <2> QED
    BY <2>1, <2>2
<1>2. {} \notin Bad
  <2>1. h[{}] = NoRange
    BY WidenIterExists
  <2> HIDE DEF h
  <2> QED
    BY <2>1 DEF Summary, NoRange
<1>3. \A s \in Bad : \E x \in s : s \ {x} \in Bad
  <2> SUFFICES ASSUME NEW s \in Bad PROVE \E x \in s : s \ {x} \in Bad
    OBVIOUS
  <2>1. s # {} /\ Max(s) \in s
    BY <1>1, <1>2, MaxExists, FS_Subset
  <2>2. h[s] = Widen(h[s \ {Max(s)}], t[Max(s)]) /\ h[s \ {Max(s)}] \in Ranges
    BY <2>1, WidenIterExists
  <2> HIDE DEF h
  <2>3. ~Summary(h[s \ {Max(s)}], t, s \ {Max(s)})
    BY <2>1, <2>2, WidenSummary
  <2> QED
    BY <2>1, <2>3
<1>4. Bad = {}
  <2>1. Bad \subseteq SUBSET DOMAIN t
    OBVIOUS
  <2> HIDE DEF Bad
  <2> QED
    BY <1>1, <1>2, <1>3, <2>1, SmallestException
<1>5. Summary(h[DOMAIN t], t, DOMAIN t)
  BY <1>4
<1> QED
  BY <1>5, WidenIterOf, WidenIterExists

-----------------------------------------------------------------------------
\* a is a record with the fields of AttributionResult and of its cache.
IsResult(a) ==
    a = [bucket_count |-> a.bucket_count, kernel_ips |-> a.kernel_ips,
         line_counts |-> a.line_counts, attributed |-> a.attributed,
         unattributed |-> a.unattributed,
         resolve_ok |-> a.resolve_ok, resolve_loc |-> a.resolve_loc]

\* What is remembered of an address is what the debug information says of it.
Agrees(a) ==
    \A ip \in DOMAIN a.resolve_ok :
        /\ a.resolve_ok[ip] <=> source[ip] # NoSite
        /\ source[ip] # NoSite => ip \in DOMAIN a.resolve_loc /\ a.resolve_loc[ip] = source[ip]

\* The cache has answers for addresses that there is debug information of.
CacheTyped(a) ==
    a.resolve_ok \in Maps(DOMAIN source, BOOLEAN) /\ a.resolve_loc \in Maps(DOMAIN source, Sites)

-----------------------------------------------------------------------------
\* A new result agrees with any debug information.
LEMMA EmptyAgrees == IsResult(Empty) /\ Agrees(Empty)
<1>1. /\ IsResult(Empty)
      /\ Empty.resolve_ok = << >>
  BY DEF IsResult, Empty, None
<1>2. DOMAIN << >> = {}
  OBVIOUS
<1> QED
  BY <1>1, <1>2 DEF Agrees

\* Entering a value changes one value, and keeps a map's type if it is one of the type.
LEMMA AtPut ==
    ASSUME NEW f, NEW x, NEW v, NEW y
    PROVE  At(Put(f, x, v), y) = IF y = x THEN v ELSE At(f, y)
  BY Zenon DEF Put, At

\* A map with one more entry of its type.
LEMMA PutType ==
    ASSUME NEW D, NEW R, NEW f \in Maps(D, R), NEW x \in D, NEW v \in R
    PROVE  Put(f, x, v) \in Maps(D, R)
<1> DEFINE g == Put(f, x, v)
<1>1. PICK S \in SUBSET D : f \in [S -> R]
  BY DEF Maps
<1>2. g = [y \in S \cup {x} |-> IF y = x THEN v ELSE f[y]]
  BY <1>1 DEF Put
<1>3. g \in [S \cup {x} -> R]
  BY <1>1, <1>2
<1> HIDE DEF g
<1> QED
  BY <1>1, <1>3 DEF Maps, g

\* So does resolving an address of the target.
LEMMA ResolveType ==
    ASSUME NEW a, IsResult(a), CacheTyped(a), NEW ip \in DOMAIN source,
           source \in [DOMAIN source -> Sites \cup {NoSite}]
    PROVE  CacheTyped(Resolve(a, ip))
<1> DEFINE r == Resolve(a, ip)
           known == source[ip] # NoSite
           ok == Put(a.resolve_ok, ip, known)
           loc == IF known THEN Put(a.resolve_loc, ip, source[ip]) ELSE a.resolve_loc
<1>1. CASE Cached(a, ip)
  BY <1>1 DEF Resolve
<1>2. CASE ~Cached(a, ip)
  <2>1. ok \in Maps(DOMAIN source, BOOLEAN)
    <3>1. known \in BOOLEAN
      OBVIOUS
    <3>2. a.resolve_ok \in Maps(DOMAIN source, BOOLEAN)
      BY DEF CacheTyped
    <3> HIDE DEF known
    <3> QED
      BY <3>1, <3>2, PutType, Zenon
  <2>2. loc \in Maps(DOMAIN source, Sites)
    <3>1. a.resolve_loc \in Maps(DOMAIN source, Sites)
      BY DEF CacheTyped
    <3>2. known => source[ip] \in Sites
      OBVIOUS
    <3>3. known => Put(a.resolve_loc, ip, source[ip]) \in Maps(DOMAIN source, Sites)
      BY <3>1, <3>2, PutType, Zenon
    <3> QED
      BY <3>1, <3>3
  <2>3. r = [a EXCEPT !.resolve_ok = ok, !.resolve_loc = loc]
    BY <1>2 DEF Resolve
  <2> DEFINE c == [a EXCEPT !.resolve_ok = ok]
  <2>4. r = [c EXCEPT !.resolve_loc = loc]
    BY <2>3, Zenon
  <2> HIDE DEF ok, loc, r
  <2>5. c = [bucket_count |-> a.bucket_count, kernel_ips |-> a.kernel_ips,
             line_counts |-> a.line_counts, attributed |-> a.attributed,
             unattributed |-> a.unattributed,
             resolve_ok |-> ok, resolve_loc |-> a.resolve_loc]
    BY DEF IsResult
  <2> HIDE DEF c
  <2>6. r.resolve_ok = ok /\ r.resolve_loc = loc
    BY <2>4, <2>5
  <2> QED
    BY <2>1, <2>2, <2>6 DEF CacheTyped, r
<1> QED
  BY <1>1, <1>2

\* Resolving an address through the cache leaves everything but the cache alone; afterwards
\* the cache still agrees, and knows the address's line if it has one.
LEMMA ResolveAgrees ==
    ASSUME NEW a, IsResult(a), Agrees(a), NEW ip
    PROVE  /\ IsResult(Resolve(a, ip)) /\ Agrees(Resolve(a, ip))
           /\ Tally(Resolve(a, ip)) = Tally(a)
           /\ Resolve(a, ip).bucket_count = a.bucket_count
           /\ Resolve(a, ip).kernel_ips = a.kernel_ips
           /\ Resolve(a, ip).line_counts = a.line_counts
           /\ Resolve(a, ip).attributed = a.attributed
           /\ Resolve(a, ip).unattributed = a.unattributed
           /\ source[ip] # NoSite => Location(Resolve(a, ip), ip) = source[ip]
<1> DEFINE r == Resolve(a, ip)
           known == source[ip] # NoSite
           ok == Put(a.resolve_ok, ip, known)
           loc == IF known THEN Put(a.resolve_loc, ip, source[ip]) ELSE a.resolve_loc
<1>1. CASE Cached(a, ip)
  <2>1. r = a
    BY <1>1 DEF Resolve
  <2>2. known => Location(a, ip) = source[ip]
    BY <1>1 DEF Cached, Agrees, Location
  <2> QED
    BY <2>1, <2>2
<1>2. CASE ~Cached(a, ip)
  <2>1. r = [a EXCEPT !.resolve_ok = ok, !.resolve_loc = loc]
    BY <1>2 DEF Resolve
  <2>2. r = [bucket_count |-> a.bucket_count, kernel_ips |-> a.kernel_ips,
             line_counts |-> a.line_counts, attributed |-> a.attributed,
             unattributed |-> a.unattributed, resolve_ok |-> ok, resolve_loc |-> loc]
    <3> DEFINE c == [a EXCEPT !.resolve_ok = ok]
    <3>1. r = [c EXCEPT !.resolve_loc = loc]
      BY <2>1, Zenon
    <3> HIDE DEF ok, loc
    <3>2. c = [bucket_count |-> a.bucket_count, kernel_ips |-> a.kernel_ips,
               line_counts |-> a.line_counts, attributed |-> a.attributed,
               unattributed |-> a.unattributed,
               resolve_ok |-> ok, resolve_loc |-> a.resolve_loc]
      BY DEF IsResult
    <3> HIDE DEF c, r
    <3> QED
      BY <3>1, <3>2
  <2>3. /\ r.resolve_ok = ok /\ r.resolve_loc = loc /\ r.line_counts = a.line_counts
        /\ r.attributed = a.attributed /\ r.unattributed = a.unattributed
        /\ r.bucket_count = a.bucket_count /\ r.kernel_ips = a.kernel_ips
        /\ IsResult(r)
    <3> HIDE DEF r, ok, loc
    <3> QED
      BY <2>2 DEF IsResult
  <2>4. DOMAIN ok = DOMAIN a.resolve_ok \cup {ip} /\ (ok[ip] <=> known)
    BY Zenon DEF Put
  <2>5. \A x \in DOMAIN a.resolve_ok : x # ip /\ ok[x] = a.resolve_ok[x]
    BY <1>2, Zenon DEF Cached, Put
  <2>6. known => ip \in DOMAIN loc /\ loc[ip] = source[ip]
    BY Zenon DEF Put
  <2>7. \A x \in DOMAIN a.resolve_loc : x # ip => x \in DOMAIN loc /\ loc[x] = a.resolve_loc[x]
    BY Zenon DEF Put
  <2>8. Agrees(r)
    <3> SUFFICES ASSUME NEW x \in DOMAIN ok
                 PROVE  /\ ok[x] <=> source[x] # NoSite
                        /\ source[x] # NoSite => x \in DOMAIN loc /\ loc[x] = source[x]
      BY <2>3 DEF Agrees
    <3>1. CASE x = ip
      BY <3>1, <2>4, <2>6
    <3>2. CASE x # ip
      <4>1. x \in DOMAIN a.resolve_ok
        BY <3>2, <2>4
      <4>2. /\ a.resolve_ok[x] <=> source[x] # NoSite
            /\ source[x] # NoSite => x \in DOMAIN a.resolve_loc /\ a.resolve_loc[x] = source[x]
        BY <4>1 DEF Agrees
      <4>3. ok[x] = a.resolve_ok[x]
        BY <4>1, <2>5
      <4> HIDE DEF ok, loc
      <4> QED
        BY <3>2, <4>2, <4>3, <2>7
    <3> QED
      BY <3>1, <3>2
  <2>9. known => Location(r, ip) = source[ip]
    <3> HIDE DEF r, loc
    <3> QED
      BY <2>3, <2>6 DEF Location
  <2> HIDE DEF r
  <2>10. Tally(r) = Tally(a)
    BY <2>3 DEF Tally
  <2> QED
    BY <2>3, <2>8, <2>9, <2>10 DEF r
<1> QED
  BY <1>1, <1>2

\* A sample of the target is counted as the debug information has it.
LEMMA CountLineExact ==
    ASSUME NEW a, IsResult(a), Agrees(a), NEW ip
    PROVE  /\ IsResult(CountLine(a, ip)) /\ Agrees(CountLine(a, ip))
           /\ CountLine(a, ip).bucket_count = a.bucket_count
           /\ CountLine(a, ip).kernel_ips = a.kernel_ips
           /\ CountLine(a, ip).resolve_ok = Resolve(a, ip).resolve_ok
           /\ CountLine(a, ip).resolve_loc = Resolve(a, ip).resolve_loc
           /\ Tally(CountLine(a, ip)) =
                  IF source[ip] = NoSite
                    THEN [lines |-> a.line_counts, attributed |-> a.attributed,
                          unattributed |-> a.unattributed + 1]
                    ELSE [lines |-> Put(a.line_counts, source[ip],
                                        At(a.line_counts, source[ip]) + 1),
                          attributed |-> a.attributed + 1, unattributed |-> a.unattributed]
<1> DEFINE r == Resolve(a, ip)
           l == Location(r, ip)
           ok == IF Cached(a, ip) THEN CachedOk(a, ip) ELSE source[ip] # NoSite
           lines == Put(r.line_counts, l, At(r.line_counts, l) + 1)
<1>1. /\ IsResult(r) /\ Agrees(r)
      /\ r.bucket_count = a.bucket_count /\ r.kernel_ips = a.kernel_ips
      /\ r.line_counts = a.line_counts /\ r.attributed = a.attributed
      /\ r.unattributed = a.unattributed
      /\ source[ip] # NoSite => l = source[ip]
  BY ResolveAgrees
<1>2. ok <=> source[ip] # NoSite
  BY DEF Cached, CachedOk, Agrees
<1>3. CASE source[ip] = NoSite
  <2>1. CountLine(a, ip) = [r EXCEPT !.unattributed = @ + 1]
    BY <1>2, <1>3 DEF CountLine
  <2> HIDE DEF r
  <2>2. CountLine(a, ip) =
            [bucket_count |-> r.bucket_count, kernel_ips |-> r.kernel_ips,
             line_counts |-> r.line_counts, attributed |-> r.attributed,
             unattributed |-> r.unattributed + 1,
             resolve_ok |-> r.resolve_ok, resolve_loc |-> r.resolve_loc]
    BY <2>1, <1>1 DEF IsResult
  <2>3. /\ IsResult(CountLine(a, ip)) /\ Agrees(CountLine(a, ip))
        /\ CountLine(a, ip).bucket_count = r.bucket_count
        /\ CountLine(a, ip).kernel_ips = r.kernel_ips
        /\ CountLine(a, ip).resolve_ok = r.resolve_ok
        /\ CountLine(a, ip).resolve_loc = r.resolve_loc
    BY <1>1, <2>2 DEF IsResult, Agrees
  <2>4. Tally(CountLine(a, ip)) = [lines |-> a.line_counts, attributed |-> a.attributed,
                                   unattributed |-> a.unattributed + 1]
    BY <1>1, <2>2 DEF Tally
  <2> QED
    BY <1>1, <1>3, <2>3, <2>4 DEF r
<1>4. CASE source[ip] # NoSite
  <2>1. CountLine(a, ip) = [r EXCEPT !.attributed = @ + 1, !.line_counts = lines]
    BY <1>2, <1>4 DEF CountLine
  <2>2. lines = Put(a.line_counts, source[ip], At(a.line_counts, source[ip]) + 1)
    BY <1>1, <1>4
  <2>3. CountLine(a, ip) =
            [bucket_count |-> r.bucket_count, kernel_ips |-> r.kernel_ips,
             line_counts |-> lines, attributed |-> r.attributed + 1,
             unattributed |-> r.unattributed,
             resolve_ok |-> r.resolve_ok, resolve_loc |-> r.resolve_loc]
    <3> DEFINE c == [r EXCEPT !.attributed = @ + 1]
    <3>1. CountLine(a, ip) = [c EXCEPT !.line_counts = lines]
      BY <2>1, Zenon
    <3> HIDE DEF r, lines
    <3>2. c = [bucket_count |-> r.bucket_count, kernel_ips |-> r.kernel_ips,
               line_counts |-> r.line_counts, attributed |-> r.attributed + 1,
               unattributed |-> r.unattributed,
               resolve_ok |-> r.resolve_ok, resolve_loc |-> r.resolve_loc]
      BY <1>1 DEF IsResult
    <3> HIDE DEF c
    <3> QED
      BY <3>1, <3>2
  <2> HIDE DEF r, lines
  <2>4. /\ IsResult(CountLine(a, ip)) /\ Agrees(CountLine(a, ip))
        /\ CountLine(a, ip).bucket_count = r.bucket_count
        /\ CountLine(a, ip).kernel_ips = r.kernel_ips
        /\ CountLine(a, ip).resolve_ok = r.resolve_ok
        /\ CountLine(a, ip).resolve_loc = r.resolve_loc
    BY <1>1, <2>3 DEF IsResult, Agrees
  <2>5. Tally(CountLine(a, ip)) = [lines |-> lines, attributed |-> a.attributed + 1,
                                   unattributed |-> a.unattributed]
    BY <1>1, <2>3 DEF Tally
  <2> QED
    BY <1>1, <1>4, <2>2, <2>4, <2>5 DEF r
<1> QED
  BY <1>3, <1>4

\* The counts of Uncached, field by field.
LEMMA UncachedIs ==
    ASSUME NEW a, NEW ip
    PROVE  Uncached(a, ip) =
               IF classify(ip) # "target" THEN Tally(a)
               ELSE IF source[ip] = NoSite
               THEN [lines |-> a.line_counts, attributed |-> a.attributed,
                     unattributed |-> a.unattributed + 1]
               ELSE [lines |-> Put(a.line_counts, source[ip],
                                   At(a.line_counts, source[ip]) + 1),
                     attributed |-> a.attributed + 1, unattributed |-> a.unattributed]
<1> DEFINE t == Tally(a)
           more == Put(a.line_counts, source[ip], At(a.line_counts, source[ip]) + 1)
<1>1. t = [lines |-> a.line_counts, attributed |-> a.attributed, unattributed |-> a.unattributed]
  BY DEF Tally
<1>2. [t EXCEPT !.unattributed = @ + 1] =
          [lines |-> a.line_counts, attributed |-> a.attributed,
           unattributed |-> a.unattributed + 1]
  <2> HIDE DEF t
  <2> QED
    BY <1>1
<1>3. [t EXCEPT !.attributed = @ + 1, !.lines = Put(@, source[ip], At(@, source[ip]) + 1)] =
          [lines |-> more, attributed |-> a.attributed + 1, unattributed |-> a.unattributed]
  <2> DEFINE c == [t EXCEPT !.attributed = @ + 1]
  <2>1. [t EXCEPT !.attributed = @ + 1, !.lines = Put(@, source[ip], At(@, source[ip]) + 1)] =
            [c EXCEPT !.lines = Put(@, source[ip], At(@, source[ip]) + 1)]
    BY Zenon
  <2> HIDE DEF t
  <2>2. c = [lines |-> a.line_counts, attributed |-> a.attributed + 1,
             unattributed |-> a.unattributed]
    BY <1>1
  <2> HIDE DEF c
  <2>3. [c EXCEPT !.lines = Put(@, source[ip], At(@, source[ip]) + 1)] =
            [lines |-> more, attributed |-> a.attributed + 1, unattributed |-> a.unattributed]
    BY <2>2
  <2> QED
    BY <2>1, <2>3
<1> HIDE DEF t, more
<1>4. CASE classify(ip) # "target"
  BY <1>4, Zenon DEF Uncached
<1>5. CASE classify(ip) = "target" /\ source[ip] = NoSite
  <2>1. Uncached(a, ip) = [t EXCEPT !.unattributed = @ + 1]
    BY <1>5, Zenon DEF Uncached, t
  <2> QED
    BY <1>2, <1>5, <2>1
<1>6. CASE classify(ip) = "target" /\ source[ip] # NoSite
  <2>1. Uncached(a, ip) = [t EXCEPT !.attributed = @ + 1,
                                    !.lines = Put(@, source[ip], At(@, source[ip]) + 1)]
    BY <1>6, Zenon DEF Uncached, t
  <2> QED
    BY <1>3, <1>6, <2>1 DEF more
<1> QED
  BY <1>4, <1>5, <1>6

-----------------------------------------------------------------------------
\* The sum in SamplesIn.
LEMMA SamplesSum == ASSUME NEW e, NEW A PROVE SamplesIn(e, A) = SumOver(seen[e], A)
  BY DEF SamplesIn, SumOver

\* One more sample at an address is one more in each set that has it.
LEMMA OneMore ==
    ASSUME NEW f \in [Addresses -> Nat], NEW ip \in Addresses, NEW A \in SUBSET Addresses
    PROVE  SumOver([f EXCEPT ![ip] = @ + 1], A) = SumOver(f, A) + (IF ip \in A THEN 1 ELSE 0)
<1> DEFINE g == [f EXCEPT ![ip] = @ + 1]
<1>1. IsFiniteSet(A)
  BY ReportAssumption, FS_Subset
<1>2. \A y \in A : f[y] \in Int /\ g[y] \in Int /\ (y # ip => f[y] = g[y])
  OBVIOUS
<1>3. g[ip] - f[ip] = 1
  OBVIOUS
<1> HIDE DEF g
<1>4. SumOver(f, A) \in Int
  BY <1>1, <1>2, SumType
<1>5. CASE ip \in A
  <2>1. SumOver(g, A) = SumOver(f, A) + (g[ip] - f[ip])
    BY <1>1, <1>2, <1>5, SumChange
  <2> QED
    BY <1>3, <1>5, <2>1 DEF g
<1>6. CASE ip \notin A
  <2>1. \A y \in A : f[y] \in Int /\ f[y] = g[y]
    BY <1>2, <1>6
  <2>2. SumOver(f, A) = SumOver(g, A)
    BY <1>1, <2>1, SumSame
  <2> QED
    BY <1>4, <1>6, <2>2 DEF g
<1> QED
  BY <1>5, <1>6

\* classify() puts in the target what is between its first executable byte and its last.
LEMMA ClassifyIs ==
    ASSUME phdrs \in HeaderTables, target = get_target_text_range(phdrs), target.found,
           NEW ip \in Addresses
    PROVE  /\ classify(ip) \in Buckets
           /\ classify(ip) = "target" <=> ip \in InText
           /\ classify(ip) = "target" => ip \in target.lo..(target.hi - 1)
<1> DEFINE t == phdrs
<1>1. t \in Seq(Headers) /\ \A i \in DOMAIN t : t[i] \in Headers
  <2>1. t \in Seq(Headers)
    BY ReportAssumption DEF Headers
  <2> QED
    BY <2>1
<1>2. target \in Ranges /\ Summary(target, t, DOMAIN t)
  BY <1>1, RangeIs
<1>3. /\ \A i \in DOMAIN t : t[i].exec => target.lo <= t[i].lo /\ t[i].hi <= target.hi
      /\ \E i, j \in DOMAIN t : /\ t[i].exec /\ t[i].lo = target.lo
                                /\ t[j].exec /\ t[j].hi = target.hi
  BY <1>2 DEF Summary
<1>4. target.lo \in Nat /\ target.hi \in Nat /\ ip \in Nat
  BY <1>2, ReportAssumption DEF Ranges
<1>5. \A i \in DOMAIN t : t[i].lo \in Nat /\ t[i].hi \in Nat /\ t[i].hi <= kUserHalfEnd
  BY <1>1, ReportAssumption DEF Headers
<1>6. target.hi <= kUserHalfEnd
  BY <1>3, <1>5
<1>7. classify(ip) \in Buckets /\ (classify(ip) = "target" <=> target.lo <= ip /\ ip < target.hi)
  BY <1>4, <1>6, ReportAssumption DEF classify, Buckets
<1>8. InText = {x \in Addresses : \E i, j \in DOMAIN t :
                    t[i].exec /\ t[j].exec /\ t[i].lo <= x /\ x < t[j].hi}
  BY DEF InText, Code
<1> HIDE DEF t
<1>9. ip \in InText <=> target.lo <= ip /\ ip < target.hi
  <2>1. ASSUME ip \in InText PROVE target.lo <= ip /\ ip < target.hi
    <3>1. PICK i \in DOMAIN t, j \in DOMAIN t :
              t[i].exec /\ t[j].exec /\ t[i].lo <= ip /\ ip < t[j].hi
      BY <1>8, <2>1
    <3> QED
      BY <1>3, <1>4, <1>5, <3>1
  <2>2. ASSUME target.lo <= ip /\ ip < target.hi PROVE ip \in InText
    BY <1>3, <1>8, <2>2
  <2> QED
    BY <2>1, <2>2
<1> QED
  BY <1>4, <1>7, <1>9

\* The invariant: what is known of the target,
Located ==
    /\ phdrs \in HeaderTables /\ target \in Ranges
    /\ source \in [Addresses \cap target.lo..(target.hi - 1) -> Sites \cup {NoSite}]
    /\ pc \in {"attribute", "rank", "done"} =>
           target = get_target_text_range(phdrs) /\ target.found

\* the types of one event's results,
Typed(a, e) ==
    /\ IsResult(a) /\ Agrees(a) /\ CacheTyped(a)
    /\ a.bucket_count \in [Buckets -> Nat] /\ Total(a.bucket_count) <= MaxSamples(e)
    /\ a.kernel_ips \subseteq Addresses
    /\ a.line_counts \in Maps(Sites, Nat \ {0})
    /\ a.attributed \in Nat /\ a.unattributed \in Nat

\* what they count, of samples that were taken f[ip] times at each ip,
Counted(a, f) ==
    /\ Total(a.bucket_count) = SumOver(f, Addresses)
    /\ a.bucket_count["target"] = SumOver(f, InText)
    /\ a.attributed + a.unattributed = SumOver(f, InText)
    /\ \A s \in Sites : At(a.line_counts, s) = SumOver(f, OfLine(s))

\* that nothing is counted before the target is known,
Nothing == attr = [e \in Events |-> Empty] /\ seen = [e \in Events |-> [ip \in Addresses |-> 0]]

\* and how the ranking came about.
Lists(q, S) == q \in Seq(S) /\ ToSet(q) = S /\ IsInjective(q)
Ranking ==
    /\ insufficient = {s \in AllSites : Gated(s)}
    /\ Lists(ranked, AllSites \ insufficient) /\ Lists(by_raw, DOMAIN attr[0].line_counts)
    /\ \A i, j \in DOMAIN ranked : i < j => Before(ranked[i], ranked[j])

Inv ==
    /\ pc \in {"headers", "attribute", "rank", "done", "failed"} /\ event \in Events
    /\ attr = [e \in Events |-> attr[e]] /\ seen \in [Events -> [Addresses -> Nat]]
    /\ Located
    /\ \A e \in Events : Typed(attr[e], e) /\ Counted(attr[e], seen[e])
    /\ pc \in {"headers", "failed"} => Nothing
    /\ pc # "done" => ranked = << >> /\ by_raw = << >> /\ insufficient = {}
    /\ pc = "done" => Ranking

\* An event has at most as many samples as there are counts with a score.
LEMMA MaxSamplesType == \A e \in Events : MaxSamples(e) \in Nat /\ MaxSamples(e) <= MaxCount
  BY ReportAssumption DEF MaxSamples, Events

\* A line has samples if and only if it has a count.
LEMMA AtIs ==
    ASSUME NEW f \in Maps(Sites, Nat \ {0}), NEW s
    PROVE  At(f, s) \in Nat /\ (s \in DOMAIN f <=> At(f, s) > 0) /\ DOMAIN f \subseteq Sites
<1>1. PICK S \in SUBSET Sites : f \in [S -> Nat \ {0}]
  BY DEF Maps
<1> QED
  BY <1>1 DEF At

\* The text, and the code of a line, are sampled addresses.
LEMMA InTextType ==
    ASSUME phdrs \in HeaderTables
    PROVE  InText \in SUBSET Addresses /\ \A s : OfLine(s) \in SUBSET Addresses
<1>1. InText \in SUBSET Addresses
  BY DEF InText, Code
<1> QED
  BY <1>1 DEF OfLine

\* Before the first sample nothing is counted.
LEMMA NothingIs ==
    Nothing /\ phdrs \in HeaderTables => \A e \in Events : Typed(attr[e], e) /\ Counted(attr[e], seen[e])
<1> SUFFICES ASSUME Nothing, phdrs \in HeaderTables, NEW e \in Events
             PROVE  Typed(Empty, e) /\ Counted(Empty, seen[e])
  <2>1. Nothing => \A e \in Events : attr[e] = Empty
    BY DEF Nothing
  <2> QED
    BY <2>1
<1>1. /\ Empty.bucket_count = [b \in Buckets |-> 0] /\ Empty.kernel_ips = {}
      /\ Empty.line_counts = << >> /\ Empty.attributed = 0 /\ Empty.unattributed = 0
      /\ Empty.resolve_ok = << >> /\ Empty.resolve_loc = << >>
  BY DEF Empty, None
<1>2. \A R : << >> \in [{} -> R]
  OBVIOUS
<1>3. \A D, R : << >> \in Maps(D, R)
  BY <1>2 DEF Maps
<1>4. Total(Empty.bucket_count) = 0 /\ Empty.bucket_count["target"] = 0
  BY <1>1 DEF Total, Buckets
<1>5. Typed(Empty, e)
  BY <1>1, <1>3, <1>4, EmptyAgrees, MaxSamplesType DEF Typed, CacheTyped
<1>6. \A A \in SUBSET Addresses : SumOver(seen[e], A) = 0
  <2> SUFFICES ASSUME NEW A \in SUBSET Addresses PROVE SumOver(seen[e], A) = 0
    OBVIOUS
  <2>1. IsFiniteSet(A)
    BY ReportAssumption, FS_Subset
  <2>2. \A x \in A : seen[e][x] \in Int /\ seen[e][x] = 0
    BY DEF Nothing
  <2> QED
    BY <2>1, <2>2, SumZero
<1>7. \A s : At(Empty.line_counts, s) = 0
  BY <1>1 DEF At
<1> QED
  BY <1>1, <1>4, <1>5, <1>6, <1>7, InTextType DEF Counted

-----------------------------------------------------------------------------
\* The result that a sample at ip leaves of a.
After(a, ip) ==
    LET b == classify(ip)
        c == [a EXCEPT !.bucket_count[b] = @ + 1,
                       !.kernel_ips = IF b = "kernel" THEN @ \cup {ip} ELSE @]
    IN  IF b = "target" THEN CountLine(c, ip) ELSE c

\* It has its type, and counts what it would without a cache.
LEMMA AfterIs ==
    ASSUME Located, pc = "attribute", NEW ip \in Addresses, NEW e \in Events, NEW a,
           Typed(a, e), Total(a.bucket_count) < MaxSamples(e)
    PROVE  /\ Typed(After(a, ip), e)
           /\ Tally(After(a, ip)) = Uncached(a, ip)
           /\ Total(After(a, ip).bucket_count) = Total(a.bucket_count) + 1
           /\ After(a, ip).bucket_count["target"] =
                  a.bucket_count["target"] + (IF ip \in InText THEN 1 ELSE 0)
<1> DEFINE b == classify(ip)
           buckets == [a.bucket_count EXCEPT ![b] = @ + 1]
           ips == IF b = "kernel" THEN a.kernel_ips \cup {ip} ELSE a.kernel_ips
           c == [a EXCEPT !.bucket_count[b] = @ + 1,
                          !.kernel_ips = IF b = "kernel" THEN @ \cup {ip} ELSE @]
           new == After(a, ip)
<1>1. /\ IsResult(a) /\ Agrees(a) /\ CacheTyped(a)
      /\ a.bucket_count \in [Buckets -> Nat] /\ a.kernel_ips \subseteq Addresses
      /\ a.line_counts \in Maps(Sites, Nat \ {0}) /\ a.attributed \in Nat /\ a.unattributed \in Nat
  BY DEF Typed
<1>2. new = IF b = "target" THEN CountLine(c, ip) ELSE c
  BY DEF After
<1>3. c = [bucket_count |-> buckets, kernel_ips |-> ips,
           line_counts |-> a.line_counts, attributed |-> a.attributed,
           unattributed |-> a.unattributed,
           resolve_ok |-> a.resolve_ok, resolve_loc |-> a.resolve_loc]
  <2> DEFINE d == [a EXCEPT !.bucket_count = buckets]
  <2>1. c = [d EXCEPT !.kernel_ips = IF b = "kernel" THEN @ \cup {ip} ELSE @]
    BY Zenon
  <2> HIDE DEF c, b, buckets
  <2>2. d = [bucket_count |-> buckets, kernel_ips |-> a.kernel_ips,
             line_counts |-> a.line_counts, attributed |-> a.attributed,
             unattributed |-> a.unattributed,
             resolve_ok |-> a.resolve_ok, resolve_loc |-> a.resolve_loc]
    BY <1>1 DEF IsResult
  <2> HIDE DEF d
  <2> QED
    BY <2>1, <2>2
<1>4. /\ b \in Buckets /\ (b = "target" <=> ip \in InText)
      /\ b = "target" => ip \in DOMAIN source
      /\ source \in [DOMAIN source -> Sites \cup {NoSite}]
  BY ClassifyIs DEF Located
<1>5. /\ buckets \in [Buckets -> Nat] /\ Total(buckets) = Total(a.bucket_count) + 1
      /\ buckets["target"] = a.bucket_count["target"] + (IF ip \in InText THEN 1 ELSE 0)
  <2> HIDE DEF b
  <2> QED
    BY <1>1, <1>4 DEF Buckets, Total
<1>6. ips \subseteq Addresses
  BY <1>1
<1> HIDE DEF buckets, ips, b, new
<1>7. /\ IsResult(c) /\ Agrees(c) /\ CacheTyped(c) /\ Tally(c) = Tally(a)
      /\ c.bucket_count = buckets /\ c.kernel_ips = ips
      /\ c.line_counts = a.line_counts
      /\ c.attributed = a.attributed /\ c.unattributed = a.unattributed
  <2> HIDE DEF c
  <2> QED
    BY <1>1, <1>3 DEF IsResult, Agrees, CacheTyped, Tally
<1> HIDE DEF c
<1>8. Total(buckets) <= MaxSamples(e)
  <2>1. Total(a.bucket_count) \in Nat /\ MaxSamples(e) \in Nat
    BY <1>1, MaxSamplesType DEF Total, Buckets
  <2> QED
    BY <1>5, <2>1
<1>9. CASE b # "target"
  <2>1. new = c
    BY <1>2, <1>9
  <2>2. Tally(new) = Uncached(a, ip)
    BY <1>7, <1>9, <2>1, UncachedIs DEF b
  <2>3. Typed(new, e)
    BY <1>1, <1>5, <1>6, <1>7, <1>8, <2>1 DEF Typed
  <2> QED
    BY <1>5, <1>7, <2>1, <2>2, <2>3 DEF new
<1>10. CASE b = "target"
  <2>1. new = CountLine(c, ip) /\ ip \in DOMAIN source
    BY <1>2, <1>4, <1>10
  <2>2. /\ IsResult(new) /\ Agrees(new)
        /\ new.bucket_count = buckets /\ new.kernel_ips = ips
        /\ new.resolve_ok = Resolve(c, ip).resolve_ok
        /\ new.resolve_loc = Resolve(c, ip).resolve_loc
    BY <1>7, <2>1, CountLineExact
  <2>3. Tally(new) = Uncached(a, ip)
    <3>1. Tally(new) =
              IF source[ip] = NoSite
                THEN [lines |-> c.line_counts, attributed |-> c.attributed,
                      unattributed |-> c.unattributed + 1]
                ELSE [lines |-> Put(c.line_counts, source[ip],
                                    At(c.line_counts, source[ip]) + 1),
                      attributed |-> c.attributed + 1, unattributed |-> c.unattributed]
      BY <1>7, <2>1, CountLineExact
    <3> QED
      BY <1>7, <1>10, <3>1, UncachedIs DEF b
  <2>4. CacheTyped(new)
    <3>1. CacheTyped(Resolve(c, ip))
      BY <1>4, <1>7, <2>1, ResolveType
    <3> QED
      BY <2>2, <3>1 DEF CacheTyped
  <2>5. /\ new.line_counts \in Maps(Sites, Nat \ {0})
        /\ new.attributed \in Nat /\ new.unattributed \in Nat
    <3>1. /\ Tally(new).lines = new.line_counts /\ Tally(new).attributed = new.attributed
          /\ Tally(new).unattributed = new.unattributed
      BY DEF Tally
    <3>2. CASE source[ip] = NoSite
      <4>1. Tally(new) = [lines |-> a.line_counts, attributed |-> a.attributed,
                          unattributed |-> a.unattributed + 1]
        BY <1>10, <2>3, <3>2, UncachedIs DEF b
      <4> QED
        BY <1>1, <3>1, <4>1
    <3>3. CASE source[ip] # NoSite
      <4> DEFINE l == source[ip]
                 n == At(a.line_counts, l) + 1
      <4>1. Tally(new) = [lines |-> Put(a.line_counts, l, n),
                          attributed |-> a.attributed + 1, unattributed |-> a.unattributed]
        BY <1>10, <2>3, <3>3, UncachedIs DEF b
      <4>2. l \in Sites
        BY <1>4, <2>1, <3>3
      <4>3. n \in Nat \ {0}
        BY <1>1, AtIs
      <4> HIDE DEF l, n
      <4>4. Put(a.line_counts, l, n) \in Maps(Sites, Nat \ {0})
        BY <1>1, <4>2, <4>3, PutType
      <4> QED
        BY <1>1, <3>1, <4>1, <4>4
    <3> QED
      BY <3>2, <3>3
  <2>6. Typed(new, e)
    BY <1>5, <1>6, <1>8, <2>2, <2>4, <2>5 DEF Typed
  <2> QED
    BY <1>5, <2>2, <2>3, <2>6 DEF new
<1> QED
  BY <1>9, <1>10

\* And what a counts, and that sample.
LEMMA AfterCounts ==
    ASSUME Located, pc = "attribute", NEW ip \in Addresses, NEW e \in Events, NEW a,
           Typed(a, e), Total(a.bucket_count) < MaxSamples(e),
           NEW f \in [Addresses -> Nat], Counted(a, f)
    PROVE  Counted(After(a, ip), [f EXCEPT ![ip] = @ + 1])
<1> DEFINE new == After(a, ip)
           g == [f EXCEPT ![ip] = @ + 1]
           b == classify(ip)
<1>1. \A A \in SUBSET Addresses : SumOver(g, A) = SumOver(f, A) + (IF ip \in A THEN 1 ELSE 0)
  BY OneMore
<1>2. InText \in SUBSET Addresses /\ \A s : OfLine(s) \in SUBSET Addresses
  BY InTextType DEF Located
<1>3. /\ b = "target" <=> ip \in InText
      /\ b = "target" => ip \in DOMAIN source
      /\ source \in [DOMAIN source -> Sites \cup {NoSite}]
  BY ClassifyIs DEF Located
<1>4. /\ Total(new.bucket_count) = Total(a.bucket_count) + 1
      /\ new.bucket_count["target"] = a.bucket_count["target"] + (IF ip \in InText THEN 1 ELSE 0)
      /\ Tally(new) = Uncached(a, ip)
  BY AfterIs
<1>5. /\ Tally(new).lines = new.line_counts /\ Tally(new).attributed = new.attributed
      /\ Tally(new).unattributed = new.unattributed
  BY DEF Tally
<1>6. a.attributed \in Nat /\ a.unattributed \in Nat /\ a.line_counts \in Maps(Sites, Nat \ {0})
  BY DEF Typed
<1> HIDE DEF new, g, b
<1>7. /\ Total(new.bucket_count) = SumOver(g, Addresses)
      /\ new.bucket_count["target"] = SumOver(g, InText)
  BY <1>1, <1>2, <1>4 DEF Counted
<1>8. /\ new.attributed + new.unattributed =
             a.attributed + a.unattributed + (IF ip \in InText THEN 1 ELSE 0)
      /\ \A s \in Sites : At(new.line_counts, s) =
             At(a.line_counts, s) + (IF ip \in OfLine(s) THEN 1 ELSE 0)
  <2>1. \A s \in Sites : At(a.line_counts, s) \in Nat
    BY <1>6, AtIs
  <2>2. CASE b # "target"
    <3>1. Tally(new) = Tally(a)
      BY <1>4, <2>2, UncachedIs DEF b
    <3>2. /\ new.line_counts = a.line_counts /\ new.attributed = a.attributed
          /\ new.unattributed = a.unattributed
      BY <1>5, <3>1 DEF Tally
    <3>3. \A s \in Sites : ip \notin OfLine(s)
      BY <1>3, <2>2 DEF OfLine
    <3> QED
      BY <1>3, <1>6, <2>1, <2>2, <3>2, <3>3
  <2>3. CASE b = "target" /\ source[ip] = NoSite
    <3>1. Tally(new) = [lines |-> a.line_counts, attributed |-> a.attributed,
                        unattributed |-> a.unattributed + 1]
      BY <1>4, <2>3, UncachedIs DEF b
    <3>2. /\ new.line_counts = a.line_counts /\ new.attributed = a.attributed
          /\ new.unattributed = a.unattributed + 1
      BY <1>5, <3>1
    <3>3. \A s \in Sites : ip \notin OfLine(s)
      BY <2>3, ReportAssumption DEF OfLine
    <3> QED
      BY <1>3, <1>6, <2>1, <2>3, <3>2, <3>3
  <2>4. CASE b = "target" /\ source[ip] # NoSite
    <3> DEFINE l == source[ip]
               n == At(a.line_counts, l) + 1
    <3>1. Tally(new) = [lines |-> Put(a.line_counts, l, n),
                        attributed |-> a.attributed + 1, unattributed |-> a.unattributed]
      BY <1>4, <2>4, UncachedIs DEF b
    <3>2. /\ new.line_counts = Put(a.line_counts, l, n) /\ new.attributed = a.attributed + 1
          /\ new.unattributed = a.unattributed
      <4> HIDE DEF l, n
      <4> QED
        BY <1>5, <3>1
    <3>3. \A s \in Sites : ip \in OfLine(s) <=> s = l
      BY <1>3, <2>4 DEF OfLine
    <3>4. \A s \in Sites : At(new.line_counts, s) = IF s = l THEN n ELSE At(a.line_counts, s)
      <4> HIDE DEF l, n
      <4> QED
        BY <3>2, AtPut
    <3>5. l \in Sites
      BY <1>3, <2>4
    <3> QED
      BY <1>3, <1>6, <2>1, <2>4, <3>2, <3>3, <3>4, <3>5
  <2> QED
    BY <2>2, <2>3, <2>4
<1>9. \A s \in Sites : At(new.line_counts, s) = SumOver(g, OfLine(s))
  BY <1>1, <1>2, <1>8 DEF Counted
<1>10. new.attributed + new.unattributed = SumOver(g, InText)
  BY <1>1, <1>2, <1>8 DEF Counted
<1> QED
  BY <1>7, <1>9, <1>10 DEF Counted, new, g

\* The next sample of an event keeps the invariant, and is counted as if there were no cache.
LEMMA AttributeInv ==
    ASSUME Inv, NEW ip \in Addresses, Attribute(ip)
    PROVE  Inv' /\ Tally(attr'[event]) = Uncached(attr[event], ip)
<1> DEFINE new == After(attr[event], ip)
           more == [seen[event] EXCEPT ![ip] = @ + 1]
<1>1. /\ event \in Events /\ pc = "attribute" /\ pc' = pc /\ event' = event
      /\ Total(attr[event].bucket_count) < MaxSamples(event)
      /\ phdrs' = phdrs /\ target' = target /\ source' = source
      /\ ranked' = ranked /\ by_raw' = by_raw /\ insufficient' = insufficient
  BY DEF Attribute, target_vars, Inv
<1>2. attr' = [attr EXCEPT ![event] = new] /\ seen' = [seen EXCEPT ![event] = more]
  BY Zenon DEF Attribute, After
<1>3. /\ Located /\ attr = [e \in Events |-> attr[e]] /\ seen \in [Events -> [Addresses -> Nat]]
      /\ \A e \in Events : Typed(attr[e], e) /\ Counted(attr[e], seen[e])
  BY DEF Inv
<1>4. Typed(new, event) /\ Tally(new) = Uncached(attr[event], ip)
  BY <1>1, <1>3, AfterIs
<1>5. Counted(new, more)
  BY <1>1, <1>3, AfterCounts
<1>6. more \in [Addresses -> Nat]
  BY <1>1, <1>3
<1> HIDE DEF new, more
<1>7. attr'[event] = new /\ \A e \in Events : e # event => attr'[e] = attr[e]
  BY <1>1, <1>2, <1>3
<1>8. seen'[event] = more /\ \A e \in Events : e # event => seen'[e] = seen[e]
  BY <1>1, <1>2, <1>3
<1>9. attr' = [e \in Events |-> attr'[e]] /\ seen' \in [Events -> [Addresses -> Nat]]
  BY <1>1, <1>2, <1>3, <1>6
<1>10. \A e \in Events : Typed(attr'[e], e) /\ Counted(attr'[e], seen'[e])
  BY <1>3, <1>4, <1>5, <1>7, <1>8
<1>11. \A e \in Events : (Typed(attr[e], e) /\ Counted(attr[e], seen[e]))'
  <2> SUFFICES ASSUME NEW e \in Events
               PROVE  Typed(attr[e], e)' /\ Counted(attr[e], seen[e])'
    OBVIOUS
  <2>1. Typed(attr'[e], e) /\ Counted(attr'[e], seen'[e])
    BY <1>10
  <2>2. (IsResult(attr[e]) /\ Agrees(attr[e]) /\ CacheTyped(attr[e]))'
    BY <1>1, <2>1 DEF Typed, IsResult, Agrees, CacheTyped
  <2>3. Typed(attr[e], e)'
    BY <2>1, <2>2 DEF Typed
  <2>4. Counted(attr[e], seen[e])'
    BY <1>1, <2>1 DEF Counted, InText, OfLine
  <2> QED
    BY <2>3, <2>4
<1>12. Located'
  BY <1>1, <1>3 DEF Located
<1>13. Inv'
  BY <1>1, <1>9, <1>11, <1>12 DEF Inv
<1> QED
  BY <1>4, <1>7, <1>13

\* Results and counts stay what they are while they and the target do.
LEMMA SameResults ==
    ASSUME \A e \in Events : Typed(attr[e], e) /\ Counted(attr[e], seen[e]),
           phdrs' = phdrs, source' = source, attr' = attr, seen' = seen
    PROVE  (\A e \in Events : Typed(attr[e], e) /\ Counted(attr[e], seen[e]))'
<1> SUFFICES ASSUME NEW e \in Events
             PROVE  Typed(attr[e], e)' /\ Counted(attr[e], seen[e])'
  OBVIOUS
<1>1. Typed(attr[e], e) /\ Counted(attr[e], seen[e])
  OBVIOUS
<1>2. (IsResult(attr[e]) /\ Agrees(attr[e]) /\ CacheTyped(attr[e]))'
  BY <1>1 DEF Typed, IsResult, Agrees, CacheTyped
<1>3. Typed(attr[e], e)'
  BY <1>1, <1>2 DEF Typed
<1>4. Counted(attr[e], seen[e])'
  BY <1>1 DEF Counted, InText, OfLine
<1> QED
  BY <1>3, <1>4

\* It holds before the headers are read.
LEMMA InitInv == Init => Inv
<1> SUFFICES ASSUME Init PROVE Inv
  OBVIOUS
<1>1. /\ phdrs \in HeaderTables /\ target = NoRange /\ source = << >> /\ pc = "headers"
      /\ event \in Events /\ attr = [e \in Events |-> Empty]
      /\ seen = [e \in Events |-> [ip \in Addresses |-> 0]]
      /\ ranked = << >> /\ by_raw = << >> /\ insufficient = {}
  BY DEF Init, Events, None
<1>2. Nothing
  BY <1>1 DEF Nothing
<1>3. \A e \in Events : Typed(attr[e], e) /\ Counted(attr[e], seen[e])
  BY <1>1, <1>2, NothingIs
<1>4. Located
  <2>1. NoRange \in Ranges /\ Addresses \cap NoRange.lo..(NoRange.hi - 1) = {}
    BY DEF NoRange, Ranges
  <2>2. << >> \in [{} -> Sites \cup {NoSite}]
    OBVIOUS
  <2> QED
    BY <1>1, <2>1, <2>2 DEF Located
<1>5. attr = [e \in Events |-> attr[e]] /\ seen \in [Events -> [Addresses -> Nat]]
  BY <1>1
<1> QED
  BY <1>1, <1>2, <1>3, <1>4, <1>5 DEF Inv

\* Once the headers are read there is debug information to ask, and still nothing counted.
LEMMA ReadHeadersInv == Inv /\ ReadHeaders => Inv'
<1> SUFFICES ASSUME Inv, ReadHeaders PROVE Inv'
  OBVIOUS
<1> DEFINE out == get_target_text_range(phdrs)
<1>1. /\ pc = "headers" /\ phdrs' = phdrs /\ event' = event /\ attr' = attr /\ seen' = seen
      /\ ranked' = ranked /\ by_raw' = by_raw /\ insufficient' = insufficient
      /\ IF out.found
           THEN /\ target' = out /\ pc' = "attribute"
                /\ source' \in [Addresses \cap out.lo..(out.hi - 1) -> Sites \cup {NoSite}]
           ELSE pc' = "failed" /\ target' = target /\ source' = source
  BY DEF ReadHeaders
<1>2. /\ Located /\ Nothing /\ event \in Events /\ seen \in [Events -> [Addresses -> Nat]]
      /\ attr = [e \in Events |-> attr[e]]
      /\ ranked = << >> /\ by_raw = << >> /\ insufficient = {}
  BY <1>1 DEF Inv
<1>3. phdrs \in Seq(Headers)
  BY <1>2, ReportAssumption DEF Located, Headers
<1>4. out \in Ranges
  BY <1>3, RangeIs
<1>5. Located'
  <2> HIDE DEF out
  <2>1. CASE out.found
    BY <1>1, <1>2, <1>4, <2>1 DEF Located, out
  <2>2. CASE ~out.found
    BY <1>1, <1>2, <2>2 DEF Located
  <2> QED
    BY <2>1, <2>2
<1>6. Nothing' /\ (phdrs \in HeaderTables)'
  BY <1>1, <1>2 DEF Nothing, Located
<1>7. (\A e \in Events : Typed(attr[e], e) /\ Counted(attr[e], seen[e]))'
  BY <1>6, NothingIs, PTL
<1> QED
  BY <1>1, <1>2, <1>5, <1>6, <1>7 DEF Inv

\* The end of an event's samples changes nothing that the invariant is about.
LEMMA EndOfSamplesInv == Inv /\ EndOfSamples => Inv'
<1> SUFFICES ASSUME Inv, EndOfSamples PROVE Inv'
  OBVIOUS
<1>1. /\ pc = "attribute" /\ pc' \in {"attribute", "rank"} /\ event' \in Events
      /\ phdrs' = phdrs /\ target' = target /\ source' = source /\ attr' = attr /\ seen' = seen
      /\ ranked' = ranked /\ by_raw' = by_raw /\ insufficient' = insufficient
  BY DEF EndOfSamples, target_vars, Inv, Events
<1>2. /\ Located /\ \A e \in Events : Typed(attr[e], e) /\ Counted(attr[e], seen[e])
      /\ attr = [e \in Events |-> attr[e]] /\ seen \in [Events -> [Addresses -> Nat]]
      /\ ranked = << >> /\ by_raw = << >> /\ insufficient = {}
  BY <1>1 DEF Inv
<1>3. Located'
  BY <1>1, <1>2 DEF Located
<1>4. (\A e \in Events : Typed(attr[e], e) /\ Counted(attr[e], seen[e]))'
  BY <1>1, <1>2, SameResults
<1> QED
  BY <1>1, <1>2, <1>3, <1>4 DEF Inv

\* A sequence of all elements of a finite set, each once.
LEMMA SetToSeqsIs ==
    ASSUME NEW S, IsFiniteSet(S), NEW q \in SetToSeqs(S)
    PROVE  Lists(q, S)
<1> DEFINE D == 1..Cardinality(S)
<1>1. q \in [D -> S] /\ \A i, j \in D : i # j => q[i] # q[j]
  BY DEF SetToSeqs
<1>2. Cardinality(S) \in Nat
  BY FS_CardinalityType
<1>3. IsFiniteSet(D) /\ Cardinality(D) = Cardinality(S)
  BY <1>2, FS_Interval
<1>4. IsInjective(q) /\ q \in Injection(D, S)
  BY <1>1 DEF IsInjective, Injection
<1>5. q \in Surjection(D, S)
  BY <1>3, <1>4, FS_Injection
<1>6. ToSet(q) = S
  BY <1>1, <1>5 DEF Surjection, ToSet
<1>7. q \in Seq(S)
  BY <1>1, <1>2
<1> QED
  BY <1>4, <1>6, <1>7 DEF Lists

\* The ranking is what Ranking says.
LEMMA RankInv == Inv /\ Rank => Inv'
<1> SUFFICES ASSUME Inv, Rank PROVE Inv'
  OBVIOUS
<1> DEFINE rest == AllSites \ insufficient'
           missed == DOMAIN attr[0].line_counts
<1>1. /\ pc = "rank" /\ pc' = "done" /\ event' = event
      /\ phdrs' = phdrs /\ target' = target /\ source' = source /\ attr' = attr /\ seen' = seen
      /\ insufficient' = {s \in AllSites : Gated(s)}
      /\ ranked' \in SetToSeqs(rest) /\ by_raw' \in SetToSeqs(missed)
      /\ \A i, j \in DOMAIN ranked' : i < j => Before(ranked'[i], ranked'[j])
  BY DEF Rank, target_vars, Sorted
<1>2. /\ Located /\ \A e \in Events : Typed(attr[e], e) /\ Counted(attr[e], seen[e])
      /\ attr = [e \in Events |-> attr[e]] /\ seen \in [Events -> [Addresses -> Nat]]
  BY DEF Inv
<1>3. Located'
  BY <1>1, <1>2 DEF Located
<1>4. (\A e \in Events : Typed(attr[e], e) /\ Counted(attr[e], seen[e]))'
  BY <1>1, <1>2, SameResults
<1>5. IsFiniteSet(rest) /\ IsFiniteSet(missed)
  <2>1. \A e \in Events : DOMAIN attr[e].line_counts \subseteq Sites
    BY <1>2, AtIs DEF Typed
  <2>2. missed \subseteq Sites /\ rest \subseteq Sites
    BY <2>1 DEF AllSites, Events
  <2> HIDE DEF rest, missed
  <2> QED
    BY <2>2, ReportAssumption, FS_Subset
<1>6. Lists(ranked', rest) /\ Lists(by_raw', missed)
  BY <1>1, <1>5, SetToSeqsIs
<1>7. Ranking'
  BY <1>1, <1>6 DEF Ranking, Lists, AllSites, Gated, Before, Concentration, m_, n_
<1> QED
  BY <1>1, <1>2, <1>3, <1>4, <1>7 DEF Inv

\* Each step keeps it.
LEMMA NextInv == Inv /\ [Next]_vars => Inv'
<1> SUFFICES ASSUME Inv, [Next]_vars PROVE Inv'
  OBVIOUS
<1>1. CASE ReadHeaders
  BY <1>1, ReadHeadersInv
<1>2. CASE \E ip \in Addresses : Attribute(ip)
  BY <1>2, AttributeInv
<1>3. CASE EndOfSamples
  BY <1>3, EndOfSamplesInv
<1>4. CASE Rank
  BY <1>4, RankInv
<1>5. CASE Done \/ UNCHANGED vars
  <2>1. /\ pc' = pc /\ event' = event /\ phdrs' = phdrs /\ target' = target /\ source' = source
        /\ attr' = attr /\ seen' = seen
        /\ ranked' = ranked /\ by_raw' = by_raw /\ insufficient' = insufficient
    BY <1>5 DEF Done, vars, target_vars
  <2>2. /\ Located /\ \A e \in Events : Typed(attr[e], e) /\ Counted(attr[e], seen[e])
    BY DEF Inv
  <2>3. Located'
    BY <2>1, <2>2 DEF Located
  <2>4. (\A e \in Events : Typed(attr[e], e) /\ Counted(attr[e], seen[e]))'
    BY <2>1, <2>2, SameResults
  <2>5. pc = "done" => Ranking'
    BY <2>1 DEF Inv, Ranking, Lists, AllSites, Gated, Before, Concentration, m_, n_
  <2>6. pc \in {"headers", "failed"} => Nothing'
    BY <2>1 DEF Inv, Nothing
  <2> QED
    BY <2>1, <2>3, <2>4, <2>5, <2>6 DEF Inv
<1> QED
  BY <1>1, <1>2, <1>3, <1>4, <1>5 DEF Next

\* The inductive invariant.
THEOREM Invariance == Spec => []Inv
  BY InitInv, NextInv, PTL DEF Spec

-----------------------------------------------------------------------------
\* Squares keep the order of their roots.
LEMMA SquareLess ==
    ASSUME NEW a \in Nat, NEW b \in Nat, a * a < b * b
    PROVE  a < b
<1> SUFFICES ASSUME b <= a PROVE FALSE
  OBVIOUS
<1>1. b * b <= a * b /\ a * b <= a * a
  OBVIOUS
<1> QED
  BY <1>1

LEMMA SquareLe ==
    ASSUME NEW a \in Nat, NEW b \in Nat, a <= b
    PROVE  a * a <= b * b
<1>1. a * a <= a * b /\ a * b <= b * b
  OBVIOUS
<1> QED
  BY <1>1

\* Where a sequence of numbers last does not exceed x before it does, or ends.
StartsBelow(f, a, b, x) == a \in Int /\ b \in Int /\ a <= b /\ f[a] <= x

LEMMA LastBelow ==
    ASSUME NEW a, NEW b, NEW f, NEW x, StartsBelow(f, a, b, x)
    PROVE  \E k \in a..b : f[k] <= x /\ (k = b \/ ~(f[k + 1] <= x))
<1> DEFINE T == {k \in a..b : f[k] <= x}
           k == Max(T)
<1>1. a \in Int /\ b \in Int /\ T \in SUBSET (a..b) /\ T # {}
  BY DEF StartsBelow
<1>2. IsFiniteSet(a..b)
  BY <1>1, FS_Interval
<1>3. k \in T /\ \A y \in T : k >= y
  <2> HIDE DEF T
  <2>1. IsFiniteSet(T)
    BY <1>1, <1>2, FS_Subset, Zenon
  <2>2. T \subseteq Int
    BY <1>1
  <2> QED
    BY <1>1, <2>1, <2>2, MaxExists, Zenon
<1> HIDE DEF k
<1>4. k \in a..b /\ f[k] <= x
  BY <1>3
<1>5. k + 1 \in a..b => k + 1 \notin T
  BY <1>1, <1>3, <1>4
<1>6. k = b \/ k + 1 \in a..b
  BY <1>1, <1>4
<1> QED
  BY <1>4, <1>5, <1>6

\* Sqrt() is the square root, rounded down, of all that it is asked for.
LEMMA SqrtIs ==
    ASSUME NEW x \in Nat, x < (2048 * (MaxCount + 1) + 64) * (2048 * (MaxCount + 1) + 64)
    PROVE  /\ Sqrt(x) \in Nat
           /\ Sqrt(x) * Sqrt(x) <= x /\ x < (Sqrt(x) + 1) * (Sqrt(x) + 1)
<1> DEFINE K == 32 * (MaxCount + 1)
           P(s) == s * s <= x /\ x < (s + 64) * (s + 64)
           Q(r) == r * r <= x /\ x < (r + 1) * (r + 1)
<1>1. K \in Nat /\ 2048 * (MaxCount + 1) = 64 * K
  BY ReportAssumption
<1>2. Multiples = {64 * k : k \in 0..K}
  BY DEF Multiples
<1> HIDE DEF K
<1>3. \E s \in Multiples : P(s)
  <2> DEFINE f == [k \in Int |-> (64 * k) * (64 * k)]
  <2>1. f[0] <= x
    OBVIOUS
  <2>2. PICK k \in 0..K : f[k] <= x /\ (k = K \/ ~(f[k + 1] <= x))
    <3>1. StartsBelow(f, 0, K, x)
      BY <1>1, <2>1 DEF StartsBelow
    <3> HIDE DEF f
    <3> QED
      BY <3>1, LastBelow
  <2>3. (64 * k) * (64 * k) <= x /\ k \in Nat
    BY <2>2
  <2>4. x < (64 * k + 64) * (64 * k + 64)
    <3>1. CASE k = K
      BY <1>1, <3>1
    <3>2. CASE ~(f[k + 1] <= x)
      <4>1. ~((64 * (k + 1)) * (64 * (k + 1)) <= x)
        BY <2>3, <3>2
      <4>2. 64 * (k + 1) = 64 * k + 64
        BY <2>3
      <4> QED
        BY <2>3, <4>1, <4>2
    <3> QED
      BY <2>2, <3>1, <3>2
  <2>5. 64 * k \in Multiples
    BY <1>2
  <2> QED
    BY <2>3, <2>4, <2>5
<1> DEFINE s == CHOOSE z \in Multiples : P(z)
<1>4. s \in Multiples /\ P(s)
  <2> HIDE DEF P
  <2> QED
    BY <1>3
<1>5. s \in Nat
  <2> HIDE DEF s
  <2>1. \A k \in 0..K : 64 * k \in Nat
    BY <1>1
  <2> QED
    BY <1>2, <1>4, <2>1
<1> HIDE DEF s
<1>6. \E r \in s..(s + 63) : Q(r)
  <2> DEFINE f == [k \in Int |-> k * k]
             b == s + 63
  <2>1. f[s] <= x
    BY <1>4, <1>5
  <2>2. s \in Int /\ b \in Int /\ s <= b
    BY <1>5
  <2>3. PICK k \in s..b : f[k] <= x /\ (k = b \/ ~(f[k + 1] <= x))
    <3>1. StartsBelow(f, s, b, x)
      BY <2>1, <2>2 DEF StartsBelow
    <3> HIDE DEF f, b
    <3> QED
      BY <3>1, LastBelow
  <2>4. k * k <= x /\ k \in Nat
    BY <1>5, <2>3
  <2>5. x < (k + 1) * (k + 1)
    <3>1. CASE k = b
      <4>1. k + 1 = s + 64
        BY <1>5, <3>1
      <4> QED
        BY <1>4, <4>1
    <3>2. CASE ~(f[k + 1] <= x)
      BY <2>4, <3>2
    <3> QED
      BY <2>3, <3>1, <3>2
  <2> QED
    BY <2>4, <2>5
<1> DEFINE root == CHOOSE r \in s..(s + 63) : Q(r)
<1>7. Sqrt(x) = root
  BY DEF Sqrt, s
<1>8. root \in s..(s + 63) /\ Q(root)
  <2> HIDE DEF Q
  <2> QED
    BY <1>6
<1>9. root \in Nat
  <2> HIDE DEF root
  <2> QED
    BY <1>5, <1>8
<1> HIDE DEF root
<1> QED
  BY <1>7, <1>8, <1>9

-----------------------------------------------------------------------------
\* Division rounds down, also below 0.
LEMMA DivFloor ==
    ASSUME NEW a \in Int, NEW b \in Nat \ {0}
    PROVE  /\ a \div b \in Int
           /\ b * (a \div b) <= a /\ a < b * (a \div b) + b
  OBVIOUS

\* The greater of two fractions has the greater quotient.
LEMMA DivMono ==
    ASSUME NEW a \in Nat, NEW b \in Nat \ {0}, NEW c \in Nat, NEW d \in Nat \ {0},
           a * d <= c * b
    PROVE  a \div b <= c \div d
<1> DEFINE p == a \div b
           q == c \div d
<1>1. p \in Int /\ b * p <= a /\ q \in Int /\ c < d * q + d
  BY DivFloor
<1> HIDE DEF p, q
<1> SUFFICES ASSUME q + 1 <= p PROVE FALSE
  BY <1>1 DEF p, q
<1>2. d * (b * p) <= d * a
  BY <1>1
<1>3. b * c < b * (d * q + d)
  BY <1>1
<1>4. b * (d * q + d) = (d * b) * (q + 1) /\ d * (b * p) = (d * b) * p
  BY <1>1
<1>5. (d * b) * (q + 1) <= (d * b) * p
  BY <1>1
<1>6. d * a = a * d /\ b * c = c * b
  OBVIOUS
<1> QED
  BY <1>1, <1>2, <1>3, <1>4, <1>5, <1>6

\* The quotient under the root, when there are no more misses than accesses, and when there are.
LEMMA QuotientIs ==
    ASSUME NEW c \in Nat, NEW m \in Nat, NEW n \in Nat \ {0}, m <= n
    PROVE  /\ (c * m * (n - m)) \div n \in 0..(c * m)
           /\ n * ((c * m * (n - m)) \div n) <= c * (m * (n - m))
           /\ c * (m * (n - m)) < n * ((c * m * (n - m)) \div n) + n
<1> DEFINE num == c * m * (n - m)
           q == num \div n
           k == c * m
<1>1. num = c * (m * (n - m)) /\ num \in Nat
  <2>1. m * (n - m) \in Nat
    OBVIOUS
  <2> QED
    BY <2>1
<1>2. q \in Int /\ n * q <= num /\ num < n * q + n
  BY <1>1, DivFloor
<1>3. num <= n * k
  <2>1. m * (n - m) <= m * n
    OBVIOUS
  <2>2. c * (m * (n - m)) <= c * (m * n)
    BY <2>1
  <2>3. c * (m * n) = n * (c * m)
    OBVIOUS
  <2> QED
    BY <1>1, <2>2, <2>3
<1>4. k \in Nat
  OBVIOUS
<1> HIDE DEF num, q, k
<1>5. q >= 0
  <2> SUFFICES ASSUME q <= -1 PROVE FALSE
    BY <1>2
  <2>1. n * q <= n * (-1)
    BY <1>2
  <2> QED
    BY <1>1, <1>2, <2>1
<1>6. q <= k
  <2> SUFFICES ASSUME k + 1 <= q PROVE FALSE
    BY <1>2, <1>4
  <2>1. n * (k + 1) <= n * q
    BY <1>2, <1>4
  <2>2. n * (k + 1) = n * k + n
    BY <1>4
  <2>3. n * k \in Int /\ n * q \in Int /\ num \in Int
    BY <1>1, <1>2, <1>4
  <2> QED
    BY <1>2, <1>3, <2>1, <2>2, <2>3
<1> QED
  BY <1>1, <1>2, <1>5, <1>6 DEF num, q, k

\* The quotient under the root if misses outnumber accesses.
LEMMA QuotientNegative ==
    ASSUME NEW c \in Nat, NEW m \in Nat, NEW n \in Nat \ {0}, n < m
    PROVE  /\ (c * m * (n - m)) \div n \in Int
           /\ (c * m * (n - m)) \div n <= -c
<1> DEFINE num == c * m * (n - m)
           q == num \div n
<1>1. num = c * (m * (n - m)) /\ num \in Int
  OBVIOUS
<1>2. q \in Int /\ n * q <= num
  BY <1>1, DivFloor
<1>3. m * (n - m) <= -n
  <2>1. m * (n - m) <= m * (-1)
    OBVIOUS
  <2> QED
    BY <2>1
<1>4. num <= c * (-n)
  <2> DEFINE p == m * (n - m)
  <2>1. p \in Int /\ p <= -n
    BY <1>3
  <2> HIDE DEF p
  <2>2. c * p <= c * (-n)
    BY <2>1
  <2> QED
    BY <1>1, <2>2 DEF p
<1> HIDE DEF num, q
<1> SUFFICES ASSUME -c + 1 <= q PROVE FALSE
  BY <1>2 DEF num, q
<1>5. n * (-c + 1) <= n * q
  BY <1>2
<1>6. n * (-c + 1) = c * (-n) + n
  OBVIOUS
<1>7. n * q \in Int /\ num \in Int /\ c * (-n) \in Int
  BY <1>1, <1>2
<1> QED
  BY <1>2, <1>4, <1>5, <1>6, <1>7

-----------------------------------------------------------------------------
\* The root that wilson_lower_bound() subtracts, and the quotient under it.
Spread(m, n) == Sqrt(Variance(m, n))
Quot(m, n) == (3841600 * m * (n - m)) \div n

\* The root is that of a variance, and small enough for the bound not to be negative.
LEMMA SpreadIs ==
    ASSUME NEW m \in 0..MaxCount, NEW n \in 1..MaxCount
    PROVE  /\ Spread(m, n) \in 0..(1000 * m + 1921)
           /\ Variance(m, n) \in Nat
           /\ Spread(m, n) * Spread(m, n) <= Variance(m, n)
           /\ Variance(m, n) < (Spread(m, n) + 1) * (Spread(m, n) + 1)
           /\ n < m => Spread(m, n) = 0
           /\ m <= n => /\ Quot(m, n) \in Nat
                       /\ n * Quot(m, n) <= 3841600 * (m * (n - m))
                       /\ 3841600 * (m * (n - m)) < n * Quot(m, n) + n
                       /\ Variance(m, n) = Quot(m, n) + 3689473
                       /\ Spread(m, n) >= 1920
<1> DEFINE q == Quot(m, n)
           v == Variance(m, n)
           s == Spread(m, n)
<1>1. m \in Nat /\ n \in Nat \ {0} /\ MaxCount \in Nat /\ m <= MaxCount
  BY ReportAssumption
<1>2. v = IF q + 3689473 > 0 THEN q + 3689473 ELSE 0
  BY DEF Variance, Quot
<1>3. n < m => q \in Int /\ q <= -3841600
  BY <1>1, QuotientNegative DEF Quot
<1>4. m <= n => /\ q \in 0..(3841600 * m)
                /\ n * q <= 3841600 * (m * (n - m))
                /\ 3841600 * (m * (n - m)) < n * q + n
  BY <1>1, QuotientIs DEF Quot
<1> HIDE DEF q, v
<1>5. /\ v \in 0..(3841600 * m + 3689473)
      /\ n < m => v = 0
      /\ m <= n => v = q + 3689473 /\ q \in Nat
  BY <1>1, <1>2, <1>3, <1>4, SMT
<1>6. v < (2048 * (MaxCount + 1) + 64) * (2048 * (MaxCount + 1) + 64)
  <2> DEFINE b == MaxCount + 1
  <2>1. v <= 3841600 * b
    BY <1>1, <1>5, SMT
  <2>2. b \in Nat /\ b >= 1 /\ b <= b * b
    BY <1>1
  <2> DEFINE bb == b * b
  <2>3. (2048 * b + 64) * (2048 * b + 64) = 4194304 * bb + 262144 * b + 4096
    BY <2>2, SMT
  <2> HIDE DEF b, bb
  <2>4. 3841600 * b < 4194304 * bb + 262144 * b + 4096
    BY <2>2, SMT DEF bb
  <2>5. v \in Int /\ bb \in Int /\ b \in Int
    BY <1>5, <2>2, SMT DEF bb
  <2>6. v < (2048 * b + 64) * (2048 * b + 64)
    BY <2>1, <2>3, <2>4, <2>5, SMT
  <2> QED
    BY <2>6, SMT DEF b
<1>7. s \in Nat /\ s * s <= v /\ v < (s + 1) * (s + 1)
  <2>1. v \in Nat
    BY <1>5, SMT
  <2> QED
    BY <1>6, <2>1, SqrtIs, SMT DEF Spread, v
<1> HIDE DEF s
<1>8. s <= 1000 * m + 1921
  <2> DEFINE b == 1000 * m + 1922
  <2>1. b * b = 1000000 * (m * m) + 3844000 * m + 3694084 /\ m * m \in Nat /\ b \in Nat
    BY <1>1, SMT
  <2> HIDE DEF b
  <2>2. s * s < b * b
    <3>1. s * s \in Int /\ b * b \in Int
      BY <1>7, <2>1, SMT
    <3> QED
      BY <1>1, <1>5, <1>7, <2>1, <3>1, SMT
  <2>3. s < b
    BY <1>7, <2>1, <2>2, SquareLess
  <2> QED
    BY <1>1, <1>7, <2>3, SMT DEF b
<1>9. n < m => s = 0
  <2> SUFFICES ASSUME n < m, s >= 1 PROVE FALSE
    BY <1>7, SMT
  <2>1. 1 * 1 <= s * s
    BY <1>7, SquareLe, SMT
  <2> QED
    BY <1>5, <1>7, <2>1, SMT
<1>10. m <= n => s >= 1920
  <2> SUFFICES ASSUME m <= n, s + 1 <= 1920 PROVE FALSE
    BY <1>7, SMT
  <2>1. (s + 1) * (s + 1) <= 1920 * 1920
    <3>1. s + 1 \in Nat /\ 1920 \in Nat
      BY <1>7, SMT
    <3> QED
      BY <3>1, SquareLe, SMT
  <2> QED
    BY <1>5, <1>7, <2>1, SMT
<1> QED
  BY <1>1, <1>4, <1>5, <1>7, <1>8, <1>9, <1>10, SMT DEF q, v, s

\* The parts of it that need no arithmetic.
LEMMA SpreadType ==
    ASSUME NEW m \in 0..MaxCount, NEW n \in 1..MaxCount
    PROVE  Spread(m, n) \in Nat /\ (n < m => Spread(m, n) = 0)
<1>1. Spread(m, n) \in 0..(1000 * m + 1921) /\ (n < m => Spread(m, n) = 0)
  BY SpreadIs, SMT
<1> QED
  BY <1>1

\* It is never less than the 1920 that z2 / 4 leaves,
LEMMA SpreadFloor ==
    ASSUME NEW m \in 0..MaxCount, NEW n \in 1..MaxCount, m <= n
    PROVE  Spread(m, n) >= 1920
<1>1. Variance(m, n) \in Nat /\ Spread(m, n) >= 1920
  BY SpreadIs, SMT
<1> QED
  BY <1>1

\* and no more if every access is a miss.
LEMMA SpreadAll ==
    ASSUME NEW n \in 1..MaxCount
    PROVE  Spread(n, n) = 1920
<1> DEFINE s == Spread(n, n)
<1>1. n \in 0..MaxCount /\ n \in Nat
  BY ReportAssumption, SMT
<1>2. /\ s * s <= Variance(n, n) /\ s >= 1920 /\ Quot(n, n) \in Nat
      /\ Variance(n, n) = Quot(n, n) + 3689473 /\ n * Quot(n, n) <= 3841600 * (n * (n - n))
  BY <1>1, SpreadIs, SMT
<1>3. s \in Nat
  BY <1>1, SpreadType, SMT
<1> DEFINE q == Quot(n, n)
<1> HIDE DEF s, q
<1>4. q = 0
  <2>1. n * q <= 0 /\ q \in Nat
    BY <1>1, <1>2, SMT DEF q
  <2> SUFFICES ASSUME 1 <= q PROVE FALSE
    BY <2>1
  <2>2. n * 1 <= n * q
    BY <1>1, <2>1
  <2> QED
    BY <2>1, <2>2
<1>5. s <= 1920
  <2> SUFFICES ASSUME 1921 <= s PROVE FALSE
    BY <1>3
  <2>1. 1921 * 1921 <= s * s
    BY <1>3, SquareLe, SMT
  <2> QED
    BY <1>2, <1>3, <1>4, <2>1, SMT DEF q
<1> QED
  BY <1>2, <1>3, <1>5 DEF s

\* The numerator of wilson_lower_bound(), and wilson_lower_bound() as a quotient.
Excess(m, n) == 1000 * m + 1921 - Spread(m, n)

\* The bound is a quotient of natural numbers.
LEMMA BoundIs ==
    ASSUME NEW m \in 0..MaxCount, NEW n \in 1..MaxCount
    PROVE  /\ Excess(m, n) \in Nat
           /\ 1000 * Excess(m, n) \in Nat
           /\ 1000 * n + 3842 \in Nat \ {0}
           /\ wilson_lower_bound[<<m, n>>] = (1000 * Excess(m, n)) \div (1000 * n + 3842)
           /\ wilson_lower_bound[<<m, n>>] \in Int
<1> DEFINE s == Sqrt(Variance(m, n))
<1>1. <<m, n>> \in Counts /\ m \in Nat /\ n \in Nat /\ MaxCount \in Nat
  BY ReportAssumption DEF Counts
<1>2. s = Spread(m, n) /\ s \in 0..(1000 * m + 1921)
  BY SpreadIs DEF Spread
<1>3. wilson_lower_bound[<<m, n>>] = Score(m, n, -s)
  BY <1>1 DEF wilson_lower_bound
<1> HIDE DEF s
<1>4. 1000 * m + 1921 + (-s) = Excess(m, n) /\ Excess(m, n) \in Nat
  BY <1>1, <1>2, SMT DEF Excess
<1>5. wilson_lower_bound[<<m, n>>] = (1000 * Excess(m, n)) \div (1000 * n + 3842)
  BY <1>3, <1>4, SMT DEF Score
<1>6. 1000 * Excess(m, n) \in Nat /\ 1000 * n + 3842 \in Nat \ {0}
  BY <1>1, <1>4, SMT
<1> QED
  BY <1>4, <1>5, <1>6, DivFloor, SMT

\* With d more misses the root grows by no more than the numerator does.
LEMMA SpreadGrowth ==
    ASSUME NEW m \in 0..MaxCount, NEW d \in Nat, m + d \in 0..MaxCount, NEW n \in 1..MaxCount
    PROVE  Spread(m + d, n) <= Spread(m, n) + 1000 * d
<1> DEFINE s == Spread(m, n)
           t == Spread(m + d, n)
           q == Quot(m, n)
           p == Quot(m + d, n)
<1> SUFFICES t <= s + 1000 * d
  OBVIOUS
<1>1. m \in Nat /\ n \in Nat \ {0} /\ s \in Nat /\ t \in Nat
  BY SpreadType, ReportAssumption, SMT
<1>2. CASE n < m + d
  <2>1. t = 0
    BY <1>2, SpreadType, SMT
  <2> HIDE DEF s, t
  <2> QED
    BY <1>1, <2>1, SMT
<1>3. CASE d = 0
  <2>1. m + d = m
    BY <1>1, <1>3
  <2>2. t = s
    BY <2>1
  <2> HIDE DEF s, t
  <2> QED
    BY <1>1, <1>3, <2>2, SMT
<1>4. CASE d >= 1 /\ m + d <= n
  <2>1. /\ s * s <= Variance(m, n) /\ Variance(m, n) < (s + 1) * (s + 1)
        /\ q \in Nat /\ 3841600 * (m * (n - m)) < n * q + n
        /\ Variance(m, n) = q + 3689473 /\ s >= 1920
    BY <1>1, <1>4, SpreadIs, SMT
  <2>2. /\ t * t <= Variance(m + d, n)
        /\ p \in Nat /\ n * p <= 3841600 * ((m + d) * (n - (m + d)))
        /\ Variance(m + d, n) = p + 3689473
    BY <1>1, <1>4, SpreadIs, SMT
  <2> HIDE DEF s, t, p, q
  <2>3. (m + d) * (n - (m + d)) - m * (n - m) <= d * n
    <3>1. (m + d) * (n - (m + d)) - m * (n - m) = d * n - (d * m + d * m + d * d)
      BY <1>1, SMT
    <3>2. d * m \in Nat /\ d * d \in Nat /\ d * n \in Nat
      BY <1>1, SMT
    <3> QED
      BY <3>1, <3>2, SMT
  <2>4. n * p - n * q < 3841600 * (d * n) + n
    <3> DEFINE x == (m + d) * (n - (m + d))
               y == m * (n - m)
               z == d * n
               np == n * p
               nq == n * q
    <3>1. x \in Int /\ y \in Int /\ z \in Int /\ np \in Int /\ nq \in Int
      BY <1>1, <2>1, <2>2, SMT
    <3>2. x - y <= z /\ 3841600 * y < nq + n /\ np <= 3841600 * x
      BY <2>1, <2>2, <2>3
    <3> HIDE DEF x, y, z, np, nq
    <3>3. np - nq < 3841600 * z + n
      BY <1>1, <3>1, <3>2, SMT
    <3> QED
      BY <3>3 DEF np, nq, z
  <2>5. p <= q + 3841600 * d
    <3> SUFFICES ASSUME q + 3841600 * d + 1 <= p PROVE FALSE
      BY <2>1, <2>2, SMT
    <3> DEFINE e == q + 3841600 * d + 1
    <3>1. e \in Int /\ n * e <= n * p
      BY <1>1, <2>1, <2>2, SMT
    <3>2. n * e = n * q + 3841600 * (d * n) + n
      BY <1>1, <2>1, SMT
    <3>3. n * e \in Int /\ n * q \in Int /\ n * p \in Int /\ d * n \in Int
      BY <1>1, <2>1, <2>2, SMT
    <3> HIDE DEF e
    <3> QED
      BY <1>1, <2>4, <3>1, <3>2, <3>3, SMT
  <2> DEFINE b == s + 1 + 1000 * d
  <2>6. b * b = (s + 1) * (s + 1) + 2000 * (d * (s + 1)) + 1000000 * (d * d)
    BY <1>1, SMT
  <2>7. 1921 * d <= d * (s + 1)
    BY <1>1, <1>4, <2>1, SMT
  <2>8. d <= d * d /\ d * d \in Int /\ b \in Nat
    BY <1>1, <1>4, SMT
  <2> DEFINE ss == (s + 1) * (s + 1)
             ds == d * (s + 1)
             dd == d * d
             tt == t * t
             bb == b * b
  <2>9. ss \in Int /\ ds \in Int /\ dd \in Int /\ tt \in Int /\ bb \in Int
    BY <1>1, <2>8, SMT
  <2>10. /\ q + 3689473 < ss /\ tt <= p + 3689473
         /\ bb = ss + 2000 * ds + 1000000 * dd /\ 1921 * d <= ds /\ d <= dd
    BY <2>1, <2>2, <2>6, <2>7, <2>8
  <2> HIDE DEF ss, ds, dd, tt, bb, b
  <2>11. tt < bb
    BY <1>1, <2>1, <2>2, <2>5, <2>9, <2>10, SMT
  <2>12. t < b
    BY <1>1, <2>8, <2>11, SquareLess DEF tt, bb
  <2> QED
    BY <1>1, <2>8, <2>12, SMT DEF b
<1> QED
  BY <1>1, <1>2, <1>3, <1>4, SMT

\* The same of the numerator alone.
LEMMA ExcessType ==
    ASSUME NEW m \in 0..MaxCount, NEW n \in 1..MaxCount
    PROVE  Excess(m, n) \in Nat
<1>1. Excess(m, n) \in Nat /\ wilson_lower_bound[<<m, n>>] \in Int
  BY BoundIs, SMT
<1> QED
  BY <1>1

\* More misses never lower the bound.
LEMMA MoreMisses ==
    ASSUME NEW m \in 0..MaxCount, NEW i \in 0..MaxCount, m <= i, NEW n \in 1..MaxCount
    PROVE  wilson_lower_bound[<<m, n>>] <= wilson_lower_bound[<<i, n>>]
<1> DEFINE d == i - m
           a == Excess(m, n)
           c == Excess(i, n)
           b == 1000 * n + 3842
<1>1. d \in Nat /\ m + d = i /\ m \in Nat /\ i \in Nat
  BY ReportAssumption, SMT
<1>2. Spread(i, n) <= Spread(m, n) + 1000 * d
  BY <1>1, SpreadGrowth
<1>3. Spread(i, n) \in Int /\ Spread(m, n) \in Int
  BY SpreadType, SMT
<1>4. a <= c
  <2> DEFINE x == Spread(m, n)
             y == Spread(i, n)
  <2>1. a = 1000 * m + 1921 - x /\ c = 1000 * i + 1921 - y
    BY DEF Excess
  <2>2. x \in Int /\ y \in Int /\ y <= x + 1000 * d
    BY <1>2, <1>3
  <2> HIDE DEF x, y, d, a, c
  <2> QED
    BY <1>1, <2>1, <2>2, SMT
<1>5. 1000 * a \in Nat /\ 1000 * c \in Nat /\ b \in Nat \ {0} /\ a \in Nat /\ c \in Nat
  <2>1. a \in Nat /\ c \in Nat /\ n \in Nat
    BY ExcessType, ReportAssumption
  <2> HIDE DEF a, c
  <2> QED
    BY <2>1, SMT
<1>6. /\ wilson_lower_bound[<<m, n>>] = (1000 * a) \div b
      /\ wilson_lower_bound[<<i, n>>] = (1000 * c) \div b
  BY BoundIs
<1> HIDE DEF a, b, c
<1>7. (1000 * a) * b <= (1000 * c) * b
  BY <1>4, <1>5, SMT
<1> DEFINE x == 1000 * a
           y == 1000 * c
<1>8. x \in Nat /\ y \in Nat /\ x * b <= y * b
  BY <1>5, <1>7
<1> HIDE DEF x, y
<1>9. x \div b <= y \div b
  BY <1>5, <1>8, DivMono
<1> QED
  BY <1>6, <1>9 DEF x, y

\* The quotient does not fall as accesses are added.
LEMMA QuotGrowth ==
    ASSUME NEW m \in Nat, NEW n \in Nat \ {0}, NEW i \in Nat \ {0}, m <= i, i <= n
    PROVE  Quot(m, i) <= Quot(m, n)
<1> DEFINE q == Quot(m, n)
           p == Quot(m, i)
           c == 3841600
           A == c * (m * (n - m))
           B == c * (m * (i - m))
<1>1. c \in Nat
  BY SMT
<1> HIDE DEF c
<1>2. /\ q \in Nat /\ A < n * q + n
      /\ p \in Nat /\ i * p <= B
  BY <1>1, QuotientIs DEF Quot, c
<1>3. A \in Int /\ B \in Int
  BY <1>1
<1>4. i * A - n * B = c * (m * (m * (n - i)))
  BY <1>1
<1>5. c * (m * (m * (n - i))) >= 0
  <2>1. m * (n - i) \in Nat
    OBVIOUS
  <2>2. m * (m * (n - i)) \in Nat
    BY <2>1
  <2> QED
    BY <1>1, <2>2
<1> HIDE DEF p, q, A, B
<1> SUFFICES ASSUME q + 1 <= p PROVE FALSE
  BY <1>2 DEF p, q
<1>6. n * (i * p) <= n * B
  BY <1>2, <1>3
<1>7. i * A < i * (n * q + n)
  BY <1>2, <1>3
<1>8. i * (n * q + n) = (i * n) * (q + 1) /\ n * (i * p) = (i * n) * p
  BY <1>2
<1>9. (i * n) * (q + 1) <= (i * n) * p
  BY <1>2
<1>10. i * A \in Int /\ n * B \in Int /\ (i * n) * p \in Int /\ (i * n) * (q + 1) \in Int
  BY <1>2, <1>3
<1> DEFINE w == c * (m * (m * (n - i)))
<1>11. w \in Int
  BY <1>1
<1> HIDE DEF w
<1> QED
  BY <1>4, <1>5, <1>6, <1>7, <1>8, <1>9, <1>10, <1>11 DEF w

\* Fewer accesses never lower the bound.
LEMMA FewerAccesses ==
    ASSUME NEW m \in 0..MaxCount, NEW n \in 1..MaxCount, NEW i \in 1..MaxCount, i <= n
    PROVE  wilson_lower_bound[<<m, n>>] <= wilson_lower_bound[<<m, i>>]
<1> DEFINE s == Spread(m, n)
           t == Spread(m, i)
           a == Excess(m, n)
           c == Excess(m, i)
           b == 1000 * n + 3842
           d == 1000 * i + 3842
<1>1. m \in Nat /\ n \in Nat \ {0} /\ i \in Nat \ {0} /\ s \in Nat /\ t \in Nat
  BY SpreadType, ReportAssumption, SMT
<1>2. t <= s
  <2>1. CASE i < m
    BY <1>1, <2>1, SpreadType, SMT
  <2>2. CASE m <= i
    <3>1. t * t <= Variance(m, i) /\ Variance(m, i) = Quot(m, i) + 3689473 /\ Quot(m, i) \in Nat
      BY <1>1, <2>2, SpreadIs, SMT
    <3>2. /\ Variance(m, n) < (s + 1) * (s + 1)
          /\ Variance(m, n) = Quot(m, n) + 3689473 /\ Quot(m, n) \in Nat
      BY <1>1, <2>2, SpreadIs, SMT
    <3>3. Quot(m, i) <= Quot(m, n)
      BY <1>1, <2>2, QuotGrowth
    <3> DEFINE tt == t * t
               ss == (s + 1) * (s + 1)
    <3>4. tt \in Int /\ ss \in Int /\ s + 1 \in Nat
      BY <1>1
    <3>5. tt <= Variance(m, i) /\ Variance(m, n) < ss
      BY <3>1, <3>2
    <3> HIDE DEF tt, ss, s, t
    <3>6. tt < ss
      BY <3>1, <3>2, <3>3, <3>4, <3>5, SMT
    <3>7. t < s + 1
      BY <1>1, <3>4, <3>6, SquareLess DEF tt, ss
    <3> QED
      BY <1>1, <3>7
  <2> QED
    BY <1>1, <2>1, <2>2
<1>3. a = 1000 * m + 1921 - s /\ c = 1000 * m + 1921 - t
  BY DEF Excess
<1>4. a \in Nat /\ 1000 * a \in Nat /\ b \in Nat \ {0}
  <2>1. a \in Nat
    BY ExcessType
  <2> HIDE DEF a
  <2> QED
    BY <1>1, <2>1, SMT
<1>5. c \in Nat /\ 1000 * c \in Nat /\ d \in Nat \ {0}
  <2>1. c \in Nat
    BY ExcessType
  <2> HIDE DEF c
  <2> QED
    BY <1>1, <2>1, SMT
<1>6. d <= b
  BY <1>1
<1>7. /\ wilson_lower_bound[<<m, n>>] = (1000 * a) \div b
      /\ wilson_lower_bound[<<m, i>>] = (1000 * c) \div d
  BY BoundIs
<1> HIDE DEF s, t, a, c, b, d
<1> DEFINE x == 1000 * a
           y == 1000 * c
<1>8. x \in Nat /\ y \in Nat /\ x <= y
  BY <1>1, <1>2, <1>3, <1>4, <1>5
<1> HIDE DEF x, y
<1>9. x * d <= y * b
  <2>1. x * d <= x * b /\ x * b <= y * b
    BY <1>4, <1>5, <1>6, <1>8
  <2> QED
    BY <2>1, <1>4, <1>5, <1>8
<1>10. x \div b <= y \div d
  BY <1>4, <1>5, <1>8, <1>9, DivMono
<1> QED
  BY <1>7, <1>10 DEF x, y

\* The bound is not above the estimate, but for the rounding.
LEMMA NotAboveEstimate ==
    ASSUME NEW m \in 0..MaxCount, NEW n \in 1..MaxCount
    PROVE  wilson_lower_bound[<<m, n>>] * n <= 1000 * m + n
<1> DEFINE s == Spread(m, n)
           a == Excess(m, n)
           b == 1000 * n + 3842
           w == wilson_lower_bound[<<m, n>>]
<1>1. m \in Nat /\ n \in Nat \ {0} /\ s \in Nat
  BY SpreadType, ReportAssumption, SMT
<1>2. m <= n => s >= 1920
  BY SpreadFloor, SMT
<1>3. a = 1000 * m + 1921 - s
  BY DEF Excess
<1>4. a \in Nat /\ 1000 * a \in Nat /\ b \in Nat \ {0} /\ w = (1000 * a) \div b
  <2>1. a \in Nat /\ w = (1000 * a) \div b
    BY BoundIs, ExcessType
  <2> HIDE DEF a, w
  <2> QED
    BY <1>1, <2>1, SMT
<1>5. w \in Int /\ b * w <= 1000 * a
  <2> DEFINE x == 1000 * a
  <2>1. x \in Int /\ b \in Nat \ {0} /\ w = x \div b
    BY <1>4
  <2> HIDE DEF x, w, b
  <2>2. w \in Int /\ b * w <= x
    BY <2>1, DivFloor
  <2> QED
    BY <2>2 DEF x
<1> HIDE DEF s, a, b, w
<1>6. (1000 * a) * n <= (1000 * m + n) * b
  <2> DEFINE mn == m * n
             nn == n * n
             sn == s * n
  <2>1. mn \in Nat /\ nn \in Nat /\ sn \in Nat
    BY <1>1
  <2>2. (1000 * a) * n = 1000000 * mn + 1921000 * n - 1000 * sn
    BY <1>1, <1>3, SMT
  <2>3. (1000 * m + n) * b = 1000000 * mn + 3842000 * m + 1000 * nn + 3842 * n
    BY <1>1, SMT DEF b
  <2>4. m <= n => 1920 * n <= sn
    BY <1>1, <1>2
  <2> HIDE DEF mn, nn, sn
  <2>5. 1000000 * mn + 1921000 * n - 1000 * sn <= 1000000 * mn + 3842000 * m + 1000 * nn + 3842 * n
    <3>1. CASE m <= n
      BY <1>1, <2>1, <2>4, <3>1, SMT
    <3>2. CASE n < m
      BY <1>1, <2>1, <3>2, SMT
    <3> QED
      BY <1>1, <3>1, <3>2
  <2> QED
    BY <2>2, <2>3, <2>5, SMT
<1>7. (b * w) * n <= (1000 * a) * n
  <2> DEFINE x == b * w
             y == 1000 * a
  <2>1. x \in Int /\ y \in Int /\ x <= y
    BY <1>4, <1>5
  <2> HIDE DEF x, y
  <2>2. x * n <= y * n
    BY <1>1, <2>1
  <2> QED
    BY <2>2 DEF x, y
<1>8. (b * w) * n = b * (w * n)
  BY <1>1, <1>4, <1>5
<1> DEFINE x == w * n
           y == 1000 * m + n
<1>9. x \in Int /\ y \in Int
  BY <1>1, <1>5
<1> HIDE DEF x, y
<1>10. b * x <= b * y
  <2>1. b * x = (b * w) * n /\ y * b = b * y /\ (1000 * a) * n <= y * b
    BY <1>4, <1>6, <1>8, <1>9 DEF x, y
  <2>2. b * x \in Int /\ b * y \in Int /\ (1000 * a) * n \in Int
    BY <1>1, <1>4, <1>9
  <2> QED
    BY <1>7, <2>1, <2>2
<1>11. x <= y
  <2> SUFFICES ASSUME y + 1 <= x PROVE FALSE
    BY <1>9
  <2>1. b * (y + 1) <= b * x /\ b * (y + 1) = b * y + b
    BY <1>4, <1>9
  <2>2. b * x \in Int /\ b * y \in Int
    BY <1>4, <1>9
  <2> QED
    BY <1>4, <1>10, <2>1, <2>2
<1> QED
  BY <1>11 DEF x, y, w

\* With k times the evidence the root grows by less than k times its excess over 1921.
LEMMA EvidenceGrowth ==
    ASSUME NEW m \in 1..MaxCount, NEW n \in 1..MaxCount, m < n, NEW j \in Nat,
           (j + 1) * m \in 0..MaxCount, (j + 1) * n \in 1..MaxCount
    PROVE  Spread((j + 1) * m, (j + 1) * n) <= Spread(m, n) + j * (Spread(m, n) - 1921)
<1> DEFINE k == j + 1
           M == k * m
           N == k * n
           s == Spread(m, n)
           t == Spread(M, N)
           q == Quot(m, n)
           p == Quot(M, N)
           c == 3841600
           f == m * (n - m)
<1>1. /\ m \in Nat \ {0} /\ n \in Nat \ {0} /\ k \in Nat \ {0} /\ c \in Nat
      /\ m \in 0..MaxCount /\ m <= n
  BY ReportAssumption, SMT
<1>2. M \in 0..MaxCount /\ N \in 1..MaxCount /\ M <= N
  BY <1>1, SMT
<1>3. /\ s * s <= Variance(m, n) /\ Variance(m, n) < (s + 1) * (s + 1)
      /\ q \in Nat /\ c * f < n * q + n
      /\ Variance(m, n) = q + 3689473
  BY <1>1, SpreadIs, SMT
<1> HIDE DEF M, N, k
<1>4. /\ t * t <= Variance(M, N)
      /\ p \in Nat /\ N * p <= c * (M * (N - M))
      /\ Variance(M, N) = p + 3689473
  BY <1>2, SpreadIs, SMT
<1>5. s \in Nat /\ t \in Nat
  BY <1>1, <1>2, SpreadType
<1> HIDE DEF s, t, q, p, c
<1>6. p < k * (q + 1)
  <2>1. c * (M * (N - M)) = k * (k * (c * f))
    <3>1. M * (N - M) = k * (k * f)
      BY <1>1 DEF M, N
    <3> DEFINE g == f
    <3>2. g \in Int /\ M * (N - M) = k * (k * g)
      BY <1>1, <3>1
    <3> HIDE DEF g
    <3>3. c * (k * (k * g)) = k * (k * (c * g))
      BY <1>1, <3>2
    <3> QED
      BY <3>2, <3>3 DEF g
  <2> DEFINE x == c * f
  <2>2. x \in Int /\ x < n * (q + 1)
    <3>1. n * (q + 1) = n * q + n
      BY <1>1, <1>3
    <3>2. x \in Int
      BY <1>1
    <3> QED
      BY <1>3, <3>1, <3>2
  <2>3. N * p <= k * (k * x)
    BY <1>4, <2>1
  <2> HIDE DEF x, f
  <2>4. N * p = k * (n * p)
    BY <1>1, <1>4 DEF N
  <2>5. n * p <= k * x
    <3> DEFINE y == n * p
               z == k * x
    <3>1. y \in Int /\ z \in Int /\ k * y <= k * z
      BY <1>1, <1>4, <2>2, <2>3, <2>4
    <3> HIDE DEF y, z
    <3> SUFFICES ASSUME z + 1 <= y PROVE FALSE
      BY <3>1 DEF y, z
    <3>2. k * (z + 1) <= k * y /\ k * (z + 1) = k * z + k
      BY <1>1, <3>1
    <3>3. k * y \in Int /\ k * z \in Int
      BY <1>1, <3>1
    <3> QED
      BY <1>1, <3>1, <3>2, <3>3
  <2>6. k * x < k * (n * (q + 1))
    <3> DEFINE y == n * (q + 1)
    <3>1. y \in Int /\ x < y
      BY <1>1, <1>3, <2>2
    <3> HIDE DEF y
    <3>2. k * x < k * y
      BY <1>1, <2>2, <3>1
    <3> QED
      BY <3>2 DEF y
  <2> DEFINE e == k * (q + 1)
  <2>7. k * (n * (q + 1)) = n * e /\ e \in Int
    BY <1>1, <1>3
  <2> HIDE DEF e
  <2> SUFFICES ASSUME e <= p PROVE FALSE
    BY <1>4, <2>7 DEF e
  <2>8. n * e <= n * p
    BY <1>1, <1>4, <2>7
  <2>9. n * e \in Int /\ n * p \in Int /\ k * x \in Int
    BY <1>1, <1>4, <2>2, <2>7
  <2> QED
    BY <2>5, <2>6, <2>7, <2>8, <2>9
<1> DEFINE u == s + 1
           uu == u * u
<1>7. u >= 2369 /\ u \in Nat
  <2>1. f >= n - 1
    BY <1>1
  <2>2. f \in Int /\ n >= 2
    BY <1>1
  <2> HIDE DEF f
  <2>3. c * f >= 1920800 * n
    BY <1>1, <2>1, <2>2, SMT DEF c
  <2>4. q >= 1920800
    <3> SUFFICES ASSUME q + 1 <= 1920800 PROVE FALSE
      BY <1>3, SMT
    <3>1. n * (q + 1) <= n * 1920800 /\ n * (q + 1) = n * q + n
      BY <1>1, <1>3, SMT
    <3>2. n * q \in Int /\ c * f \in Int
      BY <1>1, <1>3, <2>2, SMT
    <3> QED
      BY <1>1, <1>3, <2>3, <3>1, <3>2, SMT
  <2>5. 5610273 < u * u
    <3>1. u * u \in Int
      BY <1>5, SMT
    <3> QED
      BY <1>3, <2>4, <3>1, SMT
  <2> SUFFICES ASSUME u <= 2368 PROVE FALSE
    BY <1>5, SMT
  <2>6. u * u <= 2368 * 2368
    <3>1. u \in Nat /\ 2368 \in Nat
      BY <1>5, SMT
    <3> QED
      BY <3>1, SquareLe, SMT
  <2>7. u * u \in Int
    BY <1>5, SMT
  <2> QED
    BY <2>5, <2>6, <2>7, SMT
<1>8. q + 1 <= uu - 3689473 /\ uu \in Int
  <2>1. uu \in Int
    BY <1>5, SMT
  <2> QED
    BY <1>3, <2>1, SMT
<1> DEFINE d == u - 1922
           h == uu - 3689473
           ud == u * d
<1>9. h <= 2 * ud /\ h \in Nat /\ d \in Nat /\ ud \in Nat
  <2> DEFINE e == u - 2369
             ee == e * e
  <2>1. e \in Nat /\ ee \in Nat /\ u = 2369 + e
    BY <1>7, SMT
  <2> HIDE DEF e, ee
  <2>2. uu = 5612161 + 4738 * e + ee
    BY <2>1, SMT DEF ee
  <2>3. ud = 1058943 + 2816 * e + ee
    BY <2>1, SMT DEF ee
  <2> HIDE DEF uu, ud
  <2> QED
    BY <1>7, <2>1, <2>2, <2>3, SMT
<1> HIDE DEF u, uu, d, h, ud
<1>10. p + 3689473 < uu + j * h
  <2>1. k * (q + 1) <= k * h
    BY <1>1, <1>3, <1>8, <1>9 DEF h
  <2>2. k * h = h + j * h
    BY <1>9 DEF k
  <2>3. k * (q + 1) \in Int /\ j * h \in Int /\ k * h \in Int
    BY <1>1, <1>3, <1>9
  <2> QED
    BY <1>4, <1>6, <1>8, <1>9, <2>1, <2>2, <2>3, SMT DEF h
<1>11. uu + j * h <= (u + j * d) * (u + j * d)
  <2>1. (u + j * d) * (u + j * d) = uu + 2 * (j * ud) + (j * d) * (j * d)
    BY <1>7, <1>9 DEF uu, ud
  <2>2. j * h <= j * (2 * ud) /\ j * (2 * ud) = 2 * (j * ud)
    BY <1>9
  <2>3. (j * d) * (j * d) \in Nat /\ j * ud \in Nat /\ j * h \in Nat
    <3>1. j * d \in Nat
      BY <1>9
    <3> QED
      BY <1>9, <3>1
  <2> QED
    BY <1>8, <2>1, <2>2, <2>3
<1> DEFINE b == u + j * d
           bb == b * b
           tt == t * t
           jh == j * h
<1>12. b \in Nat /\ bb \in Int /\ tt \in Int /\ jh \in Int
  <2>1. j * d \in Nat
    BY <1>9
  <2> QED
    BY <1>5, <1>7, <1>9, <2>1
<1>13. tt <= p + 3689473 /\ p + 3689473 < uu + jh /\ uu + jh <= bb
  BY <1>4, <1>10, <1>11
<1> HIDE DEF b, bb, tt, jh
<1>14. tt < bb
  BY <1>4, <1>8, <1>12, <1>13, SMT
<1>15. t < b
  BY <1>5, <1>12, <1>14, SquareLess DEF tt, bb
<1>16. t <= s + j * (s - 1921)
  <2>1. d = s - 1921
    BY <1>5 DEF d, u
  <2>2. j * d \in Int
    BY <1>9
  <2>3. t < s + 1 + j * d
    BY <1>15 DEF b, u
  <2> QED
    BY <1>5, <2>1, <2>2, <2>3
<1> QED
  BY <1>16 DEF s, t, M, N, k

\* Nor does the same ratio of k times the misses to k times the accesses lower it.
LEMMA MoreEvidence ==
    ASSUME NEW m \in 0..MaxCount, NEW n \in 1..MaxCount, NEW k \in Nat \ {0},
           k * m \in 0..MaxCount, k * n \in 1..MaxCount
    PROVE  wilson_lower_bound[<<m, n>>] <= wilson_lower_bound[<<k * m, k * n>>]
<1> DEFINE j == k - 1
           M == k * m
           N == k * n
           s == Spread(m, n)
           t == Spread(M, N)
           a == Excess(m, n)
           A == Excess(M, N)
           b == 1000 * n + 3842
           B == 1000 * N + 3842
           jm == j * m
           jn == j * n
<1>1. m \in Nat /\ n \in Nat \ {0} /\ j \in Nat /\ k = j + 1
  BY ReportAssumption, SMT
<1>2. M \in 0..MaxCount /\ N \in 1..MaxCount /\ M \in Nat /\ N \in Nat
  BY ReportAssumption, SMT
<1>3. M = m + jm /\ N = n + jn /\ jm \in Nat /\ jn \in Nat
  BY <1>1
<1>4. a = 1000 * m + 1921 - s /\ A = 1000 * M + 1921 - t
  BY DEF Excess
<1>5. /\ a \in Nat /\ A \in Nat
      /\ wilson_lower_bound[<<m, n>>] = (1000 * a) \div b
      /\ wilson_lower_bound[<<M, N>>] = (1000 * A) \div B
  <2> HIDE DEF M, N
  <2>1. a \in Nat /\ wilson_lower_bound[<<m, n>>] = (1000 * a) \div b
    BY BoundIs, ExcessType
  <2>2. A \in Nat /\ wilson_lower_bound[<<M, N>>] = (1000 * A) \div B
    BY <1>2, BoundIs, ExcessType
  <2> QED
    BY <2>1, <2>2
<1>6. s \in Nat /\ t \in Nat
  <2> HIDE DEF M, N
  <2> QED
    BY <1>2, SpreadType
<1>7. b \in Nat \ {0} /\ B \in Nat \ {0}
  BY <1>1, <1>2, SMT
<1> SUFFICES (1000 * a) \div b <= (1000 * A) \div B
  BY <1>5
<1>8. ASSUME a * B <= A * b PROVE (1000 * a) \div b <= (1000 * A) \div B
  <2> DEFINE aB == a * B
             Ab == A * b
             x == 1000 * a
             y == 1000 * A
  <2> HIDE DEF a, A, b, B
  <2>1. aB \in Int /\ Ab \in Int /\ aB <= Ab
    BY <1>5, <1>7, <1>8
  <2>2. x * B = 1000 * aB /\ y * b = 1000 * Ab
    BY <1>5, <1>7
  <2>3. x \in Nat /\ y \in Nat
    BY <1>5
  <2> HIDE DEF aB, Ab, x, y
  <2>4. x * B <= y * b
    BY <2>1, <2>2
  <2>5. x \div b <= y \div B
    BY <1>7, <2>3, <2>4, DivMono
  <2> QED
    BY <2>5 DEF x, y
<1>9. CASE m = 0
  <2>1. s >= 1920
    BY <1>9, <1>1, SpreadFloor, SMT
  <2> DEFINE x == 1000 * a
             y == 1000 * A
  <2> HIDE DEF s, t, a, A, M, N
  <2>2. x \in 0..1000 /\ y \in Nat /\ 1000 < b
    BY <1>1, <1>4, <1>5, <1>6, <1>9, <2>1, SMT
  <2> HIDE DEF x, y, b, B
  <2>3. x \div b <= 0
    <3>1. x \div b \in Int /\ b * (x \div b) <= x
      BY <1>7, <2>2, DivFloor
    <3> DEFINE w == x \div b
    <3> HIDE DEF w
    <3> SUFFICES ASSUME 1 <= w PROVE FALSE
      BY <3>1 DEF w
    <3>2. b * 1 <= b * w
      BY <1>7, <3>1 DEF w
    <3>3. b * w <= x /\ b * w \in Int
      BY <1>7, <3>1 DEF w
    <3> QED
      BY <1>7, <2>2, <3>2, <3>3, SMT
  <2>4. y \div B \in Nat /\ y = B * (y \div B) + (y % B)
    BY <1>7, <2>2, DivMod
  <2>5. x \div b \in Int /\ y \div B \in Int
    BY <1>7, <2>2, DivFloor
  <2>6. x \div b <= y \div B
    BY <2>3, <2>4, <2>5
  <2> QED
    BY <2>6 DEF x, y
<1>10. CASE n < m
  <2>1. jn <= jm
    BY <1>1, <1>10
  <2>2. N < M
    BY <1>1, <1>3, <1>10, <2>1
  <2>3. s = 0 /\ t = 0
    <3> HIDE DEF M, N
    <3>1. s = 0
      BY <1>10, SpreadType, SMT
    <3>2. t = 0
      BY <1>2, <2>2, SpreadType, SMT
    <3> QED
      BY <3>1, <3>2
  <2> DEFINE mn == m * n
             jmn == j * mn
  <2>4. mn \in Nat /\ jmn \in Nat /\ jm * n = jmn /\ m * jn = jmn
    BY <1>1
  <2> HIDE DEF s, t, a, A, M, N, jm, jn, mn, jmn
  <2>5. a = 1000 * m + 1921 /\ A = 1000 * m + 1000 * jm + 1921
    BY <1>1, <1>2, <1>3, <1>4, <2>3, SMT
  <2>6. B = 1000 * n + 1000 * jn + 3842
    BY <1>1, <1>3, SMT
  <2>7. a * B = 1000000 * mn + 1000000 * (m * jn) + 3842000 * m + 1921000 * n + 1921000 * jn
                + 7380482
    BY <1>1, <1>3, <2>5, <2>6, SMT DEF mn
  <2>8. A * b = 1000000 * mn + 3842000 * m + 1000000 * (jm * n) + 3842000 * jm + 1921000 * n
                + 7380482
    BY <1>1, <1>3, <2>5, SMT DEF mn
  <2>9. a * B <= A * b
    BY <1>1, <1>3, <2>1, <2>4, <2>7, <2>8, SMT
  <2> QED
    BY <1>8, <2>9
<1>11. CASE m = n
  <2>1. M = N /\ jm = jn
    BY <1>11
  <2>2. s = 1920
    BY <1>1, <1>11, SpreadAll
  <2>3. t = 1920
    <3> HIDE DEF M, N
    <3> QED
      BY <1>2, <2>1, SpreadAll
  <2> DEFINE mn == m * n
             jmn == j * mn
  <2>4. mn \in Nat /\ jmn \in Nat /\ jm * n = jmn /\ m * jn = jmn
    BY <1>1
  <2> HIDE DEF s, t, a, A, M, N, jm, jn, mn, jmn
  <2>5. a = 1000 * m + 1 /\ A = 1000 * m + 1000 * jm + 1
    BY <1>1, <1>2, <1>3, <1>4, <2>2, <2>3, SMT
  <2>6. B = 1000 * n + 1000 * jn + 3842
    BY <1>1, <1>3, SMT
  <2>7. a * B = 1000000 * mn + 1000000 * (m * jn) + 3842000 * m + 1000 * n + 1000 * jn + 3842
    BY <1>1, <1>3, <2>5, <2>6, SMT DEF mn
  <2>8. A * b = 1000000 * mn + 3842000 * m + 1000000 * (jm * n) + 3842000 * jm + 1000 * n + 3842
    BY <1>1, <1>3, <2>5, SMT DEF mn
  <2>9. a * B <= A * b
    BY <1>1, <1>3, <2>1, <2>4, <2>7, <2>8, SMT
  <2> QED
    BY <1>8, <2>9
<1>12. CASE 1 <= m /\ m < n
  <2>1. t <= s + j * (s - 1921)
    <3>1. m \in 1..MaxCount /\ (j + 1) * m \in 0..MaxCount /\ (j + 1) * n \in 1..MaxCount
      BY <1>1, <1>2, <1>12
    <3> HIDE DEF j
    <3>2. Spread((j + 1) * m, (j + 1) * n) <= Spread(m, n) + j * (Spread(m, n) - 1921)
      BY <1>1, <1>12, <3>1, EvidenceGrowth
    <3> QED
      BY <1>1, <3>2
  <2> DEFINE js == j * (s - 1921)
  <2>2. js \in Int /\ k * a = a + j * a /\ j * a \in Int
    <3> HIDE DEF s, a, j
    <3> QED
      BY <1>1, <1>5, <1>6
  <2>3. j * a = 1000 * jm - js
    <3> HIDE DEF s, t, A, M, N, b, B
    <3>1. a = 1000 * m - (s - 1921)
      BY <1>1, <1>4, <1>6
    <3> DEFINE r == s - 1921
    <3>2. r \in Int
      BY <1>6
    <3> HIDE DEF r, a
    <3>3. j * (1000 * m - r) = 1000 * (j * m) - j * r
      BY <1>1, <3>2, SMT
    <3> QED
      BY <3>1, <3>3 DEF r
  <2>4. k * a <= A
    <3> HIDE DEF s, t, a, A, M, N, jm, jn, js, b, B
    <3>1. k * a = a + 1000 * jm - js
      BY <1>3, <1>5, <2>2, <2>3
    <3>2. t <= s + js
      BY <2>1 DEF js
    <3> QED
      BY <1>1, <1>2, <1>3, <1>4, <1>5, <1>6, <2>2, <3>1, <3>2, SMT
  <2>5. B <= k * b
    <3>1. k * b = 1000 * N + 3842 + 3842 * j
      BY <1>1, <1>2
    <3> HIDE DEF N
    <3> QED
      BY <1>1, <1>2, <3>1
  <2>6. a * B <= A * b
    <3> HIDE DEF a, A, b, B
    <3>1. a * B <= a * (k * b)
      BY <1>5, <1>7, <2>5
    <3>2. a * (k * b) = (k * a) * b
      BY <1>5, <1>7
    <3> DEFINE ka == k * a
    <3>3. ka \in Nat /\ ka <= A
      BY <1>5, <2>4
    <3> HIDE DEF ka
    <3>4. ka * b <= A * b
      BY <1>5, <1>7, <3>3
    <3>5. a * B \in Int /\ ka * b \in Int /\ A * b \in Int
      BY <1>5, <1>7, <3>3
    <3> QED
      BY <3>1, <3>2, <3>4, <3>5 DEF ka
  <2> QED
    BY <1>8, <2>6
<1> QED
  BY <1>1, <1>9, <1>10, <1>11, <1>12

-----------------------------------------------------------------------------
\* A count of samples is not more than the samples of its event.
LEMMA CountedAtMost ==
    ASSUME Inv, NEW e \in Events
    PROVE  /\ \A b \in Buckets : attr[e].bucket_count[b] \in 0..MaxSamples(e)
           /\ \A s \in Sites : /\ At(attr[e].line_counts, s) \in 0..MaxSamples(e)
                               /\ At(attr[e].line_counts, s) = SamplesIn(e, OfLine(s))
<1> DEFINE a == attr[e]
           f == seen[e]
<1>1. /\ a.bucket_count \in [Buckets -> Nat] /\ Total(a.bucket_count) <= MaxSamples(e)
      /\ MaxSamples(e) \in Nat
  BY MaxSamplesType DEF Inv, Typed
<1>2. /\ Total(a.bucket_count) = SumOver(f, Addresses)
      /\ \A s \in Sites : At(a.line_counts, s) = SumOver(f, OfLine(s))
  BY DEF Inv, Counted
<1>3. \A s : SumOver(f, OfLine(s)) \in Nat /\ SumOver(f, OfLine(s)) <= SumOver(f, Addresses)
  <2>1. \A s : OfLine(s) \in SUBSET Addresses
    BY InTextType DEF Inv, Located
  <2>2. \A ip \in Addresses : f[ip] \in Nat
    BY DEF Inv
  <2> HIDE DEF f
  <2> QED
    BY <2>1, <2>2, ReportAssumption, SumPart
<1>4. Total(a.bucket_count) \in Nat /\ \A b \in Buckets : a.bucket_count[b] <= Total(a.bucket_count)
  <2> DEFINE c == a.bucket_count
  <2>1. /\ c["target"] \in Nat /\ c["other"] \in Nat /\ c["kernel"] \in Nat
        /\ c["unclassifiable"] \in Nat
    BY <1>1 DEF Buckets
  <2> HIDE DEF c
  <2> QED
    BY <2>1 DEF Buckets, Total, c
<1>5. \A s : SamplesIn(e, OfLine(s)) = SumOver(f, OfLine(s))
  BY SamplesSum
<1>6. ASSUME NEW b \in Buckets PROVE a.bucket_count[b] \in 0..MaxSamples(e)
  <2>1. a.bucket_count[b] \in Nat
    BY <1>1
  <2> QED
    BY <1>1, <1>4, <2>1
<1>7. ASSUME NEW s \in Sites
      PROVE  At(a.line_counts, s) \in 0..MaxSamples(e) /\ At(a.line_counts, s) = SamplesIn(e, OfLine(s))
  BY <1>1, <1>2, <1>3, <1>4, <1>5
<1> QED
  BY <1>6, <1>7

\* The misses and accesses that the ranking is made from are those of the line.
LEMMA LineCounts ==
    ASSUME Inv, NEW s \in Sites
    PROVE  /\ m_(s) \in 0..MaxMiss /\ m_(s) = SamplesIn(0, OfLine(s))
           /\ n_(s) \in 0..MaxAccess /\ n_(s) = SamplesIn(1, OfLine(s))
           /\ s \in DOMAIN attr[0].line_counts <=> m_(s) > 0
           /\ s \in DOMAIN attr[1].line_counts <=> n_(s) > 0
<1>1. 0 \in Events /\ 1 \in Events /\ MaxSamples(0) = MaxMiss /\ MaxSamples(1) = MaxAccess
  BY DEF Events, MaxSamples
<1>2. /\ attr[0].line_counts \in Maps(Sites, Nat \ {0})
      /\ attr[1].line_counts \in Maps(Sites, Nat \ {0})
  BY <1>1 DEF Inv, Typed
<1>3. /\ s \in DOMAIN attr[0].line_counts <=> At(attr[0].line_counts, s) > 0
      /\ s \in DOMAIN attr[1].line_counts <=> At(attr[1].line_counts, s) > 0
  BY <1>2, AtIs
<1>4. /\ At(attr[0].line_counts, s) \in 0..MaxMiss
      /\ At(attr[0].line_counts, s) = SamplesIn(0, OfLine(s))
  BY <1>1, CountedAtMost
<1>5. /\ At(attr[1].line_counts, s) \in 0..MaxAccess
      /\ At(attr[1].line_counts, s) = SamplesIn(1, OfLine(s))
  BY <1>1, CountedAtMost
<1> QED
  BY <1>3, <1>4, <1>5 DEF m_, n_

\* The lines of both events are source lines.
LEMMA AllSitesType == Inv => AllSites \subseteq Sites /\ DOMAIN attr[0].line_counts \subseteq Sites
<1> SUFFICES ASSUME Inv PROVE AllSites \subseteq Sites /\ DOMAIN attr[0].line_counts \subseteq Sites
  OBVIOUS
<1>1. \A e \in Events : DOMAIN attr[e].line_counts \subseteq Sites
  BY AtIs DEF Inv, Typed
<1> QED
  BY <1>1 DEF AllSites, Events

\* A list of lines of a set is one of every larger set.
LEMMA SeqOfSubset ==
    ASSUME NEW S, NEW T, S \subseteq T, NEW q \in Seq(S)
    PROVE  q \in Seq(T)
<1>1. Len(q) \in Nat /\ q \in [1..Len(q) -> S]
  OBVIOUS
<1>2. q \in [1..Len(q) -> T]
  BY <1>1
<1> QED
  BY <1>1, <1>2

\* The invariant has what the properties say.
LEMMA InvTypeOK == Inv => TypeOK
<1> SUFFICES ASSUME Inv PROVE TypeOK
  OBVIOUS
<1>1. /\ pc \in {"headers", "attribute", "rank", "done", "failed"} /\ event \in Events
      /\ phdrs \in HeaderTables /\ target \in [found : BOOLEAN, lo : Nat, hi : Nat]
      /\ source \in [Addresses \cap target.lo..(target.hi - 1) -> Sites \cup {NoSite}]
      /\ seen \in [Events -> [Addresses -> Nat]]
  BY DEF Inv, Located, Ranges
<1>2. ASSUME NEW e \in Events
      PROVE  /\ attr[e].bucket_count \in [Buckets -> 0..MaxSamples(e)]
             /\ attr[e].kernel_ips \subseteq Addresses
             /\ attr[e].line_counts \in Maps(Sites, 1..MaxSamples(e))
             /\ attr[e].attributed \in Nat /\ attr[e].unattributed \in Nat
             /\ attr[e].resolve_ok \in Maps(DOMAIN source, BOOLEAN)
             /\ attr[e].resolve_loc \in Maps(DOMAIN source, Sites)
  <2> DEFINE a == attr[e]
             max == MaxSamples(e)
  <2>1. /\ a.bucket_count \in [Buckets -> Nat] /\ a.line_counts \in Maps(Sites, Nat \ {0})
        /\ CacheTyped(a) /\ a.kernel_ips \subseteq Addresses
        /\ a.attributed \in Nat /\ a.unattributed \in Nat
    BY DEF Inv, Typed
  <2>2. /\ \A b \in Buckets : a.bucket_count[b] \in 0..max
        /\ \A s \in Sites : At(a.line_counts, s) \in 0..max
    BY CountedAtMost
  <2>3. max \in Nat
    BY MaxSamplesType
  <2> HIDE DEF a, max
  <2>4. a.bucket_count \in [Buckets -> 0..max]
    BY <2>1, <2>2
  <2>5. a.line_counts \in Maps(Sites, 1..max)
    <3> DEFINE f == a.line_counts
    <3>1. PICK S \in SUBSET Sites : f \in [S -> Nat \ {0}]
      BY <2>1 DEF Maps
    <3>2. \A s \in S : f[s] \in 1..max
      BY <2>2, <2>3, <3>1 DEF At
    <3> HIDE DEF f
    <3>3. f \in [S -> 1..max]
      BY <3>1, <3>2
    <3> QED
      BY <3>1, <3>3 DEF Maps, f
  <2> QED
    BY <2>1, <2>4, <2>5 DEF CacheTyped, a, max
<1>3. ranked \in Seq(Sites) /\ by_raw \in Seq(Sites) /\ insufficient \subseteq Sites
  <2>1. CASE pc = "done"
    <3>1. /\ insufficient = {s \in AllSites : Gated(s)}
          /\ ranked \in Seq(AllSites \ insufficient) /\ by_raw \in Seq(DOMAIN attr[0].line_counts)
      BY <2>1 DEF Inv, Ranking, Lists
    <3>2. AllSites \ insufficient \subseteq Sites /\ DOMAIN attr[0].line_counts \subseteq Sites
      BY AllSitesType
    <3> QED
      BY <3>1, <3>2, AllSitesType, SeqOfSubset
  <2>2. CASE pc # "done"
    BY <2>2 DEF Inv
  <2> QED
    BY <2>1, <2>2
<1> QED
  BY <1>1, <1>2, <1>3 DEF TypeOK

LEMMA InvCountsExact == Inv => CountsExact
<1> SUFFICES ASSUME Inv, NEW e \in Events
             PROVE  /\ Total(attr[e].bucket_count) = SamplesIn(e, Addresses)
                    /\ attr[e].bucket_count["target"] = SamplesIn(e, InText)
                    /\ attr[e].attributed + attr[e].unattributed = SamplesIn(e, InText)
                    /\ \A s \in Sites : At(attr[e].line_counts, s) = SamplesIn(e, OfLine(s))
  BY DEF CountsExact
<1>1. Counted(attr[e], seen[e])
  BY DEF Inv
<1>2. /\ SamplesIn(e, Addresses) = SumOver(seen[e], Addresses)
      /\ SamplesIn(e, InText) = SumOver(seen[e], InText)
      /\ \A s : SamplesIn(e, OfLine(s)) = SumOver(seen[e], OfLine(s))
  BY SamplesSum
<1> QED
  BY <1>1, <1>2 DEF Counted

LEMMA InvEverySiteOnce == Inv => EverySiteOnce
<1> SUFFICES ASSUME Inv, pc = "done"
             PROVE  /\ \A s \in Sites :
                          LET m == SamplesIn(0, OfLine(s))
                              n == SamplesIn(1, OfLine(s))
                          IN  /\ (s \in ToSet(ranked)) <=> n >= kMinAccessSamples
                              /\ (s \in insufficient) <=> m + n > 0 /\ n < kMinAccessSamples
                              /\ (s \in ToSet(by_raw)) <=> m > 0
                    /\ IsInjective(ranked) /\ IsInjective(by_raw)
  BY DEF EverySiteOnce
<1>1. /\ insufficient = {s \in AllSites : Gated(s)}
      /\ ToSet(ranked) = AllSites \ insufficient /\ IsInjective(ranked)
      /\ ToSet(by_raw) = DOMAIN attr[0].line_counts /\ IsInjective(by_raw)
  BY DEF Inv, Ranking, Lists
<1>2. ASSUME NEW s \in Sites
      PROVE  /\ s \in ToSet(ranked) <=> n_(s) >= kMinAccessSamples
             /\ s \in insufficient <=> m_(s) + n_(s) > 0 /\ n_(s) < kMinAccessSamples
             /\ s \in ToSet(by_raw) <=> m_(s) > 0
  <2>1. /\ m_(s) \in Nat /\ n_(s) \in Nat
        /\ s \in DOMAIN attr[0].line_counts <=> m_(s) > 0
        /\ s \in DOMAIN attr[1].line_counts <=> n_(s) > 0
    BY LineCounts, ReportAssumption
  <2>2. s \in AllSites <=> m_(s) > 0 \/ n_(s) > 0
    BY <2>1 DEF AllSites
  <2>3. s \in insufficient <=> (m_(s) > 0 \/ n_(s) > 0) /\ n_(s) < kMinAccessSamples
    BY <1>1, <2>2 DEF Gated
  <2>4. s \in ToSet(ranked) <=> (m_(s) > 0 \/ n_(s) > 0) /\ ~(n_(s) < kMinAccessSamples)
    BY <1>1, <2>2, <2>3
  <2>5. s \in ToSet(by_raw) <=> m_(s) > 0
    BY <1>1, <2>1
  <2> QED
    BY <2>1, <2>3, <2>4, <2>5, ReportAssumption
<1>3. \A s \in Sites : m_(s) = SamplesIn(0, OfLine(s)) /\ n_(s) = SamplesIn(1, OfLine(s))
  BY LineCounts
<1> QED
  BY <1>1, <1>2, <1>3

\* What the ranking says of a line in it.
LEMMA RankedIs ==
    ASSUME Inv, pc = "done", NEW i \in DOMAIN ranked
    PROVE  /\ m_(ranked[i]) \in 0..MaxCount /\ m_(ranked[i]) + 1 \in 0..MaxCount
           /\ n_(ranked[i]) \in 1..MaxCount
<1> DEFINE s == ranked[i]
<1>1. s \in AllSites \ insufficient /\ insufficient = {t \in AllSites : Gated(t)}
  BY DEF Inv, Ranking, Lists, ToSet
<1>2. s \in Sites /\ n_(s) >= kMinAccessSamples
  <2>1. s \in Sites
    BY <1>1, AllSitesType
  <2>2. n_(s) \in Nat
    BY <2>1, LineCounts, ReportAssumption
  <2>3. ~ (n_(s) < kMinAccessSamples)
    BY <1>1 DEF Gated
  <2> QED
    BY <2>1, <2>2, <2>3, ReportAssumption
<1>3. m_(s) \in 0..MaxMiss /\ n_(s) \in 0..MaxAccess
  BY <1>2, LineCounts
<1> QED
  BY <1>2, <1>3, ReportAssumption

LEMMA InvNeverDominated == Inv => NeverDominated
<1> SUFFICES ASSUME Inv, pc = "done", NEW i \in DOMAIN ranked, NEW j \in DOMAIN ranked, i < j,
                    m_(ranked[i]) <= m_(ranked[j]), n_(ranked[i]) >= n_(ranked[j])
             PROVE  Concentration(ranked[i]) = Concentration(ranked[j])
  BY DEF NeverDominated
<1> DEFINE m == m_(ranked[i])
           n == n_(ranked[i])
           k == m_(ranked[j])
           l == n_(ranked[j])
<1>1. m \in 0..MaxCount /\ n \in 1..MaxCount /\ k \in 0..MaxCount /\ l \in 1..MaxCount
  BY RankedIs
<1>2. Concentration(ranked[i]) >= Concentration(ranked[j])
  BY DEF Inv, Ranking, Before
<1> HIDE DEF m, n, k, l
<1>3. wilson_lower_bound[<<m, n>>] <= wilson_lower_bound[<<m, l>>]
  BY <1>1, FewerAccesses DEF n, l
<1>4. wilson_lower_bound[<<m, l>>] <= wilson_lower_bound[<<k, l>>]
  BY <1>1, MoreMisses DEF m, k
<1>5. /\ wilson_lower_bound[<<m, n>>] \in Int /\ wilson_lower_bound[<<m, l>>] \in Int
      /\ wilson_lower_bound[<<k, l>>] \in Int
  BY <1>1, BoundIs
<1>6. /\ Concentration(ranked[i]) = wilson_lower_bound[<<m, n>>]
      /\ Concentration(ranked[j]) = wilson_lower_bound[<<k, l>>]
  BY DEF Concentration, m, n, k, l
<1> QED
  BY <1>2, <1>3, <1>4, <1>5, <1>6

LEMMA InvEvidenceWins == Inv => EvidenceWins
<1> SUFFICES ASSUME Inv, pc = "done", NEW i \in DOMAIN ranked
             PROVE  LET m == m_(ranked[i])
                        n == n_(ranked[i])
                    IN  /\ Concentration(ranked[i]) * n <= 1000 * m + n
                        /\ wilson_lower_bound[<<m + 1, n>>] >= Concentration(ranked[i])
                        /\ \A k \in 2..MaxCount : <<k * m, k * n>> \in Counts =>
                               wilson_lower_bound[<<k * m, k * n>>] >= Concentration(ranked[i])
  BY DEF EvidenceWins
<1> DEFINE m == m_(ranked[i])
           n == n_(ranked[i])
           w == wilson_lower_bound[<<m, n>>]
<1>1. m \in 0..MaxCount /\ m + 1 \in 0..MaxCount /\ n \in 1..MaxCount
  BY RankedIs
<1>2. Concentration(ranked[i]) = w
  BY DEF Concentration
<1> HIDE DEF m, n
<1>3. w \in Int
  BY <1>1, BoundIs
<1>4. w * n <= 1000 * m + n
  BY <1>1, NotAboveEstimate
<1>5. wilson_lower_bound[<<m + 1, n>>] >= w
  <2> DEFINE m1 == m + 1
  <2>1. m1 \in 0..MaxCount /\ m <= m1
    BY <1>1
  <2> HIDE DEF m1
  <2>2. w <= wilson_lower_bound[<<m1, n>>] /\ wilson_lower_bound[<<m1, n>>] \in Int
    BY <1>1, <2>1, MoreMisses, BoundIs
  <2> HIDE DEF w
  <2> QED
    BY <1>3, <2>2 DEF m1
<1>6. ASSUME NEW k \in 2..MaxCount, <<k * m, k * n>> \in Counts
      PROVE  wilson_lower_bound[<<k * m, k * n>>] >= w
  <2> DEFINE M == k * m
             N == k * n
  <2>1. M \in 0..MaxCount /\ N \in 1..MaxCount /\ k \in Nat \ {0}
    BY <1>6, ReportAssumption DEF Counts
  <2>2. w <= wilson_lower_bound[<<M, N>>]
    BY <1>1, <2>1, MoreEvidence
  <2>3. wilson_lower_bound[<<M, N>>] \in Int
    <3> HIDE DEF M, N
    <3> QED
      BY <2>1, BoundIs
  <2> HIDE DEF M, N, w
  <2>4. wilson_lower_bound[<<M, N>>] >= w
    BY <1>3, <2>2, <2>3
  <2> QED
    BY <2>4 DEF M, N
<1> HIDE DEF w
<1> QED
  BY <1>2, <1>4, <1>5, <1>6 DEF m, n

-----------------------------------------------------------------------------
\* Every variable has its type: no count belongs to what is not a line, none exceeds the
\* samples of its event, and the cache only has addresses of the target.
THEOREM TypeCorrect == Spec => []TypeOK
  BY Invariance, InvTypeOK, PTL

\* Buckets and lines count exactly the samples that were taken, each where the program headers
\* and the debug information put it.
THEOREM CountsAreExact == Spec => []CountsExact
  BY Invariance, InvCountsExact, PTL

\* Each line with samples is ranked or excluded, once, as the support gate says.
THEOREM SitesRankedOnce == Spec => []EverySiteOnce
  BY Invariance, InvEverySiteOnce, PTL

\* No line is ranked behind one that has no more misses and no fewer accesses.
THEOREM RankedAboveDominated == Spec => []NeverDominated
  BY Invariance, InvNeverDominated, PTL

\* The bound is not above the estimate, and does not fall with another miss or with the same
\* ratio on more evidence: for every number of samples, whatever the rounding.
THEOREM BoundRewardsEvidence == Spec => []EvidenceWins
  BY Invariance, InvEvidenceWins, PTL

\* What classify_and_attribute() remembers of an address never contradicts the debug
\* information, whatever samples came before and in whatever order.
THEOREM CacheAgrees == Spec => [](\A e \in Events : Agrees(attr[e]))
<1>1. Inv => \A e \in Events : Agrees(attr[e])
  BY DEF Inv, Typed
<1> QED
  BY <1>1, Invariance, PTL

\* Each sample is counted as if the debug information were asked for it every time.
THEOREM CountsWithoutCache == Spec => CacheInvisible
<1> DEFINE Same == \A ip \in Addresses :
                       Attribute(ip) => Tally(attr'[event]) = Uncached(attr[event], ip)
<1>1. Inv /\ [Next]_vars => [Same]_vars
  BY AttributeInv
<1>2. CacheInvisible <=> [][Same]_vars
  BY DEF CacheInvisible
<1> HIDE DEF Same
<1> QED
  BY <1>1, <1>2, Invariance, PTL DEF Spec
=============================================================================
