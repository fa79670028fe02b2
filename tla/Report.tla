------------------------------- MODULE Report -------------------------------
(***************************************************************************)
(* From samples to the ranking (src/src/main.cpp): the range of the        *)
(* target's code is read from its ELF program headers; each event's        *)
(* samples are classified by address and attributed to source lines        *)
(* through a cache; then the lines of both events are united, gated and    *)
(* sorted.                                                                 *)
(*                                                                         *)
(* Addresses are small numbers in the order of the real ones; what the     *)
(* debug information says of an address of the target is fixed and         *)
(* arbitrary (libdw is external).  The samples of an event are those of    *)
(* all of its rings, one after the other; which comes next is arbitrary.   *)
(* A score is an integer, in thousandths; equal ones are sorted either     *)
(* way, as std::sort may.  Scores are not scaled by the periods: the       *)
(* factor is the same for every line.                                      *)
(***************************************************************************)
EXTENDS Integers, Sequences, FiniteSets, SequencesExt, TLC

CONSTANTS
    Addresses,          \* sampled addresses
    HeaderTables,       \* program headers a target may have, each with lo, hi and exec:
                        \* it is PT_LOAD and its flags have PF_X
    kUserHalfEnd, kKernelHalfStart,
    Sites,              \* source lines
    NoSite,             \* what resolve() finds for an address without a line
    kMinAccessSamples,  \* the support gate (30)
    MaxMiss, MaxAccess, \* bounds: samples of each event
    MaxCount            \* bound: counts for which scores are compared

ASSUME ReportAssumption ==
    /\ Addresses \subseteq Nat /\ IsFiniteSet(Addresses) /\ IsFiniteSet(Sites)
    /\ kUserHalfEnd \in Nat /\ kKernelHalfStart \in Nat /\ kUserHalfEnd <= kKernelHalfStart
    /\ HeaderTables \subseteq Seq([lo : Nat, hi : 0..kUserHalfEnd, exec : BOOLEAN])
    /\ \A t \in HeaderTables : \A i \in DOMAIN t : t[i].lo <= t[i].hi
    /\ NoSite \notin Sites
    /\ kMinAccessSamples \in Nat \ {0}
    /\ MaxCount \in Nat /\ MaxMiss \in 0..(MaxCount - 1) /\ MaxAccess \in 0..MaxCount

Events == {0, 1}                \* "miss" and "access"
MaxSamples(e) == IF e = 0 THEN MaxMiss ELSE MaxAccess
Buckets == {"target", "other", "kernel", "unclassifiable"}

VARIABLES
    phdrs,              \* the target's program headers (external)
    target,             \* TextRange, once it is known
    source,             \* address of the target -> its line, or NoSite (external)
    pc,                 \* "headers", "attribute", "rank", "done", "failed"
    event,              \* the event whose samples are attributed
    attr,               \* event -> AttributionResult
    ranked,             \* the ranking
    insufficient,       \* lines the support gate excludes
    by_raw,             \* the ranking by misses alone
    seen                \* event -> address -> samples (history, read by no step)

target_vars == <<phdrs, target, source>>
vars == <<target_vars, pc, event, attr, ranked, insufficient, by_raw, seen>>

None == << >>           \* a map without entries
Empty == [bucket_count |-> [b \in Buckets |-> 0], kernel_ips |-> {},
          line_counts |-> None, attributed |-> 0, unattributed |-> 0,
          resolve_ok |-> None, resolve_loc |-> None]

NoRange == [found |-> FALSE, lo |-> 0, hi |-> 0]

Init ==
    /\ phdrs \in HeaderTables /\ target = NoRange /\ source = None
    /\ pc = "headers" /\ event = 0
    /\ attr = [e \in Events |-> Empty]
    /\ ranked = << >> /\ insufficient = {} /\ by_raw = << >>
    /\ seen = [e \in Events |-> [ip \in Addresses |-> 0]]

-----------------------------------------------------------------------------
(* get_target_text_range()                                                 *)

\* mutant: each executable segment takes the place of those before it
WidenToLast(out, ph) ==
    IF ph.exec THEN [found |-> TRUE, lo |-> ph.lo, hi |-> ph.hi] ELSE out
Widen(out, ph) ==
    IF ~ph.exec THEN out
    ELSE [found |-> TRUE,
          lo |-> IF out.found THEN Min({out.lo, ph.lo}) ELSE ph.lo,
          hi |-> IF out.found THEN Max({out.hi, ph.hi}) ELSE ph.hi]

get_target_text_range(t) == FoldLeft(Widen, NoRange, t)

\* The range from the first executable segment to the last, or die().  What the debug
\* information says is asked for addresses of that range only, and always the same.
ReadHeaders ==
    /\ pc = "headers"
    /\ LET out == get_target_text_range(phdrs)
       IN  IF out.found
             THEN /\ target' = out
                  /\ source' \in [Addresses \cap out.lo..(out.hi - 1) -> Sites \cup {NoSite}]
                  /\ pc' = "attribute"
             ELSE pc' = "failed" /\ UNCHANGED <<target, source>>
    /\ UNCHANGED <<phdrs, event, attr, ranked, insufficient, by_raw, seen>>

-----------------------------------------------------------------------------
(* classify_and_attribute()                                                *)

\* mutant: the last byte of the text does not belong to it
classifyExclusive(ip) ==
    IF ip >= kKernelHalfStart THEN "kernel"
    ELSE IF ip >= kUserHalfEnd THEN "unclassifiable"
    ELSE IF ip >= target.lo /\ ip < target.hi - 1 THEN "target" ELSE "other"
classify(ip) ==
    IF ip >= kKernelHalfStart THEN "kernel"
    ELSE IF ip >= kUserHalfEnd THEN "unclassifiable"
    ELSE IF ip >= target.lo /\ ip < target.hi THEN "target" ELSE "other"

Put(f, x, v) == [y \in DOMAIN f \cup {x} |-> IF y = x THEN v ELSE f[y]]
At(f, x) == IF x \in DOMAIN f THEN f[x] ELSE 0

\* resolve() is called for an address once, and its failure is remembered too.
Cached(a, ip) == ip \in DOMAIN a.resolve_ok

CachedOkAlways(a, ip) == TRUE               \* mutant: forgets that it failed
CachedOk(a, ip) == a.resolve_ok[ip]

Resolve(a, ip) ==
    IF Cached(a, ip) THEN a
    ELSE [a EXCEPT !.resolve_ok = Put(@, ip, source[ip] # NoSite),
                   !.resolve_loc = IF source[ip] # NoSite THEN Put(@, ip, source[ip]) ELSE @]

\* operator[] makes an empty location for an address that has none.
Location(a, ip) == IF ip \in DOMAIN a.resolve_loc THEN a.resolve_loc[ip] ELSE NoSite

CountLine(a, ip) ==
    LET ok == IF Cached(a, ip) THEN CachedOk(a, ip) ELSE source[ip] # NoSite
        r  == Resolve(a, ip)
        l  == Location(r, ip)
    IN  IF ok THEN [r EXCEPT !.attributed = @ + 1, !.line_counts = Put(@, l, At(@, l) + 1)]
              ELSE [r EXCEPT !.unattributed = @ + 1]

Total(f) == f["target"] + f["other"] + f["kernel"] + f["unclassifiable"]

\* The next sample of the event.
Attribute(ip) ==
    /\ pc = "attribute"
    /\ Total(attr[event].bucket_count) < MaxSamples(event)
    /\ LET b == classify(ip)
           a == [attr[event] EXCEPT
                    !.bucket_count[b] = @ + 1,
                    !.kernel_ips = IF b = "kernel" THEN @ \cup {ip} ELSE @]
       IN  attr' = [attr EXCEPT ![event] = IF b = "target" THEN CountLine(a, ip) ELSE a]
    /\ seen' = [seen EXCEPT ![event][ip] = @ + 1]
    /\ UNCHANGED <<target_vars, pc, event, ranked, insufficient, by_raw>>

\* The samples of the event are all attributed.
EndOfSamples ==
    /\ pc = "attribute"
    /\ IF event = 0 THEN event' = 1 /\ UNCHANGED pc ELSE pc' = "rank" /\ UNCHANGED event
    /\ UNCHANGED <<target_vars, attr, ranked, insufficient, by_raw, seen>>

-----------------------------------------------------------------------------
(* The ranking, in main().                                                 *)

\* Square root of a variance, rounded down: first to a multiple of 64.
Multiples == {64 * k : k \in 0..(32 * (MaxCount + 1))}
Sqrt(x) == LET s == CHOOSE s \in Multiples : s * s <= x /\ x < (s + 64) * (s + 64)
           IN  CHOOSE r \in s..(s + 63) : r * r <= x /\ x < (r + 1) * (r + 1)

\* wilson_lower_bound(m, n, 1.96) in thousandths.  With both sides of the fraction multiplied
\* by n it is (m + z2 / 2 - z * sqrt(m * (n - m) / n + z2 / 4)) / (n + z2), z2 = 3.8416; what
\* is under the root is held at 0 or above.
Variance(m, n) == LET v == ((3841600 * m * (n - m)) \div n) + 3689473
                  IN  IF v > 0 THEN v ELSE 0
Score(m, n, spread) == (1000 * (1000 * m + 1921 + spread)) \div (1000 * n + 3842)

Counts == (0..MaxCount) \X (1..MaxCount)
wilson_upper_bound == [c \in Counts |-> Score(c[1], c[2], Sqrt(Variance(c[1], c[2])))]
                                            \* mutant: adds the spread
wilson_lower_bound == [c \in Counts |-> Score(c[1], c[2], -Sqrt(Variance(c[1], c[2])))]

SitesOfMiss == DOMAIN attr[0].line_counts   \* mutant: lines without a miss are forgotten
AllSites == DOMAIN attr[0].line_counts \cup DOMAIN attr[1].line_counts
m_(s) == At(attr[0].line_counts, s)
n_(s) == At(attr[1].line_counts, s)

Gated(s) == n_(s) < kMinAccessSamples

Concentration(s) == wilson_lower_bound[<<m_(s), n_(s)>>]
BeforeAscending(s, t) == Concentration(s) <= Concentration(t)   \* mutant: the other way round
Before(s, t) == Concentration(s) >= Concentration(t)
BeforeRaw(s, t) == m_(s) >= m_(t)

Sorted(q, Precedes(_, _)) == \A i, j \in DOMAIN q : i < j => Precedes(q[i], q[j])

Rank ==
    /\ pc = "rank"
    /\ insufficient' = {s \in AllSites : Gated(s)}
    /\ ranked' \in {q \in SetToSeqs(AllSites \ insufficient') : Sorted(q, Before)}
    /\ by_raw' \in {q \in SetToSeqs(DOMAIN attr[0].line_counts) : Sorted(q, BeforeRaw)}
    /\ pc' = "done"
    /\ UNCHANGED <<target_vars, event, attr, seen>>

Done == pc \in {"done", "failed"} /\ UNCHANGED vars

Next == ReadHeaders \/ (\E ip \in Addresses : Attribute(ip)) \/ EndOfSamples \/ Rank \/ Done

Spec == Init /\ [][Next]_vars

\* Lines are only told apart and counted: their names do not matter.
Symmetry == Permutations(Sites)

-----------------------------------------------------------------------------
(* Properties.                                                             *)

Maps(D, R) == UNION {[S -> R] : S \in SUBSET D}

\* Every variable has its type; in particular no count belongs to a line that is none.
TypeOK ==
    /\ pc \in {"headers", "attribute", "rank", "done", "failed"} /\ event \in Events
    /\ phdrs \in HeaderTables /\ target \in [found : BOOLEAN, lo : Nat, hi : Nat]
    /\ source \in [Addresses \cap target.lo..(target.hi - 1) -> Sites \cup {NoSite}]
    /\ \A e \in Events :
          /\ attr[e].bucket_count \in [Buckets -> 0..MaxSamples(e)]
          /\ attr[e].kernel_ips \subseteq Addresses
          /\ attr[e].line_counts \in Maps(Sites, 1..MaxSamples(e))
          /\ attr[e].attributed \in Nat /\ attr[e].unattributed \in Nat
          /\ attr[e].resolve_ok \in Maps(DOMAIN source, BOOLEAN)
          /\ attr[e].resolve_loc \in Maps(DOMAIN source, Sites)
    /\ ranked \in Seq(Sites) /\ by_raw \in Seq(Sites) /\ insufficient \subseteq Sites
    /\ seen \in [Events -> [Addresses -> Nat]]

SamplesIn(e, A) == MapThenSumSet(LAMBDA ip : seen[e][ip], A)

\* What belongs to the target: from its first executable byte to its last, the gaps included.
Code == [t \in HeaderTables |->
            {ip \in Addresses : \E i, j \in DOMAIN t :
                t[i].exec /\ t[j].exec /\ t[i].lo <= ip /\ ip < t[j].hi}]
InText == Code[phdrs]
OfLine(s) == {ip \in DOMAIN source : ip \in InText /\ source[ip] = s}

\* Buckets and lines count what they would without a cache, whatever the order in which
\* addresses that resolve and addresses that do not come and come again; every sample is in
\* one bucket, and one in the target's, of several segments too, is attributed or not.
CountsExact == \A e \in Events :
    /\ Total(attr[e].bucket_count) = SamplesIn(e, Addresses)
    /\ attr[e].bucket_count["target"] = SamplesIn(e, InText)
    /\ attr[e].attributed + attr[e].unattributed = SamplesIn(e, InText)
    /\ \A s \in Sites : At(attr[e].line_counts, s) = SamplesIn(e, OfLine(s))

\* What a sample at ip makes of the counts if the debug information is asked every time.
Tally(a) == [lines |-> a.line_counts, attributed |-> a.attributed, unattributed |-> a.unattributed]
Uncached(a, ip) ==
    CASE classify(ip) # "target" -> Tally(a)
      [] classify(ip) = "target" /\ source[ip] = NoSite -> [Tally(a) EXCEPT !.unattributed = @ + 1]
      [] OTHER -> [Tally(a) EXCEPT !.attributed = @ + 1,
                                   !.lines = Put(@, source[ip], At(@, source[ip]) + 1)]

\* The cache cannot be told from its absence: whatever was resolved before, with success or
\* without, each sample is counted as the debug information itself would have it.
CacheInvisible ==
    [][\A ip \in Addresses :
           Attribute(ip) => Tally(attr'[event]) = Uncached(attr[event], ip)]_vars

\* Each line that was sampled by either event is ranked or excluded, once, and it is ranked
\* if and only if it has enough access samples, though it may have no miss.
EverySiteOnce ==
    pc = "done" =>
        /\ \A s \in Sites :
               LET m == SamplesIn(0, OfLine(s))
                   n == SamplesIn(1, OfLine(s))
               IN  /\ (s \in ToSet(ranked)) <=> n >= kMinAccessSamples
                   /\ (s \in insufficient) <=> m + n > 0 /\ n < kMinAccessSamples
                   /\ (s \in ToSet(by_raw)) <=> m > 0
        /\ IsInjective(ranked) /\ IsInjective(by_raw)

\* A line is never ranked behind one with no more misses and no fewer accesses, unless the
\* two are equal.
NeverDominated ==
    pc = "done" => \A i, j \in DOMAIN ranked : i < j =>
        LET s == ranked[i]  t == ranked[j]
        IN  (m_(s) <= m_(t) /\ n_(s) >= n_(t)) => Concentration(s) = Concentration(t)

\* The bound does what the ranking is for (main.cpp:409-416), for each ranked line: it is not
\* above the estimate, and would not fall if the line had another miss, nor if it had the same
\* ratio on more evidence; also where misses outnumber accesses and the variance is held at 0.
EvidenceWins ==
    pc = "done" => \A i \in DOMAIN ranked :
        LET m == m_(ranked[i])  n == n_(ranked[i])
        IN  /\ Concentration(ranked[i]) * n <= 1000 * m + n
            /\ wilson_lower_bound[<<m + 1, n>>] >= Concentration(ranked[i])
            /\ \A k \in 2..MaxCount : <<k * m, k * n>> \in Counts =>
                    wilson_lower_bound[<<k * m, k * n>>] >= Concentration(ranked[i])

\* "HALT CONDITION" (main.cpp:663), and a 1% "halt threshold" (docs/TAKEAWAYS.md:367): no
\* ranking is made from samples of which more than 1% are outside of user space.
HaltHolds ==
    pc = "done" => \A e \in Events :
        LET b == attr[e].bucket_count
        IN  100 * (b["kernel"] + b["unclassifiable"]) <= Total(b)
=============================================================================
