------------------------------ MODULE PerfRing ------------------------------
(***************************************************************************)
(* One mmap'd perf_event ring of CacheLens: the kernel appends records,    *)
(* drain() (src/src/main.cpp) reads them, and the two share the data area  *)
(* and two positions, with no lock.                                        *)
(*                                                                         *)
(* The kernel side (external) is modelled from the ring open_sampling()    *)
(* asks for: mapped PROT_READ | PROT_WRITE, so the kernel respects         *)
(* data_tail and drops a record it has no room for; precise_ip = 0,        *)
(* sample_type IP | TID | PERIOD, no side-band records.  It reserves room, *)
(* writes the words one by one, then publishes data_head.                  *)
(*                                                                         *)
(* Positions count 8-byte words, and grow without wrapping: the            *)
(* counters of the program are 64 bits wide.  A word of memory stands for  *)
(* what was last written there: <<n, k>> is word k of record n of recs.    *)
(* Steps interleave under sequential consistency, which the acquire load   *)
(* of data_head and the release store of data_tail justify: the kernel     *)
(* pairs both with barriers of its own.                                    *)
(***************************************************************************)
EXTENDS Naturals, Sequences

CONSTANTS
    DataSize,       \* words in the data area
    Kinds,          \* kinds of record the kernel generates, loss reports aside
    MaxRecords      \* bound: records generated, dropped ones and reports included

ASSUME RingAssumption ==
    /\ DataSize \in Nat \ {0}
    /\ Kinds \subseteq {"sample", "throttle", "other"}
    /\ MaxRecords \in Nat

VARIABLES
    \* the mapping, shared
    data,           \* slot -> word
    data_head,      \* written by the kernel
    data_tail,      \* written by drain()
    \* the kernel
    recs,           \* every record that got room, in order
    log,            \* their words, in order: Len(log) is the kernel's own head
    wpos,           \* position of the next word to write
    lost,           \* records dropped since the last one that got room
    dropped,        \* records dropped so far (history, read by no step)
    live,           \* the target still runs
    \* drain()
    pc, tail, head,
    hdr,            \* the record header under the cursor
    body,           \* words of its body copied so far
    samples, hist,
    last,           \* this drain is the one after the target was reaped
    taken           \* records consumed so far (history, read by no step)

kernelVars == <<recs, log, wpos, lost, dropped, live>>
drainVars  == <<pc, tail, head, hdr, body, samples, hist, last, taken>>
vars == <<data, data_head, data_tail, kernelVars, drainVars>>

-----------------------------------------------------------------------------
\* Record sizes in words, header included: 8 bytes of perf_event_header, then
\* ip, pid/tid, period for a sample and id, lost for a loss report.
RecordKinds == {"sample", "lost", "throttle", "other"}
Size(kind) == CASE kind = "sample" -> 4 [] kind = "lost" -> 3
                [] kind = "throttle" -> 4 [] kind = "other" -> 2
HeaderSize == 1
BodySize(kind) == IF kind = "sample" THEN 3 ELSE 2

\* A record: its place, its kind, the losses it reports (0 unless it is a loss report),
\* and how many records had been dropped in all when the kernel made it.
Record(kind, start, n) ==
    [kind |-> kind, start |-> start, lost |-> n, before |-> dropped]

RecordType == [kind : RecordKinds, start : Nat, lost : Nat, before : Nat]

WordsOf(n, kind) == [k \in 1..Size(kind) |-> <<n, k - 1>>]

Word == Nat \X Nat
Zero == <<0, 0>>                    \* memory the kernel never wrote

NoHeader == [kind |-> "none", size |-> 0]
ZeroHist == [sample |-> 0, lost_records |-> 0, lost_events |-> 0, other |-> 0]

Init ==
    /\ data = [s \in 0..(DataSize - 1) |-> Zero]
    /\ data_head = 0 /\ data_tail = 0
    /\ recs = << >> /\ log = << >> /\ wpos = 0
    /\ lost = 0 /\ dropped = 0 /\ live = TRUE
    /\ pc = "idle" /\ tail = 0 /\ head = 0
    /\ hdr = NoHeader /\ body = << >>
    /\ samples = << >> /\ hist = ZeroHist
    /\ last = FALSE /\ taken = 0

-----------------------------------------------------------------------------
(* The kernel's side.                                                      *)

\* perf leaves one byte of the ring free, so that a full ring is not an empty one.
HasRoom(need) == need < DataSize - (Len(log) - data_tail)

\* Make a record: reserve its room, and room for a report of the losses before it.
Emit(kind) ==
    LET n    == Len(recs)
        need == Size(kind) + (IF lost > 0 THEN Size("lost") ELSE 0)
    IN  /\ live /\ wpos = Len(log) /\ data_head = wpos
        /\ n + dropped < MaxRecords
        /\ HasRoom(need)
        /\ IF lost > 0
             THEN /\ recs' = Append(Append(recs, Record("lost", Len(log), lost)),
                                    Record(kind, Len(log) + Size("lost"), 0))
                  /\ log' = (log \o WordsOf(n + 1, "lost")) \o WordsOf(n + 2, kind)
             ELSE /\ recs' = Append(recs, Record(kind, Len(log), 0))
                  /\ log' = log \o WordsOf(n + 1, kind)
        /\ lost' = 0
        /\ UNCHANGED <<data, data_head, data_tail, wpos, dropped, live, drainVars>>

Drop(kind) ==
    /\ live /\ wpos = Len(log) /\ data_head = wpos
    /\ Len(recs) + dropped < MaxRecords
    /\ ~HasRoom(Size(kind) + (IF lost > 0 THEN Size("lost") ELSE 0))
    /\ lost' = lost + 1
    /\ dropped' = dropped + 1
    /\ UNCHANGED <<data, data_head, data_tail, recs, log, wpos, live, drainVars>>

WriteWord ==
    /\ wpos < Len(log)
    /\ data' = [data EXCEPT ![wpos % DataSize] = log[wpos + 1]]
    /\ wpos' = wpos + 1
    /\ UNCHANGED <<data_head, data_tail, recs, log, lost, dropped, live, drainVars>>

PublishHead ==
    /\ wpos = Len(log) /\ data_head < wpos
    /\ data_head' = wpos
    /\ UNCHANGED <<data, data_tail, kernelVars, drainVars>>

\* The target exits; its counters stop with it.
TargetExit ==
    /\ live /\ wpos = Len(log) /\ data_head = wpos
    /\ live' = FALSE
    /\ UNCHANGED <<data, data_head, data_tail, recs, log, wpos, lost, dropped, drainVars>>

-----------------------------------------------------------------------------
(* drain()                                                                 *)

\* The slots copy_wrapped() reads for len words at slot off: up to the end of the data
\* area first, the rest from its beginning.
copy_wrappedNoRemainder(off, len) ==        \* mutant: the second memcpy skips words
    LET first == IF len < DataSize - off THEN len ELSE DataSize - off
    IN  [k \in 0..(len - 1) |-> IF k < first THEN off + k ELSE k]

copy_wrapped(off, len) ==
    LET first == IF len < DataSize - off THEN len ELSE DataSize - off
    IN  [k \in 0..(len - 1) |-> IF k < first THEN off + k ELSE k - first]

\* A word read as a perf_event_header.  A word that begins no record is garbage, and
\* counts as the header the size check refuses.
AsHeader(w) == IF w[1] \in DOMAIN recs /\ w[2] = 0
                 THEN [kind |-> recs[w[1]].kind, size |-> Size(recs[w[1]].kind)]
                 ELSE NoHeader

AsLostOnePerReport(w) == 1                  \* mutant: counts reports, not losses

\* A word read as the "lost" field of a loss report.
AsLost(w) == IF w[1] \in DOMAIN recs THEN recs[w[1]].lost ELSE 0

\* The poll loop drains a ring poll() reports; after the target was reaped every ring is
\* drained once more (final).  Either way the head is loaded once, before the first record.
StartDrain(final) ==
    /\ pc = "idle"
    /\ final => ~live
    /\ head' = data_head
    /\ last' = final
    /\ pc' = IF data_head - tail > DataSize THEN "overflow" ELSE "loop"
    /\ UNCHANGED <<data, data_head, data_tail, kernelVars, tail, hdr, body, samples, hist, taken>>

NextTailPlusHeader(h) == tail + h.size + HeaderSize     \* mutant: size excludes the header

\* header.size counts the header too.
NextTail(h) == tail + h.size

\* Copy the header at the cursor and act on it; a body is copied by the steps below.
ReadHeader ==
    /\ pc = "loop" /\ tail < head
    /\ hdr' = AsHeader(data[copy_wrapped(tail % DataSize, HeaderSize)[0]])
    /\ pc' = IF hdr'.size < HeaderSize \/ tail + hdr'.size > head THEN "malformed"
             ELSE IF hdr'.kind = "throttle" THEN "throttled"
             ELSE IF hdr'.kind = "other" THEN "loop" ELSE "body"
    /\ body' = << >>
    /\ IF pc' = "loop"
         THEN /\ hist' = [hist EXCEPT !.other = @ + 1]
              /\ tail' = NextTail(hdr')
              /\ taken' = taken + 1
         ELSE UNCHANGED <<hist, tail, taken>>
    /\ UNCHANGED <<data, data_head, data_tail, kernelVars, head, samples, last>>

BodySlot(k) ==
    copy_wrapped(((tail % DataSize) + HeaderSize) % DataSize, BodySize(hdr.kind))[k]

ReadBodyWord ==
    /\ pc = "body" /\ Len(body) < BodySize(hdr.kind)
    /\ body' = Append(body, data[BodySlot(Len(body))])
    /\ UNCHANGED <<data, data_head, data_tail, kernelVars, pc, tail, head, hdr,
                   samples, hist, last, taken>>

\* The body is complete: keep the sample or add up the loss, and step over the record.
Consume ==
    /\ pc = "body" /\ Len(body) = BodySize(hdr.kind)
    /\ IF hdr.kind = "sample"
         THEN /\ samples' = Append(samples, body)
              /\ hist' = [hist EXCEPT !.sample = @ + 1]
         ELSE /\ hist' = [hist EXCEPT !.lost_events = @ + AsLost(body[2]),
                                      !.lost_records = @ + 1]
              /\ UNCHANGED samples
    /\ hdr' = hdr
    /\ tail' = NextTail(hdr)
    /\ taken' = taken + 1
    /\ pc' = "loop"
    /\ UNCHANGED <<data, data_head, data_tail, kernelVars, head, body, last>>

HandBackNewHead == data_head                \* mutant: loads the head a second time

\* What the release store hands back: the records consumed, not those published since.
HandBack == tail

FinishedOnExit == ~live                     \* mutant: no drain after the target was reaped
FinishedNever == FALSE                      \* mutant: child_exited is never set

\* The poll loop is over, and this was the drain after it.
Finished == last

\* Every record up to the head is consumed: hand the space back, once.
PublishTail ==
    /\ pc = "loop" /\ tail >= head
    /\ data_tail' = HandBack
    /\ pc' = IF Finished THEN "done" ELSE "idle"
    /\ UNCHANGED <<data, data_head, kernelVars, tail, head, hdr, body, samples, hist, last, taken>>

-----------------------------------------------------------------------------
Kernel == \/ \E kind \in Kinds : Emit(kind) \/ Drop(kind)
          \/ WriteWord \/ PublishHead \/ TargetExit

Drain == \/ \E final \in BOOLEAN : StartDrain(final)
         \/ ReadHeader \/ ReadBodyWord \/ Consume \/ PublishTail

Next == Kernel \/ Drain

Spec == Init /\ [][Next]_vars

\* drain() never waits.  The poll loop calls waitpid() in every iteration, so once the target
\* is gone only finitely many drains come before the last one.  The kernel finishes what it
\* began; it need not make another record, and the target need not exit.
FairSpec == Spec /\ WF_vars(ReadHeader \/ ReadBodyWord \/ Consume \/ PublishTail)
                 /\ SF_vars(StartDrain(TRUE))
                 /\ WF_vars(WriteWord \/ PublishHead)

-----------------------------------------------------------------------------
(* Properties.                                                             *)

Dead == {"overflow", "malformed", "throttled"}

\* Every variable has its type.
TypeOK ==
    /\ data \in [0..(DataSize - 1) -> Word]
    /\ recs \in Seq(RecordType)
    /\ log \in Seq(Word)
    /\ data_head \in 0..Len(log) /\ wpos \in 0..Len(log)
    /\ data_tail \in 0..Len(log) /\ tail \in 0..Len(log) /\ head \in 0..Len(log)
    /\ lost \in Nat /\ dropped \in Nat
    /\ live \in BOOLEAN /\ last \in BOOLEAN
    /\ pc \in {"idle", "loop", "body", "done"} \cup Dead
    /\ hdr \in [kind : RecordKinds, size : Nat] \cup {NoHeader}
    /\ body \in Seq(Word)
    /\ samples \in Seq(Seq(Word))
    /\ hist \in [sample : Nat, lost_records : Nat, lost_events : Nat, other : Nat]
    /\ taken \in 0..Len(recs)

\* The words the kernel published and drain() did not consume yet are still in memory,
\* wherever the two sides stand and however often the ring wrapped.
UnreadIntact ==
    \A i \in tail..(data_head - 1) : data[i % DataSize] = log[i + 1]

\* The three die() calls that report a corrupt ring (overflow, header too small, header
\* past data_head) are never reached: no run is aborted for a fault the protocol made.
NoFalseAlarm == pc \notin {"overflow", "malformed"}

SampleBody(n) == [k \in 1..BodySize("sample") |-> <<n, k>>]

\* The sample vector holds every sample record consumed so far, whole, once and in the
\* order the kernel wrote them, and nothing else.
SamplesFaithful ==
    /\ \A i \in DOMAIN samples : \E n \in 1..taken :
            recs[n].kind = "sample" /\ samples[i] = SampleBody(n)
    /\ \A i, j \in DOMAIN samples : i < j => samples[i][1][1] < samples[j][1][1]
    /\ \A n \in 1..taken : recs[n].kind = "sample" =>
            \E i \in DOMAIN samples : samples[i] = SampleBody(n)

\* Once a record is consumed, lost_events is the number of records the kernel dropped
\* before it: no drop behind a consumed record is forgotten or counted twice.
LossAccounted ==
    hist.lost_events = IF taken = 0 THEN 0 ELSE recs[taken].before

\* When the last drain is over, everything that got into the ring was consumed, and a
\* record that did not is reported or still waits for a record to be reported before.
AllDelivered ==
    pc = "done" => /\ taken = Len(recs)
                   /\ hist.lost_events + lost = dropped
                   /\ data_tail = data_head

\* The ring implements the lossy record stream.
Stream == INSTANCE RecordStream WITH
    stream    <- [n \in DOMAIN recs |-> [kind |-> recs[n].kind, lost |-> recs[n].lost]],
    delivered <- [i \in DOMAIN samples |-> samples[i][1][1]],
    reported  <- hist.lost_events
ImplementsStream == Stream!Spec

\* After the target exits, the profiler stops draining.
SessionEnds == ~live ~> pc \in {"done"} \cup Dead

\* "Samples the kernel dropped" (README.md:186, of lost_records and lost_events): when the
\* profiler is done, lost_events is the number of records the kernel dropped.
LostEventsIsDropped == pc = "done" => hist.lost_events = dropped
=============================================================================
