---------------------------- MODULE RecordStream ----------------------------
(***************************************************************************)
(* What one sampling ring of CacheLens promises, with no memory, positions *)
(* or words in it: a lossy stream of records.  The kernel appends a record *)
(* or drops it; the next record that gets through is preceded by a report  *)
(* of how many were dropped before it.  The profiler takes records in      *)
(* stream order, exactly once each: a sample is kept, a loss report is     *)
(* added up, any other record is only counted.                             *)
(* PerfRing is shown to implement this specification.                      *)
(***************************************************************************)
EXTENDS Naturals, Sequences

CONSTANT Kinds          \* kinds of record the kernel generates

VARIABLES
    stream,             \* every record that got through, loss reports included
    lost,               \* records dropped since the last one that got through
    taken,              \* how many records of the stream were taken
    delivered,          \* the samples taken, each as its number in the stream
    reported            \* sum of the loss reports taken

vars == <<stream, lost, taken, delivered, reported>>

Record(kind, n) == [kind |-> kind, lost |-> n]

Init == /\ stream = << >>
        /\ lost = 0
        /\ taken = 0
        /\ delivered = << >>
        /\ reported = 0

\* A record gets through, behind a report of the losses it is the first to survive.
Accept(kind) ==
    /\ stream' = Append(IF lost > 0 THEN Append(stream, Record("lost", lost)) ELSE stream,
                        Record(kind, 0))
    /\ lost' = 0
    /\ UNCHANGED <<taken, delivered, reported>>

Drop == /\ lost' = lost + 1
        /\ UNCHANGED <<stream, taken, delivered, reported>>

Take == /\ taken < Len(stream)
        /\ taken' = taken + 1
        /\ delivered' = IF stream[taken + 1].kind = "sample"
                          THEN Append(delivered, taken + 1) ELSE delivered
        /\ reported' = reported + stream[taken + 1].lost
        /\ UNCHANGED <<stream, lost>>

Next == (\E kind \in Kinds : Accept(kind)) \/ Drop \/ Take

Spec == Init /\ [][Next]_vars
=============================================================================
