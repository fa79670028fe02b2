------------------------------- MODULE Profile -------------------------------
(***************************************************************************)
(* What one run of the cachelens command promises about the program it     *)
(* profiles, whatever it has to do for that: the program is held before    *)
(* its first instruction, what is counted is counted from there on, and it *)
(* ends either in a report of all that or in an error, never in both.      *)
(***************************************************************************)
EXTENDS Naturals, Sequences

CONSTANTS
    Rings,          \* where records are made
    Kinds           \* of records

VARIABLES
    target,         \* "none", "held", "runs" or "ended"
    how,            \* how it ended
    counted,        \* rings that counted it from its first instruction on
    log,            \* ring -> records made of it
    due,            \* ring -> records made when it ended
    left,           \* a process it started goes on
    result,         \* "none", "report" or "error"
    covered,        \* ring -> records the report covers
    code            \* exit code of the command, once there is a result

vars == <<target, how, counted, log, due, left, result, covered, code>>

NotEnded == [how |-> "none", n |-> 0]
Nothing == [r \in Rings |-> 0]
Recorded == \E r \in Rings : log[r] # << >>

Init ==
    /\ target = "none" /\ how = NotEnded
    /\ counted = {} /\ log = [r \in Rings |-> << >>] /\ due = Nothing
    /\ left = FALSE
    /\ result = "none" /\ covered = Nothing

\* The program is started and held: the first time, or again after a run that was not
\* recorded.  What was recorded is never given up for another run.
Hold ==
    /\ result = "none" /\ target \in {"none", "ended"} /\ ~Recorded
    /\ target' = "held" /\ how' = NotEnded
    /\ counted' = {} /\ due' = Nothing /\ left' = FALSE
    /\ UNCHANGED <<log, result, covered, code>>

\* It executes its first instruction; which rings count it is settled with that.
Release ==
    /\ target = "held"
    /\ target' = "runs" /\ counted' \in SUBSET Rings
    /\ UNCHANGED <<how, log, due, left, result, covered, code>>

Record(r, kind) ==
    /\ target = "runs" \/ left
    /\ result = "none" /\ r \in counted
    /\ log' = [log EXCEPT ![r] = Append(@, kind)]
    /\ UNCHANGED <<target, how, counted, due, left, result, covered, code>>

\* It ends at any time, also held and also after the command gave up on it.
End ==
    /\ target \in {"held", "runs"}
    /\ target' = "ended" /\ how' # NotEnded
    /\ left' \in {FALSE, target = "runs"}
    /\ due' = [r \in Rings |-> Len(log[r])]
    /\ UNCHANGED <<counted, log, result, covered, code>>

\* What a shell makes of the way a program ended.
OwnCode(h) == IF h.how = "signaled" THEN 128 + h.n ELSE h.n

\* A report covers a program that ended and was counted by every ring: from each ring all
\* records made of it, samples without exception.  The exit code is the program's own.
Report ==
    /\ result = "none" /\ target = "ended" /\ counted = Rings
    /\ result' = "report" /\ code' = OwnCode(how)
    /\ \A r \in Rings : /\ covered'[r] \in due[r]..Len(log[r])
                        /\ \A i \in 1..covered'[r] : log[r][i] = "sample"
    /\ UNCHANGED <<target, how, counted, log, due, left>>

\* Or the command fails, and says so.
Refuse ==
    /\ result = "none"
    /\ result' = "error" /\ code' \in 1..255
    /\ UNCHANGED <<target, how, counted, log, due, left, covered>>

Next == \/ Hold \/ Release \/ End \/ Report \/ Refuse
        \/ \E r \in Rings, kind \in Kinds : Record(r, kind)

Spec == Init /\ [][Next]_vars
=============================================================================
