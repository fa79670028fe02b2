---------------------------- MODULE BoundedQueue ----------------------------
(***************************************************************************)
(* What the queues under src/benchmarks promise: a first-in first-out      *)
(* queue of at most Capacity items.  The items 0, 1, ... are put in, in    *)
(* that order, and come out in it, each once.                              *)
(* SpscQueue is shown to implement this specification.                     *)
(***************************************************************************)
EXTENDS Naturals, Sequences

CONSTANTS Capacity, TotalItems

VARIABLES
    sent,           \* how many items were put in
    queue,          \* the items in the queue
    got             \* the items taken out, in order

vars == <<sent, queue, got>>

Init == sent = 0 /\ queue = << >> /\ got = << >>

Push == /\ sent < TotalItems
        /\ Len(queue) < Capacity
        /\ queue' = Append(queue, sent)
        /\ sent' = sent + 1
        /\ UNCHANGED got

Pop == /\ queue # << >>
       /\ got' = Append(got, Head(queue))
       /\ queue' = Tail(queue)
       /\ UNCHANGED sent

Next == Push \/ Pop

Spec == Init /\ [][Next]_vars
=============================================================================
