---------------------------- MODULE SharedQueue ----------------------------
(***************************************************************************)
(* What the queue of src/benchmarks/mpmc_queue.cpp promises: a first-in    *)
(* first-out queue of at most Capacity items, shared by several producers  *)
(* and several consumers.  Each producer puts in the items of its own      *)
(* range, in order; each item comes out once, to one consumer.             *)
(***************************************************************************)
EXTENDS Naturals, Sequences

CONSTANTS Capacity, Producers, Consumers, PerProducer, PerConsumer

VARIABLES
    sent,           \* producer -> how many items it put in
    queue,          \* the items in the queue
    got             \* consumer -> the items it took out, in order

vars == <<sent, queue, got>>

Init == /\ sent = [p \in Producers |-> 0]
        /\ queue = << >>
        /\ got = [c \in Consumers |-> << >>]

Push(p) == /\ sent[p] < PerProducer
           /\ Len(queue) < Capacity
           /\ queue' = Append(queue, p * PerProducer + sent[p])
           /\ sent' = [sent EXCEPT ![p] = @ + 1]
           /\ UNCHANGED got

Pop(c) == /\ Len(got[c]) < PerConsumer
          /\ queue # << >>
          /\ got' = [got EXCEPT ![c] = Append(@, Head(queue))]
          /\ queue' = Tail(queue)
          /\ UNCHANGED sent

Next == \/ \E p \in Producers : Push(p)
        \/ \E c \in Consumers : Pop(c)

Spec == Init /\ [][Next]_vars
=============================================================================
