------------------------------ MODULE MCReport ------------------------------
(* Small instances of Report: program headers, with two executable segments or none. *)
EXTENDS Report

Data(lo, hi) == [lo |-> lo, hi |-> hi, exec |-> FALSE]
Text(lo, hi) == [lo |-> lo, hi |-> hi, exec |-> TRUE]

\* Two segments of one address each, with a gap between them; an empty one before another; and a
\* target without code.
MCHeaderTables == {<<Data(0, 2), Text(2, 3), Text(4, 5), Data(5, 6)>>, <<Text(0, 0), Text(2, 3)>>,
                   <<Data(0, 2)>>}
HaltHeaderTables == {<<Data(0, 2), Text(2, 4)>>}
=============================================================================
