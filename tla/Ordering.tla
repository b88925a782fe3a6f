-------------------------------- MODULE Ordering --------------------------------
(* Sorting, as the frontend's pages and algorithms use it.                       *)
EXTENDS Naturals, FiniteSets, Sequences

\* The elements of a finite set in the order of a strict total order on them.
Ordered(S, Before(_, _)) ==
    LET Place(x) == Cardinality({y \in S : Before(y, x)}) + 1 IN
    [i \in 1 .. Cardinality(S) |-> CHOOSE x \in S : Place(x) = i]

\* A sequence sorted stably: Before compares elements, ties keep their order.
\* The result is the sequence of the old positions.
SortedPositions(s, Before(_, _)) ==
    Ordered(DOMAIN s, LAMBDA i, j :
        \/ Before(s[i], s[j])
        \/ ~Before(s[j], s[i]) /\ i < j)
StableSort(s, Before(_, _)) ==
    LET order == SortedPositions(s, Before) IN [i \in DOMAIN s |-> s[order[i]]]
================================================================================
