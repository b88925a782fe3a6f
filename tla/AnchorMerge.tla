------------------------------ MODULE AnchorMerge ------------------------------
(* What aligning the anchors of several runs promises, whatever rule picks the    *)
(* next row: a row takes the next anchor of one run, or the next one of all runs  *)
(* when they have the same key. No anchor is skipped, repeated or reordered.      *)
EXTENDS Naturals, Sequences

CONSTANTS Inputs   \* what may be compared: sequences of runs, each its anchors

VARIABLES
    runs,    \* the runs compared
    taken    \* how many of each run's anchors are on the tape

mergeVars == <<runs, taken>>

Start(input) == runs = input /\ taken = [i \in DOMAIN input |-> 0]

Take(ids) ==
    /\ \A i \in ids : taken[i] < Len(runs[i])
    /\ \A i, j \in ids : runs[i][taken[i] + 1].key = runs[j][taken[j] + 1].key
    /\ taken' = [i \in DOMAIN runs |-> IF i \in ids THEN taken[i] + 1 ELSE taken[i]]
    /\ UNCHANGED runs
\* Other runs are chosen.
Renew == \E input \in Inputs : Start(input)'

Init == \E input \in Inputs : Start(input)
Next == \/ \E i \in DOMAIN runs : Take({i})
        \/ Take(DOMAIN runs)
        \/ Renew

Spec == Init /\ [][Next]_mergeVars
================================================================================
