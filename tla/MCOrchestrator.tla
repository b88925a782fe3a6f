--------------------------- MODULE MCOrchestrator ---------------------------
(***************************************************************************)
(* Instances of Orchestrator for TLC: one or two experiments with two      *)
(* runs, one or two workers, and the requests each question needs.         *)
(***************************************************************************)
EXTENDS Orchestrator, TLC

CONSTANTS e1, e2, r1, r2, r3, r4, r5, q1, q2, q3, q4

\* One experiment owns every run.
OneExperiment == [r \in Runs |-> e1]

\* e1 owns r1 and r2, e2 owns r3.
TwoExperiments == [r \in Runs |-> IF r = r3 THEN e2 ELSE e1]

\* e1 owns r1 and r2, and r4 and r5, the ids that those two get when they are
\* inserted once more; e2 owns r3.
TwoIdsOnE1 == [r \in Runs |-> IF r \in {r2, r5} THEN 2 ELSE 1]

\* Ids of one run, and workers, are interchangeable.
Alike == Permutations({r1, r4}) \cup Permutations({r2, r5}) \cup Permutations(Workers)

\* Every run is one of a variant of its own.
OwnVariants == [r \in Runs |-> r]

\* All runs are of one variant.
OneVariant == [r \in Runs |-> r1]

\* Two variants: r1 and r2 are their first runs, r3 is a second one.
Numbers == [r \in Runs |-> IF r = r3 THEN 2 ELSE 1]

OpRetry   == q1 :> "start" @@ q2 :> "retry" @@ q3 :> "start"
OpCancel  == q1 :> "start" @@ q2 :> "cancel"
OpMixed   == q1 :> "start" @@ q2 :> "cancel" @@ q3 :> "retry" @@ q4 :> "estimate"
OpGone    == q1 :> "start" @@ q2 :> "start" @@ q3 :> "cancel" @@ q4 :> "delete"

OnE1      == [q \in Requests |-> IF Op[q] = "retry" THEN r1 ELSE e1]
OnThird   == [q \in Requests |-> IF Op[q] = "retry" THEN r1
                                ELSE IF q = q3 THEN e2 ELSE e1]
OnBoth    == [q \in Requests |-> IF q = q2 THEN e2 ELSE e1]
=============================================================================
