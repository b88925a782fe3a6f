------------------------------ MODULE Adherence -----------------------------
(***************************************************************************)
(* How a merged transcript is scored: the checks a harness prescribes, as  *)
(* operators on a sequence of turns.  A turn is a record of the stage it   *)
(* is stamped with, its TurnIndex, and what it does:                       *)
(*                                                                         *)
(*   "say"   prose, no tool                                                *)
(*   "app"   a tool call that touches a source file under app/             *)
(*   "spec"  a tool call that touches a spec artifact                      *)
(*   "test"  a tool call that runs a known test or lint command            *)
(*                                                                         *)
(* Source: engine/internal/metrics/adherence.go, and the stamping of       *)
(* engine/pkg/executor/grouping.go.                                        *)
(***************************************************************************)
EXTENDS Integers, Sequences, FiniteSets, FiniteSetsExt

Does == {"say", "app", "spec", "test"}

\* Mutant: the merge leaves the stage as the parser set it.
KeepStage(said, stage) ==
    [i \in DOMAIN said |-> [stage |-> "", index |-> i - 1, does |-> said[i]]]

\* AssignTurnGrouping: a turn is numbered in the output of ONE call.
AssignTurnGrouping(said, stage) ==
    [i \in DOMAIN said |-> [stage |-> stage, index |-> i - 1, does |-> said[i]]]

EditTurns(turns, kinds) == {i \in DOMAIN turns : turns[i].does \in kinds}

\* firstEditTurnIndex and its like: the smallest TurnIndex among these
\* positions, -1 when there is none.
FirstIndex(turns, positions) ==
    IF positions = {} THEN -1 ELSE Min({turns[i].index : i \in positions})

StagesOf(turns) == {turns[i].stage : i \in DOMAIN turns} \ {""}

\* iterated.  Two iterations, or an edit and a test with a higher index.
CheckRalph(turns) ==
    LET edit == FirstIndex(turns, EditTurns(turns, {"app", "spec"})) IN
    \/ Cardinality(StagesOf(turns)) >= 2
    \/ edit >= 0 /\ \E i \in EditTurns(turns, {"test"}) : turns[i].index > edit

\* spec_before_impl.
SpecBeforeImplCheck(turns) ==
    LET code == FirstIndex(turns, EditTurns(turns, {"app"}))
        spec == FirstIndex(turns, EditTurns(turns, {"spec"}))
    IN  code >= 0 => spec >= 0 /\ spec < code

\* stages_ran.
StagesRanCheck(turns) == Cardinality(StagesOf(turns)) >= 2
=============================================================================
