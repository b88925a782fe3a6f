--------------------------- MODULE MCGraderClient ---------------------------
(* Small instances of GraderClient: a worker that grades and a handler that *)
(* classifies, or two workers that grade.                                   *)
EXTENDS GraderClient, TLC

CONSTANTS g1, g2, k1

GradeAndClassify == {g1, k1}
KindOf == [c \in GradeAndClassify |-> IF c = k1 THEN "classify" ELSE "grade"]
TwoGraders == {g1, g2}
KindOfTwo == [c \in TwoGraders |-> "grade"]
=============================================================================
