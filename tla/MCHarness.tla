------------------------------ MODULE MCHarness -----------------------------
(* Three stages or roles and four iterations; a call may print nothing, or  *)
(* prose, or work that a check looks at; an agent may write a CLAUDE.md.    *)
EXTENDS Harness

FourIterations == <<"iteration-0", "iteration-1", "iteration-2", "iteration-3">>
ThreeRoles     == <<"coder", "architect", "reviewer">>
ThreeStages    == <<"specify", "plan", "implement">>
AFewOutputs    == {<<>>, <<"app", "test">>, <<"test", "spec">>}
SomeShipments  == {{}, {".specify"}, Paths}
SpecOutputs    == {<<>>, <<"say", "spec">>, <<"app">>}
=============================================================================
