-------------------------------- MODULE MCPages --------------------------------
(* An instance of the pages for TLC.                                             *)
EXTENDS Pages, TLC

(* The list and the compare page: two experiments of one batch with a run each, of *)
(* which one may be shown; texts that match both or the first; a URL that names a  *)
(* run, or one of no listed experiment and a run.                                  *)
TwoExperiments == {"e1", "e2"}
NewerFirst == <<"e1", "e2">>
CreatedAt == "e1" :> 2 @@ "e2" :> 1
OneBatch == "e1" :> "b1" @@ "e2" :> "b1"
RunEach == "e1" :> <<"r1">> @@ "e2" :> <<"r2">>
AllOrOne == "all" :> {"e1", "e2"} @@ "one" :> {"e1"}
OneProfile == "r1" :> "full" @@ "r2" :> "none" @@ "r9" :> "full"
SomePasted == {<<>>, <<"r2">>, <<"r9", "r1">>}

(* The tables: three columns that every pivot orders differently, one without a   *)
(* grade.                                                                          *)
At(h, a, m) == "harness" :> h @@ "agent" :> a @@ "model" :> m
Test(name, passed) == [name |-> name, passed |-> passed]
Graded(tests) == [tests |-> tests]
ThreeRuns == {"r1", "r2", "r3"}
ThreeCoords == "r1" :> At(1, 2, 1) @@ "r2" :> At(2, 1, 1) @@ "r3" :> At(1, 1, 2)
TwoGrades == "r1" :> Graded(<<Test("t1", TRUE), Test("t2", FALSE)>>)
             @@ "r2" :> Graded(<<Test("t2", TRUE), Test("t3", FALSE)>>)
             @@ "r3" :> Ungraded

(* The inspector: an agent that thinks and then edits a file.                     *)
Turn(i, kind, tool, files, hits) ==
    [turn_index |-> i, parent_turn_index |-> i, block_kind |-> kind, role |-> "",
     stage |-> "", tool_name |-> tool, files_touched |-> files, empty |-> FALSE,
     errorLine |-> FALSE, occurrences |-> "x" :> hits]
OneFile == {"f"}
OneText == {"x"}
OneTool == {"edit"}
ThinkThenEdit ==
    <<Turn(0, "thinking", "", {}, 0), Turn(1, "tool_use", "edit", {"f"}, 1)>>
OneSpan == <<[turn_index |-> 1, code |-> "c"]>>

(* A tool call in the inspector: every edit of texts of up to three lines, outputs *)
(* of up to two pieces around the limits, and patches of up to two files.         *)
Call(tool, fields, old, new, output) ==
    [tool |-> tool, fields |-> fields, files |-> {"f"}, old |-> old, new |-> new,
     output |-> output]
NoPatch == [files |-> <<>>, bare |-> FALSE]
SomeTexts == UNION {[1 .. n -> {0, 1}] : n \in 1 .. 3}
Edits == {Call("edit", {"path", "old"}, old, new, <<>>) : old \in SomeTexts, new \in SomeTexts}
Piece(tag, lines, footer, blank) ==
    [tag |-> tag, lines |-> lines, footer |-> footer, blank |-> blank]
Pieces == {Piece("content", 6, 2, FALSE), Piece("entries", 1, 1, FALSE),
           Piece("none", 3, 0, FALSE), Piece("none", 1, 0, TRUE),
           Piece("shell_metadata", 2, 0, FALSE), Piece("path", 1, 0, FALSE),
           Piece("task_result", 4, 0, FALSE), Piece("odd", 2, 0, FALSE)}
Outputs == {Call(tool, {"command"}, <<0>>, <<0>>, output) :
                tool \in {"read", "bash"},
                output \in UNION {[1 .. n -> Pieces] : n \in 0 .. 2}}
File(source, target, content) == [source |-> source, target |-> target, content |-> content]
Changed == {File("f", "f", <<"kept", "-", "+", "+">>), File("none", "g", <<"+">>),
            File("h", "none", <<"-">>), File("i", "k", <<"-", "+">>),
            File("m", "m", <<>>), File("s", "s", <<"-", "dashes">>)}
SomePatches == {[files |-> files, bare |-> bare] : bare \in BOOLEAN, files \in
                {<<>>} \cup {<<a>> : a \in Changed}
                \cup {<<a, b>> : <<a, b>> \in {ab \in Changed \X Changed : ab[1] # ab[2]}}}
ManyDetails == {[call |-> c, patch |-> NoPatch] : c \in Edits \cup Outputs}
               \cup {[call |-> Call("todo", {"unparsed"}, <<0>>, <<0>>, <<>>), patch |-> p] :
                         p \in SomePatches}

(* The grading inspector: a judge that may rate one dimension.                    *)
OneJudgement == {"quality" :> 4}

(* The launcher: catalogues that change under the picks, role names that clash    *)
(* with the one a new role is given, and one that is not allowed.                 *)
TwoTasks == <<"t1", "t2">>
TwoExecutors == <<"aider", "opencode">>
OnlyOpencode == {"opencode"}
FirstModels == {"m1", "m3"}
OtherModels == {"m2"}
SomeAllowed == {<<"opencode", "m1">>, <<"opencode", "m2">>, <<"aider", "m3">>}
OneExtension == {"canonical"}
RoleNames == {"planner", "role3", "Bad Name"}
TwoSizes == {5, 6}

(* The tape: nothing, two runs of which one stops, two that cross, three that     *)
(* repeat keys.                                                                    *)
A(key, turn) == [key |-> key, turn_index |-> turn, parent_turn_index |-> turn]
SomeTapes == {
    <<>>,
    << <<A("x", 1), A("y", 2)>>, <<A("x", 1), A("y", 3)>> >>,
    << <<A("x", 2), A("y", 3), A("z", 4)>>, <<A("y", 1), A("x", 2), A("w", 3)>> >>,
    << <<A("x", 1), A("x", 2)>>, <<A("x", 1)>>, <<A("z", 1), A("x", 2)>> >> }
================================================================================
