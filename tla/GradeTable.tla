------------------------------- MODULE GradeTable -------------------------------
(* The two tables of the compare page: grades under a pivoted multi-index header *)
(* and test verdicts with rows that expand. What is drawn of a grade in its cell *)
(* is left out.                                                                   *)
EXTENDS Integers, SequencesExt, Ordering

CONSTANTS
    Runs,       \* the runs that can be ticked
    Coords,     \* run -> [harness, agent, model], names as their rank in the alphabet
    Grades,     \* run -> its grade, or Ungraded
    Ungraded

Dims == {"harness", "agent", "model"}
Dash == "-"

VARIABLES
    runIds,        \* the ticked runs in pick order: the columns before the pivot
    answered,      \* the grades query has answered for these runs
    dimOrder,      \* the pivot, outermost dimension first
    dragging,      \* the pill being dragged, or 0
    expandedKey    \* the expanded test, or Dash

tableVars == <<runIds, answered, dimOrder, dragging, expandedKey>>

GradeOf(r) == IF answered THEN Grades[r] ELSE Ungraded
\* The answer of the grades query: in the order of the ids it was asked for.
grades == [i \in DOMAIN runIds |-> GradeOf(runIds[i])]

--------------------------------------------------------------------------------
(* The pivot.                                                                *)

\* Mutant: the columns are sorted by the default pivot whatever the user chose.
BeforeByDefault(r, q) ==
    LET order == <<"harness", "agent", "model">> IN
    \E k \in DOMAIN order :
        /\ Coords[r][order[k]] < Coords[q][order[k]]
        /\ \A j \in 1 .. k - 1 : Coords[r][order[j]] = Coords[q][order[j]]
\* Lexicographic in the chosen order of dimensions.
BeforeByDims(r, q) ==
    \E k \in DOMAIN dimOrder :
        /\ Coords[r][dimOrder[k]] < Coords[q][dimOrder[k]]
        /\ \A j \in 1 .. k - 1 : Coords[r][dimOrder[j]] = Coords[q][dimOrder[j]]
\* Headers, coordinates, grades and links are all permuted by the same order.
colOrder == SortedPositions(runIds, BeforeByDims)
Column(c) == [run |-> runIds[colOrder[c]],
              coords |-> Coords[runIds[colOrder[c]]],
              grade |-> grades[colOrder[c]]]

\* A header row: a cell starts at column c and spans the columns that follow
\* with the same value.
Starts(dim) == {c \in DOMAIN runIds :
                   c = 1 \/ Column(c).coords[dim] # Column(c - 1).coords[dim]}
PivotRow(dim) ==
    [c \in Starts(dim) |->
        [value |-> Column(c).coords[dim],
         span |-> Min({d \in Starts(dim) \cup {Len(runIds) + 1} : d > c}) - c]]

Move(from, to) ==
    IF from = to \/ to \notin DOMAIN dimOrder THEN dimOrder
    ELSE InsertAt(RemoveAt(dimOrder, from), to, dimOrder[from])
Arrow(i, step) ==
    /\ i + step \in DOMAIN dimOrder
    /\ dimOrder' = Move(i, i + step)
    /\ UNCHANGED <<runIds, answered, dragging, expandedKey>>
DragStart(i) ==
    /\ dragging = 0 /\ dragging' = i
    /\ UNCHANGED <<runIds, answered, dimOrder, expandedKey>>
Drop(i) ==
    /\ dragging # 0
    /\ dimOrder' = Move(dragging, i)
    /\ dragging' = 0
    /\ UNCHANGED <<runIds, answered, expandedKey>>
DragEnd ==
    /\ dragging # 0 /\ dragging' = 0
    /\ UNCHANGED <<runIds, answered, dimOrder, expandedKey>>

--------------------------------------------------------------------------------
(* The test results.                                                         *)

FirstSeen(names) ==
    FoldLeft(LAMBDA acc, n : IF Contains(acc, n) THEN acc ELSE Append(acc, n), <<>>, names)
TestsOf(r) == IF GradeOf(r) = Ungraded THEN <<>> ELSE GradeOf(r).tests
\* The union of the test names in the order they are first seen, in pick order.
TestNames ==
    FirstSeen(FlattenSeq([i \in DOMAIN runIds |->
        [k \in DOMAIN TestsOf(runIds[i]) |-> TestsOf(runIds[i])[k].name]]))
\* A run's verdict on a test: the first result of that name, or a dash.
Verdict(r, name) ==
    LET k == SelectInSeq(TestsOf(r), LAMBDA t : t.name = name) IN
    IF k = 0 THEN Dash ELSE IF TestsOf(r)[k].passed THEN "pass" ELSE "fail"
AnyFailedOutput(name) == \E i \in DOMAIN runIds : Verdict(runIds[i], name) = "fail"
\* A click on a row with a failure expands it, or collapses it again.
ToggleRow(name) ==
    /\ Contains(TestNames, name) /\ AnyFailedOutput(name)
    /\ expandedKey' = IF expandedKey = name THEN Dash ELSE name
    /\ UNCHANGED <<runIds, answered, dimOrder, dragging>>

--------------------------------------------------------------------------------
\* The page ticks or unticks a run: the tables are unmounted without runs, and
\* the grades of another selection are asked for anew.
SetRuns(ids) ==
    /\ runIds' = ids
    /\ answered' = FALSE
    /\ IF ids = <<>> THEN /\ dimOrder' = <<"harness", "agent", "model">>
                          /\ dragging' = 0 /\ expandedKey' = Dash
       ELSE UNCHANGED <<dimOrder, dragging, expandedKey>>
\* Set.delete: Remove without its recursion, of which proofs know nothing.
Without(s, r) == FlattenSeq([i \in DOMAIN s |-> IF s[i] = r THEN <<>> ELSE <<s[i]>>])
ToggleRun(r) ==
    SetRuns(IF Contains(runIds, r) THEN Without(runIds, r) ELSE Append(runIds, r))
GradesAnswer ==
    /\ ~answered /\ runIds # <<>>
    /\ answered' = TRUE
    /\ UNCHANGED <<runIds, dimOrder, dragging, expandedKey>>

Init ==
    /\ runIds = <<>> /\ answered = FALSE
    /\ dimOrder = <<"harness", "agent", "model">>
    /\ dragging = 0 /\ expandedKey = Dash
Next ==
    \/ \E r \in Runs : ToggleRun(r)
    \/ GradesAnswer
    \/ /\ runIds # <<>>
       /\ \E i \in DOMAIN dimOrder : Arrow(i, 1) \/ Arrow(i, -1) \/ DragStart(i) \/ Drop(i)
    \/ DragEnd
    \/ \E i \in DOMAIN TestNames : ToggleRow(TestNames[i])
Spec == Init /\ [][Next]_tableVars

--------------------------------------------------------------------------------
\* Whatever the user drags, the header is a pivot of the columns: each ticked run
\* is one column with its own grade, the cells of a row tile the columns with the
\* value of the run under them, and a value is repeated in a row only where an outer
\* row changes.
PivotIsFaithful ==
    /\ {Column(c).run : c \in DOMAIN runIds} = ToSet(runIds)
    /\ \A c \in DOMAIN runIds : Column(c).grade = GradeOf(Column(c).run)
    /\ \A k \in DOMAIN dimOrder :
           LET row == PivotRow(dimOrder[k]) IN
           /\ \A c \in DOMAIN row : \A d \in c .. c + row[c].span - 1 :
                  Coords[Column(d).run][dimOrder[k]] = row[c].value
           /\ \A c, d \in DOMAIN row :
                  c < d /\ row[c].value = row[d].value =>
                      \E j \in 1 .. k - 1, e \in c + 1 .. d : e \in Starts(dimOrder[j])
================================================================================
