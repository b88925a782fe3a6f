--------------------------------- MODULE Tape ---------------------------------
(* The tape of a comparison: the anchors of the runs are aligned row by row, and  *)
(* the rows are shown at once (the Tape tab) or one after the other by a clock    *)
(* with transport buttons and keys (the Replay tab). Aligning is one synchronous  *)
(* loop, each iteration a step: nothing else happens before it has ended.         *)
EXTENDS Naturals, Integers, Sequences, FiniteSets

CONSTANTS
    Inputs,     \* what may be compared: sequences of runs, each its anchors
    MaxInputs   \* bound: how often what is compared changes

VARIABLES
    runs,       \* the runs compared: for each its anchors [key, turn_index, parent]
    pointers,   \* the next anchor of each run
    emitting,   \* the runs that still get a row of their own in this iteration
    rows,       \* the rows so far: [kind, columns], a column an anchor of its run or 0
    step,       \* the replay clock: the last row shown, from 0,
    playing,    \* and whether it runs
    typing,     \* whether a control has the keyboard
    inputs      \* how often the runs were changed

alignVars == <<runs, pointers, emitting, rows>>
clockVars == <<step, playing>>
tapeVars == <<alignVars, clockVars, typing, inputs>>

Ids == DOMAIN runs
Anchor(i) == runs[i][pointers[i]]

--------------------------------------------------------------------------------
(* The alignment.                                                            *)

Active == {i \in Ids : pointers[i] <= Len(runs[i])}
AllShare == Active = Ids /\ \A i, j \in Ids : Anchor(i).key = Anchor(j).key
\* Does the key come at or after the pointer of the run?
FutureContains(i, key) == \E p \in pointers[i] .. Len(runs[i]) : runs[i][p].key = key
\* The runs whose next anchor no other run has ahead.
Advancers == {i \in Active : \A j \in Active \ {i} : ~FutureContains(j, Anchor(i).key)}
\* The first of the runs with the smallest turn.
Earliest(i) ==
    /\ i \in Active
    /\ \A j \in Active : \/ Anchor(i).turn_index < Anchor(j).turn_index
                         \/ Anchor(i).turn_index = Anchor(j).turn_index /\ i <= j

\* An iteration: a row for all runs, ...
AlignedRow ==
    /\ emitting = {} /\ Active # {} /\ AllShare
    /\ rows' = Append(rows, [kind |-> "anchored", columns |-> pointers])
    /\ pointers' = [i \in Ids |-> pointers[i] + 1]
    /\ UNCHANGED <<runs, emitting, clockVars, typing, inputs>>
\* ... or the choice of the runs that advance, the earliest if each waits for others,
Diverge ==
    /\ emitting = {} /\ Active # {} /\ ~AllShare
    /\ emitting' = IF Advancers # {} THEN Advancers ELSE {i \in Active : Earliest(i)}
    /\ UNCHANGED <<runs, pointers, rows, clockVars, typing, inputs>>
\* Mutant: the runs that advance share a row.
DriftRowShared ==
    /\ emitting # {}
    /\ rows' = Append(rows, [kind |-> "drift",
           columns |-> [j \in Ids |-> IF j \in emitting THEN pointers[j] ELSE 0]])
    /\ emitting' = {}
    /\ pointers' = [j \in Ids |-> IF j \in emitting THEN pointers[j] + 1 ELSE pointers[j]]
    /\ UNCHANGED <<runs, clockVars, typing, inputs>>
\* and one row for each of those.
DriftRow ==
    \E i \in emitting :
        /\ \A j \in emitting : i <= j
        /\ rows' = Append(rows, [kind |-> "drift",
               columns |-> [j \in Ids |-> IF j = i THEN pointers[i] ELSE 0]])
        /\ emitting' = emitting \ {i}
        /\ pointers' = [pointers EXCEPT ![i] = @ + 1]
        /\ UNCHANGED <<runs, clockVars, typing, inputs>>
Done == Active = {} /\ emitting = {}

--------------------------------------------------------------------------------
(* What the tabs show.                                                       *)

\* A cell: the turn of the anchor, or nothing. Both kinds of row have them.
Cell(row, i) == IF row.columns[i] = 0 THEN "" ELSE runs[i][row.columns[i]].parent_turn_index
Gutter(row) == IF row.kind = "drift" THEN "drift" ELSE runs[1][row.columns[1]].key
TapeRow(row) == [gutter |-> Gutter(row), cells |-> [i \in Ids |-> Cell(row, i)]]
\* The rows; none of them when there is nothing to align.
Tape == [k \in DOMAIN rows |-> TapeRow(rows[k])]
\* The replay masks what has not been revealed.
Replay == [k \in DOMAIN rows |-> IF k <= step + 1 THEN Tape[k] ELSE "masked"]

--------------------------------------------------------------------------------
(* The replay clock.                                                         *)

totalSteps == IF rows = <<>> THEN 1 ELSE Len(rows)
clamp(v) == IF v > totalSteps - 1 THEN totalSteps - 1 ELSE IF v < 0 THEN 0 ELSE v
KeepTape == UNCHANGED <<alignVars, typing, inputs>>
SetStep(v) == step' = v /\ UNCHANGED playing /\ KeepTape

\* The interval fires; at the last row the clock stops.
Tick ==
    /\ Done /\ playing
    /\ IF step + 1 >= totalSteps - 1
       THEN playing' = FALSE /\ step' = totalSteps - 1
       ELSE step' = step + 1 /\ UNCHANGED playing
    /\ KeepTape
\* Play rewinds when the end was reached.
PlayPause ==
    /\ playing' = ~playing
    /\ step' = IF ~playing /\ step >= totalSteps - 1 THEN 0 ELSE step
    /\ KeepTape
StepForward == SetStep(clamp(step + 1))
StepBack == SetStep(clamp(step - 1))
\* The slider, which then has the keyboard.
Scrub(target) ==
    /\ step' = clamp(target)
    /\ typing' = TRUE
    /\ UNCHANGED <<alignVars, playing, inputs>>
LeaveControl == typing /\ typing' = FALSE /\ UNCHANGED <<alignVars, clockVars, inputs>>

\* Keys, unless a control has the keyboard; they work without rows too.
Key == ~typing /\ (PlayPause \/ StepForward \/ StepBack)
\* The bar, which takes the keyboard from the slider.
Bar ==
    /\ rows # <<>>
    /\ \/ PlayPause \/ StepForward \/ StepBack
       \/ \E target \in 0 .. Len(rows) - 1 : Scrub(target)
\* Other runs are compared: the clock goes on where it was.
Compare(input) ==
    /\ inputs < MaxInputs /\ inputs' = inputs + 1
    /\ runs' = input
    /\ pointers' = [i \in DOMAIN input |-> 1]
    /\ emitting' = {} /\ rows' = <<>>
    /\ UNCHANGED <<clockVars, typing>>

Mounted(input) ==
    /\ runs = input
    /\ pointers = [i \in DOMAIN input |-> 1]
    /\ emitting = {} /\ rows = <<>>
    /\ step = 0 /\ playing = FALSE /\ typing = FALSE /\ inputs = 0
Init == \E input \in Inputs : Mounted(input)

Align == AlignedRow \/ Diverge \/ DriftRow
User == Done /\ (Key \/ Bar \/ LeaveControl \/ \E input \in Inputs : Compare(input))
Next == Align \/ Tick \/ User

Spec == Init /\ [][Next]_tapeVars

--------------------------------------------------------------------------------
\* The rows of the tape take every anchor of every run exactly once and in order: at
\* any point of the loop, those before the run's pointer and no others.
EveryAnchorOnce ==
    \A i \in Ids :
        /\ \A p \in 1 .. Len(runs[i]) :
               p < pointers[i] <=> \E k \in DOMAIN rows : rows[k].columns[i] = p
        /\ \A k, l \in DOMAIN rows :
               (k < l /\ rows[k].columns[i] # 0 /\ rows[l].columns[i] # 0) =>
                   rows[k].columns[i] < rows[l].columns[i]

\* A row without a dash in the gutter is an anchor of every run, with the same key.
AnchoredRowsAgree ==
    \A k \in DOMAIN rows : rows[k].kind = "anchored" =>
        \A i, j \in Ids :
            /\ rows[k].columns[i] \in DOMAIN runs[i]
            /\ runs[i][rows[k].columns[i]].key = runs[j][rows[k].columns[j]].key

\* The greedy alignment is a merge of the runs.
Merge == INSTANCE AnchorMerge WITH taken <- [i \in Ids |-> pointers[i] - 1]
Merges == Merge!Spec
================================================================================
