--------------------------------- MODULE Pages ---------------------------------
(* The pages of the frontend behind one router. A page that is left is unmounted  *)
(* and drops its state, and the pages share no state but the engine's: the         *)
(* behaviours are the visits of one page each. The tables are a visit of their own *)
(* although the compare page shows them: they read its ticks and nothing on it     *)
(* reads them.                                                                     *)
EXTENDS InspectPage

CONSTANTS
    Experiments, Matches,                                   \* the list and the compare page
    Created, Batch, NoBatch, FocusBatch, MaxDeletes,        \* the list
    ListOrder, RunsIn, Profile, Pasted, MaxRuns, NoData,    \* the compare page
    Columns, Coords, Grades, Ungraded,                      \* its tables
    Judgements, MaxUpdates, MaxRegrades,                    \* the grading inspector
    Tasks, Executors, Enabled, ModelsBefore, ModelsAfter, Allowed, Extensions, Names,
    MaxRoles, Sizes, MaxEdits, MaxLaunches,                 \* the launcher
    Inputs, MaxInputs,                                      \* the tape
    Details, Blank                                          \* a tool call

VARIABLES
    page,
    existing, experiments, listFetch, listError, query, status, picked,
    expandedBatches, deletes,
    searchParams, lastParams, selected, autoSelectedRef, bundles, diagnostics,
    pickerQuery, completedRuns,
    runIds, answered, dimOrder, dragging, expandedKey,
    stage, saved, profile, shown, loaded, failed, fetch, updates, regrade, told,
    openDims,
    catalogue, form, edits, requests, promised, partialError, destination,
    runs, pointers, emitting, rows, step, playing, typing, inputs,
    call, patch, expanded

listVars == <<existing, experiments, listFetch, listError, query, status, picked,
              expandedBatches, deletes>>
compareVars == <<searchParams, lastParams, selected, autoSelectedRef, bundles,
                 diagnostics, pickerQuery, completedRuns>>
tableVars == <<runIds, answered, dimOrder, dragging, expandedKey>>
gradingVars == <<stage, saved, profile, shown, loaded, failed, fetch, updates, regrade,
                 told, openDims>>
launchVars == <<catalogue, form, edits, requests, promised, partialError, destination>>
detailVars == <<call, patch, expanded>>
tapeVars == <<runs, pointers, emitting, rows, step, playing, typing, inputs>>

--------------------------------------------------------------------------------
List == INSTANCE ExperimentsPage WITH fetch <- listFetch, selected <- picked
Compare2 == INSTANCE ComparePage
Table == INSTANCE GradeTable WITH Runs <- Columns
Grading == INSTANCE GradingPage
Launcher == INSTANCE LaunchPage
Aligned == INSTANCE Tape
Detail == INSTANCE TurnDetail

Visits == {"list", "compare", "tables", "inspect", "grading", "launch", "tape", "detail"}
PagesInit ==
    /\ page \in Visits
    /\ List!Init /\ Compare2!Init /\ Table!Init /\ Init /\ Grading!Init
    /\ Launcher!Init /\ Aligned!Init /\ Detail!Init
    \* A page that is not visited is not opened in different ways.
    /\ page # "compare" => searchParams = Compare2!NoParams
    /\ page # "inspect" => engine.turns = 0 /\ url.filters = {} /\ url.focus = -1
    /\ page # "launch" => ~form.preset
    /\ page # "tape" => Aligned!Mounted(CHOOSE input \in Inputs : TRUE)
    /\ page # "detail" => Detail!Mounted(CHOOSE detail \in Details : TRUE)

On(p) == page = p /\ UNCHANGED page
PagesNext ==
    /\ \/ On("list") /\ List!Next
       \/ On("compare") /\ Compare2!Next
       \/ On("tables") /\ Table!Next
       \/ On("inspect") /\ Next
       \/ On("grading") /\ Grading!Next
       \/ On("launch") /\ Launcher!Next
       \/ On("tape") /\ Aligned!Next
       \/ On("detail") /\ Detail!Next
    /\ page # "list" => UNCHANGED listVars
    /\ page # "compare" => UNCHANGED compareVars
    /\ page # "tables" => UNCHANGED tableVars
    /\ page # "inspect" => UNCHANGED inspectVars
    /\ page # "grading" => UNCHANGED gradingVars
    /\ page # "launch" => UNCHANGED launchVars
    /\ page # "tape" => UNCHANGED tapeVars
    /\ page # "detail" => UNCHANGED detailVars
PagesSpec ==
    PagesInit /\ [][PagesNext]_<<page, listVars, compareVars, tableVars, inspectVars,
                                 gradingVars, launchVars, tapeVars, detailVars>>

--------------------------------------------------------------------------------
\* No two experiments take the same place in the order of creation: the sorts are
\* stable, so equal times keep the order of the engine's list.
ASSUME ListAssumption ==
    /\ IsFiniteSet(Experiments)
    /\ Created \in [Experiments -> Nat]
    /\ \A d, e \in Experiments : Created[d] = Created[e] => d = e

\* The API lists experiments and their runs as arrays, a URL lists ids, and the page
\* compares some.
ASSUME CompareAssumption ==
    /\ MaxRuns \in Nat
    /\ ListOrder \in Seq(Experiments)
    /\ \A e \in Experiments : RunsIn[e] \in Seq(DOMAIN Profile)
    /\ Pasted \subseteq Seq(DOMAIN Profile)

\* Every run has a harness, an agent and a model.
ASSUME TableAssumption == Coords \in [Columns -> [Table!Dims -> Nat]]

\* There are tasks to pick and executors, and the model catalogue is a table.
ASSUME LaunchAssumption ==
    /\ Tasks \in Seq(ToSet(Tasks)) /\ Tasks # <<>>
    /\ Executors \in Seq(ToSet(Executors)) /\ Executors # <<>>
    /\ IsFiniteSet(ModelsBefore) /\ IsFiniteSet(ModelsAfter)

\* Texts are lines, an output is pieces of a line or more, and a patch has a section
\* per path, with the marks of added, removed and kept lines.
ASSUME DetailAssumption ==
    \A d \in Details :
        /\ d.call.old \in Seq(ToSet(d.call.old)) /\ d.call.new \in Seq(ToSet(d.call.new))
        /\ d.call.output \in Seq(ToSet(d.call.output))
        /\ d.patch.files \in Seq(ToSet(d.patch.files))
        /\ \A s \in ToSet(d.call.output) : s.lines \in Nat \ {0} /\ s.footer \in Nat
        /\ \A f \in ToSet(d.patch.files) :
               /\ Detail!PathOf(f) # Detail!None
               /\ f.content \in Seq({"kept", "-", "+", "dashes"})
        /\ \A i, j \in DOMAIN d.patch.files :
               i # j => Detail!PathOf(d.patch.files[i]) # Detail!PathOf(d.patch.files[j])

\* The properties of the pages, each stated in its module.
DeletesWhatWasShown == List!DeletesWhatWasShown
DeletedRowsGo == List!DeletedRowsGo
NothingForeign == Compare2!NothingForeign
AutoSelectsOnce == Compare2!AutoSelectsOnce
PivotIsFaithful == Table!PivotIsFaithful
RegradeIsShown == Grading!RegradeIsShown
LaunchesWhatWasShown == Launcher!LaunchesWhatWasShown
SentIsRunnable == Launcher!SentIsRunnable
TurnIsShownWhole == Detail!TurnIsShownWhole
Merges == Aligned!Merges
================================================================================
