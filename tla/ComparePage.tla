------------------------------ MODULE ComparePage ------------------------------
(* The diagnostic compare page: experiments are picked into the URL, their    *)
(* runs are ticked, and the charts of the ticked runs are fetched and shown.   *)
(* The effects of a React commit belong to the step that causes the commit.    *)
EXTENDS Naturals, SequencesExt

CONSTANTS
    Experiments,    \* experiment ids
    ListOrder,      \* the ids in the order the list endpoint returns them
    RunsIn,         \* the runs of an experiment, in order
    Matches,        \* what a text typed in the picker matches: text -> ids
    Profile,        \* the diagnostic row of a run id: "none", "old" or "full"
    Pasted,         \* the lists of run ids, each once, a pasted URL may name
    MaxRuns,        \* 10 in the code
    NoData          \* a query that holds no data

NoParams == [exps |-> <<>>, runs |-> <<>>]
Runs == UNION {ToSet(RunsIn[e]) : e \in Experiments}
Queries == DOMAIN Matches

VARIABLES
    searchParams,     \* the URL: ?experiment(s)= and ?runs=
    lastParams,       \* where the browser's back button leads
    selected,         \* the ticked runs, in the order they were ticked
    autoSelectedRef,  \* the auto-selection has happened
    bundles,          \* the runs query of the current URL
    diagnostics,      \* the diagnostics query of the current ticks
    pickerQuery,      \* the text in the experiment picker
    completedRuns     \* the engine's side: the runs that have completed

compareVars == <<searchParams, lastParams, selected, autoSelectedRef, bundles,
                 diagnostics, pickerQuery, completedRuns>>

\* The URL's shape: a matrix wins, and its first id is the single experiment.
experimentIDs == searchParams.exps
IsMatrix(p) == Len(p.exps) > 1

\* The list of runs on offer: an experiment of a matrix whose request failed
\* contributes none, without failing the others.
ExperimentRuns(p, b) ==
    IF b = NoData THEN <<>>
    ELSE FlattenSeq([i \in DOMAIN p.exps |->
             IF p.exps[i] \in b.answered THEN RunsIn[p.exps[i]] ELSE <<>>])
\* Array.filter: SelectSeq without its recursion, of which proofs know nothing.
Filter(s, Test(_)) == FlattenSeq([i \in DOMAIN s |-> IF Test(s[i]) THEN <<s[i]>> ELSE <<>>])
Completed(p, b) == Filter(ExperimentRuns(p, b), LAMBDA r : r \in b.completed)
UpTo(s, n) == SubSeq(s, 1, IF Len(s) < n THEN Len(s) ELSE n)

overLimit == Len(selected) > MaxRuns

\* The diagnostics query: disabled without ticks or with too many, otherwise
\* a new selection is a new key without data.
Disabled == "disabled"
DiagnosticsOf(sel) ==
    IF sel = <<>> \/ Len(sel) > MaxRuns THEN Disabled ELSE "loading"

\* Mutant: an answer selects again although the selection was made before.
AutoSelectsAlways(p, b, armed) ==
    /\ IsMatrix(p)
    /\ p.runs = <<>>
    /\ Completed(p, b) # <<>>
\* The guards of the auto-selection effect.
AutoSelects(p, b, armed) ==
    /\ IsMatrix(p)
    /\ armed
    /\ p.runs = <<>>
    /\ Completed(p, b) # <<>>

\* Mutant: a URL that arrives does not replace the ticks.
TicksOfKept(p, sel) == sel
\* The effect on the URL's run list: a URL that changes replaces the ticks.
TicksOf(p, sel) == IF p # searchParams THEN p.runs ELSE sel

\* What a commit with URL p, runs b and ticks sel leaves behind, after both
\* effects have run in the order they are declared.
Commit(p, b, sel) ==
    LET auto == AutoSelects(p, b, ~autoSelectedRef)
        after == IF auto THEN UpTo(Completed(p, b), MaxRuns) ELSE TicksOf(p, sel) IN
    /\ searchParams' = p
    /\ bundles' = b
    /\ selected' = after
    /\ autoSelectedRef' = (autoSelectedRef \/ auto)
    /\ diagnostics' = IF after = selected THEN diagnostics ELSE DiagnosticsOf(after)

\* What a runs query may hold as soon as its key is in use: nothing, or an
\* older answer an earlier visit left in the cache.
CachedBundles(p) ==
    {NoData} \cup (IF p.exps = <<>> THEN {}
                   ELSE [answered : {ToSet(p.exps)}, completed : {{}, completedRuns}])
Navigate(p, sel) ==
    /\ \E b \in CachedBundles(p) :
           Commit(p, IF p.exps = searchParams.exps THEN bundles ELSE b, sel)
    /\ lastParams' = IF p = searchParams THEN lastParams ELSE searchParams
    /\ UNCHANGED <<pickerQuery, completedRuns>>

--------------------------------------------------------------------------------
(* The experiment picker: a search box over a list of checkboxes.            *)

Filtered == Filter(ListOrder, LAMBDA e : e \in Matches[pickerQuery])
allFilteredSelected ==
    Filtered # <<>> /\ ToSet(Filtered) \subseteq ToSet(experimentIDs)
Toggled(s, x) == IF Contains(s, x) THEN Filter(s, LAMBDA y : y # x) ELSE Append(s, x)
Merged(s, t) == s \o Filter(t, LAMBDA x : ~Contains(s, x))

\* The page's onChange: the ticks are dropped and the URL names the new picks.
PickExperiments(ids) == Navigate([exps |-> ids, runs |-> <<>>], <<>>)

TypeQuery(q) ==
    /\ pickerQuery # q
    /\ pickerQuery' = q
    /\ UNCHANGED <<searchParams, lastParams, selected, autoSelectedRef, bundles,
                   diagnostics, completedRuns>>
ToggleExperiment(e) ==
    /\ Contains(Filtered, e)
    /\ PickExperiments(Toggled(experimentIDs, e))
TickVisible ==
    /\ Len(Filtered) > 1
    /\ PickExperiments(
           IF allFilteredSelected
           THEN Filter(experimentIDs, LAMBDA e : ~Contains(Filtered, e))
           ELSE Merged(experimentIDs, Filtered))
ClearExperiments == experimentIDs # <<>> /\ PickExperiments(<<>>)
PickerNext ==
    \/ \E q \in Queries : TypeQuery(q)
    \/ \E e \in Experiments : ToggleExperiment(e)
    \/ TickVisible
    \/ ClearExperiments

--------------------------------------------------------------------------------
(* The run picker, its two buttons and the share link.                       *)

\* What the run list shows: a hint, a spinner, a notice or the options.
RunList ==
    IF experimentIDs = <<>> THEN "pick an experiment"
    ELSE IF bundles = NoData THEN "loading"
    ELSE IF ExperimentRuns(searchParams, bundles) = <<>> THEN "no runs"
    ELSE "options"

SetSelected(sel) ==
    /\ selected' = sel
    /\ diagnostics' = IF sel = selected THEN diagnostics ELSE DiagnosticsOf(sel)
    /\ UNCHANGED <<searchParams, lastParams, autoSelectedRef, bundles, pickerQuery,
                   completedRuns>>
ToggleRun(r) ==
    /\ RunList = "options"
    /\ Contains(ExperimentRuns(searchParams, bundles), r)
    /\ SetSelected(Toggled(selected, r))
SelectAllCompleted ==
    /\ RunList = "options"
    /\ SetSelected(UpTo(Completed(searchParams, bundles), MaxRuns))
ClearSelection == RunList = "options" /\ SetSelected(<<>>)
ShareLink ==
    /\ selected # <<>>
    /\ Navigate([exps |-> experimentIDs, runs |-> selected], selected)
Back == lastParams # searchParams /\ Navigate(lastParams, selected)

--------------------------------------------------------------------------------
(* Answers of the engine.                                                    *)

RunCompletes(r) ==
    /\ r \notin completedRuns
    /\ completedRuns' = completedRuns \cup {r}
    /\ UNCHANGED <<searchParams, lastParams, selected, autoSelectedRef, bundles,
                   diagnostics, pickerQuery>>

\* The runs query answers (the first time, on a focus or on an invalidation).
\* A matrix answers even when some of its requests fail, a single one does not.
RunsAnswer ==
    /\ experimentIDs # <<>>
    /\ \E ok \in SUBSET ToSet(experimentIDs) :
           /\ IsMatrix(searchParams) \/ ok # {}
           /\ Commit(searchParams,
                     [answered |-> ok,
                      completed |-> {r \in completedRuns :
                                        \E e \in ok : Contains(RunsIn[e], r)}],
                     selected)
    /\ UNCHANGED <<lastParams, pickerQuery, completedRuns>>

\* One run without a diagnostic row fails the whole query.
DiagnosticsAnswer ==
    /\ diagnostics = "loading"
    /\ diagnostics' = IF \E i \in DOMAIN selected : Profile[selected[i]] = "none"
                      THEN "error" ELSE "ready"
    /\ UNCHANGED <<searchParams, lastParams, selected, autoSelectedRef, bundles,
                   pickerQuery, completedRuns>>

\* The runs the charts draw: a row without the fingerprint surface is dropped.
Series == Filter(selected, LAMBDA r : Profile[r] = "full")

\* What the lower half of the page shows.
Panel ==
    IF experimentIDs = <<>> THEN "pick an experiment"
    ELSE IF selected = <<>> THEN "pick runs"
    ELSE IF overLimit THEN "too many"
    ELSE IF diagnostics # "ready" THEN diagnostics
    ELSE IF Series = <<>> THEN "not yet available"
    ELSE "charts"

Init ==
    /\ searchParams \in
           [exps : {<<>>, ListOrder} \cup {<<e>> : e \in Experiments}, runs : Pasted]
    /\ lastParams = searchParams
    /\ selected = searchParams.runs
    /\ autoSelectedRef = FALSE
    /\ bundles = NoData
    /\ diagnostics = DiagnosticsOf(selected)
    /\ pickerQuery \in {q \in Queries : Matches[q] = Experiments}
    /\ completedRuns = {}

Next ==
    \/ PickerNext
    \/ \E r \in Runs : ToggleRun(r) \/ RunCompletes(r)
    \/ SelectAllCompleted
    \/ ClearSelection
    \/ ShareLink
    \/ Back
    \/ RunsAnswer
    \/ DiagnosticsAnswer
Spec == Init /\ [][Next]_compareVars

--------------------------------------------------------------------------------
\* Every ticked run belongs to an experiment the URL names, or the URL itself names
\* the run, whatever the order of picks, links, the back button and late answers: the
\* charts never draw a run that was left behind with another choice or URL.
NothingForeign ==
    \A i \in DOMAIN selected :
        \/ \E e \in ToSet(experimentIDs) : Contains(RunsIn[e], selected[i])
        \/ Contains(searchParams.runs, selected[i])

\* Once the page has selected for the user, an answer of the engine never
\* changes the ticks again (rows the user cleared are not re-ticked).
AutoSelectsOnce ==
    [][autoSelectedRef /\ searchParams' = searchParams /\ bundles' # bundles
           => selected' = selected]_compareVars

\* The auto-selection only fires "gated on the user not having a pre-existing
\* run selection" (compare.tsx:107): it never replaces ticks.
OwnTicksKept ==
    [][autoSelectedRef' /\ ~autoSelectedRef /\ searchParams' = searchParams
           => selected = <<>>]_compareVars
================================================================================
