--------------------------- MODULE ExperimentsPage ---------------------------
(* The experiments list: filters, batches, ticks and the bulk delete, with the *)
(* list query it shows and the requests it sends. The effects of a React       *)
(* commit belong to the step that causes the commit.                           *)
EXTENDS Naturals, FiniteSets, SequencesExt, Ordering

CONSTANTS
    Experiments,    \* experiment ids
    Created,        \* when each was created: equal times count in the engine's order
    Batch,          \* its batch, or NoBatch
    NoBatch,
    FocusBatch,     \* ?batch= in the URL, or NoBatch
    Matches,        \* what a text typed in the search box matches: text -> ids
    MaxDeletes      \* bound: bulk deletes in one visit

Statuses == {"running", "completed"}
Filters == {"all"} \cup Statuses
Queries == DOMAIN Matches
NoList == [e \in {} |-> "running"]
NoFetch == [at |-> "none", list |-> NoList]
Sent == [at |-> "sent", list |-> NoList]

VARIABLES
    existing,         \* the engine's side: experiment -> status
    experiments,      \* the list query's data: experiment -> status
    fetch,            \* the list request in flight: none, sent, or its answer
    listError,        \* the last list request to end failed; nothing shows it
    query, status,    \* the search box and the status chip
    selected,         \* the ticked ids
    expandedBatches,  \* batch -> expanded, once the batch was shown as a group
    deletes           \* the bulk deletes so far: [left, phase, failed]

listVars == <<existing, experiments, fetch, listError, query, status, selected,
              expandedBatches, deletes>>

--------------------------------------------------------------------------------
(* What is shown.                                                            *)

FilteredIds(list, q, s) ==
    {e \in DOMAIN list : s \in {"all", list[e]} /\ e \in Matches[q]}
filteredIds == FilteredIds(experiments, query, status)
NewestFirst(ids) == Ordered(ids, LAMBDA a, b : Created[a] > Created[b])

\* groupByBatch: batches with two visible members become groups, all else is
\* solo; units and members are ordered by their newest member.
GroupMembers(ids, b) == {e \in ids : Batch[e] = b}
GroupedBatches(ids) ==
    {b \in {Batch[e] : e \in ids} \ {NoBatch} : Cardinality(GroupMembers(ids, b)) > 1}
Units(ids) ==
    LET groups == {GroupMembers(ids, b) : b \in GroupedBatches(ids)}
        solos == {{e} : e \in ids \ UNION groups}
        Anchor(unit) == Created[NewestFirst(unit)[1]] IN
    Ordered(groups \cup solos, LAMBDA u, v : Anchor(u) > Anchor(v))

\* The default of a batch that shows up as a group for the first time.
WithDefaults(expanded, ids) ==
    LET new == GroupedBatches(ids) \ DOMAIN expanded IN
    [b \in DOMAIN expanded \cup new |->
        IF b \in new
        THEN Cardinality(GroupMembers(ids, b)) <= 3 \/ b = FocusBatch
        ELSE expanded[b]]

\* A checkbox over several ids: the header's and each group's.
Box(ids) ==
    IF ids # {} /\ ids \subseteq selected THEN "checked"
    ELSE IF ids \cap selected # {} THEN "indeterminate" ELSE "unchecked"

\* The table's rows from the top: a header per group, its members when expanded.
RowOf(e) == <<[ids |-> {e}, header |-> FALSE, box |-> Box({e})]>>
UnitRows(unit) ==
    IF Cardinality(unit) = 1 THEN RowOf(CHOOSE e \in unit : TRUE)
    ELSE LET members == NewestFirst(unit) IN
         <<[ids |-> unit, header |-> TRUE, box |-> Box(unit)]>>
         \o (IF expandedBatches[Batch[members[1]]]
             THEN FlattenSeq([i \in DOMAIN members |-> RowOf(members[i])])
             ELSE <<>>)
Rows == LET units == Units(filteredIds) IN
        FlattenSeq([i \in DOMAIN units |-> UnitRows(units[i])])

\* The chips above the table and the summary in a group's header.
CountOf(ids, s) == Cardinality({e \in ids : experiments[e] = s})
SummaryChips == [total |-> Cardinality(DOMAIN experiments),
                 running |-> CountOf(DOMAIN experiments, "running"),
                 completed |-> CountOf(DOMAIN experiments, "completed")]
StatusSummary(unit) ==
    IF CountOf(unit, "completed") = Cardinality(unit) THEN {"completed"}
    ELSE {s \in Statuses : CountOf(unit, s) > 0}

\* What a commit that shows list, q and s leaves behind: ticks that fell out of
\* view are dropped and new groups get their default.
Commit(list, q, s, ticks) ==
    LET ids == FilteredIds(list, q, s) IN
    /\ experiments' = list /\ query' = q /\ status' = s
    /\ selected' = ticks \cap ids
    /\ expandedBatches' = WithDefaults(expandedBatches, ids)

--------------------------------------------------------------------------------
(* The user.                                                                 *)

TypeQuery(q) ==
    /\ Commit(experiments, q, status, selected)
    /\ UNCHANGED <<existing, fetch, listError, deletes>>
PickStatus(s) ==
    /\ Commit(experiments, query, s, selected)
    /\ UNCHANGED <<existing, fetch, listError, deletes>>
Tick(ticks) ==
    /\ selected' = ticks
    /\ UNCHANGED <<existing, experiments, fetch, listError, query, status,
                   expandedBatches, deletes>>
ToggleOne(e) ==
    /\ LET rows == Rows IN \E i \in DOMAIN rows : rows[i].ids = {e}
    /\ Tick((selected \ {e}) \cup ({e} \ selected))
\* A click on a box over several rows ticks them all unless they all are.
SetMany(ids) ==
    /\ ids # {}
    /\ Tick(IF Box(ids) = "checked" THEN selected \ ids ELSE selected \cup ids)
ClearSelection == Tick({})
ToggleGroup(b) ==
    /\ b \in GroupedBatches(filteredIds)
    /\ expandedBatches' = [expandedBatches EXCEPT ![b] = ~@]
    /\ UNCHANGED <<existing, experiments, fetch, listError, query, status, selected,
                   deletes>>

isPending == \E d \in DOMAIN deletes : deletes[d].phase \in {"sending", "refreshing"}

\* Mutant: the delete acts on every tick, shown or not, of the whole list.
DeleteAll ==
    /\ selected # {} /\ ~isPending /\ Len(deletes) < MaxDeletes
    /\ deletes' = Append(deletes, [left |-> DOMAIN experiments,
                                   phase |-> "sending", failed |-> FALSE])
    /\ UNCHANGED <<existing, experiments, fetch, listError, query, status, selected,
                   expandedBatches>>
\* The confirmed bulk delete: one request per ticked id, all at once.
HandleDelete ==
    LET ids == filteredIds \cap selected IN
    /\ ids # {} /\ ~isPending /\ Len(deletes) < MaxDeletes
    /\ deletes' = Append(deletes, [left |-> ids, phase |-> "sending", failed |-> FALSE])
    /\ UNCHANGED <<existing, experiments, fetch, listError, query, status, selected,
                   expandedBatches>>

--------------------------------------------------------------------------------
(* Requests and answers.                                                     *)

\* Mutant: a request already in flight is kept instead of being replaced.
JoinFetch == IF fetch = NoFetch THEN Sent ELSE fetch
\* An invalidation drops the answer in flight and asks again.
Refetch == Sent

\* One DELETE of a bulk delete ends. Promise.all settles with the first failure,
\* although the other requests go on, or when all have succeeded; either way the
\* list is invalidated.
DeleteEnds(d, e, ok) ==
    LET left == deletes[d].left \ {e}
        settles == deletes[d].phase = "sending" /\ (~ok \/ left = {}) IN
    /\ e \in deletes[d].left
    /\ existing' = IF ok THEN [x \in DOMAIN existing \ {e} |-> existing[x]] ELSE existing
    /\ deletes' = [deletes EXCEPT ![d].left = left,
                                  ![d].failed = @ \/ ~ok,
                                  ![d].phase = IF settles THEN "refreshing" ELSE @]
    /\ fetch' = IF settles THEN Refetch ELSE fetch
    /\ UNCHANGED <<experiments, listError, query, status, selected, expandedBatches>>

\* A focus or a mount asks for the list unless a request is in flight.
StartFetch ==
    /\ fetch = NoFetch
    /\ fetch' = Sent
    /\ UNCHANGED <<existing, experiments, listError, query, status, selected,
                   expandedBatches, deletes>>
EngineReads ==
    /\ fetch = Sent
    /\ fetch' = [at |-> "read", list |-> existing]
    /\ UNCHANGED <<existing, experiments, listError, query, status, selected,
                   expandedBatches, deletes>>
\* A list request ends and the list shown is the given one. The deletes that waited
\* for it are over: a successful one then clears the ticks.
FetchEnds(list) ==
    LET over == {d \in DOMAIN deletes : deletes[d].phase = "refreshing"}
        cleared == \E d \in over : ~deletes[d].failed IN
    /\ Commit(list, query, status, IF cleared THEN {} ELSE selected)
    /\ fetch' = NoFetch
    /\ deletes' = [d \in DOMAIN deletes |->
                      IF d \in over THEN [deletes[d] EXCEPT !.phase = "done"]
                      ELSE deletes[d]]
    /\ UNCHANGED existing
FetchAnswer ==
    /\ fetch.at = "read"
    /\ FetchEnds(fetch.list)
    /\ listError' = FALSE
\* The request fails after its retries: the rows stay, and an invalidation resolves
\* all the same.
FetchFails ==
    /\ fetch # NoFetch
    /\ FetchEnds(experiments)
    /\ listError' = TRUE

\* The engine finishes an experiment.
Completes(e) ==
    /\ e \in DOMAIN existing /\ existing[e] = "running"
    /\ existing' = [existing EXCEPT ![e] = "completed"]
    /\ UNCHANGED <<experiments, fetch, listError, query, status, selected,
                   expandedBatches, deletes>>

Init ==
    /\ existing = [e \in Experiments |-> "running"]
    /\ experiments = NoList
    /\ fetch = Sent
    /\ listError = FALSE
    /\ query \in {q \in Queries : Matches[q] = Experiments}
    /\ status = "all"
    /\ selected = {}
    /\ expandedBatches = [b \in {} |-> TRUE]
    /\ deletes = <<>>

Next ==
    \/ \E q \in Queries \ {query} : TypeQuery(q)
    \/ \E s \in Filters \ {status} : PickStatus(s)
    \/ \E e \in Experiments : ToggleOne(e) \/ Completes(e)
    \/ \E b \in GroupedBatches(filteredIds) :
           ToggleGroup(b) \/ SetMany(GroupMembers(filteredIds, b))
    \/ SetMany(filteredIds)
    \/ ClearSelection
    \/ HandleDelete
    \/ \E d \in DOMAIN deletes, e \in Experiments, ok \in BOOLEAN : DeleteEnds(d, e, ok)
    \/ StartFetch
    \/ EngineReads
    \/ FetchAnswer
    \/ FetchFails
Spec == Init /\ [][Next]_listVars

--------------------------------------------------------------------------------
\* What a bulk delete sends is exactly what the user saw counted and ticked when
\* confirming it, whatever filters and late list answers came before.
DeletesWhatWasShown ==
    [][Len(deletes') > Len(deletes) =>
           /\ deletes'[Len(deletes')].left = selected
           /\ \A e \in selected :
                  \E i \in DOMAIN Rows : e \in Rows[i].ids /\ Rows[i].box # "unchecked"]_listVars

\* Nothing of the page's own doing is under way.
Settled == fetch = NoFetch /\ ~isPending /\ \A d \in DOMAIN deletes : deletes[d].left = {}

\* Once bulk deletes that all succeeded have settled, no deleted row is left in
\* the table, although an older list answer was in flight when they ended; unless
\* the last list request failed, which keeps the rows until another one succeeds.
DeletedRowsGo ==
    (Settled /\ ~listError /\ \A d \in DOMAIN deletes : ~deletes[d].failed)
        => DOMAIN experiments \subseteq DOMAIN existing

\* hooks.ts:48-50 refreshes the list on settling "even on a partial failure", so as
\* not to "leave stale rows": whatever failed, no deleted row is left.
NoStaleRows == Settled => DOMAIN experiments \subseteq DOMAIN existing
================================================================================
