------------------------------- MODULE InspectPage -------------------------------
(* The run inspector: focus and filters in the URL, the list of turn groups that *)
(* follows a live run, the search palette, and the retry and re-parse buttons.   *)
(* The effects of a React commit belong to the step that causes the commit.      *)
EXTENDS TurnGroups

CONSTANTS
    Recorded,     \* the turns the run's agent produces, in order
    Paths,        \* the path filters the user types
    Searches,     \* the texts the user searches for
    Spans,        \* the evidence the failure classifier quotes: [turn_index, code]
    MaxMutations, \* bound: retries and re-parses of the run
    MaxChanges    \* bound: filter changes

NoFocus == -1
NoTurns == [loaded |-> FALSE, answer |-> [turns |-> 0, stamped |-> TRUE]]
Terminal == {"completed", "failed", "cancelled"}

VARIABLES
    engine,      \* the engine's side: [status, turns, stamped, fresh]
    run,         \* the run query's status, None before its first answer
    turnsQuery,  \* the turns query: [loaded, answer]
    isFetching,  \* a turns request is in flight
    isError,     \* the last answer was an error
    url,         \* [filters : tokens, focus, changes]
    palette,     \* the search palette: [open, text, selected]
    list,        \* the turn list: [listening, stick, atBottom, ring]
    pending,     \* the mutations in flight
    mutations    \* how many were started

inspectVars == <<engine, run, turnsQuery, isFetching, isError, url, palette, list,
                 pending, mutations>>

\* A legacy transcript carries neither kinds, nor roles, nor indexes.
Legacy(t) == [t EXCEPT !.block_kind = None, !.turn_index = 0, !.parent_turn_index = 0,
                       !.role = None]
\* An answer of the turns endpoint: how far the agent had come, and whether the
\* stored turns carry the current parser's stamps.
Answers == [turns : 0 .. Len(Recorded), stamped : BOOLEAN]
TurnsOf(a) == LET sofar == SubSeq(Recorded, 1, a.turns) IN
              IF a.stamped THEN sofar ELSE [i \in DOMAIN sofar |-> Legacy(sofar[i])]

BlockToggles == {"thinking", "tool_use", "tool_result"}
Usable == [kind : {"block"}, value : BlockToggles] \cup [kind : {"path"}, value : Paths]
          \cup {ErrorsOnly}
GroupsOf == [a \in Answers |-> [fs \in SUBSET Usable |->
                GroupTurns(ApplyTurnFilters(TurnsOf(a), fs))]]
HitsOf == [a \in Answers |-> [text \in Searches |-> SearchTurns(TurnsOf(a), text)]]

filters == ParseFilterTokens(url.filters)
GroupsFor(q, tokens) == GroupsOf[q.answer][ParseFilterTokens(tokens)]
groups == GroupsFor(turnsQuery, url.filters)
Numbers(gs) == {gs[i].parentTurnIndex : i \in DOMAIN gs}

\* What the page shows: the error, a skeleton or its three panes.
Body(r, q, error) == ~error /\ q.loaded /\ r # None
Shown == Body(run, turnsQuery, isError)
View == IF isError THEN "error" ELSE IF ~Shown THEN "loading" ELSE "body"
\* The detail pane: the focused group, if the list has it.
focusedGroup == IF url.focus \in Numbers(groups) THEN url.focus ELSE NoFocus

\* The page: a header with what the run's status allows, the list, and the detail.
Button(absent, mutation) ==
    IF absent THEN "absent" ELSE IF mutation \in pending THEN "disabled" ELSE "enabled"
RetryButton == Button(run \notin Terminal, "retry")
ReparseButton == Button(run = "running", "reparse")
Panes ==
    [live |-> run = "running",
     retry |-> RetryButton,
     reparse |-> ReparseButton,
     list |-> [g \in DOMAIN groups |-> TurnGroupCard(groups[g], BuildEvidenceByTurn(Spans))],
     detail |-> focusedGroup,
     histogram |-> LET rows == BuildToolHistogram(TurnsOf(turnsQuery.answer)) IN
                   [tool \in DOMAIN rows |-> BarWidth(rows, tool)]]

EngineTurns == [turns |-> engine.turns, stamped |-> engine.stamped]

--------------------------------------------------------------------------------
(* What a commit leaves behind.                                              *)

NewList(gs) == [listening |-> gs # <<>>, stick |-> TRUE, atBottom |-> TRUE, ring |-> NoFocus]
Unmounted == [listening |-> FALSE, stick |-> TRUE, atBottom |-> TRUE, ring |-> NoFocus]

\* Mutant: the list is scrolled whenever its length changes.
ChasesAlways(l) == TRUE
\* The layout effect scrolls to the last group while the list sticks to it.
Chases(l) == l.stick

\* The list after a commit that shows gs: a list without groups is a notice, the
\* scroll listener is attached only by the mount and goes with its element.
ListAfter(was, gs, ring) ==
    IF ~Shown THEN NewList(gs)
    ELSE [listening |-> list.listening /\ gs # <<>>,
          stick |-> list.stick,
          atBottom |-> IF Len(gs) = Len(was) THEN list.atBottom ELSE Chases(list),
          ring |-> ring]

\* Mutant: the effect only looks at the focus when a number is out of range.
DropsNever(q, fetching, gs, focus) == FALSE
\* The effect that drops a focus the list does not show, unless data is on its way.
DropsFocus(q, fetching, gs, focus) ==
    /\ focus # NoFocus
    /\ q.loaded /\ ~fetching
    /\ gs # <<>>
    /\ focus \notin Numbers(gs)

Commit(q, fetching, error, tokens, focus, ring) ==
    LET gs == GroupsFor(q, tokens) IN
    /\ turnsQuery' = q
    /\ isFetching' = fetching
    /\ isError' = error
    /\ url' = [filters |-> tokens, changes |-> url.changes,
               focus |-> IF DropsFocus(q, fetching, gs, focus) THEN NoFocus ELSE focus]
    /\ list' = IF Body(run, q, error) THEN ListAfter(groups, gs, ring) ELSE Unmounted

--------------------------------------------------------------------------------
(* The engine and the queries.                                               *)

\* The agent goes on: the first flush of an attempt replaces the transcript.
EngineFlush ==
    /\ engine.status = "running"
    /\ engine.fresh \/ engine.turns < Len(Recorded)
    /\ engine' = [engine EXCEPT !.turns = IF engine.fresh THEN 1 ELSE @ + 1,
                                !.fresh = FALSE, !.stamped = TRUE]
    /\ UNCHANGED <<run, turnsQuery, isFetching, isError, url, palette, list, pending, mutations>>
\* However a run ends, it is "completed": the page treats its ends alike.
EngineStatus(s) ==
    /\ <<engine.status, s>> \in {<<"pending", "running">>, <<"running", "completed">>}
    /\ engine' = [engine EXCEPT !.status = s]
    /\ UNCHANGED <<run, turnsQuery, isFetching, isError, url, palette, list, pending, mutations>>
\* The run query answers: polled until terminal, or refetched.
RunAnswer ==
    /\ run # engine.status
    /\ run' = engine.status
    /\ list' = IF ~Shown /\ Body(run', turnsQuery, isError) THEN NewList(groups) ELSE list
    /\ UNCHANGED <<engine, turnsQuery, isFetching, isError, url, palette, pending, mutations>>

\* A request for the turns: on mount, on a live event, a focus or an invalidation.
\* Without data a new request is not an error any more.
StartTurnsFetch ==
    /\ ~isFetching
    /\ Commit(turnsQuery, TRUE, isError /\ turnsQuery.loaded, url.filters, url.focus, list.ring)
    /\ UNCHANGED <<engine, run, palette, pending, mutations>>
TurnsAnswer(ok) ==
    /\ isFetching
    /\ Commit(IF ok THEN [loaded |-> TRUE, answer |-> EngineTurns] ELSE turnsQuery,
              FALSE, ~ok, url.filters, url.focus, list.ring)
    /\ palette' = IF ok THEN palette ELSE [open |-> FALSE, text |-> None, selected |-> 0]
    /\ UNCHANGED <<engine, run, pending, mutations>>

--------------------------------------------------------------------------------
(* The list and the filter chips.                                            *)

FocusTurn(n) ==
    /\ Shown /\ n \in Numbers(groups)
    /\ Commit(turnsQuery, isFetching, isError, url.filters, n, n)
    /\ UNCHANGED <<engine, run, palette, pending, mutations>>
\* The user scrolls to the end or well away from it.
Scroll(bottom) ==
    /\ Shown /\ groups # <<>> /\ list.atBottom # bottom
    /\ list' = [listening |-> list.listening,
                stick |-> IF list.listening THEN bottom ELSE list.stick,
                atBottom |-> bottom, ring |-> list.ring]
    /\ UNCHANGED <<engine, run, turnsQuery, isFetching, isError, url, palette, pending, mutations>>

SetFilters(next) ==
    /\ Shown /\ url.changes < MaxChanges
    /\ LET tokens == SerializeFilters(next)
           gs == GroupsFor(turnsQuery, tokens) IN
       /\ url' = [filters |-> tokens, changes |-> url.changes + 1,
                  focus |-> IF DropsFocus(turnsQuery, isFetching, gs, url.focus)
                            THEN NoFocus ELSE url.focus]
       /\ list' = ListAfter(groups, gs, list.ring)
    /\ UNCHANGED <<engine, run, turnsQuery, isFetching, isError, palette, pending, mutations>>
ToggleBlock(kind) ==
    LET f == [kind |-> "block", value |-> kind] IN
    SetFilters(IF f \in filters THEN filters \ {f} ELSE filters \cup {f})
ToggleErrorsOnly ==
    SetFilters(IF ErrorsOnly \in filters THEN filters \ {ErrorsOnly}
               ELSE filters \cup {ErrorsOnly})
AddPath(p) ==
    LET f == [kind |-> "path", value |-> p] IN
    f \notin filters /\ SetFilters(filters \cup {f})
RemovePath(p) ==
    LET f == [kind |-> "path", value |-> p] IN
    f \in filters /\ SetFilters(filters \ {f})

--------------------------------------------------------------------------------
(* The search palette searches all turns, not only the listed ones. What was  *)
(* selected counts only while it is open.                                      *)

results == IF palette.text = None THEN <<>> ELSE HitsOf[turnsQuery.answer][palette.text]
Palette(p) ==
    /\ Shown
    /\ palette' = p
    /\ UNCHANGED <<engine, run, turnsQuery, isFetching, isError, url, list, pending, mutations>>
ToggleSearch ==
    Palette([palette EXCEPT !.open = ~@, !.selected = 0])
TypeText(text) ==
    palette.open /\ Palette([palette EXCEPT !.text = text, !.selected = 0])
ArrowDown ==
    /\ palette.open
    /\ Palette([palette EXCEPT !.selected = IF @ + 1 < Len(results) THEN @ + 1
                                            ELSE Len(results) - 1])
ArrowUp ==
    palette.open /\ Palette([palette EXCEPT !.selected = IF @ > 1 THEN @ - 1 ELSE 0])
\* Enter or a click: the hit's group number becomes the focus.
Choose(i) ==
    /\ Shown /\ palette.open /\ i \in DOMAIN results
    /\ Commit(turnsQuery, isFetching, isError, url.filters,
              results[i].parent_turn_index, list.ring)
    /\ palette' = [open |-> FALSE, text |-> None, selected |-> 0]
    /\ UNCHANGED <<engine, run, pending, mutations>>
Enter == Choose(palette.selected + 1)
Hover(i) == palette.open /\ i \in DOMAIN results /\ Palette([palette EXCEPT !.selected = i - 1])

--------------------------------------------------------------------------------
(* Retry and re-parse.                                                       *)

Start(m) ==
    /\ mutations < MaxMutations
    /\ mutations' = mutations + 1
    /\ pending' = pending \cup {m}
\* A completed run is only retried after a confirmation: both ways are one step.
Retry ==
    /\ Shown /\ RetryButton = "enabled"
    /\ Start("retry")
    /\ UNCHANGED <<engine, run, turnsQuery, isFetching, isError, url, palette, list>>
RetryAnswer(ok) ==
    /\ "retry" \in pending
    /\ ok => engine.status \in Terminal
    /\ pending' = pending \ {"retry"}
    /\ engine' = IF ok THEN [engine EXCEPT !.status = "pending", !.fresh = TRUE]
                 ELSE engine
    /\ UNCHANGED <<run, turnsQuery, isFetching, isError, url, palette, list, mutations>>
Reparse ==
    /\ Shown /\ ReparseButton = "enabled"
    /\ Start("reparse")
    /\ UNCHANGED <<engine, run, turnsQuery, isFetching, isError, url, palette, list>>
\* The engine's turns are stamped by the current parser, and asked for again.
ReparseAnswer(ok) ==
    /\ "reparse" \in pending
    /\ pending' = pending \ {"reparse"}
    /\ engine' = IF ok THEN [engine EXCEPT !.stamped = TRUE] ELSE engine
    /\ isFetching' = (isFetching \/ ok)
    /\ isError' = (isError /\ (turnsQuery.loaded \/ ~ok))
    /\ UNCHANGED <<run, turnsQuery, url, palette, list, mutations>>

Init ==
    /\ engine \in {[status |-> "running", turns |-> 0, stamped |-> TRUE, fresh |-> FALSE],
                   [status |-> "completed", turns |-> Len(Recorded), stamped |-> FALSE,
                    fresh |-> FALSE]}
    /\ run = None
    /\ turnsQuery = NoTurns
    /\ isFetching = TRUE
    /\ isError = FALSE
    \* The page is opened plainly, or by a link with filters, known and unknown.
    /\ url \in [filters : {{}, {<<"unknown">>} \cup {<<"path:", p>> : p \in Paths}},
                focus : {NoFocus, 0}, changes : {0}]
    /\ palette = [open |-> FALSE, text |-> None, selected |-> 0]
    /\ list = Unmounted
    /\ pending = {}
    /\ mutations = 0

FilterNext ==
    \/ \E kind \in BlockToggles : ToggleBlock(kind)
    \/ ToggleErrorsOnly
    \/ \E p \in Paths : AddPath(p) \/ RemovePath(p)
SearchNext ==
    \/ ToggleSearch
    \/ \E text \in Searches : TypeText(text)
    \/ ArrowDown
    \/ ArrowUp
    \/ Enter
    \/ \E i \in DOMAIN results : Choose(i) \/ Hover(i)
MutationNext ==
    \/ Retry
    \/ Reparse
    \/ \E ok \in BOOLEAN : RetryAnswer(ok) \/ ReparseAnswer(ok)
EngineNext ==
    \/ EngineFlush
    \/ \E s \in {"running", "completed"} : EngineStatus(s)
    \/ RunAnswer
    \/ StartTurnsFetch
    \/ \E ok \in BOOLEAN : TurnsAnswer(ok)
Next ==
    \/ EngineNext
    \/ \E n \in Numbers(groups) : FocusTurn(n)
    \/ \E bottom \in BOOLEAN : Scroll(bottom)
    \/ FilterNext
    \/ SearchNext
    \/ MutationNext
Spec == Init /\ [][Next]_inspectVars

--------------------------------------------------------------------------------
\* With the data at rest, the URL's focus is a group the list shows: neither a
\* filter, nor a re-parse that numbers the groups anew, nor a retry leaves the
\* detail pane and the copied link at a turn that is not there.
FocusIsListed ==
    (View = "body" /\ ~isFetching /\ groups # <<>> /\ url.focus # NoFocus)
        => url.focus \in Numbers(groups)

\* New turns never scroll the list of a user who has scrolled away from its end,
\* as long as the list hears about scrolling.
ReadingIsNotDisturbed ==
    [][(View = "body" /\ View' = "body" /\ list.listening /\ list'.listening
        /\ ~list.atBottom /\ Len(groups') # Len(groups))
           => ~list'.atBottom]_inspectVars

\* The same without the condition: TurnList.tsx:46-48 "as long as the user is
\* 'near' the bottom we auto-follow new turns; once they manually scroll up, we
\* stop chasing".
NeverChased ==
    [][(View = "body" /\ View' = "body" /\ groups # <<>> /\ ~list.atBottom
        /\ Len(groups') > Len(groups))
           => ~list'.atBottom]_inspectVars

\* InspectorSearch.tsx:12 "Enter focuses the highlighted turn".
HitIsFocused ==
    [][\A i \in DOMAIN results :
           Choose(i) => \E g \in DOMAIN groups :
                            /\ groups[g].parentTurnIndex = url'.focus
                            /\ Contains(groups[g].blocks, results[i])]_inspectVars
================================================================================
