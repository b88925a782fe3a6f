------------------------------ MODULE MonitorPage ------------------------------
(* The experiment monitor: two queries that are fetched once, a socket whose      *)
(* events patch and invalidate what they hold, and the engine that executes the   *)
(* experiment's runs and announces what it wrote.                                 *)
EXTENDS Naturals, Sequences, FiniteSets

CONSTANTS
    Runs,        \* the runs of the experiment
    Variant,     \* the variant of a run
    Workers,     \* the engine's workers
    MaxClicks    \* bound: clicks on each button

NoRuns == [r \in {} |-> "pending"]
Finished == {"completed", "failed"}
None == "none"
Queries == {"runs", "experiment"}

VARIABLES
    experiment,   \* the engine's side: the status of the experiment,
    runs,         \* the statuses of its runs,
    jobs,         \* the runs in the queue,
    refreshes,    \* the workers that have yet to refresh the experiment's status
    socket,       \* the page's socket: connecting, open or broken
    events,       \* the messages on their way
    cache,        \* what each query holds
    loaded,       \* the queries that hold data
    fetch,        \* each query's request: [at, answer]
    clicks

monitorVars == <<experiment, runs, jobs, refreshes, socket, events, cache, loaded,
                 fetch, clicks>>
engineVars == <<experiment, runs, jobs, refreshes>>
pageVars == <<cache, loaded, fetch>>

Idle == [at |-> "idle"]
Sent == [at |-> "sent"]

--------------------------------------------------------------------------------
(* What the page shows.                                                      *)

\* Start without data counts as an empty list.
shownRuns == cache["runs"]
finished == Cardinality({r \in DOMAIN shownRuns : shownRuns[r] \in Finished})
RunProgress == [completed |-> finished, total |-> Cardinality(DOMAIN shownRuns)]
\* One section per variant of the experiment, once that has loaded.
VariantGroups ==
    IF "experiment" \notin loaded THEN [v \in {} |-> {}]
    ELSE [v \in {Variant[r] : r \in Runs} |-> {r \in DOMAIN shownRuns : Variant[r] = v}]

--------------------------------------------------------------------------------
(* The engine. What is written is announced afterwards, in the same order, to  *)
(* sockets that are open at that moment.                                       *)

Broadcast(new) == events' = IF socket = "open" THEN events \o new ELSE events
ExperimentStatus(s) == [type |-> "experiment.status", run |-> None, status |-> s]
RunStatus(r, s) == [type |-> "run.status", run |-> r, status |-> s]
Progress == [type |-> "run.progress", run |-> None, status |-> None]
Complete == [type |-> "experiment.complete", run |-> None, status |-> None]

Click(b) == clicks[b] < MaxClicks /\ clicks' = [clicks EXCEPT ![b] = @ + 1]
\* The Start button: the runs are created if there are none, and the pending
\* ones are queued.
Start ==
    /\ Click("start")
    /\ runs' = IF runs = NoRuns THEN [r \in Runs |-> "pending"] ELSE runs
    /\ jobs' = jobs \cup {r \in Runs : runs'[r] = "pending"}
    /\ experiment' = "running"
    /\ Broadcast(<<ExperimentStatus("running")>>)
    /\ UNCHANGED <<refreshes, socket, pageVars>>
\* The Cancel button: pending runs are cancelled without an event of their own.
Cancel ==
    /\ Click("cancel")
    /\ experiment' = "cancelled"
    /\ runs' = [r \in DOMAIN runs |-> IF runs[r] = "pending" THEN "cancelled" ELSE runs[r]]
    /\ Broadcast(<<ExperimentStatus("cancelled")>>)
    /\ UNCHANGED <<jobs, refreshes, socket, pageVars>>

SetRun(r, s) ==
    /\ runs' = [runs EXCEPT ![r] = s]
    /\ Broadcast(<<RunStatus(r, s)>>)
    /\ UNCHANGED <<experiment, socket, pageVars, clicks>>
Executing == {r \in DOMAIN runs : runs[r] = "running"}
\* A worker takes a job; a job of a cancelled run only announces that.
StartJob(r) ==
    /\ r \in jobs /\ Cardinality(Executing) + refreshes < Workers
    /\ jobs' = jobs \ {r}
    /\ IF "cancelled" \in {experiment, runs[r]}
       THEN SetRun(r, "cancelled") /\ refreshes' = refreshes + 1
       ELSE SetRun(r, "running") /\ UNCHANGED refreshes
\* The grading in between is part of running. A run may end as cancelled long after
\* the click.
EndJob(r, s) ==
    /\ runs[r] = "running"
    /\ s = "cancelled" => clicks["cancel"] > 0
    /\ SetRun(r, s)
    /\ refreshes' = refreshes + 1
    /\ UNCHANGED jobs
\* A workspace that cannot be prepared, a harness that cannot be set up or a grade
\* that cannot be saved: the run has failed, and no event says so.
FailQuietly(r) ==
    /\ runs[r] = "running"
    /\ runs' = [runs EXCEPT ![r] = "failed"]
    /\ refreshes' = refreshes + 1
    /\ UNCHANGED <<experiment, jobs, socket, events, pageVars, clicks>>
\* A worker that is done refreshes the experiment.
Refresh ==
    LET done == runs # NoRuns /\ \A r \in DOMAIN runs : runs[r] \in Finished IN
    /\ refreshes > 0
    /\ refreshes' = refreshes - 1
    /\ experiment' = IF done THEN "completed" ELSE experiment
    /\ Broadcast(IF done THEN <<Progress, Complete>> ELSE <<Progress>>)
    /\ UNCHANGED <<runs, jobs, socket, pageVars, clicks>>

--------------------------------------------------------------------------------
(* The queries.                                                              *)

\* Mutant: a request in flight is kept although it may have been answered before.
InvalidatedKeeping(f, q, hold) == [f EXCEPT ![q] = IF @ = Idle THEN Sent ELSE @]
\* An invalidation asks again. A request in flight is dropped for that, unless
\* the query holds no data yet: then its answer is waited for.
Invalidated(f, q, hold) == [f EXCEPT ![q] = IF @ = Idle \/ q \in hold THEN Sent ELSE @]

EngineReads(q) ==
    /\ fetch[q] = Sent
    /\ fetch' = [fetch EXCEPT ![q] =
                    [at |-> "read", answer |-> IF q = "runs" THEN runs ELSE experiment]]
    /\ UNCHANGED <<engineVars, socket, events, cache, loaded, clicks>>
Answer(q) ==
    /\ fetch[q].at = "read"
    /\ cache' = [cache EXCEPT ![q] = fetch[q].answer]
    /\ loaded' = loaded \cup {q}
    /\ fetch' = [fetch EXCEPT ![q] = Idle]
    /\ UNCHANGED <<engineVars, socket, events, clicks>>

\* What an event writes into the caches. A patch of the runs makes a list that has not
\* loaded an empty one; a patch of an experiment that has not loaded does nothing.
PatchedRuns(e) ==
    IF e.type = "run.status"
    THEN [r \in DOMAIN shownRuns |-> IF r = e.run THEN e.status ELSE shownRuns[r]]
    ELSE shownRuns
PatchedExperiment(e) ==
    IF "experiment" \in loaded /\ e.type = "experiment.status" THEN e.status
    ELSE IF "experiment" \in loaded /\ e.type = "experiment.complete" THEN "completed"
    ELSE cache["experiment"]
Patched(e) ==
    [q \in Queries |-> IF q = "runs" THEN PatchedRuns(e) ELSE PatchedExperiment(e)]
\* Mutant: events only write into the caches.
AskedNothing(e, hold) == fetch
\* What an event asks for again.
Asked(e, hold) ==
    LET runsAgain == Invalidated(fetch, "runs", hold) IN
    IF e.type \in {"run.progress", "experiment.complete"}
    THEN Invalidated(runsAgain, "experiment", hold)
    ELSE IF e.type = "run.status" /\ e.status \in Finished THEN runsAgain
    ELSE fetch
\* One event of the socket.
Deliver ==
    LET e == Head(events)
        hold == IF e.type = "run.status" THEN loaded \cup {"runs"} ELSE loaded IN
    /\ events # <<>>
    /\ events' = Tail(events)
    /\ cache' = Patched(e)
    /\ loaded' = hold
    /\ fetch' = Asked(e, hold)
    /\ UNCHANGED <<engineVars, socket, clicks>>

SocketOpens ==
    /\ socket = "connecting" /\ socket' = "open"
    /\ UNCHANGED <<engineVars, events, pageVars, clicks>>
\* There is no reconnect.
SocketBreaks ==
    /\ socket # "broken" /\ socket' = "broken"
    /\ events' = <<>>
    /\ UNCHANGED <<engineVars, pageVars, clicks>>
\* The window regains the focus: what is not being fetched is fetched.
Focus ==
    /\ Idle \in {fetch[q] : q \in Queries}
    /\ fetch' = [q \in Queries |-> IF fetch[q] = Idle THEN Sent ELSE fetch[q]]
    /\ UNCHANGED <<engineVars, socket, events, cache, loaded, clicks>>

Init ==
    /\ experiment = "draft" /\ runs = NoRuns /\ jobs = {} /\ refreshes = 0
    /\ socket = "connecting"
    /\ events = <<>>
    /\ cache = [q \in Queries |-> IF q = "runs" THEN NoRuns ELSE None]
    /\ loaded = {}
    /\ fetch = [q \in Queries |-> Sent]
    /\ clicks = [start |-> 0, cancel |-> 0]

Work ==
    \/ \E r \in DOMAIN runs :
           \/ StartJob(r)
           \/ \E s \in Finished \cup {"cancelled"} : EndJob(r, s)
           \/ FailQuietly(r)
    \/ Refresh
Next ==
    \/ Start
    \/ Cancel
    \/ Work
    \/ \E q \in Queries : EngineReads(q) \/ Answer(q)
    \/ Deliver
    \/ SocketOpens
    \/ SocketBreaks
    \/ Focus

\* Workers go on, requests are answered and messages arrive.
Spec ==
    /\ Init /\ [][Next]_monitorVars
    /\ WF_monitorVars(Work)
    /\ WF_monitorVars(Deliver)
    /\ \A q \in Queries : WF_monitorVars(EngineReads(q)) /\ WF_monitorVars(Answer(q))

--------------------------------------------------------------------------------
\* An answer never shows a run as unfinished that was shown as finished, although
\* the engine may have read it before the run's last event was delivered. (An
\* event that is older than the list shown may: it is corrected by the next one.)
AnswersKeepFinished ==
    [][\A r \in DOMAIN shownRuns :
           (shownRuns[r] \in Finished /\ events' = events) =>
               r \in DOMAIN shownRuns' /\ shownRuns'[r] \in Finished]_monitorVars

\* A page that has loaded and whose socket is open while runs are unfinished
\* shows in the end that all of them are finished, also those that failed without
\* an event of their own, and that the experiment is completed when it is, unless
\* one is cancelled or the socket breaks. (A page whose first request for the runs
\* is still unanswered may keep that answer: an invalidation does not repeat it.)
CompletionIsShown ==
    (/\ loaded = Queries /\ socket = "open" /\ experiment = "running"
     /\ \E r \in DOMAIN runs : runs[r] \notin Finished)
        ~> \/ /\ \A r \in DOMAIN runs : runs[r] \in Finished
              /\ shownRuns = runs
              /\ experiment = "completed" => cache["experiment"] = "completed"
           \/ socket = "broken"
           \/ experiment = "cancelled" \/ \E r \in DOMAIN runs : runs[r] = "cancelled"
================================================================================
