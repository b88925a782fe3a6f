# Frameval: specifications

TLA+ specifications of Frameval, the TLC runs that check them on small
instances, and theorems that TLAPS checks for every instance. Every definition
is translated from the source; `PROJECT.json` names the lines of each one
(`map`), the runs, the mutants that show that each property can fail, the
hazards the properties are for, the findings and the theorems.

    tlc -config MCOrchestrator_mixed.cfg MCOrchestrator     # a run
    tlapm Orchestrator_proofs.tla                           # a proof

## 1. The system

Frameval runs coding agents on benchmark tasks and grades what they did. A Go
engine (`engine/`) serves a REST and WebSocket API, keeps everything in one
SQLite database, executes the agents in Docker sandboxes and asks a Python
grader (`grader/`) over gRPC for scores. A React frontend (`frontend/`)
launches experiments and follows their runs.

    browser --REST--> api handlers --Enqueue--> queue (channel) --> workers
       ^                  |                                          |
       |                  v                                          v
       |               store (SQLite, one connection) <---------- executeRun
       |                                                |      |      |
       +--WebSocket-- hub <------- broadcast -----------+   harness  grader client
                                                            |           |
                                                  executor + sandbox    Python grader

| component | state | operations | what is hard | what makes it correct |
| --- | --- | --- | --- | --- |
| run engine: `experiment/orchestrator.go`, `queue.go`, `storage/run_repo.go`, `experiment_repo.go` | jobs channel (256), workers, `runCancels`, the rows of experiments, runs, transcripts and grades | start, retry, cancel, estimate, delete, executeRun, refreshExperimentState, boot | handlers and workers share rows without transactions; a cancel may come between any two statements; Enqueue blocks; stops lose the channel | a completed run is graded; an experiment is completed when its runs are; a cancel reaches what executes |
| grader client: `experiment/grader_client.go`, `resilience.go` | circuit breaker, gRPC connection, logged-once latch | GradeRun, ClassifyFailure, Close | calls admitted before a trip report after it; deadlines and cancels race retries | one probe at a time, never wedged, every call returns, it recovers |
| harnesses: `builtin/harness/*.go` | `HarnessRun`, scaffold files, ralph's fingerprint and streak | Setup, prep command, Invoke, Teardown | several agent calls under one deadline and one cancel; which error means what; whose file is it | complete runs only count as complete; a cancelled run stops; user files survive |
| agent invocation: `sandbox/manager.go`, `ringbuf.go`, `incrementalTranscriptStreamer` | pipes or a container log, ring buffer, line buffer, transcript row | start, read two streams, flush, stop, collect, save | two readers call back concurrently with the end of the run | flushes only extend, the final write is last |
| live view: `api/ws_hub.go`, `ws_handler.go`, `use-turn-stream.ts`, `hooks.ts` | hub's client map, channels, sockets, query cache | broadcast, register, fan out, reconnect, refetch, unmount | bounded channels that drop, stale requests, half-closed sockets | a notice is shown, a reopened page catches up, no panic in the hub |
| metrics: `metrics/adherence.go`, `process.go`, `pkg/executor/grouping.go` | none (pure) | AssignTurnGrouping, harness checks, process metrics | turns of several calls are merged into one list | the checks see the calls as they were made |
| regrade, reparse, diagnostic rows | grades, diagnostic and transcripts rows, `anchors_json` | RegradeRun, RegradeRunPayload, ReparseRunTranscript, persistDiagnostic, refreshExperimentAnchors | read, call the grader for minutes, write back | a newer grade is not replaced by an older one |
| store: `storage/db.go`, `tx.go`, `migrations/` | schema, `schema_migrations` | runMigrations, Tx | a crash between two statements of a migration | the next boot finishes what the last began |
| catalog: tasks, variants, artifacts, models, keys, settings, rubrics | their tables | seed, prune, upsert, delete | pruning what experiments still refer to | references stay valid |
| diagnostic launch: `api/diagnostic_launch.go` | the rows of several experiments | LaunchDiagnostic, LaunchDiagnosticSuite | one step of several fails, or the client leaves | no experiment that looks alive and is not |
| sandbox workspace: `sandbox/manager.go` | a directory | prepare, setup script, snapshots, patch | scaffold in the patch | the patch is the agent's work |
| executors and parsers: `executor/*.go` | parser state | ParseTranscript, Execute | prefixes of an output are parsed | a longer prefix never loses a turn |
| diagnostics: `diagnostic/*.go` | none (pure) | anchors, fingerprint, recovery, symptoms | boundaries | agree with their definitions |
| Python grader: `grader/` | the default classifier | GradeRun, ClassifyFailure | one judge dimension of several fails | a failure is a sentinel, never a score |
| run inspector: `inspect.tsx`, `components/run-inspector/`, `turn-filters.ts`, `turn-search.ts`, `parse-patch.ts` | the URL (filters, focus), the query of the turns, the list's scroll, the search box, an expanded output | group, filter, search, focus, follow the tail, diff, clip | turns arrive while the user reads; the URL outlives what it names | the focus is in the list; a reader is not scrolled; a call is shown whole |
| experiment list and monitor: `pages/experiments/` | query cache, ticks, a socket | filter, group, delete, follow, start, cancel | answers that are older than an event or a delete; no reconnect | what was confirmed is deleted, and goes; completion is shown |
| compare page: `compare.tsx`, `anchor-alignment.ts`, `use-replay-clock.ts`, `components/compare/` | the URL's experiments, ticked runs, the pivot's order, a clock | pick, select, pivot, align, replay | the Back button; runs that complete while one picks; drift between runs | only shown runs are compared; a cell shows its own run; nothing is shown twice or lost |
| launcher: `launch.tsx`, `launch-matrix.ts`, `build-variants.ts`, `components/launcher/` | the form, the catalogues | pick, configure, launch a matrix | catalogues that change under the picks; one request of several fails | what was previewed is launched, and can run |
| grading page: `grading.tsx`, `components/grading-inspector/`, `hooks.ts` | the grade, run and profile queries | poll, regrade, retry | polling stops on another query's answer; a regrade passes a request | the judgement and the regrade are shown in the end |
| other pages, middleware, logging, configuration | form state | render, log | | |

## 2. Modules

`Orchestrator`, `GraderClient`, `TranscriptStream`, `LiveView` and `Harness`
each specify an engine component (LiveView with the page's side of the socket); `Adherence`
holds pure operators that `Harness` uses, and `RunLife` is the abstract
specification that `Orchestrator` implements. `ExperimentsPage`, `ComparePage`,
`GradeTable`, `InspectPage`, `TurnDetail`, `LaunchPage`, `MonitorPage`,
`GradingPage` and `Tape` each specify a page or a part of one; `TurnGroups`,
`TurnText` and `Ordering` hold pure operators that they share, and `AnchorMerge` is the abstract
specification that `Tape` implements.
They meet at the steps of `executeRun`: `Harness` and `TranscriptStream` are
the inside of `Orchestrator`'s step `InvokeDone`, `GraderClient` the inside of
`SaveGrade`, and `LiveView` starts where `TranscriptStream` ends, at a write of
the transcript row. Each module keeps as nondeterminism what the other ones
decide: how an invocation ends, whether the grader answers, when a row is
written. `MonitorPage` and `GradingPage` repeat of the engine what the page can
see: which row is written and which event is sent, in the order of the code. `Pages`
composes the pages, the MC modules give values to constants. The theorems are in
modules of their own (`..._proofs`), and `ListFacts` has what needs no state: what
FlattenSeq returns, what a list sorted by a strict total order looks like, and what
the algorithms of `TurnText` make of any lines.

### Orchestrator

One action per statement on shared state. The database has one connection
(`db.go:32`), so a statement or a transaction is atomic and everything between
two statements interleaves.

* `pc[w]` is the place of a worker in `executeRun`, named for the next thing it
  does; `job`, `seen` and `ctxDone` are its run, the status it has read and its
  per-run context. `hpc[q]` and `todo[q]` are the same for a handler.
* `Enqueue` is the send on the bounded channel: it is disabled while the channel
  is full, which is how the HTTP handler blocks. A start is four statements:
  `StartGetExperiment` reads the experiment, `StartEnsure` inserts the rows that
  are missing, `StartMarkRunning` sets the status and `StartListRunnable` captures
  the runs that will be enqueued, in the order of the query.
* `Runs` are the ids that rows may get. Two ids of one experiment, variant and
  run number (`SameSlot`) are rows of one run before and after its experiment was
  deleted: the insert gives a new id to each run that has no row.
* `TaskGone` are the experiments whose task row may be missing:
  `CreateExperiment` does not look for it, and the boot prunes tasks
  (`task_repo.go:258-276`). For them `GetTask` may fail under a live context, and
  the run is left as it is.
* `TryStatus` and `TryTranscript` are writes under the run's context: they do
  nothing once `ctxDone`, as the code drops their errors.
* `CancelMark`, `CancelPending` and `CancelContexts` are the three parts of
  `CancelExperiment`; `CancelContexts` reads `runCancels` under its mutex.
* `GetRun`, `GetExperiment`, `MarkCancelled`, `Register`, ... `Unregister` are
  executeRun in order, with every early return; `Stream` is the write of a
  streamed prefix while the agent works.
* `ListRuns` and `SetExpCompleted` are refreshExperimentState, which reads the
  runs and later writes the status.
* `Restart` is a crash or a shutdown with the next boot: the rows stay, the
  channel, the workers, the registry and the requests do not, and
  `ReconcileCompletedExperiments` runs. `LoseClient` ends a handler whose
  client hung up: its next statement fails.

`RunLife` is the abstract specification that it implements (`LivesOfRuns`): three
rows per run and what may happen to them, without workers, channel, contexts and
requests. A run begins only while it waits, completes only when its final
transcript and then its full grade were saved, in this order, and is over then
unless a client retries or deletes it. Two steps are there because the code takes
them: a cancelled run may begin (the cancel came after its worker read the
status), and rows may be written for a run that is deleted (`WriteLate`), which
does not come back.

### GraderClient

One caller per goroutine that grades or classifies. `Admit` and `Reject` are
the breaker's `beforeRequest`, `Attempt` an RPC with its answer, `Backoff` the
wait between attempts, `Report` `afterRequest`, and the `Return` actions what
GradeRun and ClassifyFailure do with the outcome. `current` is the set of calls
of the breaker's generation: reports of older ones are ignored (`Stale`).
`Answers` is the grader in its four `Modes`; a cancelled or expired context
gives a gRPC status in `Attempt` and the bare context error in `Backoff`. The
breaker itself is sony/gobreaker, external, modelled from how it is used.

### TranscriptStream

From the start of the agent to the saved transcript, in a container, in a
container whose logs cannot be followed, and in a local process. A reader
goroutine reads a line (`Read`), writes it to the ring (`WriteLine`) and calls
the streamer back (`OnOutput`), which flushes the row after a JSON line or a
paragraph. `AgentEnded`, `Return` and `Save` are the runner: how the select of
`runInDocker` falls, the wait for the readers, and the final write. Lines are
numbers with a `Kind`; the ring counts lines instead of bytes.

### LiveView

The worker writes the row and then broadcasts (`Write`, `Announce`); the hub's
select is `Register`, `Unregister` and `Fanout`; `HandleWS` has its two
goroutines in `Serve` and `Notice`. The page is `Open`, `Message`, `OnClose`,
`Reconnect`, `Unmount` of useTurnStream, with `Read` and `Land` for a REST
request that was answered and that arrives. A row is its version number: what
it says is the parsers' business.

### Harness and Adherence

The life of one run of any of the five harnesses. `Plan` is the sequence of
stages; `Setup`, `Prep`, `Call`, one `Return...` action per kind of loop, and
`Teardown`. `Expire` and `Cancel` end the context at any time; `dead` says that
a call started with a context that was already over. The workspace is one
value, which ralph's fingerprint reads: the number of the last call that wrote a
file. The fingerprint hashes the times of the files, so that of an idle agent stays
only if nobody writes the files back. `renews` says that somebody does: a
container, whose workspace is copied back after each call
(`manager.go:803-806`), or the configuration written for an ollama model.
`Sandbox` lets it begin with any call, as `ensureDockerClient` asks for a daemon
until it finds one. `Adherence` numbers turns as
AssignTurnGrouping does and has the checks of `adherence.go` for ralph and
speckit as operators on sequences of turns.

### The pages: what they have in common

A query of TanStack Query is a request that is sent, then read by the engine
(`EngineReads`), then answered (`Answer`): between any two of these something
else may happen, and an answer may be older than what has been shown since. An
invalidation drops a request in flight and asks again, unless the query holds no
data yet: then the old answer is waited for. Effects of React run at the end of
the step that caused them (`Commit`), so that a handler, the render and its
effects are one action.

### InspectPage, TurnGroups, TurnDetail, TurnText

`url` is the filters and the focus in the search parameters, `turnsQuery` the
cached turns, `list` the virtualised list with its scroll position and listener,
the rest the search palette. `GroupTurns`, `ApplyTurnFilters`, `SearchTurns`,
`BuildToolHistogram`, `BuildEvidenceByTurn` and `FilterDiffForTurn` of
`TurnGroups` are the functions of the files of these names; texts are told apart
by what is searched for. `TurnDetail` is the card of one tool call, with its button
and its refetches; `TurnText` has its algorithms: `DiffLines` and `UnifiedDiff` of an
edit, `ToolOutputSnippet` with its limit and its one header (the first path and the
first type; further ones are `Dropped`), and `ParsePatch`, which goes through the
lines of what `git diff` writes. A line that an edit keeps and one that a hunk keeps are
marked "kept".

### ExperimentsPage

The list with its text and status filters, the grouping by batch, ticks, the
confirmation and overlapping deletes, each of which refetches the list. A list
request may fail (`FetchFails`): it keeps the rows, leaves a `listError` that the
page does not show, and settles the delete that waits for it.

### ComparePage, GradeTable, Tape, AnchorMerge

`ComparePage` has the experiments in the URL, the ticked runs, the ref that
remembers what was selected automatically, the cached bundles and the picker. It
opens with any of the lists of runs `Pasted` in its URL, also of runs of no experiment.
`GradeTable` is the pivot: columns, header spans, grades and rows from one order of
three dimensions, which the user drags; what a cell draws of its grade is left out. `Tape` is `alignAnchors`, one row per
step of its loop, and the replay of its rows with the transport bar and the keys.
`AnchorMerge` says what an alignment promises: each row takes the next anchor of
one run, or of all runs if the keys agree, until none is left.

### LaunchPage

The form, the four catalogues that arrive in any order (`TasksArrive`, ...) and
change (`RefreshModels`), the roles of the multi-agent form, and the launch: one
request per cell of the matrix, answered one by one.

### MonitorPage and GradingPage

`MonitorPage` runs the engine's `Start`, `Cancel`, `StartJob`, `EndJob`,
`FailQuietly` and `Refresh` with the events each sends, the socket, and the two
queries; `Deliver` is the page's effect on one event. `GradingPage` has the steps
of executeRun that the page can tell apart (`Status`, `SavePartial`, `SaveGrade`,
`PersistDiagnostic`, `Finish`), the regrade of another request, the poll and the
page. Versions stand for what the rows say.

### Pages

One instance of every page but the monitor, in one specification: `page` is
chosen at the start and never changes. A page that is left is unmounted and drops
its state, so the visits of one page are independent of those of another. What
the pages suppose of their data is named here: `ListAssumption` (no two
experiments take the same place in the order of creation; the sort is stable),
`CompareAssumption` (the API lists experiments and runs as arrays),
`TableAssumption` (every run has a harness, an agent and a model),
`LaunchAssumption` (there are tasks and executors, and the model catalogue is
finite) and `DetailAssumption` (texts are lines, a piece of an output has one or
more, and git writes one section per path: it writes two only where a file turns into
a link, and then the second entry replaces the first). The lists that the code filters or deletes from are written with
FlattenSeq (`Filter`, `Without`), about which `ListFacts` has a lemma.

## 3. What the runs check

| run | instance | properties |
| --- | --- | --- |
| `mixed` | one worker (the default) behind a channel with one slot, one experiment with two runs, a start, a cancel, a retry and an estimate in any order, one restart, one lost client | `NoStrandedExperiment`, `HandlersReturn` |
| `pool` | two workers, a channel with one slot, an experiment with two runs, a start and a retry at any moment, beside an experiment whose task row is gone | `PendingRunHasJob`, `RegistryIsLive`, `StartedCompletes` |
| `gone` | two workers, two experiments with three runs and five ids, a start, a cancel and a delete of one in any order, also inside the start, beside the start of the other, whose task row may be gone, one restart | `Exclusive`, `ExecutingIsCancellable`, `CompletedIsGraded`, `LivesOfRuns` |
| `calls` | a grading and a classifying caller, two attempts, threshold two, all modes of the grader, shutdown | `ProbeIsAlone`, `NeverWedged`, `CallsReturn`, `Recovers` |
| `follow` | two writes and one log line, channels with one slot, one broken socket | `NoUseAfterClose`, `NoticeIsShown`, `ReopenReconciles`, `ConnectionsEnd` |
| `invoke` | five lines on two streams, a ring of four, pipes of two, all three runners | `FinalIsLast`, `LiveLinesAreKept`, `FlushesExtend`, `InvocationEnds` |
| `lifecycle` | five harnesses, three roles or stages, four iterations, three kinds of task, a sandbox that renews the files or not | `StuckHalts`, `OKMeansComplete`, `StageChecksAreRight`, `TeardownKeeps`, `InvokeEnds` |
| `pages` | a visit of each page: two experiments of one batch with a bulk delete and list requests that may fail; a picker of two with one run to show, opened by a URL that names no run, one, or two of which one belongs to no experiment; three columns in every pivot; a transcript of two turns that grows; a regrade among requests of the run that fail; two tasks and two executors with three edits; two and three runs of anchors; all edits of texts of up to three lines, outputs of up to two pieces, patches of up to two files | `DeletesWhatWasShown`, `DeletedRowsGo`; `NothingForeign`, `AutoSelectsOnce`; `PivotIsFaithful`; `FocusIsListed`, `ReadingIsNotDisturbed`; `RegradeIsShown`; `LaunchesWhatWasShown`, `SentIsRunnable`; `Merges`; `TurnIsShownWhole` |
| `monitor` | two runs of two variants, one worker, one click on each button, a socket that may break | `AnswersKeepFinished`, `CompletionIsShown` |
| `race`, `lost`, `judge` | the smallest instance that shows the finding | one documented claim each, violated (section 6) |

**Bounds.** They are constants, with the reason for each value:

* Two runs of one experiment are what it takes for the refresh of one to read
  the other's status too early, and three with two experiments for a cancel to
  hit the wrong one. `QueueCap` is one where blocking matters (`mixed`, `pool`) and
  two elsewhere; 256 in the code.
* In `gone` e1 has two ids for each of its two runs: one delete lets each get at most
  one second row. The ids of a run, and the workers, are interchangeable: the engine
  compares ids only for equality, and the constants do not tell them apart, so the
  run uses symmetry. It checks no liveness, and its one temporal property, the steps
  of `RunLife`, is as symmetric.
* A request is sent at most once, so a second retry or cancel is a second
  request; `Op` says which ones an instance has. `MaxRestarts` and
  `MaxLostClients` are one: a second stop finds nothing that the first did not
  leave, since a stop leaves only rows.
* `Threshold` 2 (5 in the code) and `MaxAttempts` 2 or 3 (3 in the code): the
  breaker opens between calls and between the attempts of one, and calls of an
  older generation report in every state.
* `BCap` and `CCap` are one, so that both kinds of drops happen; two versions
  and one loss give a notice lost while the socket is down.
* The ring is smaller than what is printed, so that it evicts, and pipes are
  smaller than stdout, so that the agent blocks.
* `MaxIterations` is four. Production passes three, with which ralph's halt on
  two idle iterations never saves a call: it needs three equal fingerprints.
  `Outputs` are what a check of adherence can tell apart, `Shipments` the tasks
  that ship nothing, a bare `.specify` and everything.
* `MaxDeletes` is one: a bulk delete of one or two rows meets list requests sent
  and answered before, between and after its own.
  `MaxRuns` is one (10 in the code), so that the limit is met by two runs.
* Three columns differ in every pair of dimensions, so that every order of the
  pivot is another order of columns. Three roles let a new role take the name of
  a removed one; three edits are a change of catalogue between two picks.
* `MaxRegrades` is one, with a run query that may fail and be retried any number
  of times around it. `MaxUpdates` is three in `judge`, the poll before, during and after
  the judgement. `MaxMutations` and `MaxChanges` are a retry or a reparse and one
  change of the filter on the way.
* Texts of three lines are enough for the prefix and the suffix of an edit to
  meet and to overlap; pieces of six and four lines are on both sides of the
  limits (6 for read, 4 otherwise).
* `Pasted` has no run, a run of an experiment that may be picked or not, and a list
  with a run of no experiment.

**Deadlock** is checked everywhere but in `follow`, `pages` and `judge`, where a
page may be closed or at rest until its user acts. Where the engine rests, an
explicit stuttering action (`Idle`, `Done`) says exactly when.

**Fairness.** Weak, on what the program keeps running: the goroutines of
handlers, workers, hub, readers (the Go scheduler), timers (deadlines of
invokeWithTimeout and of the RPCs, the breaker's timeout, the reconnect delay,
pongWait), the browser's event loop, and the requests and messages of the
monitor. None on what others decide: requests, clicks, cancels, hang-ups,
restarts, the agent's output, broken sockets, the window's focus, the grader's
recovery. Two steps need a remark. `StartedCompletes` assumes that Setup, the
prep commands and the patch capture return: the code gives the prep command no
deadline (`orchestrator.go:437`), which is why `InvokeEnds` starts at Invoke.
`Recovers` assumes in its formula that the grader is up and that somebody calls;
`CompletionIsShown` that the page has loaded, since a first request in flight is
not repeated, and it ends if the socket breaks.

**Mutants.** For every property of a passing run, `PROJECT.json` names a
variant of one definition (they stand beside the originals, marked "Mutant"): a
dropped guard, an off-by-one, a write too early, a missing cleanup. TLC finds
the property violated in each.

## 4. What is proved

All for every value of the constants, under the named assumptions of the module
(section 2 has those of the pages) and the hypotheses that the table names.

| theorem | says | rests on |
| --- | --- | --- |
| `Orchestrator_proofs!TypeCorrect` | `[]TypeOK` | the type of every step |
| `RegistryLive` | `[]RegistryIsLive` | a worker registers itself and removes only its own run's entry |
| `PoliteClients` | `[]Exclusive`, if `[][AskedWhenFree]_vars` | `OnePlace` |
| `OnceExclusive` | `[]Exclusive`, if `AskedOnce` | `FreshInv` |
| `Cancellable`, `CompletedGraded` | `[]ExecutingIsCancellable`, `[]CompletedIsGraded`, if `[]Exclusive` | `ExecutionInv` |
| `PoliteClientsGraded`, `OneWorkerGraded` | the same if `AskedWhenFree`; with one worker and no hypothesis | the theorems above |
| `CompletedKept` | `CompletedRunsAreKept`, an action property, if `AskedOnce` | `SettledInv` |
| `RunsLive`, `RunsLiveOnce` | `LivesOfRuns`: every step of the engine is a step of `RunLife` or none, if `[][AskedWhenFree]_vars`; if `AskedOnce` | `LifeInv` |
| `NothingStranded` | `[]NoStrandedExperiment`, if `OwnRun` | `StrandInv` |
| `NothingForgotten` | `[]PendingRunHasJob`, if `Uninterrupted` | `PendingInv` |
| `GraderClient_proofs!TypeCorrect`, `OneProbe`, `NotWedged` | the counts stay below their limits, one probe, a half-open breaker that rejects has a probe | `BreakerInv` |
| `TranscriptStream_proofs!TypeCorrect`, `FinalWriteIsLast`, `LiveLinesStay`, `EventsAreShownAtOnce` | `[]FinalIsLast`, `[]LiveLinesAreKept`, `[]EventsAreShown` | `StreamInv` |
| `FlushesOnlyExtend` | `FlushesExtend`, an action property | `StreamInv` |
| `LiveView_proofs!NoPanic`, `StaysGone` | `[]NoUseAfterClose`, `[]UnmountedStaysGone` | `ChannelInv`, `PageInv` |
| `Harness_proofs!TypeCorrect`, `AtMostOneRefusal`, `GradedMeansComplete` | no call beyond the plan, one refused call, complete runs only | `PlanInv`, `CallsInv` |
| `RalphHalts` | `[]StuckHalts` | `RalphInv` |
| `OnlyOwnFilesGo` | `TeardownKeeps`, an action property | `OwnsInv` |
| `StageChecksHold` | `[]StageChecksAreRight`, if `DistinctStages` | `StampInv` |
| `MonitorPage_proofs!ShownIsOver`, `AnswersNeverTakeBack` | what is shown as finished is finished; `AnswersKeepFinished` | `MonitorInv` |
| `Pages_proofs!DeletedRowsAreGone` | `[]DeletedRowsGo` | `ListRowsInv` |
| `DeletesAreShown` | `DeletesWhatWasShown`, an action property | `TicksShown` |
| `TicksAreListed`, `AnswersKeepTicks` | `[]NothingForeign`; `AutoSelectsOnce`, an action property | `CompareInv` |
| `PivotsAreFaithful` | `[]PivotIsFaithful` | `TableInv` |
| `LaunchesAreAsShown` | `[]LaunchesWhatWasShown` | `FormInv`, `RequestsInv` |
| `RequestsAreRunnable` | `SentIsRunnable`, an action property, if `OneEnabled` | `FormInv`, `OneExecutor` |
| `GradingPageIsSound`, `RegradesAreShown` | `[]RegradeIsShown` | `GradingInv` |
| `FocusIsAlwaysListed` | `[]FocusIsListed` | `FocusFound` |
| `ListIsAttentive`, `ReadersAreNotDisturbed` | `ReadingIsNotDisturbed`, an action property | `ListInv` |
| `CallsAreShownWhole` | `[]TurnIsShownWhole` | `DetailInv`, the theorems on texts of `ListFacts` |
| `TapeIsSound`, `AnchorsAreTakenOnce`, `AnchoredRowsShareAKey` | every passed anchor is on one row, in order; anchored rows share a key | `TapeInv` |
| `TapeIsMerged` | `Merges`: every step of the alignment is a step of `AnchorMerge` or none | `TapeInv` |

*Orchestrator.* Four hypotheses, because without each the conclusion is false:

* `AskedWhenFree`: a start or a retry lists a run only while no other request,
  job or worker has it. The API does not insist, and a retry of an executing run
  gives it a second worker. `OnePlace` says that a run is asked for, queued or
  executed in one place; the steps move it from one to the next.
* `AskedOnce`: no two requests start or retry the same run. It is a condition on
  the requests alone, implies `AskedWhenFree`, and is what `gone` has. A run that
  is asked for twice may lose a completed status to its second execution.
* `OwnRun`: every experiment has a run that only one request asks for, whichever
  id it has. A second
  start of an experiment that is done sets it running with nothing left to run,
  and a retry that gets ahead of the start's listing takes the last refresh
  away; both stay until the next boot.
* `Uninterrupted`: no cancels, restarts or lost clients. Each of these drops the
  jobs of runs that stay pending, and a cancel that meets a start or a retry
  does so for good. A task row that is gone does the same: `PendingRunHasJob` is
  said of the experiments outside `TaskGone`, whatever happens to the others.

`CompletedIsGraded` is not inductive: nothing in it says that a worker that is
about to write "completed" has saved the grade. `ExecutionInv` says where
executeRun stands between the two, and that a worker whose context is live has
taken its run out of "completed" before it overwrites anything, which a second
worker of the same run would undo. `SettledInv` adds that a completed run is in
nobody's hands but those of a worker that is leaving. `LifeInv` is what the
refinement needs: whatever is listed, queued or taken by a worker still waits or is
gone, and at each later step of executeRun, while the context is live, the rows are
where the step before left them. A worker whose context is over writes nothing but
"cancelled", and that only over what has not ended. `StrandInv` says that while
an experiment is running and all its runs have ended, one of its workers has not
refreshed it yet. `PendingInv` names, for
each pending run, who still has it: the handler that will list it, its list, the
channel, a worker before its status read, or one that will write "failed".

*GraderClient.* `BreakerInv` ties the counts to the calls of the current
generation: half open, the number of requests is the number of those calls, and
each of them has still to report.

*TranscriptStream.* `StreamInv` has five parts: no reader is left once the runner
has what it waited for (`ReadersDone`); what was saved stays (`SavedStays`); the
row is a prefix of what was streamed (`RowIsStreamed`); a line is in the ring, or
the ring is marked, before the callback shows it (`RingIsAhead`); a line that ends
an event is in the row when its callback returns (`EventsAreShown`). The last is
what makes a flush an extension with two readers that call back at once.

*LiveView.* `ChannelInv` says who may use a channel: the hub while the client
is registered, the handler until the hub has closed it. `PageInv` says that one
connection of a page is alive and that a timer is pending only without one.

*Harness.* `PlanInv` bounds the calls by the plan in every phase; `CallsInv`
says that while the loop goes on no call was refused, and what the harness does
with an error. Refused calls are last because every loop leaves after a context
error. `RalphInv` says that the streak is the number of idle iterations at the end
of the history, failed fingerprints skipped: the streak after one more call
follows from that of the calls before. `RestInv` says that a call in which the agent
wrote nothing leaves the fingerprint of the one before, while no call renews the files:
so what `StuckHalts` says of idle agents follows from what it says of fingerprints. `OwnsInv` says that the created_by_harness
flag tells what Setup found, whatever the agent does to the files. `StampInv` says that the turns of a
call carry its stage and its number. The adherence checks then read from the
merged transcript what the calls were; two stages of the same name would pass for
one, which the catalogue rules out (`DistinctStages`, `catalog.go:35`).

*MonitorPage.* That an answer never takes a shown end back needs to be said of
everything that can become shown. `MonitorInv` says that neither the page nor an
answer nor a message is ahead of the engine, and that an answer on its way is not
behind what the page shows as finished: an event that brings an end replaces the
request that may be. A run that is finished stays so here; the retry of a run
belongs to the inspector and is not a step of this module.

*Pages.* A visit of `Pages` is a behaviour of the page that is visited (the
lemmas `...Plays`), so every theorem is about the composition.

* The list: `ListRowsInv` says that a delete that settled without a failure has no
  request left, and that from then on neither the list at rest nor an answer on its
  way has a row that the engine does not have, unless the last list request failed. That the ids sent are the ticks of
  the table's rows needs the table: `RowsShow` says that the grouping by batch
  shows each experiment of the filtered list in one row.
* Compare: `CompareInv` says of everything that can become the URL again, the
  entries of the history included, that the ticks are runs of its experiments or runs
  that it names itself.
* The pivot: `TableInv` says that the order is three dimensions. `PrecedesRanks`
  says that the comparison of columns is a strict total order, `ColumnsSorted`
  that sorting by it is a bijection of places, and the lemmas after it that the
  spans tile the columns, that each column has its own grade, and that a value comes back only under another outer
  value, each by the least column that would say otherwise.
* The launcher: `FormInv` says that every picked model is one that the form offers,
  whatever the catalogues do meanwhile; `RequestsInv` tells the requests of one
  launch from those of another. `OneEnabled` is the code's
  `ENABLED_EXECUTORS` (`launch.tsx:78`), which has one member: with two, a cell
  could pair one executor with a model of the other.
* Grading: `GradingInv` follows the version of each row from the engine through
  the request to what is shown: an answer on its way lies between what the page
  was told of and what there is, and a query at rest shows at least that.
* The inspector: `FocusFound` is the property for any page whose data is at rest.
  Every step that changes the groups or the URL ends with the effect that drops a
  focus that is not there. `ListInv` says that a list that hears about scrolling
  sticks to its end exactly when it is there.
* A tool call: `DetailInv` says that the card is only given calls of the run with
  their patch; the rest is about texts, in `ListFacts`. The instances of `TurnText` there
  and in the page are the same operators (`DetailDiffs`, `DetailSnippets`, ...).
* The tape: `TapeInv` counts. The anchors of a run before its pointer are, in
  order, those of its rows, and a run that is about to emit has an anchor left.
  The refinement maps `taken` to the pointers less one; `Diverge` and the clock
  are stutters. The theorems assume that the runs are sequences of anchors
  (`RunsAreSequences`), as the API's arrays are.

*ListFacts.* FlattenSeq is a fold and a sorted list a choice among permutations:
what they are would be an induction over data. These facts are proved by the least
counterexample instead (`Least`, from the well-foundedness of the numbers), which
takes no operator as a parameter, and a recursive function is a solution of its
equation because a least length without one would extend a shorter one
(`FoldingExists`, `SumsExist`, `KeptExist`, `ParsingExists`). On texts:

* `EditIsRead`: of any two texts. `CommonBounds` bounds the prefix and the suffix so
  that they do not meet, `TrimmedRows` says which line each row has, and `ReadsOff` that
  rows of two runs around others number a text. The bound is what the mutant drops.
* `ClippedIsCounted`: of an output without a second header, what the clipping spends of
  each piece is at most what the button counts of it, if the tag is one of those that
  are counted, and so are the sums (`SumsCompare`).
* `PatchParsed`: `Parses` follows the parser along a list of lines and composes
  (`ParsesOn`), from the line (`DiffLineParsed`, ...) through the lines of a hunk
  (`ContentParsed`) and a section (`SectionParsed`) to the patch. `Ready` is what holds
  between two sections: finishing the current file leaves the entries of the files so
  far, and its path is one of theirs. No content line may look like a header.

Only model-checked is all liveness (`StartedCompletes`, `HandlersReturn`,
`CallsReturn`, `Recovers`, `NoticeIsShown`, `ReopenReconciles`,
`ConnectionsEnd`, `InvocationEnds`, `InvokeEnds`, `CompletionIsShown`), out of
the prover's reach under fairness. Every other property of a passing run is a
theorem. `GroupTurns` is a fold about which nothing is proved: the theorems about the
inspector hold whatever it groups.

## 5. What is not modelled, and why

* A statement on rows that exist succeeds under a live context: a full disk or a
  locked file is an error everywhere and handled nowhere differently. A row that
  is gone is an error where the code reads one (`GetRun`, `GetExperiment`,
  `GetTask`). The store's `Tx` is atomic. Foreign keys are off, as
  `experiment_repo.go:143` says of the engine's connection; the migrations 001,
  002, 007 and 016 leave them on in the process that applies them, until its next boot.
* gobreaker, grpc-go, Docker, TanStack Query and the agents are external; their
  actions are marked so in the map and are what the code relies on.
* The requests of LiveView, of the inspector and of the monitor, the catalogues of the
  launcher and the grade are answered; lists, deletes, the compare page's queries, the
  run query of the grading page and launches may fail. In LiveView the refetch on window focus is left
  out: it only shows more. The monitor has it.
* Migrations, seeding and the create, read, update and delete of the catalog:
  statement by statement on one row, or a question about SQL files. The Python
  grader's pipeline, anchors, fingerprints, recovery and symptoms: functions of
  texts, with tests of their own.
* Settings, task and rubric pages, charts, the similarity matrix, the theme and
  the log viewer (which no page renders).
* Contents: prompts, scores, what a turn says beyond what a parser looks at. `Orchestrator` knows a
  grade as none, partial or full.
* Arithmetic of `composite.go`, `cost.go` and the token and cost sums: floating
  point. Key encryption, JSON columns, validation tags, tracing, logging,
  layout: no behaviour that a state machine shows.

The status of every component is in `PROJECT.json`.

## 6. Findings

Violations that a run shows (counterexamples of TLC):

* `race`: a cancel between the status read and registerRunCancel interrupts
  nothing (`orchestrator.go:334-343` against 41-43 and 261-262).
* `lost`: a run that times out in a container replaces its streamed transcript
  with an empty one (`orchestrator.go:476` against 795-798).
* `judge`: the grading page stops polling once it shows the run as over
  (`hooks.ts:206` against 187-189), whether or not the grade it holds was read after the
  judgement: it then says "Judge in progress" (`LLMJudgeCard.tsx:39`) of a run
  whose judge is done, until the window regains the focus.

Claims that the models state and that no run checks, because TLC refutes them
in the same way; they stay as named definitions:

* `CancelledRunsSettle`: a cancel outside Invoke makes the last status writes
  fail, and the run stays running or grading (`orchestrator.go:514` against
  `run_repo.go:129-130`).
* `CancelNeverTrips`: a cancelled RPC is a gRPC status, not a context error, and
  counts as a failure: cancels open the breaker (`resilience.go:66` against
  61-64).
* `SpecBeforeImpl`: turn numbers start again with every stage, so
  spec_before_impl is wrong about merged transcripts (`adherence.go:233` against
  218-219 and `pkg/executor/executor.go:81`). Anchors, groupTurns and
  multiagent's plan_before_code read the same numbers.
* `IdleHalts`: where calls renew the files, as in every container, ralph does not see
  that its agent is idle and works through all its iterations (`ralph.go:188`, 198
  and `manager.go:803-806`, 940-955, against `ralph.go:22-24`, "a fully idle agent
  halts after 3 invocations").
* `NeverSwallowed`: an output under `task_result` or an unknown tag is clipped
  but not counted, so it may have no button that shows the rest, and a second path
  or type in one output is not shown at all (`blocks.tsx:100-104`, 155, against
  88-90, "we never silently swallow agent-visible output").
* `NoStaleRows` (`hooks.ts:48`), after a partly failed bulk delete or a list request
  that failed (`index.tsx:19`); `OwnTicksKept`
  (`compare.tsx:107`), when runs arrive after the user's own ticks; `NeverChased`
  (`TurnList.tsx:46`), when the listener was attached late; `HitIsFocused`
  (`InspectorSearch.tsx:12`), for a hit outside the filter.

Seen while modelling, in the models as in the code, and checked by no run:

* `tx.go:14-18` says that finalization is all or nothing; executeRun uses
  separate statements. FR-406 promises a persistent queue and an order of runs
  (`docs/SRS.md:937-939`); the queue is a channel, ordered by run number first.
* StartExperiment of an experiment that is done leaves it running until the
  next boot, and so does a start of a single run whose retry is executed before the
  start's status write; a retried run of a cancelled experiment is not executed;
  deleting an experiment leaves rows that an executing run writes later.
* A run whose task row is gone stays pending and its experiment running, over every
  boot (`orchestrator.go:346-349`); what creates an experiment or prunes tasks does
  not look (`experiment_repo.go:12-61`, `task_repo.go:258-276`).
* A delete between the read and the insert of a start leaves pending runs of no
  experiment (`run_repo.go:13`, 17-36), whose jobs `GetExperiment` then drops.
* The grader latch silences rejected grades only, not the failures of admitted
  ones (`grader_client.go:45-46` against 282); Close takes the client away from
  workers that still run (97).
* Blank lines never reach OnOutput, so the paragraph trigger, meant for aider,
  does not fire. Drops for one client are not counted (`ws_hub.go:65-69`).
* A turn announced after a page's onopen and before the hub registers it is
  missed until the next notice. A failed run saves its transcript without a
  run.turn.
* Merged transcripts drop StreamedOutput, so logs are broadcast twice; merging
  overwrites the stage "error" that ToolErrorRate counts.
* Reparsing a run of several stages loses the stages, so a later regrade scores
  it differently.
* speckit's Setup fails on a task that ships `.specify` without `memory/` and
  has a constitution. A failed fingerprint does not disable ralph's no-progress
  detector: the streak survives it (`ralph.go:97-100` says the contrary).
* A migration is neither atomic nor repeatable: `db.go:70-77` runs its
  statements one by one and records it last, and the table rebuilds of 002,
  007, 015 and 023 cannot be rerun after a stop in the middle.

Of the pages:

* `parse-patch.ts:19-20` says that only real content lines are counted; a removed
  line that begins with two dashes and a blank is taken for a header and is
  neither counted nor shown, and an added one that begins with two plus signs
  renames the entry (69, 79, 104-105).
* The button of a clipped output may announce more lines than are hidden, since
  footers count. A read, glob or grep whose input is no JSON shows nothing of it
  (417-432). An edit of an empty text shows a removed blank line.
* `group-turns.ts:63` says groups are ordered by first appearance; they are sorted
  by their smallest turn index. Stages that number from zero share groups. Arrow
  down on no results gives -1 (`InspectorSearch.tsx:110-112`).
* The compare page says that it tops out at 5 runs, the limit is 10. The tables
  and the judge's card show 0 for fields that are absent (`?? 0`).
* A launch that is answered after the user has left navigates all the same
  (`launch.tsx:219`, 247). `isPending` of a mutation is that of its last call.
* `useWebSocket` does not reconnect. Runs that are cancelled while pending and
  runs that fail early send no event of their own; a monitor whose first request
  is unanswered at that moment keeps its old answer.
* A run query that fails after it had data takes the grading page down to its
  error. The header says "source: grader" before there is a grade.
* Ticks made while a delete is under way are dropped when it succeeds. The replay
  step is not clamped when the number of steps shrinks.

## 7. What is left

Not covered by any module and worth one, were the project to grow:

* **Records**: RegradeRunPayload, ReparseRunTranscript and refreshExperimentAnchors
  against an executing run: that no row is replaced by one of an older transcript.
* **Migrations**: a file as a sequence of statements with a stop between any two
  and the rerun at boot (`db.go:70`).
* **Parsers**: that a longer prefix of an agent's output never loses a turn.
