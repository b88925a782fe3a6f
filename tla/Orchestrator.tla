---------------------------- MODULE Orchestrator ----------------------------
(***************************************************************************)
(* The run engine of Frameval: HTTP handlers start, cancel, retry,         *)
(* estimate and delete experiments; a bounded channel carries jobs to a    *)
(* pool of workers; every worker executes one run at a time.  Handlers and *)
(* workers share nothing but the channel, the map of cancel functions and  *)
(* the SQLite rows.  The store has one connection (SetMaxOpenConns(1)), so *)
(* a statement, or a transaction, is one atomic step here; everything      *)
(* between two statements interleaves.                                     *)
(*                                                                         *)
(* Sources: engine/internal/experiment/orchestrator.go, queue.go and       *)
(* engine/internal/storage/{run,experiment}_repo.go.                       *)
(***************************************************************************)
EXTENDS Integers, Sequences, FiniteSets

CONSTANTS
    Experiments,    \* the experiments that clients created
    TaskGone,       \* those whose task row may be missing or pruned at a boot
    Runs,           \* the ids that rows of runs may get
    ExperimentOf,   \* the experiment a run belongs to
    VariantOf,      \* its variant_id column
    RunNumber,      \* its run_number column
    Workers,        \* the goroutines of the queue (FRAMEVAL_MAX_CONCURRENT)
    NoWorker,       \* no entry in runCancels
    NoRun,          \* a worker that holds no job
    QueueCap,       \* the capacity of the jobs channel (256 in the code)
    Requests,       \* the HTTP requests that clients may send
    Op,             \* the endpoint a request calls
    Target,         \* the experiment, or for a retry the run, it names
    MaxRestarts,    \* how often the engine may stop and boot again
    MaxLostClients  \* how many clients may hang up while being served

Endpoints == {"start", "cancel", "retry", "estimate", "delete"}

ASSUME RunsAssumption ==
    /\ ExperimentOf \in [Runs -> Experiments]
    /\ RunNumber \in [Runs -> Nat]
    /\ IsFiniteSet(Runs)
    /\ NoRun \notin Runs
    /\ TaskGone \subseteq Experiments

ASSUME PoolAssumption ==
    /\ NoWorker \notin Workers
    /\ QueueCap \in Nat \ {0}

ASSUME RequestsAssumption ==
    /\ Op \in [Requests -> Endpoints]
    /\ \A q \in Requests :
         Target[q] \in IF Op[q] = "retry" THEN Runs ELSE Experiments
    /\ MaxRestarts \in Nat
    /\ MaxLostClients \in Nat

VARIABLES
    expStatus,    \* experiments.status, "deleted" once the row is gone
    runStatus,    \* runs.status, "none" before the row is inserted
    transcript,   \* the transcripts row of a run
    grade,        \* the grades row of a run
    queue,        \* Queue.jobs
    pc,           \* where a worker stands in executeRun
    job,          \* the run a worker executes
    seen,         \* the run status the worker read in GetRun
    ctxDone,      \* the per-run context of the worker was cancelled
    runCancels,   \* Orchestrator.runCancels: whose cancel func is registered
    hpc,          \* where a request stands in its handler
    todo,         \* the runs a handler has listed and not enqueued yet
    restarts,     \* how often the engine has stopped
    lostClients   \* how many requests lost their client

rows      == <<expStatus, runStatus, transcript, grade>>
workers   == <<pc, job, seen, ctxDone, runCancels>>
handlers  == <<hpc, todo, lostClients>>
vars      == <<rows, queue, workers, handlers, restarts>>

-----------------------------------------------------------------------------
ExpStatuses == {"draft", "ready", "running", "completed", "cancelled", "deleted"}
RunStatuses == {"none", "pending", "running", "grading", "completed", "failed",
                "cancelled", "deleted"}

(* The steps of executeRun, each ending at the next access to shared state. *)
(* A worker at one of Registered has a cancel func in runCancels (or had    *)
(* one, until another worker with the same run removed it).                 *)
Registered == {"getTask", "prepare", "setRunning", "setup", "invoke",
               "setCancelled", "saveFailedTranscript", "setFailed", "capture",
               "saveTranscript", "setGrading", "savePartial", "saveGrade",
               "setCompleted", "unregister"}
WorkerSteps == {"idle", "getRun", "getExperiment", "markCancelled", "register"}
                 \cup Registered \cup {"listRuns", "setExpCompleted"}

(* The steps a handler can stand before once its request has arrived.       *)
StepsOf(op) ==
    CASE op = "start"  -> {"ensure", "markRunning", "listRunnable", "enqueue"}
      [] op = "retry"  -> {"retryGet", "enqueue"}
      [] op = "cancel" -> {"cancelPending", "cancelContexts"}
      [] OTHER -> {}

HandlerSteps == {"new", "ensure", "markRunning", "listRunnable", "enqueue",
                 "retryGet", "cancelPending", "cancelContexts", "done"}

RunsOf(e) == {r \in Runs : ExperimentOf[r] = e}

Exists(r) == runStatus[r] \notin {"none", "deleted"}

(* UpdateRunStatus: an UPDATE of a row that is gone changes nothing.        *)
SetStatus(r, status) ==
    runStatus' = IF Exists(r) THEN [runStatus EXCEPT ![r] = status]
                              ELSE runStatus

(* UpdateExperimentStatus, whatever the status was before.                  *)
SetExpStatus(e, status) ==
    expStatus' = IF expStatus[e] = "deleted"
                 THEN expStatus
                 ELSE [expStatus EXCEPT ![e] = status]

(* Mutant: the runs of every experiment, WHERE experiment_id is lost.       *)
RunnableOfAll(e) == {r \in Runs : runStatus[r] \in {"pending", "failed"}}

(* ListRunnableRuns: pending and failed runs, ORDER BY run_number.          *)
Runnable(e) == {r \in RunsOf(e) : runStatus[r] \in {"pending", "failed"}}

ByRunNumber(S) ==
    {s \in [1..Cardinality(S) -> S] :
        \A i, j \in DOMAIN s : i < j => /\ s[i] # s[j]
                                        /\ RunNumber[s[i]] <= RunNumber[s[j]]}

(* Mutant: failed runs are not counted as done.                             *)
AllCompleted(e) ==
    LET listed == {r \in RunsOf(e) : Exists(r)}
    IN  /\ listed # {}
        /\ \A r \in listed : runStatus[r] = "completed"

(* What refreshExperimentState counts: cancelled runs are not done.         *)
AllDone(e) ==
    LET listed == {r \in RunsOf(e) : Exists(r)}
    IN  /\ listed # {}
        /\ \A r \in listed : runStatus[r] \in {"completed", "failed"}

RowsOK ==
    /\ expStatus \in [Experiments -> ExpStatuses]
    /\ runStatus \in [Runs -> RunStatuses]
    /\ transcript \in [Runs -> {"none", "partial", "final"}]
    /\ grade \in [Runs -> {"none", "partial", "full"}]

WorkersOK ==
    /\ queue \in Seq(Runs)
    /\ pc \in [Workers -> WorkerSteps]
    /\ job \in [Workers -> Runs \cup {NoRun}]
    /\ \A w \in Workers : job[w] = NoRun <=> pc[w] = "idle"
    /\ seen \in [Workers -> RunStatuses]
    /\ ctxDone \in [Workers -> BOOLEAN]
    /\ runCancels \in [Runs -> Workers \cup {NoWorker}]

HandlersOK ==
    /\ hpc \in [Requests -> HandlerSteps]
    /\ todo \in [Requests -> Seq(Runs)]
    /\ \A q \in Requests :
         /\ hpc[q] \in {"new", "done"} \cup StepsOf(Op[q])
         /\ hpc[q] = "enqueue" <=> todo[q] # <<>>
    /\ lostClients \in Nat

TypeOK == RowsOK /\ WorkersOK /\ HandlersOK /\ restarts \in Nat

Init ==
    /\ expStatus = [e \in Experiments |-> "draft"]
    /\ runStatus = [r \in Runs |-> "none"]
    /\ transcript = [r \in Runs |-> "none"]
    /\ grade = [r \in Runs |-> "none"]
    /\ queue = <<>>
    /\ pc = [w \in Workers |-> "idle"]
    /\ job = [w \in Workers |-> NoRun]
    /\ seen = [w \in Workers |-> "none"]
    /\ ctxDone = [w \in Workers |-> FALSE]
    /\ runCancels = [r \in Runs |-> NoWorker]
    /\ hpc = [q \in Requests |-> "new"]
    /\ todo = [q \in Requests |-> <<>>]
    /\ restarts = 0
    /\ lostClients = 0

-----------------------------------------------------------------------------
(* Handlers.  A request arrives with its handler's first statement.         *)

Goto(q, step) == hpc' = [hpc EXCEPT ![q] = step]

(* StartExperiment: EnsureRunsForExperiment reads the experiment and fails   *)
(* when it is gone.                                                         *)
StartGetExperiment(q) ==
    /\ Op[q] = "start" /\ hpc[q] = "new"
    /\ Goto(q, IF expStatus[Target[q]] = "deleted" THEN "done" ELSE "ensure")
    /\ UNCHANGED <<rows, queue, workers, todo, lostClients, restarts>>

(* Its transaction, INSERT OR IGNORE: a new row, with an id of its own, for *)
(* every variant and run number that has none.  Foreign keys are off: it    *)
(* also does so for an experiment that was deleted since it was read.       *)
SameSlot(r, t) ==
    /\ ExperimentOf[r] = ExperimentOf[t]
    /\ VariantOf[r] = VariantOf[t]
    /\ RunNumber[r] = RunNumber[t]

HasRow(r) == \E t \in Runs : SameSlot(r, t) /\ Exists(t)

StartEnsure(q) ==
    /\ hpc[q] = "ensure"
    /\ \E new \in SUBSET {r \in RunsOf(Target[q]) : runStatus[r] = "none" /\ ~HasRow(r)} :
         /\ \A r \in RunsOf(Target[q]) : HasRow(r) \/ \E t \in new : SameSlot(r, t)
         /\ \A r, t \in new : SameSlot(r, t) => r = t
         /\ runStatus' = [r \in Runs |-> IF r \in new THEN "pending" ELSE runStatus[r]]
    /\ Goto(q, "markRunning")
    /\ UNCHANGED <<expStatus, transcript, grade, queue, workers, todo,
                   lostClients, restarts>>

StartMarkRunning(q) ==
    /\ hpc[q] = "markRunning"
    /\ SetExpStatus(Target[q], "running")
    /\ Goto(q, "listRunnable")
    /\ UNCHANGED <<runStatus, transcript, grade, queue, workers, todo,
                   lostClients, restarts>>

StartListRunnable(q) ==
    /\ hpc[q] = "listRunnable"
    /\ \E order \in ByRunNumber(Runnable(Target[q])) :
         /\ todo' = [todo EXCEPT ![q] = order]
         /\ Goto(q, IF order = <<>> THEN "done" ELSE "enqueue")
    /\ UNCHANGED <<rows, queue, workers, lostClients, restarts>>

(* Mutant: a full channel drops the job instead of making the handler wait. *)
EnqueueOrDrop(q) ==
    /\ hpc[q] = "enqueue"
    /\ queue' = IF Len(queue) < QueueCap THEN Append(queue, Head(todo[q])) ELSE queue
    /\ todo' = [todo EXCEPT ![q] = Tail(@)]
    /\ Goto(q, IF Len(todo[q]) = 1 THEN "done" ELSE "enqueue")
    /\ UNCHANGED <<rows, workers, lostClients, restarts>>

(* Mutant: one slot of the channel is never used.                           *)
EnqueueOffByOne(q) ==
    /\ hpc[q] = "enqueue"
    /\ Len(queue) < QueueCap - 1
    /\ queue' = Append(queue, Head(todo[q]))
    /\ todo' = [todo EXCEPT ![q] = Tail(@)]
    /\ Goto(q, IF Len(todo[q]) = 1 THEN "done" ELSE "enqueue")
    /\ UNCHANGED <<rows, workers, lostClients, restarts>>

(* Enqueue blocks while the channel is full and ignores the request's       *)
(* context.                                                                 *)
Enqueue(q) ==
    /\ hpc[q] = "enqueue"
    /\ Len(queue) < QueueCap
    /\ queue' = Append(queue, Head(todo[q]))
    /\ todo' = [todo EXCEPT ![q] = Tail(@)]
    /\ Goto(q, IF Len(todo[q]) = 1 THEN "done" ELSE "enqueue")
    /\ UNCHANGED <<rows, workers, lostClients, restarts>>

(* RetryRun: back to pending from any status, even from running.            *)
RetryMarkPending(q) ==
    /\ Op[q] = "retry" /\ hpc[q] = "new"
    /\ SetStatus(Target[q], "pending")
    /\ Goto(q, "retryGet")
    /\ UNCHANGED <<expStatus, transcript, grade, queue, workers, todo,
                   lostClients, restarts>>

RetryGetRun(q) ==
    /\ hpc[q] = "retryGet"
    /\ IF Exists(Target[q])
       THEN /\ todo' = [todo EXCEPT ![q] = <<Target[q]>>]
            /\ Goto(q, "enqueue")
       ELSE Goto(q, "done") /\ UNCHANGED todo
    /\ UNCHANGED <<rows, queue, workers, lostClients, restarts>>

(* CancelExperiment: the status, the pending runs, then the contexts.       *)
CancelMark(q) ==
    /\ Op[q] = "cancel" /\ hpc[q] = "new"
    /\ SetExpStatus(Target[q], "cancelled")
    /\ Goto(q, "cancelPending")
    /\ UNCHANGED <<runStatus, transcript, grade, queue, workers, todo,
                   lostClients, restarts>>

(* Mutant: the statement cancels every run, the finished ones included.     *)
CancelAllRuns(q) ==
    /\ hpc[q] = "cancelPending"
    /\ runStatus' = [r \in Runs |->
         IF ExperimentOf[r] = Target[q] /\ Exists(r) THEN "cancelled" ELSE runStatus[r]]
    /\ Goto(q, "cancelContexts")
    /\ UNCHANGED <<expStatus, transcript, grade, queue, workers, todo,
                   lostClients, restarts>>

CancelPending(q) ==
    /\ hpc[q] = "cancelPending"
    /\ runStatus' = [r \in Runs |->
         IF ExperimentOf[r] = Target[q] /\ runStatus[r] = "pending"
         THEN "cancelled" ELSE runStatus[r]]
    /\ Goto(q, "cancelContexts")
    /\ UNCHANGED <<expStatus, transcript, grade, queue, workers, todo,
                   lostClients, restarts>>

(* Mutant: the experiment's entries are removed while the runs still wind   *)
(* down.                                                                    *)
CancelAndForget(q) ==
    /\ hpc[q] = "cancelContexts"
    /\ ctxDone' = [w \in Workers |->
         \/ ctxDone[w]
         \/ \E r \in RunsOf(Target[q]) : runCancels[r] = w]
    /\ runCancels' = [r \in Runs |->
         IF ExperimentOf[r] = Target[q] THEN NoWorker ELSE runCancels[r]]
    /\ Goto(q, "done")
    /\ UNCHANGED <<rows, queue, pc, job, seen, todo, lostClients, restarts>>

CancelContexts(q) ==
    /\ hpc[q] = "cancelContexts"
    /\ ctxDone' = [w \in Workers |->
         \/ ctxDone[w]
         \/ \E r \in RunsOf(Target[q]) : runCancels[r] = w]
    /\ Goto(q, "done")
    /\ UNCHANGED <<rows, queue, pc, job, seen, runCancels, todo,
                   lostClients, restarts>>

(* EstimateExperiment writes the estimate and, with it, status 'ready'.     *)
Estimate(q) ==
    /\ Op[q] = "estimate" /\ hpc[q] = "new"
    /\ SetExpStatus(Target[q], "ready")
    /\ Goto(q, "done")
    /\ UNCHANGED <<runStatus, transcript, grade, queue, workers, todo,
                   lostClients, restarts>>

(* DeleteExperiment: the whole subtree in one transaction.                  *)
Delete(q) ==
    /\ Op[q] = "delete" /\ hpc[q] = "new"
    /\ LET gone == {r \in RunsOf(Target[q]) : Exists(r)} IN
       /\ expStatus' = [expStatus EXCEPT ![Target[q]] = "deleted"]
       /\ runStatus' = [r \in Runs |-> IF r \in gone THEN "deleted" ELSE runStatus[r]]
       /\ transcript' = [r \in Runs |-> IF r \in gone THEN "none" ELSE transcript[r]]
       /\ grade' = [r \in Runs |-> IF r \in gone THEN "none" ELSE grade[r]]
    /\ Goto(q, "done")
    /\ UNCHANGED <<queue, workers, todo, lostClients, restarts>>

(* The client hangs up, its context ends, and the next statement of the     *)
(* handler fails: the handler returns where it stands.                      *)
LoseClient(q) ==
    /\ hpc[q] \in {"ensure", "markRunning", "listRunnable", "retryGet",
                  "cancelPending"}
    /\ lostClients < MaxLostClients
    /\ lostClients' = lostClients + 1
    /\ Goto(q, "done")
    /\ UNCHANGED <<rows, queue, workers, todo, restarts>>

HandlerStep(q) ==
    \/ StartEnsure(q) \/ StartMarkRunning(q) \/ StartListRunnable(q)
    \/ Enqueue(q) \/ RetryGetRun(q) \/ CancelPending(q) \/ CancelContexts(q)

Arrive(q) ==
    \/ StartGetExperiment(q) \/ RetryMarkPending(q) \/ CancelMark(q)
    \/ Estimate(q) \/ Delete(q)

-----------------------------------------------------------------------------
(* Workers.  A statement under the run's context fails once the context is  *)
(* cancelled; most call sites ignore that error.                            *)

Move(w, step) == pc' = [pc EXCEPT ![w] = step]

(* Mutant: a worker that is idle again still holds its job.                 *)
ReleaseKeepingJob(w) == Move(w, "idle") /\ UNCHANGED job

Release(w) == Move(w, "idle") /\ job' = [job EXCEPT ![w] = NoRun]

(* UpdateRunStatus(ctx, run.ID, status) with the error dropped.             *)
TryStatus(w, status) ==
    IF ctxDone[w] THEN UNCHANGED runStatus ELSE SetStatus(job[w], status)

(* SaveTranscript(ctx, ...) inserts or replaces; no foreign key is checked. *)
TryTranscript(w, content) ==
    transcript' = IF ctxDone[w] THEN transcript
                  ELSE [transcript EXCEPT ![job[w]] = content]

(* A step that leaves the registry, the job and the context alone.          *)
Within(w, step) == Move(w, step) /\ UNCHANGED <<job, seen, ctxDone, runCancels>>

Environment == <<handlers, restarts>>

Dequeue(w) ==
    /\ pc[w] = "idle" /\ queue # <<>>
    /\ job' = [job EXCEPT ![w] = Head(queue)]
    /\ queue' = Tail(queue)
    /\ Move(w, "getRun")
    /\ UNCHANGED <<rows, seen, ctxDone, runCancels, Environment>>

(* A run that is gone ends the job, without a refresh.                      *)
GetRun(w) ==
    /\ pc[w] = "getRun"
    /\ IF Exists(job[w])
       THEN /\ seen' = [seen EXCEPT ![w] = runStatus[job[w]]]
            /\ Move(w, "getExperiment")
            /\ UNCHANGED job
       ELSE Release(w) /\ UNCHANGED seen
    /\ UNCHANGED <<rows, queue, ctxDone, runCancels, Environment>>

(* The decision to skip uses the run as GetRun read it.                     *)
GetExperiment(w) ==
    /\ pc[w] = "getExperiment"
    /\ LET e == ExperimentOf[job[w]] IN
       CASE expStatus[e] = "deleted" -> Release(w)
         [] expStatus[e] # "deleted" /\ "cancelled" \in {seen[w], expStatus[e]} ->
              Move(w, "markCancelled") /\ UNCHANGED job
         [] OTHER -> Move(w, "register") /\ UNCHANGED job
    /\ seen' = [seen EXCEPT ![w] = "none"]
    /\ UNCHANGED <<rows, queue, ctxDone, runCancels, Environment>>

MarkCancelled(w) ==
    /\ pc[w] = "markCancelled"
    /\ SetStatus(job[w], "cancelled")
    /\ Within(w, "listRuns")
    /\ UNCHANGED <<expStatus, transcript, grade, queue, Environment>>

Register(w) ==
    /\ pc[w] = "register"
    /\ runCancels' = [runCancels EXCEPT ![job[w]] = w]
    /\ ctxDone' = [ctxDone EXCEPT ![w] = FALSE]
    /\ Move(w, "getTask")
    /\ UNCHANGED <<rows, queue, job, seen, Environment>>

(* GetTask fails under a cancelled context and for a task that is gone, and *)
(* no status is written.                                                    *)
GetTask(w) ==
    /\ pc[w] = "getTask"
    /\ \/ ~ctxDone[w] /\ Within(w, "prepare")
       \/ /\ ctxDone[w] \/ ExperimentOf[job[w]] \in TaskGone
          /\ Within(w, "unregister")
    /\ UNCHANGED <<rows, queue, Environment>>

(* Variant, artifacts, executor, harness and PrepareWorkspace.              *)
Prepare(w) ==
    /\ pc[w] = "prepare"
    /\ Within(w, "setRunning") \/ Within(w, "setFailed")
    /\ UNCHANGED <<rows, queue, Environment>>

(* Mutant: the run keeps its status while it is executed.                   *)
SkipSetRunning(w) ==
    /\ pc[w] = "setRunning"
    /\ Within(w, "setup")
    /\ UNCHANGED <<rows, queue, Environment>>

SetRunning(w) ==
    /\ pc[w] = "setRunning"
    /\ TryStatus(w, "running")
    /\ Within(w, "setup")
    /\ UNCHANGED <<expStatus, transcript, grade, queue, Environment>>

(* The harness's Setup and the sandbox preparation commands.                *)
Setup(w) ==
    /\ pc[w] = "setup"
    /\ Within(w, "invoke") \/ Within(w, "setFailed")
    /\ UNCHANGED <<rows, queue, Environment>>

(* A flush of the transcript streamer while the agent runs.                 *)
Stream(w) ==
    /\ pc[w] = "invoke"
    /\ TryTranscript(w, "partial")
    /\ UNCHANGED <<expStatus, runStatus, grade, queue, workers, Environment>>

(* Invoke returns a result, or an error: the agent's own, the deadline of   *)
(* invokeWithTimeout, or the cancelled context.                             *)
InvokeDone(w) ==
    /\ pc[w] = "invoke"
    /\ \/ Within(w, "capture")
       \/ Within(w, IF ctxDone[w] THEN "setCancelled" ELSE "saveFailedTranscript")
    /\ UNCHANGED <<rows, queue, Environment>>

(* The parent context: this write does not fail.                            *)
SetCancelled(w) ==
    /\ pc[w] = "setCancelled"
    /\ SetStatus(job[w], "cancelled")
    /\ Within(w, "unregister")
    /\ UNCHANGED <<expStatus, transcript, grade, queue, Environment>>

SaveFailedTranscript(w) ==
    /\ pc[w] = "saveFailedTranscript"
    /\ TryTranscript(w, "partial")
    /\ Within(w, "setFailed")
    /\ UNCHANGED <<expStatus, runStatus, grade, queue, Environment>>

SetFailed(w) ==
    /\ pc[w] = "setFailed"
    /\ TryStatus(w, "failed")
    /\ Within(w, "unregister")
    /\ UNCHANGED <<expStatus, transcript, grade, queue, Environment>>

(* CapturePatch and CollectOutputFiles.                                     *)
Capture(w) ==
    /\ pc[w] = "capture"
    /\ Within(w, "saveTranscript") \/ Within(w, "setFailed")
    /\ UNCHANGED <<rows, queue, Environment>>

SaveTranscript(w) ==
    /\ pc[w] = "saveTranscript"
    /\ TryTranscript(w, "final")
    /\ Within(w, IF ctxDone[w] THEN "setFailed" ELSE "setGrading")
    /\ UNCHANGED <<expStatus, runStatus, grade, queue, Environment>>

(* runTaskVerifications, then the status.                                   *)
SetGrading(w) ==
    /\ pc[w] = "setGrading"
    /\ TryStatus(w, "grading")
    /\ Within(w, "savePartial")
    /\ UNCHANGED <<expStatus, transcript, grade, queue, Environment>>

(* Mutant: phase 2 is skipped.                                              *)
SavePartialOnly(w) ==
    /\ pc[w] = "savePartial"
    /\ grade' = IF ctxDone[w] THEN grade ELSE [grade EXCEPT ![job[w]] = "partial"]
    /\ Within(w, "setCompleted")
    /\ UNCHANGED <<expStatus, runStatus, transcript, queue, Environment>>

(* Phase 1; an error is logged and grading goes on.                         *)
SavePartial(w) ==
    /\ pc[w] = "savePartial"
    /\ grade' = IF ctxDone[w] THEN grade ELSE [grade EXCEPT ![job[w]] = "partial"]
    /\ Within(w, "saveGrade")
    /\ UNCHANGED <<expStatus, runStatus, transcript, queue, Environment>>

(* Phase 2, after GradeRun, which always answers (fallback grade).          *)
SaveGrade(w) ==
    /\ pc[w] = "saveGrade"
    /\ grade' = IF ctxDone[w] THEN grade ELSE [grade EXCEPT ![job[w]] = "full"]
    /\ Within(w, IF ctxDone[w] THEN "setFailed" ELSE "setCompleted")
    /\ UNCHANGED <<expStatus, runStatus, transcript, queue, Environment>>

(* persistDiagnostic and refreshExperimentAnchors, then the status.         *)
SetCompleted(w) ==
    /\ pc[w] = "setCompleted"
    /\ TryStatus(w, "completed")
    /\ Within(w, "unregister")
    /\ UNCHANGED <<expStatus, transcript, grade, queue, Environment>>

(* Mutant: the registry keeps the cancel func of a run that has ended.      *)
LeakCancelFunc(w) ==
    /\ pc[w] = "unregister"
    /\ ctxDone' = [ctxDone EXCEPT ![w] = FALSE]
    /\ Move(w, "listRuns")
    /\ UNCHANGED <<rows, queue, job, seen, runCancels, Environment>>

(* Mutant: only a run that completed refreshes its experiment.              *)
RefreshAfterSuccess(w) ==
    /\ pc[w] = "unregister"
    /\ runCancels' = [runCancels EXCEPT ![job[w]] = NoWorker]
    /\ ctxDone' = [ctxDone EXCEPT ![w] = FALSE]
    /\ IF runStatus[job[w]] = "completed"
       THEN Move(w, "listRuns") /\ UNCHANGED job
       ELSE Release(w)
    /\ UNCHANGED <<rows, queue, seen, Environment>>

(* The deferred calls: unregisterRunCancel, cancelRun (nobody asks for the  *)
(* context again, so its flag is cleared), and then the refresh.            *)
Unregister(w) ==
    /\ pc[w] = "unregister"
    /\ runCancels' = [runCancels EXCEPT ![job[w]] = NoWorker]
    /\ ctxDone' = [ctxDone EXCEPT ![w] = FALSE]
    /\ Move(w, "listRuns")
    /\ UNCHANGED <<rows, queue, job, seen, Environment>>

(* refreshExperimentState reads the runs, and writes in a later statement.  *)
ListRuns(w) ==
    /\ pc[w] = "listRuns"
    /\ IF AllDone(ExperimentOf[job[w]])
       THEN Move(w, "setExpCompleted") /\ UNCHANGED job
       ELSE Release(w)
    /\ UNCHANGED <<rows, queue, seen, ctxDone, runCancels, Environment>>

SetExpCompleted(w) ==
    /\ pc[w] = "setExpCompleted"
    /\ SetExpStatus(ExperimentOf[job[w]], "completed")
    /\ Release(w)
    /\ UNCHANGED <<runStatus, transcript, grade, queue, seen, ctxDone,
                   runCancels, Environment>>

WorkerStep(w) ==
    \/ Dequeue(w) \/ GetRun(w) \/ GetExperiment(w) \/ MarkCancelled(w)
    \/ Register(w) \/ GetTask(w) \/ Prepare(w) \/ SetRunning(w) \/ Setup(w)
    \/ InvokeDone(w) \/ SetCancelled(w) \/ SaveFailedTranscript(w)
    \/ SetFailed(w) \/ Capture(w) \/ SaveTranscript(w) \/ SetGrading(w)
    \/ SavePartial(w) \/ SaveGrade(w) \/ SetCompleted(w) \/ Unregister(w)
    \/ ListRuns(w) \/ SetExpCompleted(w)

-----------------------------------------------------------------------------
(* Mutant: a failed run keeps its experiment from being reconciled.         *)
ReconciledIfAllCompleted(e) ==
    /\ expStatus[e] = "running"
    /\ {r \in RunsOf(e) : Exists(r)} # {}
    /\ \A r \in RunsOf(e) : Exists(r) => runStatus[r] \in {"completed", "cancelled"}

(* ReconcileCompletedExperiments: which experiments the boot completes.     *)
Reconciled(e) ==
    LET listed == {r \in RunsOf(e) : Exists(r)}
    IN  /\ expStatus[e] = "running"
        /\ listed # {}
        /\ \A r \in listed : runStatus[r] \in {"completed", "failed", "cancelled"}

(* The engine stops, by a crash or by a signal (which cancels the queue's   *)
(* context, so that the workers' last writes fail), and boots again.  The   *)
(* rows survive; the channel, the workers, the registry and the requests    *)
(* being served do not.  Boot runs ReconcileCompletedExperiments before it  *)
(* serves anything.                                                         *)
Restart ==
    /\ restarts < MaxRestarts
    /\ restarts' = restarts + 1
    /\ expStatus' = [e \in Experiments |->
         IF Reconciled(e) THEN "completed" ELSE expStatus[e]]
    /\ queue' = <<>>
    /\ pc' = [w \in Workers |-> "idle"]
    /\ job' = [w \in Workers |-> NoRun]
    /\ ctxDone' = [w \in Workers |-> FALSE]
    /\ runCancels' = [r \in Runs |-> NoWorker]
    /\ hpc' = [q \in Requests |-> IF hpc[q] = "new" THEN "new" ELSE "done"]
    /\ todo' = [q \in Requests |-> <<>>]
    /\ seen' = [w \in Workers |-> "none"]
    /\ UNCHANGED <<runStatus, transcript, grade, lostClients>>

(* Every request was served and every job is done.                          *)
Quiet ==
    /\ \A q \in Requests : hpc[q] = "done"
    /\ \A w \in Workers : pc[w] = "idle"
    /\ queue = <<>>

(* The server waits for requests that nobody sends any more.                *)
Idle == Quiet /\ UNCHANGED vars

Next ==
    \/ \E q \in Requests : Arrive(q) \/ HandlerStep(q) \/ LoseClient(q)
    \/ \E w \in Workers : WorkerStep(w) \/ Stream(w)
    \/ Restart
    \/ Idle

Spec == Init /\ [][Next]_vars

(* Goroutines are scheduled and the store answers; an agent that stalls is  *)
(* ended by invokeWithTimeout, so InvokeDone happens.  Nothing makes a      *)
(* client send a request or hang up, and nothing makes the engine stop.     *)
Fairness ==
    /\ \A q \in Requests : WF_vars(HandlerStep(q))
    /\ \A w \in Workers : WF_vars(WorkerStep(w))

FairSpec == Spec /\ Fairness

-----------------------------------------------------------------------------
(* Safety.                                                                  *)

(* No two workers execute the same run.  One worker makes it so; with more  *)
(* it depends on clients not asking for a run that is queued or running.    *)
Exclusive ==
    \A v, w \in Workers : v # w /\ job[v] # NoRun => job[v] # job[w]

(* A run that is shown as completed has its full grade and the final        *)
(* transcript: neither a partial grade of phase 1 nor a streamed prefix, a  *)
(* retry, a cancel or a restart between two statements notwithstanding.     *)
CompletedIsGraded ==
    \A r \in Runs : runStatus[r] = "completed" =>
        grade[r] = "full" /\ transcript[r] = "final"

(* Why it holds, step by step of executeRun: a worker whose statements still *)
(* succeed has taken its run out of "completed" before it overwrites        *)
(* anything, and has saved transcript and grade before it says "completed". *)
Overwriting == {"setup", "invoke", "saveFailedTranscript", "capture",
                "saveTranscript", "setGrading", "savePartial", "saveGrade"}

ExecutionInv ==
    \A w \in Workers : LET r == job[w] IN
        /\ pc[w] \notin {"idle", "getRun"} => runStatus[r] # "none"
        /\ ~ctxDone[w] =>
             /\ pc[w] \in Overwriting => runStatus[r] # "completed"
             /\ pc[w] \in {"setGrading", "savePartial", "saveGrade", "setCompleted"} =>
                  runStatus[r] = "deleted" \/ transcript[r] = "final"
             /\ pc[w] = "setCompleted" =>
                  runStatus[r] = "deleted" \/ grade[r] = "full"

(* A registered cancel func belongs to a worker that executes that run: a   *)
(* later cancel cannot hit the context of another run, nor of a dead one.   *)
RegistryIsLive ==
    \A r \in Runs : runCancels[r] # NoWorker =>
        /\ pc[runCancels[r]] \in Registered
        /\ job[runCancels[r]] = r

(* Whatever a worker is doing between registerRunCancel and its deferred    *)
(* unregisterRunCancel, CancelExperiment finds its context.                 *)
ExecutingIsCancellable ==
    \A w \in Workers : pc[w] \in Registered => runCancels[job[w]] = w

(* Somebody still has to deal with r: a handler, the channel or a worker.   *)
InQueue(r) == \E i \in DOMAIN queue : queue[i] = r

HasJob(r) ==
    \/ InQueue(r)
    \/ \E q \in Requests :
         \/ Op[q] = "start" /\ hpc[q] = "listRunnable" /\ Target[q] = ExperimentOf[r]
         \/ Op[q] = "retry" /\ hpc[q] = "retryGet" /\ Target[q] = r
         \/ \E i \in DOMAIN todo[q] : todo[q][i] = r
    \/ \E w \in Workers : job[w] = r

(* While an experiment runs, none of its pending runs is forgotten, unless  *)
(* its task row is gone: then executeRun returns and leaves it pending.     *)
PendingRunHasJob ==
    \A r \in Runs :
        /\ runStatus[r] = "pending"
        /\ expStatus[ExperimentOf[r]] = "running"
        /\ ExperimentOf[r] \notin TaskGone
        => HasJob(r)

(* Somebody will still call refreshExperimentState for e, or list its runs. *)
WillRefresh(e) ==
    \/ \E w \in Workers : job[w] # NoRun /\ ExperimentOf[job[w]] = e
    \/ \E q \in Requests : Op[q] = "start" /\ Target[q] = e /\ hpc[q] = "listRunnable"
    \/ \E r \in RunsOf(e) : HasJob(r)

(* An experiment whose runs have all completed or failed does not stay      *)
(* "running": the last worker refreshes it, or the boot reconciles it.      *)
AllEnded(e) ==
    /\ \E r \in RunsOf(e) : Exists(r)
    /\ \A r \in RunsOf(e) : Exists(r) => runStatus[r] \in {"completed", "failed"}

NoStrandedExperiment ==
    \A e \in Experiments :
        expStatus[e] = "running" /\ AllEnded(e) => WillRefresh(e)

(* What a step may never do.  Cancelling keeps the results of the runs that *)
(* completed; only a retry, a second start or a delete may touch them.      *)
CompletedRunsAreKept ==
    [][\A r \in Runs :
          runStatus[r] = "completed" =>
            \/ runStatus'[r] = "deleted"
            \/ /\ runStatus'[r] = "completed"
               /\ grade'[r] = grade[r]
               /\ transcript'[r] = transcript[r]]_vars

(* Liveness.  Every start is finished: all runs are executed and the        *)
(* experiment is shown as completed, also while jobs of another experiment  *)
(* come to nothing because its task row is gone.                            *)
StartedCompletes ==
    \A e \in Experiments \ TaskGone : expStatus[e] = "running" ~> expStatus[e] = "completed"

(* A handler that was entered returns, also when its runs outnumber the     *)
(* channel's slots and it blocks in Enqueue.                                *)
HandlersReturn ==
    \A q \in Requests : hpc[q] # "new" ~> hpc[q] = "done"

-----------------------------------------------------------------------------
(* The rows of every run show one life (RunLife), while handlers, workers   *)
(* and restarts interleave at every statement.                              *)
RetriedRuns == {Target[q] : q \in {p \in Requests : Op[p] = "retry"}}

Life == INSTANCE RunLife WITH status <- runStatus, Retried <- RetriedRuns

LivesOfRuns == Life!Spec

-----------------------------------------------------------------------------
(* What the documentation says of the program, and the code does not do.    *)

(* orchestrator.go:40-42, 261-262: CancelExperiment interrupts the agent,   *)
(* it does not just flip the experiment's status.                           *)
CancelInterruptsAgent ==
    \A w \in Workers :
        /\ pc[w] = "invoke"
        /\ expStatus[ExperimentOf[job[w]]] = "cancelled"
        /\ \A q \in Requests : hpc[q] = "done"
        => ctxDone[w]

(* run_repo.go:126-130: a cancelled experiment's pending runs are cancelled *)
(* and its running one is interrupted, so that nothing stays unfinished.    *)
CancelledRunsSettle ==
    Quiet => \A r \in Runs :
        expStatus[ExperimentOf[r]] = "cancelled" =>
            runStatus[r] \notin {"running", "grading"}
=============================================================================
