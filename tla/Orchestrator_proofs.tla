------------------------- MODULE Orchestrator_proofs -------------------------
(***************************************************************************)
(* Theorems about Orchestrator, for every set of runs, workers, requests   *)
(* and every capacity of the channel.                                      *)
(***************************************************************************)
EXTENDS Orchestrator, FiniteSetTheorems, SequenceTheorems, TLAPS

-----------------------------------------------------------------------------
(* What the actions leave alone.                                            *)

LEMMA WorkerFrame ==
  ASSUME NEW w \in Workers, WorkerStep(w) \/ Stream(w)
  PROVE  UNCHANGED <<hpc, todo, lostClients, restarts>>
BY DEF WorkerStep, Stream, Environment, handlers,
       Dequeue, GetRun, GetExperiment, MarkCancelled, Register, GetTask,
       Prepare, SetRunning, Setup, InvokeDone, SetCancelled,
       SaveFailedTranscript, SetFailed, Capture, SaveTranscript, SetGrading,
       SavePartial, SaveGrade, SetCompleted, Unregister, ListRuns,
       SetExpCompleted

LEMMA HandlerFrame ==
  ASSUME NEW q \in Requests, Arrive(q) \/ HandlerStep(q) \/ LoseClient(q)
  PROVE  UNCHANGED <<pc, job, seen, runCancels, restarts>>
BY DEF Arrive, HandlerStep, LoseClient, workers,
       StartGetExperiment, StartEnsure, RetryMarkPending, CancelMark, Estimate, Delete,
       StartMarkRunning, StartListRunnable, Enqueue, RetryGetRun,
       CancelPending, CancelContexts

(* Only Enqueue and CancelContexts reach what belongs to the workers.       *)
LEMMA HandlerQueueFrame ==
  ASSUME NEW q \in Requests, Arrive(q) \/ HandlerStep(q) \/ LoseClient(q)
  PROVE  /\ queue' = queue \/ Enqueue(q)
         /\ ctxDone' = ctxDone \/ CancelContexts(q)
<1>1. queue' = queue \/ Enqueue(q)
  BY DEF Arrive, HandlerStep, LoseClient, workers, StartGetExperiment, StartEnsure,
         RetryMarkPending, CancelMark, Estimate, Delete, StartMarkRunning,
         StartListRunnable, RetryGetRun, CancelPending, CancelContexts
<1>2. ctxDone' = ctxDone \/ CancelContexts(q)
  BY DEF Arrive, HandlerStep, LoseClient, workers, StartGetExperiment, StartEnsure,
         RetryMarkPending, CancelMark, Estimate, Delete, StartMarkRunning,
         StartListRunnable, RetryGetRun, CancelPending, Enqueue
<1> QED
  BY <1>1, <1>2

-----------------------------------------------------------------------------
(* Type correctness, part by part.                                          *)

(* ListRunnableRuns returns a finite sequence of runs.                      *)
LEMMA RunnableIsSeq ==
  ASSUME NEW e, NEW s \in ByRunNumber(Runnable(e))
  PROVE  s \in Seq(Runs)
<1>1. Runnable(e) \subseteq Runs
  BY DEF Runnable, RunsOf
<1>2. Cardinality(Runnable(e)) \in Nat
  BY <1>1, RunsAssumption, FS_Subset, FS_CardinalityType
<1> DEFINE n == Cardinality(Runnable(e))
<1>3. s \in [1..n -> Runs]
  BY <1>1 DEF ByRunNumber
<1> QED
  BY <1>2, <1>3

(* What Enqueue relies on when it takes the next run of its list.           *)
LEMMA TakeNext ==
  ASSUME NEW s \in Seq(Runs), s # <<>>
  PROVE  /\ Head(s) \in Runs
         /\ Tail(s) \in Seq(Runs)
         /\ Len(s) = 1 <=> Tail(s) = <<>>
<1>1. Head(s) \in Runs /\ Tail(s) \in Seq(Runs) /\ Len(Tail(s)) = Len(s) - 1
  BY HeadTailProperties
<1>2. Len(Tail(s)) = 0 <=> Tail(s) = <<>>
  BY <1>1, EmptySeq
<1>3. Len(s) \in Nat
  BY LenProperties
<1> QED
  BY <1>1, <1>2, <1>3

LEMMA RowsStep == RowsOK /\ [Next]_vars => RowsOK'
<1> SUFFICES ASSUME RowsOK, [Next]_vars PROVE RowsOK'
  OBVIOUS
<1> USE DEF RowsOK, ExpStatuses, RunStatuses, rows
<1>1. ASSUME NEW q \in Requests, Arrive(q) PROVE RowsOK'
  <2>1. CASE StartGetExperiment(q)
    BY <2>1 DEF StartGetExperiment
  <2>2. CASE RetryMarkPending(q)
    BY <2>2 DEF RetryMarkPending, SetStatus
  <2>3. CASE CancelMark(q)
    BY <2>3 DEF CancelMark, SetExpStatus
  <2>4. CASE Estimate(q)
    BY <2>4 DEF Estimate, SetExpStatus
  <2>5. CASE Delete(q)
    <3>1. runStatus' \in [Runs -> RunStatuses]
      BY <2>5 DEF Delete
    <3>2. expStatus' \in [Experiments -> ExpStatuses]
      BY <2>5 DEF Delete
    <3> QED
      BY <2>5, <3>1, <3>2 DEF Delete
  <2> QED
    BY <1>1, <2>1, <2>2, <2>3, <2>4, <2>5 DEF Arrive
<1>2. ASSUME NEW q \in Requests, HandlerStep(q) PROVE RowsOK'
  <2>1. CASE StartMarkRunning(q)
    BY <2>1 DEF StartMarkRunning, SetExpStatus
  <2>4. CASE StartEnsure(q)
    <3>1. runStatus' \in [Runs -> RunStatuses]
      BY <2>4 DEF StartEnsure
    <3> QED
      BY <2>4, <3>1 DEF StartEnsure
  <2>2. CASE CancelPending(q)
    BY <2>2 DEF CancelPending
  <2>3. CASE \/ StartListRunnable(q) \/ Enqueue(q) \/ RetryGetRun(q)
             \/ CancelContexts(q)
    BY <2>3 DEF StartListRunnable, Enqueue, RetryGetRun, CancelContexts
  <2> QED
    BY <1>2, <2>1, <2>2, <2>3, <2>4 DEF HandlerStep
<1>3. ASSUME NEW q \in Requests, LoseClient(q) PROVE RowsOK'
  BY <1>3 DEF LoseClient
<1>4. ASSUME NEW w \in Workers, WorkerStep(w) PROVE RowsOK'
  <2>1. CASE \/ MarkCancelled(w) \/ SetRunning(w) \/ SetCancelled(w)
             \/ SetFailed(w) \/ SetGrading(w) \/ SetCompleted(w)
    BY <2>1 DEF MarkCancelled, SetRunning, SetCancelled, SetFailed,
                SetGrading, SetCompleted, TryStatus, SetStatus
  <2>2. CASE \/ SaveFailedTranscript(w) \/ SaveTranscript(w)
    BY <2>2 DEF SaveFailedTranscript, SaveTranscript, TryTranscript
  <2>3. CASE SavePartial(w) \/ SaveGrade(w)
    BY <2>3 DEF SavePartial, SaveGrade
  <2>4. CASE SetExpCompleted(w)
    BY <2>4 DEF SetExpCompleted, SetExpStatus
  <2>5. CASE \/ Dequeue(w) \/ GetRun(w) \/ GetExperiment(w) \/ Register(w)
             \/ GetTask(w) \/ Prepare(w) \/ Setup(w) \/ InvokeDone(w)
             \/ Capture(w) \/ Unregister(w) \/ ListRuns(w)
    BY <2>5 DEF Dequeue, GetRun, GetExperiment, Register, GetTask, Prepare,
                Setup, InvokeDone, Capture, Unregister, ListRuns
  <2> QED
    BY <1>4, <2>1, <2>2, <2>3, <2>4, <2>5 DEF WorkerStep
<1>5. ASSUME NEW w \in Workers, Stream(w) PROVE RowsOK'
  BY <1>5 DEF Stream, TryTranscript
<1>6. CASE Restart
  BY <1>6 DEF Restart
<1>7. CASE UNCHANGED vars
  BY <1>7 DEF vars
<1> QED
  BY <1>1, <1>2, <1>3, <1>4, <1>5, <1>6, <1>7 DEF Next, Idle

LEMMA HandlersStep == HandlersOK /\ [Next]_vars => HandlersOK'
<1> SUFFICES ASSUME HandlersOK, [Next]_vars PROVE HandlersOK'
  OBVIOUS
<1> USE RequestsAssumption DEF HandlersOK, HandlerSteps, StepsOf, Goto
<1>1. ASSUME NEW q \in Requests, Arrive(q) PROVE HandlersOK'
  BY <1>1 DEF Arrive, StartGetExperiment, StartEnsure, RetryMarkPending, CancelMark, Estimate,
              Delete
<1>2. ASSUME NEW q \in Requests, HandlerStep(q) PROVE HandlersOK'
  <2>1. CASE \/ StartEnsure(q) \/ StartMarkRunning(q) \/ CancelPending(q)
             \/ CancelContexts(q)
    BY <2>1 DEF StartEnsure, StartMarkRunning, CancelPending, CancelContexts
  <2>2. CASE StartListRunnable(q)
    <3>1. PICK order \in ByRunNumber(Runnable(Target[q])) :
             /\ todo' = [todo EXCEPT ![q] = order]
             /\ Goto(q, IF order = <<>> THEN "done" ELSE "enqueue")
      BY <2>2 DEF StartListRunnable
    <3>2. order \in Seq(Runs)
      BY <3>1, RunnableIsSeq
    <3> QED
      BY <2>2, <3>1, <3>2 DEF StartListRunnable
  <2>3. CASE Enqueue(q)
    <3>1. /\ Tail(todo[q]) \in Seq(Runs)
          /\ Len(todo[q]) = 1 <=> Tail(todo[q]) = <<>>
      BY <2>3, TakeNext DEF Enqueue
    <3>2. todo' \in [Requests -> Seq(Runs)] /\ hpc' \in [Requests -> HandlerSteps]
      BY <2>3, <3>1 DEF Enqueue
    <3>3. hpc[q] \in StepsOf(Op[q])
      BY <2>3 DEF Enqueue
    <3>4. ASSUME NEW p \in Requests
          PROVE  /\ hpc'[p] \in {"new", "done"} \cup StepsOf(Op[p])
                 /\ hpc'[p] = "enqueue" <=> todo'[p] # <<>>
      BY <2>3, <3>1, <3>3 DEF Enqueue
    <3> QED
      BY <2>3, <3>2, <3>4 DEF Enqueue
  <2>4. CASE RetryGetRun(q)
    <3>1. Op[q] = "retry"
      BY <2>4 DEF RetryGetRun, Endpoints
    <3>2. <<Target[q]>> \in Seq(Runs) /\ <<Target[q]>> # <<>>
      BY <3>1
    <3>3. CASE Exists(Target[q])
      BY <2>4, <3>1, <3>2, <3>3 DEF RetryGetRun
    <3>4. CASE ~Exists(Target[q])
      BY <2>4, <3>1, <3>4 DEF RetryGetRun
    <3> QED
      BY <3>3, <3>4
  <2> QED
    BY <1>2, <2>1, <2>2, <2>3, <2>4 DEF HandlerStep
<1>3. ASSUME NEW q \in Requests, LoseClient(q) PROVE HandlersOK'
  BY <1>3 DEF LoseClient
<1>4. ASSUME NEW w \in Workers, WorkerStep(w) \/ Stream(w) PROVE HandlersOK'
  BY <1>4, WorkerFrame
<1>5. CASE Restart
  BY <1>5 DEF Restart
<1>6. CASE UNCHANGED vars
  BY <1>6 DEF vars, handlers
<1> QED
  BY <1>1, <1>2, <1>3, <1>4, <1>5, <1>6 DEF Next, Idle

LEMMA WorkersStep ==
  RowsOK /\ WorkersOK /\ HandlersOK /\ [Next]_vars => WorkersOK'
<1> SUFFICES ASSUME RowsOK, WorkersOK, HandlersOK, [Next]_vars PROVE WorkersOK'
  OBVIOUS
<1> USE RunsAssumption, PoolAssumption
    DEF WorkersOK, WorkerSteps, Registered, Move, Within
<1>1. ASSUME NEW q \in Requests, Arrive(q) \/ HandlerStep(q) \/ LoseClient(q)
      PROVE  WorkersOK'
  <2>1. CASE Enqueue(q)
    <3>1. Head(todo[q]) \in Runs
      BY <2>1, TakeNext DEF Enqueue, HandlersOK
    <3> QED
      BY <2>1, <3>1 DEF Enqueue, workers
  <2>2. CASE CancelContexts(q)
    BY <2>2 DEF CancelContexts
  <2>3. CASE queue' = queue /\ ctxDone' = ctxDone
    BY <1>1, <2>3, HandlerFrame
  <2> QED
    BY <1>1, <2>1, <2>2, <2>3, HandlerQueueFrame
<1>2. ASSUME NEW w \in Workers, WorkerStep(w) PROVE WorkersOK'
  <2>1. CASE Dequeue(w)
    <3>1. Head(queue) \in Runs /\ Tail(queue) \in Seq(Runs)
      BY <2>1, TakeNext DEF Dequeue
    <3> QED
      BY <2>1, <3>1 DEF Dequeue
  <2>2. CASE GetRun(w)
    <3>1. pc[w] = "getRun" /\ job[w] \in Runs
      BY <2>2 DEF GetRun
    <3>2. runStatus[job[w]] \in RunStatuses
      BY <3>1 DEF RowsOK
    <3>3. CASE Exists(job[w])
      BY <2>2, <3>1, <3>2, <3>3 DEF GetRun
    <3>4. CASE ~Exists(job[w])
      BY <2>2, <3>1, <3>4 DEF GetRun, Release
    <3> QED
      BY <3>3, <3>4
  <2>3. CASE GetExperiment(w)
    <3>1. \/ Release(w)
          \/ Move(w, "markCancelled") /\ UNCHANGED job
          \/ Move(w, "register") /\ UNCHANGED job
      BY <2>3 DEF GetExperiment
    <3>2. /\ UNCHANGED <<queue, ctxDone, runCancels>>
          /\ seen' \in [Workers -> RunStatuses]
      BY <2>3 DEF GetExperiment, RunStatuses
    <3>3. pc[w] # "idle"
      BY <2>3 DEF GetExperiment
    <3> QED
      BY <3>1, <3>2, <3>3 DEF Release
  <2>4. CASE Register(w)
    <3>1. job[w] \in Runs
      BY <2>4 DEF Register
    <3> QED
      BY <2>4, <3>1 DEF Register
  <2>5. CASE Unregister(w)
    BY <2>5 DEF Unregister
  <2>6. CASE ListRuns(w)
    BY <2>6 DEF ListRuns, Release
  <2>7. CASE SetExpCompleted(w)
    BY <2>7 DEF SetExpCompleted, Release
  <2>8. CASE \/ MarkCancelled(w) \/ SetRunning(w) \/ SetCancelled(w)
             \/ SetFailed(w) \/ SetGrading(w) \/ SetCompleted(w)
             \/ SaveFailedTranscript(w) \/ SaveTranscript(w)
             \/ SavePartial(w) \/ SaveGrade(w) \/ GetTask(w) \/ Prepare(w)
             \/ Setup(w) \/ InvokeDone(w) \/ Capture(w)
    <3>1. PICK step \in WorkerSteps \ {"idle"} : Within(w, step)
      BY <2>8 DEF MarkCancelled, SetRunning, SetCancelled, SetFailed,
           SetGrading, SetCompleted, SaveFailedTranscript, SaveTranscript,
           SavePartial, SaveGrade, GetTask, Prepare, Setup, InvokeDone, Capture
    <3>2. pc[w] # "idle" /\ queue' = queue
      BY <2>8 DEF MarkCancelled, SetRunning, SetCancelled, SetFailed,
           SetGrading, SetCompleted, SaveFailedTranscript, SaveTranscript,
           SavePartial, SaveGrade, GetTask, Prepare, Setup, InvokeDone, Capture
    <3> QED
      BY <3>1, <3>2
  <2> QED
    BY <1>2, <2>1, <2>2, <2>3, <2>4, <2>5, <2>6, <2>7, <2>8 DEF WorkerStep
<1>3. ASSUME NEW w \in Workers, Stream(w) PROVE WorkersOK'
  BY <1>3 DEF Stream, workers
<1>4. CASE Restart
  BY <1>4 DEF Restart, RunStatuses
<1>5. CASE UNCHANGED vars
  BY <1>5 DEF vars, workers
<1> QED
  BY <1>1, <1>2, <1>3, <1>4, <1>5 DEF Next, Idle

LEMMA TypeInit == Init => TypeOK
BY RequestsAssumption DEF Init, TypeOK, RowsOK, WorkersOK, HandlersOK,
   ExpStatuses, RunStatuses, WorkerSteps, HandlerSteps

LEMMA TypeStep == TypeOK /\ [Next]_vars => TypeOK'
<1> SUFFICES ASSUME TypeOK, [Next]_vars PROVE TypeOK'
  OBVIOUS
<1>1. RowsOK' /\ WorkersOK' /\ HandlersOK'
  BY RowsStep, WorkersStep, HandlersStep DEF TypeOK
<1>2. restarts' \in Nat
  <2>1. CASE Restart
    BY <2>1 DEF Restart, TypeOK
  <2>2. CASE UNCHANGED restarts
    BY <2>2 DEF TypeOK
  <2> QED
    BY <2>1, <2>2, WorkerFrame, HandlerFrame DEF Next, Idle, vars
<1> QED
  BY <1>1, <1>2 DEF TypeOK

(* Every variable keeps its type, whatever handlers, workers and restarts   *)
(* do in whatever order (orchestrator.go, queue.go, run_repo.go).           *)
THEOREM TypeCorrect == Spec => []TypeOK
  BY TypeInit, TypeStep, PTL DEF Spec

-----------------------------------------------------------------------------
(* The registry of cancel functions.                                        *)

(* Between Register and Unregister a worker keeps its job, its entry and    *)
(* its place among the registered steps.                                    *)
LEMMA RegisteredFrame ==
  ASSUME WorkersOK, NEW w \in Workers, WorkerStep(w) \/ Stream(w),
         ~Register(w), ~Unregister(w)
  PROVE  /\ runCancels' = runCancels
         /\ \A v \in Workers \ {w} : pc'[v] = pc[v] /\ job'[v] = job[v]
         /\ pc'[w] \in Registered <=> pc[w] \in Registered
         /\ pc[w] \in Registered => job'[w] = job[w]
<1> USE DEF WorkersOK, Move, Within, Release
<1>1. runCancels' = runCancels
  BY DEF WorkerStep, Stream, workers, Dequeue, GetRun, GetExperiment,
         MarkCancelled, GetTask, Prepare, SetRunning, Setup, InvokeDone,
         SetCancelled, SaveFailedTranscript, SetFailed, Capture,
         SaveTranscript, SetGrading, SavePartial, SaveGrade, SetCompleted,
         ListRuns, SetExpCompleted
<1>2. \A v \in Workers \ {w} : pc'[v] = pc[v] /\ job'[v] = job[v]
  BY DEF WorkerStep, Stream, workers, Dequeue, GetRun, GetExperiment,
         MarkCancelled, GetTask, Prepare, SetRunning, Setup, InvokeDone,
         SetCancelled, SaveFailedTranscript, SetFailed, Capture,
         SaveTranscript, SetGrading, SavePartial, SaveGrade, SetCompleted,
         ListRuns, SetExpCompleted
<1>3. /\ pc'[w] \in Registered <=> pc[w] \in Registered
      /\ pc[w] \in Registered => job'[w] = job[w]
  <2>1. CASE \/ Dequeue(w) \/ GetRun(w) \/ GetExperiment(w) \/ MarkCancelled(w)
             \/ ListRuns(w) \/ SetExpCompleted(w)
    BY <2>1 DEF Registered, Dequeue, GetRun, GetExperiment, MarkCancelled,
                ListRuns, SetExpCompleted
  <2>2. CASE \/ GetTask(w) \/ Prepare(w) \/ SetRunning(w) \/ Setup(w)
             \/ InvokeDone(w) \/ SetCancelled(w) \/ SaveFailedTranscript(w)
             \/ SetFailed(w) \/ Capture(w) \/ SaveTranscript(w)
             \/ SetGrading(w) \/ SavePartial(w) \/ SaveGrade(w)
             \/ SetCompleted(w)
    BY <2>2 DEF Registered, GetTask, Prepare, SetRunning, Setup, InvokeDone,
         SetCancelled, SaveFailedTranscript, SetFailed, Capture,
         SaveTranscript, SetGrading, SavePartial, SaveGrade, SetCompleted
  <2>3. CASE Stream(w)
    BY <2>3 DEF Stream, workers
  <2> QED
    BY <2>1, <2>2, <2>3 DEF WorkerStep
<1> QED
  BY <1>1, <1>2, <1>3

LEMMA RegistryStep ==
  TypeOK /\ RegistryIsLive /\ [Next]_vars => RegistryIsLive'
<1> SUFFICES ASSUME TypeOK, RegistryIsLive, [Next]_vars,
                    NEW r \in Runs, runCancels'[r] # NoWorker
             PROVE  /\ pc'[runCancels'[r]] \in Registered
                    /\ job'[runCancels'[r]] = r
  BY DEF RegistryIsLive
<1> USE PoolAssumption DEF TypeOK, WorkersOK
<1>1. ASSUME NEW q \in Requests, Arrive(q) \/ HandlerStep(q) \/ LoseClient(q)
      PROVE  /\ pc'[runCancels'[r]] \in Registered
             /\ job'[runCancels'[r]] = r
  BY <1>1, HandlerFrame DEF RegistryIsLive
<1>2. ASSUME NEW w \in Workers, WorkerStep(w) \/ Stream(w)
      PROVE  /\ pc'[runCancels'[r]] \in Registered
             /\ job'[runCancels'[r]] = r
  <2>1. CASE Register(w)
    <3>1. pc' = [pc EXCEPT ![w] = "getTask"] /\ job' = job
      BY <2>1 DEF Register, Move
    <3>2. CASE r = job[w]
      BY <2>1, <3>1, <3>2 DEF Register, Registered
    <3>3. CASE r # job[w]
      <4>1. runCancels'[r] = runCancels[r]
        BY <2>1, <3>3 DEF Register
      <4>2. pc[runCancels[r]] \in Registered /\ job[runCancels[r]] = r
        BY <4>1 DEF RegistryIsLive
      <4>3. runCancels[r] \in Workers
        BY <4>1
      <4> QED
        BY <3>1, <4>1, <4>2, <4>3 DEF Registered
    <3> QED
      BY <3>2, <3>3
  <2>2. CASE Unregister(w)
    <3>1. r # job[w]
      BY <2>2 DEF Unregister
    <3>2. runCancels'[r] = runCancels[r]
      BY <2>2, <3>1 DEF Unregister
    <3>3. runCancels[r] \in Workers /\ runCancels[r] # w
      BY <3>1, <3>2 DEF RegistryIsLive
    <3> QED
      BY <2>2, <3>2, <3>3 DEF Unregister, Move, RegistryIsLive
  <2>3. CASE ~Register(w) /\ ~Unregister(w)
    <3>1. runCancels'[r] = runCancels[r] /\ runCancels[r] \in Workers
      BY <1>2, <2>3, RegisteredFrame
    <3>2. pc[runCancels[r]] \in Registered /\ job[runCancels[r]] = r
      BY <3>1 DEF RegistryIsLive
    <3> QED
      BY <1>2, <2>3, <3>1, <3>2, RegisteredFrame
  <2> QED
    BY <2>1, <2>2, <2>3
<1>3. CASE Restart
  BY <1>3 DEF Restart
<1>4. CASE UNCHANGED vars
  BY <1>4 DEF vars, workers, RegistryIsLive
<1> QED
  BY <1>1, <1>2, <1>3, <1>4 DEF Next, Idle

(* A cancel func in runCancels always belongs to the worker that executes   *)
(* that very run: no entry outlives its context (orchestrator.go:56-84).    *)
THEOREM RegistryLive == Spec => []RegistryIsLive
<1>1. Init => RegistryIsLive
  BY DEF Init, RegistryIsLive
<1> QED
  BY <1>1, TypeCorrect, RegistryStep, PTL DEF Spec

LEMMA CancellableStep ==
  TypeOK /\ Exclusive /\ ExecutingIsCancellable /\ [Next]_vars
    => ExecutingIsCancellable'
<1> SUFFICES ASSUME TypeOK, Exclusive, ExecutingIsCancellable, [Next]_vars,
                    NEW v \in Workers, pc'[v] \in Registered
             PROVE  runCancels'[job'[v]] = v
  BY DEF ExecutingIsCancellable
<1> USE DEF TypeOK, WorkersOK
<1>1. ASSUME NEW q \in Requests, Arrive(q) \/ HandlerStep(q) \/ LoseClient(q)
      PROVE  runCancels'[job'[v]] = v
  BY <1>1, HandlerFrame DEF ExecutingIsCancellable
<1>2. ASSUME NEW w \in Workers, WorkerStep(w) \/ Stream(w)
      PROVE  runCancels'[job'[v]] = v
  <2>1. CASE Register(w)
    <3>1. /\ pc' = [pc EXCEPT ![w] = "getTask"] /\ job' = job
          /\ job[w] \in Runs
          /\ runCancels' = [runCancels EXCEPT ![job[w]] = w]
      BY <2>1 DEF Register, Move
    <3>2. CASE v = w
      BY <3>1, <3>2
    <3>3. CASE v # w
      <4>1. pc[v] \in Registered
        BY <3>1, <3>3
      <4>2. job[v] # job[w]
        BY <3>1, <3>3, RunsAssumption DEF Exclusive
      <4> QED
        BY <3>1, <4>1, <4>2 DEF ExecutingIsCancellable
    <3> QED
      BY <3>2, <3>3
  <2>2. CASE Unregister(w)
    <3>1. /\ pc' = [pc EXCEPT ![w] = "listRuns"] /\ job' = job
          /\ job[w] \in Runs
          /\ runCancels' = [runCancels EXCEPT ![job[w]] = NoWorker]
      BY <2>2 DEF Unregister, Move
    <3>2. v # w /\ pc[v] \in Registered
      BY <3>1 DEF Registered
    <3>3. job[v] # job[w]
      BY <3>1, <3>2, RunsAssumption DEF Exclusive
    <3> QED
      BY <3>1, <3>2, <3>3 DEF ExecutingIsCancellable
  <2>3. CASE ~Register(w) /\ ~Unregister(w)
    BY <1>2, <2>3, RegisteredFrame DEF ExecutingIsCancellable
  <2> QED
    BY <2>1, <2>2, <2>3
<1>3. CASE Restart
  BY <1>3 DEF Restart, Registered
<1>4. CASE UNCHANGED vars
  BY <1>4 DEF vars, workers, ExecutingIsCancellable
<1> QED
  BY <1>1, <1>2, <1>3, <1>4 DEF Next, Idle

(* As long as no two workers execute the same run, CancelExperiment finds   *)
(* the context of every run between its registration and its end.           *)
THEOREM Cancellable == Spec /\ []Exclusive => []ExecutingIsCancellable
<1>1. Init => ExecutingIsCancellable
  BY DEF Init, ExecutingIsCancellable, Registered
<1> QED
  BY <1>1, TypeCorrect, CancellableStep, PTL DEF Spec

-----------------------------------------------------------------------------
(* Completed runs are graded.                                               *)

(* Handlers never complete a run, never bring a row back, and touch the     *)
(* transcript and the grade of a run only by deleting it.                   *)
LEMMA HandlerRows ==
  ASSUME TypeOK, NEW q \in Requests,
         Arrive(q) \/ HandlerStep(q) \/ LoseClient(q)
  PROVE  \A r \in Runs :
           /\ runStatus'[r] = "none" => runStatus[r] = "none"
           /\ runStatus'[r] = "completed" => runStatus[r] = "completed"
           /\ \/ runStatus'[r] = "deleted"
              \/ /\ runStatus[r] # "deleted"
                 /\ transcript'[r] = transcript[r]
                 /\ grade'[r] = grade[r]
<1> SUFFICES ASSUME NEW r \in Runs
             PROVE  /\ runStatus'[r] = "none" => runStatus[r] = "none"
                    /\ runStatus'[r] = "completed" => runStatus[r] = "completed"
                    /\ \/ runStatus'[r] = "deleted"
                       \/ /\ runStatus[r] # "deleted"
                          /\ transcript'[r] = transcript[r]
                          /\ grade'[r] = grade[r]
  OBVIOUS
<1> USE DEF TypeOK, RowsOK, rows
<1>1. CASE StartEnsure(q)
  BY <1>1 DEF StartEnsure
<1>2. CASE RetryMarkPending(q)
  BY <1>2 DEF RetryMarkPending, SetStatus, Exists
<1>3. CASE Delete(q)
  BY <1>3 DEF Delete
<1>4. CASE CancelPending(q)
  BY <1>4 DEF CancelPending
<1>5. CASE \/ StartGetExperiment(q) \/ CancelMark(q) \/ Estimate(q) \/ LoseClient(q)
           \/ StartMarkRunning(q) \/ StartListRunnable(q) \/ Enqueue(q)
           \/ RetryGetRun(q) \/ CancelContexts(q)
  BY <1>5 DEF StartGetExperiment, CancelMark, Estimate, LoseClient, StartMarkRunning,
              StartListRunnable, Enqueue, RetryGetRun, CancelContexts
<1> QED
  BY <1>1, <1>2, <1>3, <1>4, <1>5 DEF Arrive, HandlerStep

(* A handler never brings a cancelled context back to life.                 *)
LEMMA HandlerContexts ==
  ASSUME TypeOK, NEW q \in Requests, NEW w \in Workers,
         Arrive(q) \/ HandlerStep(q) \/ LoseClient(q), ~ctxDone'[w]
  PROVE  ~ctxDone[w]
BY HandlerQueueFrame DEF CancelContexts, TypeOK, WorkersOK

(* A worker touches the rows of the run it executes and no others, nor what *)
(* belongs to another worker.                                               *)
LEMMA WorkerRows ==
  ASSUME TypeOK, NEW w \in Workers, WorkerStep(w) \/ Stream(w)
  PROVE  /\ \A r \in Runs \ {job[w]} :
               /\ runStatus'[r] = runStatus[r]
               /\ transcript'[r] = transcript[r]
               /\ grade'[r] = grade[r]
         /\ \A v \in Workers \ {w} :
               pc'[v] = pc[v] /\ job'[v] = job[v] /\ ctxDone'[v] = ctxDone[v]
<1> USE DEF TypeOK, RowsOK, WorkersOK, rows, workers, Move, Within, Release,
        TryStatus, SetStatus, TryTranscript
<1>1. CASE \/ MarkCancelled(w) \/ SetRunning(w) \/ SetCancelled(w)
           \/ SetFailed(w) \/ SetGrading(w) \/ SetCompleted(w)
  BY <1>1 DEF MarkCancelled, SetRunning, SetCancelled, SetFailed, SetGrading,
              SetCompleted
<1>2. CASE \/ Stream(w) \/ SaveFailedTranscript(w) \/ SaveTranscript(w)
           \/ SavePartial(w) \/ SaveGrade(w)
  BY <1>2 DEF Stream, SaveFailedTranscript, SaveTranscript, SavePartial, SaveGrade
<1>3. CASE \/ Dequeue(w) \/ GetRun(w) \/ GetExperiment(w) \/ Register(w)
           \/ GetTask(w) \/ Prepare(w) \/ Setup(w) \/ InvokeDone(w)
           \/ Capture(w) \/ Unregister(w) \/ ListRuns(w) \/ SetExpCompleted(w)
  BY <1>3 DEF Dequeue, GetRun, GetExperiment, Register, GetTask, Prepare,
       Setup, InvokeDone, Capture, Unregister, ListRuns, SetExpCompleted
<1> QED
  BY <1>1, <1>2, <1>3 DEF WorkerStep

(* ExecutionInv, one worker at a time.                                      *)
Owned(w) == LET r == job[w] IN
    /\ pc[w] \notin {"idle", "getRun"} => runStatus[r] # "none"
    /\ ~ctxDone[w] =>
         /\ pc[w] \in Overwriting => runStatus[r] # "completed"
         /\ pc[w] \in {"setGrading", "savePartial", "saveGrade", "setCompleted"} =>
              runStatus[r] = "deleted" \/ transcript[r] = "final"
         /\ pc[w] = "setCompleted" =>
              runStatus[r] = "deleted" \/ grade[r] = "full"

LEMMA OwnStep ==
  ASSUME TypeOK, NEW w \in Workers, WorkerStep(w) \/ Stream(w), Owned(w)
  PROVE  Owned(w)'
<1> DEFINE r == job[w]
<1> USE DEF TypeOK, RowsOK, WorkersOK, rows, workers, Move, Within, Release,
        Owned, Overwriting
<1>1. CASE Dequeue(w)
  BY <1>1 DEF Dequeue
<1>2. CASE GetRun(w)
  BY <1>2 DEF GetRun, Exists
<1>3. CASE GetExperiment(w)
  <2>1. /\ pc'[w] \in {"idle", "markCancelled", "register"}
        /\ pc'[w] # "idle" => job' = job
        /\ runStatus' = runStatus /\ pc[w] = "getExperiment"
    BY <1>3 DEF GetExperiment
  <2> QED
    BY <2>1
<1>4. CASE \/ MarkCancelled(w) \/ SetCancelled(w) \/ SetFailed(w)
           \/ SetCompleted(w)
  BY <1>4 DEF MarkCancelled, SetCancelled, SetFailed, SetCompleted, TryStatus,
              SetStatus
<1>5. CASE SetRunning(w)
  <2>1. r \in Runs /\ pc[w] = "setRunning" /\ pc'[w] = "setup" /\ job'[w] = r
        /\ ctxDone'[w] = ctxDone[w]
    BY <1>5 DEF SetRunning
  <2>2. CASE ctxDone[w]
    BY <1>5, <2>1, <2>2 DEF SetRunning, TryStatus
  <2>3. CASE ~ctxDone[w]
    <3>1. runStatus'[r] \notin {"none", "completed"}
      BY <1>5, <2>1, <2>3 DEF SetRunning, TryStatus, SetStatus, Exists
    <3> QED
      BY <2>1, <3>1
  <2> QED
    BY <2>2, <2>3
<1>6. CASE SetGrading(w)
  <2>1. r \in Runs /\ pc[w] = "setGrading" /\ pc'[w] = "savePartial"
        /\ job'[w] = r /\ ctxDone'[w] = ctxDone[w] /\ transcript' = transcript
    BY <1>6 DEF SetGrading
  <2>2. CASE ctxDone[w]
    BY <1>6, <2>1, <2>2 DEF SetGrading, TryStatus
  <2>3. CASE ~ctxDone[w]
    <3>1. /\ runStatus'[r] \notin {"none", "completed"}
          /\ runStatus[r] = "deleted" => runStatus'[r] = "deleted"
      BY <1>6, <2>1, <2>3 DEF SetGrading, TryStatus, SetStatus, Exists
    <3> QED
      BY <2>1, <2>3, <3>1
  <2> QED
    BY <2>2, <2>3
<1>7. CASE \/ Stream(w) \/ SaveFailedTranscript(w) \/ SaveTranscript(w)
  BY <1>7 DEF Stream, SaveFailedTranscript, SaveTranscript, TryTranscript
<1>8. CASE \/ SavePartial(w) \/ SaveGrade(w)
  BY <1>8 DEF SavePartial, SaveGrade
<1>9. CASE \/ Register(w) \/ GetTask(w) \/ Prepare(w) \/ Setup(w)
           \/ InvokeDone(w) \/ Capture(w) \/ Unregister(w)
  BY <1>9 DEF Register, GetTask, Prepare, Setup, InvokeDone, Capture, Unregister
<1>10. CASE ListRuns(w) \/ SetExpCompleted(w)
  BY <1>10 DEF ListRuns, SetExpCompleted
<1> QED
  BY <1>1, <1>2, <1>3, <1>4, <1>5, <1>6, <1>7, <1>8, <1>9, <1>10 DEF WorkerStep

LEMMA ExecutionStep ==
  TypeOK /\ Exclusive /\ ExecutionInv /\ [Next]_vars => ExecutionInv'
<1> SUFFICES ASSUME TypeOK, Exclusive, ExecutionInv, [Next]_vars,
                    NEW v \in Workers
             PROVE  Owned(v)'
  BY DEF ExecutionInv, Owned
<1>1. Owned(v) /\ (job[v] \in Runs \/ pc[v] = "idle")
  BY DEF ExecutionInv, Owned, TypeOK, WorkersOK
<1>2. ASSUME NEW q \in Requests, Arrive(q) \/ HandlerStep(q) \/ LoseClient(q)
      PROVE  Owned(v)'
  <2>1. pc' = pc /\ job' = job
    BY <1>2, HandlerFrame
  <2>2. CASE pc[v] = "idle"
    BY <2>1, <2>2 DEF Owned, Overwriting
  <2>3. CASE job[v] \in Runs
    <3> DEFINE r == job[v]
    <3>1. /\ runStatus'[r] = "none" => runStatus[r] = "none"
          /\ runStatus'[r] = "completed" => runStatus[r] = "completed"
          /\ \/ runStatus'[r] = "deleted"
             \/ /\ runStatus[r] # "deleted"
                /\ transcript'[r] = transcript[r]
                /\ grade'[r] = grade[r]
      BY <1>2, <2>3, HandlerRows
    <3>2. ~ctxDone'[v] => ~ctxDone[v]
      BY <1>2, HandlerContexts
    <3> QED
      BY <1>1, <2>1, <3>1, <3>2 DEF Owned
  <2> QED
    BY <1>1, <2>2, <2>3
<1>3. ASSUME NEW w \in Workers, WorkerStep(w) \/ Stream(w) PROVE Owned(v)'
  <2>1. CASE v = w
    BY <1>1, <1>3, <2>1, OwnStep
  <2>2. CASE v # w
    <3>1. pc'[v] = pc[v] /\ job'[v] = job[v] /\ ctxDone'[v] = ctxDone[v]
      BY <1>3, <2>2, WorkerRows
    <3>2. CASE pc[v] = "idle"
      BY <3>1, <3>2 DEF Owned, Overwriting
    <3>3. CASE job[v] \in Runs
      <4>1. job[v] # job[w]
        BY <2>2, <3>3, RunsAssumption DEF Exclusive
      <4>2. /\ runStatus'[job[v]] = runStatus[job[v]]
            /\ transcript'[job[v]] = transcript[job[v]]
            /\ grade'[job[v]] = grade[job[v]]
        BY <1>3, <3>3, <4>1, WorkerRows
      <4> QED
        BY <1>1, <3>1, <4>2 DEF Owned
    <3> QED
      BY <1>1, <3>2, <3>3
  <2> QED
    BY <2>1, <2>2
<1>4. CASE Restart
  BY <1>4 DEF Restart, Owned, Overwriting
<1>5. CASE UNCHANGED vars
  BY <1>1, <1>5 DEF vars, rows, workers, Owned
<1> QED
  BY <1>2, <1>3, <1>4, <1>5 DEF Next, Idle

LEMMA GradedStep ==
  TypeOK /\ ExecutionInv /\ CompletedIsGraded /\ [Next]_vars
    => CompletedIsGraded'
<1> SUFFICES ASSUME TypeOK, ExecutionInv, CompletedIsGraded, [Next]_vars,
                    NEW r \in Runs, runStatus'[r] = "completed"
             PROVE  grade'[r] = "full" /\ transcript'[r] = "final"
  BY DEF CompletedIsGraded
<1> USE DEF TypeOK, RowsOK, WorkersOK
<1>1. ASSUME NEW q \in Requests, Arrive(q) \/ HandlerStep(q) \/ LoseClient(q)
      PROVE  grade'[r] = "full" /\ transcript'[r] = "final"
  BY <1>1, HandlerRows DEF CompletedIsGraded
<1>2. ASSUME NEW w \in Workers, WorkerStep(w) \/ Stream(w)
      PROVE  grade'[r] = "full" /\ transcript'[r] = "final"
  <2>1. CASE r # job[w]
    BY <1>2, <2>1, WorkerRows DEF CompletedIsGraded
  <2>2. CASE r = job[w] /\ SetCompleted(w)
    <3>1. transcript' = transcript /\ grade' = grade
      BY <2>2 DEF SetCompleted
    <3>2. CASE ctxDone[w]
      BY <2>2, <3>1, <3>2 DEF SetCompleted, TryStatus, CompletedIsGraded
    <3>3. CASE ~ctxDone[w]
      <4>1. runStatus[r] # "deleted"
        BY <2>2, <3>3 DEF SetCompleted, TryStatus, SetStatus, Exists
      <4> QED
        BY <2>2, <3>1, <3>3, <4>1 DEF ExecutionInv, SetCompleted
    <3> QED
      BY <3>2, <3>3
  <2>3. CASE r = job[w] /\ (\/ Stream(w) \/ SaveFailedTranscript(w)
                            \/ SaveTranscript(w) \/ SavePartial(w) \/ SaveGrade(w))
    <3>1. runStatus' = runStatus
      BY <2>3 DEF Stream, SaveFailedTranscript, SaveTranscript, SavePartial,
                  SaveGrade
    <3>2. ctxDone[w]
      BY <2>3, <3>1 DEF ExecutionInv, Overwriting, Stream, SaveFailedTranscript,
                        SaveTranscript, SavePartial, SaveGrade
    <3>3. transcript' = transcript /\ grade' = grade
      BY <2>3, <3>2 DEF Stream, SaveFailedTranscript, SaveTranscript,
                        SavePartial, SaveGrade, TryTranscript
    <3> QED
      BY <3>1, <3>3 DEF CompletedIsGraded
  <2>4. CASE r = job[w] /\ (\/ MarkCancelled(w) \/ SetRunning(w)
                            \/ SetCancelled(w) \/ SetFailed(w) \/ SetGrading(w))
    <3>1. transcript' = transcript /\ grade' = grade
      BY <2>4 DEF MarkCancelled, SetRunning, SetCancelled, SetFailed, SetGrading
    <3>2. runStatus[r] = "completed"
      BY <2>4 DEF MarkCancelled, SetRunning, SetCancelled, SetFailed,
                  SetGrading, TryStatus, SetStatus
    <3> QED
      BY <3>1, <3>2 DEF CompletedIsGraded
  <2>5. CASE \/ Dequeue(w) \/ GetRun(w) \/ GetExperiment(w) \/ Register(w)
             \/ GetTask(w) \/ Prepare(w) \/ Setup(w) \/ InvokeDone(w)
             \/ Capture(w) \/ Unregister(w) \/ ListRuns(w) \/ SetExpCompleted(w)
    BY <2>5 DEF rows, CompletedIsGraded, Dequeue, GetRun, GetExperiment,
         Register, GetTask, Prepare, Setup, InvokeDone, Capture, Unregister,
         ListRuns, SetExpCompleted
  <2> QED
    BY <1>2, <2>1, <2>2, <2>3, <2>4, <2>5 DEF WorkerStep
<1>3. CASE Restart
  BY <1>3 DEF Restart, CompletedIsGraded
<1>4. CASE UNCHANGED vars
  BY <1>4 DEF vars, rows, CompletedIsGraded
<1> QED
  BY <1>1, <1>2, <1>3, <1>4 DEF Next, Idle

(* As long as no two workers execute the same run, a run is never shown as  *)
(* completed without its full grade and its final transcript, whatever      *)
(* clients cancel, retry or delete meanwhile and wherever the engine stops. *)
THEOREM CompletedGraded == Spec /\ []Exclusive => []CompletedIsGraded
<1>1. Init => ExecutionInv /\ CompletedIsGraded
  BY DEF Init, ExecutionInv, CompletedIsGraded, Overwriting
<1> QED
  BY <1>1, TypeCorrect, ExecutionStep, GradedStep, PTL DEF Spec

(* The engine's default, one worker, needs no such hypothesis.              *)
THEOREM OneWorkerGraded ==
  ASSUME \A v, w \in Workers : v = w
  PROVE  Spec => [](CompletedIsGraded /\ ExecutingIsCancellable)
<1>1. Exclusive
  BY DEF Exclusive
<1>2. []Exclusive
  BY <1>1, PTL
<1> QED
  BY <1>2, CompletedGraded, Cancellable, PTL

-----------------------------------------------------------------------------
(* Where a run can be: in the list of a handler, in the channel, with a     *)
(* worker.  Exclusive is about the last of them, and depends on the others. *)

Elem(s, r) == \E i \in DOMAIN s : s[i] = r

NoDup(s) == \A i, j \in DOMAIN s : s[i] = s[j] => i = j

(* The requests that may put r into the channel.                            *)
Asks(q, r) ==
    \/ Op[q] = "start" /\ Target[q] = ExperimentOf[r]
    \/ Op[q] = "retry" /\ Target[q] = r

(* Before its Enqueue.                                                      *)
Before == {"new", "ensure", "markRunning", "listRunnable", "retryGet"}

(* q was served so far that it may still enqueue r.                         *)
Active(q, r) ==
    \/ Asks(q, r) /\ hpc[q] \in Before \ {"new"}
    \/ Elem(todo[q], r)

Executed(r) == \E w \in Workers : job[w] = r

(* A run is in one place at most, and there once.                           *)
OnePlace ==
    /\ NoDup(queue)
    /\ \A q \in Requests : NoDup(todo[q])
    /\ \A p, q \in Requests, r \in Runs : Active(p, r) /\ Active(q, r) => p = q
    /\ \A q \in Requests, r \in Runs :
         Active(q, r) => ~Elem(queue, r) /\ ~Executed(r)
    /\ \A r \in Runs : Elem(queue, r) => ~Executed(r)
    /\ Exclusive

(* What Enqueue appends, and what Dequeue takes.                            *)
LEMMA AppendedElems ==
  ASSUME NEW s \in Seq(Runs), NEW x \in Runs
  PROVE  /\ \A r : Elem(Append(s, x), r) <=> Elem(s, r) \/ r = x
         /\ NoDup(s) /\ ~Elem(s, x) => NoDup(Append(s, x))
<1> DEFINE t == Append(s, x)
<1>1. /\ Len(s) \in Nat /\ DOMAIN s = 1..Len(s) /\ DOMAIN t = 1..(Len(s) + 1)
      /\ \A i \in 1..Len(s) : t[i] = s[i]
      /\ t[Len(s) + 1] = x
  BY AppendProperties, LenProperties
<1> HIDE DEF t
<1>2. ASSUME NEW i \in DOMAIN t
      PROVE  \/ i \in DOMAIN s /\ t[i] = s[i]
             \/ i = Len(s) + 1 /\ t[i] = x
  <2>1. i \in 1..Len(s) \/ i = Len(s) + 1
    BY <1>1
  <2> QED
    BY <1>1, <2>1
<1>3. DOMAIN s \subseteq DOMAIN t /\ Len(s) + 1 \in DOMAIN t
  BY <1>1
<1>4. \A r : Elem(t, r) <=> Elem(s, r) \/ r = x
  BY <1>1, <1>2, <1>3 DEF Elem
<1>5. ASSUME NoDup(s), ~Elem(s, x) PROVE NoDup(t)
  BY <1>2, <1>5 DEF NoDup, Elem
<1> QED
  BY <1>4, <1>5 DEF t

LEMMA TakenElems ==
  ASSUME NEW s \in Seq(Runs), s # <<>>
  PROVE  /\ \A r : Elem(Tail(s), r) => Elem(s, r)
         /\ \A r : Elem(s, r) => Elem(Tail(s), r) \/ r = Head(s)
         /\ Elem(s, Head(s))
         /\ NoDup(s) => NoDup(Tail(s)) /\ ~Elem(Tail(s), Head(s))
<1> DEFINE t == Tail(s)
<1>1. /\ Len(s) \in Nat \ {0} /\ DOMAIN s = 1..Len(s) /\ Head(s) = s[1]
      /\ DOMAIN t = 1..(Len(s) - 1)
      /\ \A i \in DOMAIN t : t[i] = s[i + 1]
  <2>1. Len(s) \in Nat /\ Len(s) # 0 /\ DOMAIN s = 1..Len(s)
    BY EmptySeq, LenProperties
  <2>2. t \in Seq(Runs) /\ Len(t) = Len(s) - 1 /\ \A i \in 1..Len(t) : t[i] = s[i + 1]
    BY HeadTailProperties
  <2> QED
    BY <2>1, <2>2, LenProperties
<1> HIDE DEF t
<1>2. \A i \in DOMAIN t : i + 1 \in DOMAIN s /\ i + 1 # 1 /\ t[i] = s[i + 1]
  BY <1>1
<1>3. 1 \in DOMAIN s
  BY <1>1
<1>4. \A i \in DOMAIN s : i = 1 \/ (i - 1 \in DOMAIN t /\ t[i - 1] = s[i])
  BY <1>1
<1>5. \A r : Elem(t, r) => Elem(s, r)
  BY <1>2 DEF Elem
<1>6. \A r : Elem(s, r) => Elem(t, r) \/ r = Head(s)
  BY <1>1, <1>4 DEF Elem
<1>7. Elem(s, Head(s))
  BY <1>1, <1>3 DEF Elem
<1>8. ASSUME NoDup(s) PROVE NoDup(t) /\ ~Elem(t, Head(s))
  <2>1. \A i \in DOMAIN t : t[i] # Head(s)
    BY <1>1, <1>2, <1>3, <1>8 DEF NoDup
  <2>2. ASSUME NEW i \in DOMAIN t, NEW j \in DOMAIN t, t[i] = t[j] PROVE i = j
    <3>1. i + 1 = j + 1
      BY <1>2, <1>8, <2>2 DEF NoDup
    <3> QED
      BY <1>1, <3>1
  <2> QED
    BY <2>1, <2>2 DEF NoDup, Elem
<1> QED
  BY <1>5, <1>6, <1>7, <1>8 DEF t

(* ListRunnableRuns lists every pending and failed run, each once.          *)
LEMMA ListedOnce ==
  ASSUME NEW e, NEW s \in ByRunNumber(Runnable(e))
  PROVE  /\ NoDup(s)
         /\ \A r : Elem(s, r) <=> r \in Runnable(e)
<1> DEFINE S == Runnable(e)
           n == Cardinality(S)
<1>1. IsFiniteSet(S)
  BY RunsAssumption, FS_Subset DEF Runnable, RunsOf
<1>2. n \in Nat
  BY <1>1, FS_CardinalityType
<1>3. /\ s \in [1..n -> S]
      /\ \A i, j \in 1..n : i < j => s[i] # s[j]
  BY DEF ByRunNumber
<1> HIDE DEF S, n
<1>4. \A i, j \in 1..n : s[i] = s[j] => i = j
  BY <1>2, <1>3
<1> DEFINE T == {s[i] : i \in 1..n}
<1>5. T \subseteq S
  BY <1>3
<1>6. s \in Bijection(1..n, T)
  BY <1>3, <1>4 DEF Bijection, Injection, Surjection, IsInjective
<1>7. IsFiniteSet(1..n) /\ Cardinality(1..n) = n
  BY <1>2, FS_Interval
<1>8. IsFiniteSet(T) /\ Cardinality(T) = n
  BY <1>6, <1>7, FS_Bijection DEF ExistsBijection
<1>9. T = S
  BY <1>1, <1>5, <1>8, FS_Subset DEF n
<1>10. NoDup(s)
  BY <1>3, <1>4 DEF NoDup
<1>11. \A r : Elem(s, r) <=> r \in S
  BY <1>3, <1>9 DEF Elem
<1> QED
  BY <1>10, <1>11 DEF S

(* A handler asks only for the runs its request names, takes each from its  *)
(* own list, and leaves the other handlers alone.                           *)
LEMMA HandlerAsks ==
  ASSUME TypeOK, NEW q \in Requests,
         Arrive(q) \/ HandlerStep(q) \/ LoseClient(q)
  PROVE  /\ \A p \in Requests \ {q} : hpc'[p] = hpc[p] /\ todo'[p] = todo[p]
         /\ hpc'[q] \in Before => hpc[q] \in Before /\ hpc'[q] # "new"
         /\ \A r \in Runs : Elem(todo'[q], r) =>
              \/ Elem(todo[q], r)
              \/ Asks(q, r) /\ hpc[q] \in Before \ {"new"}
         /\ NoDup(todo[q]) => NoDup(todo'[q])
<1> USE DEF TypeOK, HandlersOK, Goto
<1> DEFINE Kept == /\ todo' = todo
                   /\ \A p \in Requests \ {q} : hpc'[p] = hpc[p]
                   /\ hpc'[q] \in Before => hpc[q] \in Before /\ hpc'[q] # "new"
<1>1. CASE Arrive(q)
  <2>1. Kept
    BY <1>1 DEF Arrive, StartGetExperiment, StartEnsure, RetryMarkPending, CancelMark, Estimate,
                Delete, Before
  <2> QED
    BY <2>1
<1>2. CASE \/ LoseClient(q) \/ StartEnsure(q) \/ StartMarkRunning(q)
           \/ CancelPending(q) \/ CancelContexts(q)
  <2>1. Kept
    BY <1>2 DEF LoseClient, StartEnsure, StartMarkRunning, CancelPending, CancelContexts, Before
  <2> QED
    BY <2>1
<1>3. CASE StartListRunnable(q)
  <2>1. PICK order \in ByRunNumber(Runnable(Target[q])) :
           /\ todo' = [todo EXCEPT ![q] = order]
           /\ Goto(q, IF order = <<>> THEN "done" ELSE "enqueue")
    BY <1>3 DEF StartListRunnable
  <2>2. hpc[q] = "listRunnable" /\ Op[q] = "start"
    BY <1>3, RequestsAssumption DEF StartListRunnable, StepsOf, Endpoints
  <2>3. NoDup(order) /\ \A r : Elem(order, r) <=> r \in Runnable(Target[q])
    BY <2>1, ListedOnce
  <2>4. \A r : Elem(order, r) => Asks(q, r)
    BY <2>2, <2>3 DEF Runnable, RunsOf, Asks
  <2> QED
    BY <2>1, <2>2, <2>3, <2>4 DEF Before
<1>4. CASE Enqueue(q)
  <2>1. /\ hpc[q] = "enqueue" /\ todo[q] # <<>>
        /\ todo' = [todo EXCEPT ![q] = Tail(todo[q])]
        /\ hpc'[q] \in {"enqueue", "done"}
        /\ \A p \in Requests \ {q} : hpc'[p] = hpc[p]
    BY <1>4 DEF Enqueue
  <2>2. /\ \A r : Elem(Tail(todo[q]), r) => Elem(todo[q], r)
        /\ NoDup(todo[q]) => NoDup(Tail(todo[q]))
    BY <2>1, TakenElems
  <2> QED
    BY <2>1, <2>2 DEF Before
<1>5. CASE RetryGetRun(q)
  <2>1. hpc[q] = "retryGet" /\ Op[q] = "retry"
    BY <1>5, RequestsAssumption DEF RetryGetRun, StepsOf, Endpoints
  <2>2. /\ \A r : Elem(<<Target[q]>>, r) => Asks(q, r)
        /\ NoDup(<<Target[q]>>)
    BY <2>1 DEF Elem, NoDup, Asks
  <2>3. \/ Kept
        \/ /\ todo' = [todo EXCEPT ![q] = <<Target[q]>>]
           /\ hpc' = [hpc EXCEPT ![q] = "enqueue"]
    BY <1>5 DEF RetryGetRun, Before
  <2> QED
    BY <2>1, <2>2, <2>3 DEF Before
<1> QED
  BY <1>1, <1>2, <1>3, <1>4, <1>5 DEF HandlerStep

(* What Enqueue moves: the head of the handler's list, to the channel.      *)
LEMMA EnqueueMoves ==
  ASSUME TypeOK, NEW q \in Requests, Enqueue(q)
  PROVE  LET x == Head(todo[q]) IN
         /\ x \in Runs /\ Elem(todo[q], x)
         /\ \A r : Elem(queue', r) <=> Elem(queue, r) \/ r = x
         /\ NoDup(queue) /\ ~Elem(queue, x) => NoDup(queue')
         /\ NoDup(todo[q]) => ~Elem(todo'[q], x)
         /\ hpc'[q] \notin Before
<1> DEFINE x == Head(todo[q])
<1>1. /\ todo[q] \in Seq(Runs) /\ todo[q] # <<>> /\ queue \in Seq(Runs)
      /\ queue' = Append(queue, x) /\ todo'[q] = Tail(todo[q])
      /\ hpc'[q] \in {"enqueue", "done"}
  BY DEF Enqueue, Goto, TypeOK, WorkersOK, HandlersOK
<1>2. x \in Runs
  BY <1>1, TakeNext
<1> QED
  BY <1>1, <1>2, AppendedElems, TakenElems DEF Before

(* A worker takes the head of the channel, or no run at all.                *)
LEMMA WorkerTakes ==
  ASSUME TypeOK, NEW w \in Workers, WorkerStep(w) \/ Stream(w)
  PROVE  \/ /\ queue' = queue
            /\ job'[w] \in {job[w], NoRun}
         \/ /\ queue # <<>> /\ job'[w] = Head(queue)
            /\ queue' = Tail(queue)
            /\ Head(queue) \in Runs
            /\ pc'[w] = "getRun"
<1> USE DEF TypeOK, WorkersOK
<1>1. CASE Dequeue(w)
  <2>1. queue # <<>> /\ job'[w] = Head(queue) /\ queue' = Tail(queue)
        /\ pc'[w] = "getRun"
    BY <1>1 DEF Dequeue, Move
  <2> QED
    BY <2>1, TakeNext
<1>2. CASE Stream(w)
  BY <1>2 DEF Stream, workers
<1>3. CASE GetExperiment(w)
  BY <1>3 DEF GetExperiment, Release
<1>4. CASE \/ GetRun(w) \/ MarkCancelled(w)
           \/ Register(w) \/ GetTask(w) \/ Prepare(w) \/ SetRunning(w)
           \/ Setup(w) \/ InvokeDone(w) \/ SetCancelled(w)
           \/ SaveFailedTranscript(w) \/ SetFailed(w) \/ Capture(w)
           \/ SaveTranscript(w) \/ SetGrading(w) \/ SavePartial(w)
           \/ SaveGrade(w) \/ SetCompleted(w) \/ Unregister(w)
           \/ ListRuns(w) \/ SetExpCompleted(w)
  BY <1>4 DEF Within, Release, GetRun, MarkCancelled, Register,
       GetTask, Prepare, SetRunning, Setup, InvokeDone, SetCancelled,
       SaveFailedTranscript, SetFailed, Capture, SaveTranscript, SetGrading,
       SavePartial, SaveGrade, SetCompleted, Unregister, ListRuns,
       SetExpCompleted
<1> QED
  BY <1>1, <1>2, <1>3, <1>4 DEF WorkerStep

(* After a restart nothing is queued, listed or executed.                   *)
LEMMA RestartEmpties ==
  ASSUME TypeOK, Restart
  PROVE  /\ \A r \in Runs : /\ ~Elem(queue', r)
                            /\ ~Executed(r)'
                            /\ \A q \in Requests : ~Elem(todo'[q], r)
         /\ NoDup(queue') /\ \A q \in Requests : NoDup(todo'[q])
         /\ \A q \in Requests : hpc'[q] \in Before => hpc[q] = "new" /\ hpc'[q] = "new"
         /\ runStatus' = runStatus
<1>1. /\ queue' = <<>> /\ \A q \in Requests : todo'[q] = <<>>
      /\ \A w \in Workers : job'[w] = NoRun
      /\ \A q \in Requests : hpc'[q] = IF hpc[q] = "new" THEN "new" ELSE "done"
      /\ runStatus' = runStatus
  BY DEF Restart
<1>2. DOMAIN <<>> = {}
  OBVIOUS
<1> QED
  BY <1>1, <1>2, RunsAssumption DEF Elem, NoDup, Executed, Before

-----------------------------------------------------------------------------
(* Two workers never execute the same run, as long as clients ask only for  *)
(* runs that nobody holds.                                                  *)

Wanted(r) ==
    \/ \E q \in Requests : Active(q, r)
    \/ Elem(queue, r)
    \/ Executed(r)

(* A start or a retry arrives for runs that no handler is about to enqueue, *)
(* that are not queued and that no worker executes.                         *)
AskedWhenFree ==
    \A q \in Requests, r \in Runs :
        Asks(q, r) /\ hpc[q] = "new" /\ hpc'[q] # "new" => ~Wanted(r)

LEMMA ActiveStep ==
  ASSUME TypeOK, NEW q \in Requests,
         Arrive(q) \/ HandlerStep(q) \/ LoseClient(q),
         NEW p \in Requests, NEW r \in Runs, Active(p, r)'
  PROVE  \/ Active(p, r)
         \/ p = q /\ Asks(q, r) /\ hpc[q] = "new" /\ hpc'[q] # "new"
<1>1. CASE p # q
  BY <1>1, HandlerAsks DEF Active, Asks
<1>2. CASE p = q
  <2>1. \/ Asks(q, r) /\ hpc'[q] \in Before \ {"new"}
        \/ Elem(todo'[q], r)
    BY <1>2 DEF Active, Asks, Elem
  <2>2. CASE Asks(q, r) /\ hpc'[q] \in Before \ {"new"}
    BY <1>2, <2>2, HandlerAsks DEF Active
  <2>3. CASE Elem(todo'[q], r)
    BY <1>2, <2>3, HandlerAsks DEF Active
  <2> QED
    BY <2>1, <2>2, <2>3
<1> QED
  BY <1>1, <1>2

LEMMA HandlerOnePlace ==
  ASSUME TypeOK, OnePlace, AskedWhenFree, NEW q \in Requests,
         Arrive(q) \/ HandlerStep(q) \/ LoseClient(q)
  PROVE  OnePlace'
<1>1. /\ job' = job
      /\ \A r \in Runs : Executed(r)' <=> Executed(r)
      /\ Exclusive'
  BY HandlerFrame DEF Executed, Exclusive, OnePlace
<1>2. \A p \in Requests, r \in Runs :
         Active(p, r)' =>
           \/ Active(p, r)
           \/ p = q /\ ~Wanted(r)
  BY ActiveStep DEF AskedWhenFree
<1>3. \A p1, p2 \in Requests, r \in Runs :
         Active(p1, r)' /\ Active(p2, r)' => p1 = p2
  BY <1>2 DEF OnePlace, Wanted
<1>4. \A p \in Requests : NoDup(todo'[p])
  BY HandlerAsks DEF OnePlace
<1>5. CASE Enqueue(q)
  <2>1. PICK x \in Runs :
        /\ Elem(todo[q], x)
        /\ \A r : Elem(queue', r) <=> Elem(queue, r) \/ r = x
        /\ NoDup(queue) /\ ~Elem(queue, x) => NoDup(queue')
        /\ NoDup(todo[q]) => ~Elem(todo'[q], x)
        /\ hpc'[q] \notin Before
    BY <1>5, EnqueueMoves
  <2>2. Active(q, x) /\ ~Elem(queue, x) /\ ~Executed(x)
    BY <2>1 DEF Active, OnePlace
  <2>3. ~Active(q, x)'
    BY <2>1 DEF Active, OnePlace, Asks, Elem
  <2>4. \A p \in Requests : ~Active(p, x)'
    <3>1. SUFFICES ASSUME NEW p \in Requests, Active(p, x)' PROVE FALSE
      OBVIOUS
    <3>2. p # q
      BY <2>3, <3>1
    <3>3. Active(p, x)
      BY <1>2, <2>1, <3>1, <3>2
    <3> QED
      BY <2>1, <2>2, <3>2, <3>3 DEF OnePlace
  <2>5. NoDup(queue')
    BY <2>1, <2>2 DEF OnePlace
  <2>6. \A p \in Requests, r \in Runs : Active(p, r)' => ~Elem(queue', r) /\ ~Executed(r)
    BY <1>2, <2>1, <2>4 DEF OnePlace, Wanted
  <2>7. \A r \in Runs : Elem(queue', r) => ~Executed(r)
    BY <2>1, <2>2 DEF OnePlace
  <2> QED
    BY <1>1, <1>3, <1>4, <2>5, <2>6, <2>7 DEF OnePlace, Elem, NoDup
<1>6. CASE queue' = queue
  <2>1. \A p \in Requests, r \in Runs : Active(p, r)' => ~Elem(queue, r) /\ ~Executed(r)
    BY <1>2 DEF OnePlace, Wanted
  <2> QED
    BY <1>1, <1>3, <1>4, <1>6, <2>1 DEF OnePlace, Elem, NoDup
<1> QED
  BY <1>5, <1>6, HandlerQueueFrame

LEMMA WorkerOnePlace ==
  ASSUME TypeOK, OnePlace, NEW w \in Workers, WorkerStep(w) \/ Stream(w)
  PROVE  OnePlace'
<1> USE RunsAssumption
<1>1. /\ hpc' = hpc /\ todo' = todo
      /\ \A p \in Requests, r \in Runs : Active(p, r)' <=> Active(p, r)
  BY WorkerFrame DEF Active, Asks, Elem
<1>2. \A v \in Workers \ {w} : job'[v] = job[v]
  BY WorkerRows
<1>3. CASE queue' = queue /\ job'[w] \in {job[w], NoRun}
  <2>1. \A r \in Runs : Executed(r)' => Executed(r)
    BY <1>2, <1>3 DEF Executed
  <2>2. Exclusive'
    BY <1>2, <1>3 DEF OnePlace, Exclusive
  <2> QED
    BY <1>1, <1>3, <2>1, <2>2 DEF OnePlace, Elem, NoDup
<1>4. CASE /\ queue # <<>> /\ job'[w] = Head(queue)
           /\ queue' = Tail(queue)
           /\ Head(queue) \in Runs
  <2>1. PICK x \in Runs :
        /\ x = Head(queue)
        /\ \A r : Elem(queue', r) => Elem(queue, r)
        /\ Elem(queue, x)
        /\ NoDup(queue') /\ ~Elem(queue', x)
    BY <1>4, TakenElems DEF OnePlace, TypeOK, WorkersOK
  <2>2. \A r \in Runs : Executed(r)' => Executed(r) \/ r = x
    BY <1>2, <1>4, <2>1 DEF Executed
  <2>3. ~Executed(x) /\ \A q \in Requests : ~Active(q, x)
    BY <1>4, <2>1 DEF OnePlace
  <2>4. Exclusive'
    BY <1>2, <1>4, <2>1, <2>3 DEF OnePlace, Exclusive, Executed
  <2>5. \A q \in Requests, r \in Runs : Active(q, r) => ~Elem(queue', r) /\ ~Executed(r)'
    BY <2>1, <2>2, <2>3 DEF OnePlace
  <2>6. \A r \in Runs : Elem(queue', r) => ~Executed(r)'
    BY <2>1, <2>2, <2>3 DEF OnePlace
  <2> QED
    BY <1>1, <2>1, <2>4, <2>5, <2>6 DEF OnePlace, Elem, NoDup
<1> QED
  BY <1>3, <1>4, WorkerTakes

LEMMA OnePlaceStep ==
  TypeOK /\ OnePlace /\ [AskedWhenFree]_vars /\ [Next]_vars => OnePlace'
<1> SUFFICES ASSUME TypeOK, OnePlace, [AskedWhenFree]_vars, [Next]_vars
             PROVE  OnePlace'
  OBVIOUS
<1>1. CASE UNCHANGED vars
  <2>1. queue' = queue /\ todo' = todo /\ hpc' = hpc /\ job' = job
    BY <1>1 DEF vars, workers, handlers
  <2> QED
    BY <2>1 DEF OnePlace, NoDup, Elem, Active, Asks, Executed, Exclusive
<1>2. CASE Restart
  <2>1. Exclusive'
    BY <1>2 DEF Restart, Exclusive
  <2>2. \A q \in Requests, r \in Runs : ~Active(q, r)'
    BY <1>2, RestartEmpties DEF Active, Asks, Elem, Before
  <2> QED
    BY <1>2, <2>1, <2>2, RestartEmpties DEF OnePlace, NoDup, Elem
<1>3. ASSUME NEW q \in Requests, Arrive(q) \/ HandlerStep(q) \/ LoseClient(q),
             AskedWhenFree
      PROVE  OnePlace'
  BY <1>3, HandlerOnePlace
<1>4. ASSUME NEW w \in Workers, WorkerStep(w) \/ Stream(w) PROVE OnePlace'
  BY <1>4, WorkerOnePlace
<1> QED
  BY <1>1, <1>2, <1>3, <1>4 DEF Next, Idle

LEMMA OnePlaceInit == Init => OnePlace
<1> SUFFICES ASSUME Init PROVE OnePlace
  OBVIOUS
<1>1. /\ queue = <<>> /\ \A q \in Requests : todo[q] = <<>> /\ hpc[q] = "new"
      /\ \A w \in Workers : job[w] = NoRun
  BY DEF Init
<1>2. DOMAIN <<>> = {}
  OBVIOUS
<1> QED
  BY <1>1, <1>2, RunsAssumption
  DEF OnePlace, NoDup, Elem, Active, Executed, Exclusive, Before

(* As long as no start and no retry arrives for a run that is still being   *)
(* asked for, queued or executed, no two workers execute the same run,      *)
(* however many workers, restarts, cancels and deletes there are            *)
(* (orchestrator.go:86-119, queue.go:21-51).                                *)
THEOREM PoliteClients == Spec /\ [][AskedWhenFree]_vars => []Exclusive
<1>1. OnePlace => Exclusive
  BY DEF OnePlace
<1> QED
  BY <1>1, TypeCorrect, OnePlaceInit, OnePlaceStep, PTL DEF Spec

(* With such clients what CompletedGraded and Cancellable suppose holds.    *)
THEOREM PoliteClientsGraded ==
  Spec /\ [][AskedWhenFree]_vars => [](CompletedIsGraded /\ ExecutingIsCancellable)
  BY PoliteClients, CompletedGraded, Cancellable, PTL

-----------------------------------------------------------------------------
(* What the requests alone guarantee, whenever they arrive.                 *)

(* q is the one request that may put r into the channel.                    *)
OnlyAsker(q, r) == Asks(q, r) /\ \A p \in Requests : Asks(p, r) => p = q

(* Until that request lists it, nobody holds the run and it has not ended.  *)
FreshInv ==
    \A q \in Requests, r \in Runs :
        OnlyAsker(q, r) /\ hpc[q] \in Before =>
            /\ ~Elem(queue, r) /\ ~Executed(r)
            /\ \A p \in Requests : ~Elem(todo[p], r)
            /\ runStatus[r] \notin {"completed", "failed"}

(* No handler ends a run.                                                   *)
LEMMA HandlerEnds ==
  ASSUME TypeOK, NEW q \in Requests,
         Arrive(q) \/ HandlerStep(q) \/ LoseClient(q),
         NEW r \in Runs, runStatus'[r] \in {"completed", "failed"}
  PROVE  runStatus'[r] = runStatus[r]
<1> USE DEF TypeOK, RowsOK, rows
<1>1. CASE StartEnsure(q)
  BY <1>1 DEF StartEnsure
<1>2. CASE RetryMarkPending(q)
  BY <1>2 DEF RetryMarkPending, SetStatus
<1>3. CASE Delete(q)
  BY <1>3 DEF Delete
<1>4. CASE CancelPending(q)
  BY <1>4 DEF CancelPending
<1>5. CASE \/ StartGetExperiment(q) \/ CancelMark(q) \/ Estimate(q) \/ LoseClient(q)
           \/ StartMarkRunning(q) \/ StartListRunnable(q) \/ Enqueue(q)
           \/ RetryGetRun(q) \/ CancelContexts(q)
  BY <1>5 DEF StartGetExperiment, CancelMark, Estimate, LoseClient, StartMarkRunning,
              StartListRunnable, Enqueue, RetryGetRun, CancelContexts
<1> QED
  BY <1>1, <1>2, <1>3, <1>4, <1>5 DEF Arrive, HandlerStep

(* A worker executes nothing that it did not execute or find queued.        *)
LEMMA WorkerHolds ==
  ASSUME TypeOK, NEW w \in Workers, WorkerStep(w) \/ Stream(w), NEW r \in Runs
  PROVE  /\ Elem(queue', r) => Elem(queue, r)
         /\ Executed(r)' => Executed(r) \/ Elem(queue, r)
         /\ job'[w] = r /\ job[w] # r => Elem(queue, r) /\ pc'[w] = "getRun"
<1>1. \A v \in Workers \ {w} : job'[v] = job[v]
  BY WorkerRows
<1>2. CASE queue' = queue /\ job'[w] \in {job[w], NoRun}
  BY <1>1, <1>2, RunsAssumption DEF Executed
<1>3. CASE queue # <<>> /\ job'[w] = Head(queue) /\ queue' = Tail(queue)
           /\ pc'[w] = "getRun"
  BY <1>1, <1>3, TakenElems DEF Executed, TypeOK, WorkersOK
<1> QED
  BY <1>2, <1>3, WorkerTakes

LEMMA FreshStep == TypeOK /\ FreshInv /\ [Next]_vars => FreshInv'
<1> SUFFICES ASSUME TypeOK, FreshInv, [Next]_vars,
                    NEW q \in Requests, NEW r \in Runs,
                    OnlyAsker(q, r), hpc'[q] \in Before
             PROVE  /\ ~Elem(queue', r) /\ ~Executed(r)'
                    /\ \A p \in Requests : ~Elem(todo'[p], r)
                    /\ runStatus'[r] \notin {"completed", "failed"}
  BY DEF FreshInv, OnlyAsker, Asks, Elem
<1> DEFINE Fresh == /\ ~Elem(queue, r) /\ ~Executed(r)
                    /\ \A p \in Requests : ~Elem(todo[p], r)
                    /\ runStatus[r] \notin {"completed", "failed"}
<1>0. hpc[q] \in Before => Fresh
  BY DEF FreshInv
<1> HIDE DEF Fresh
<1>1. ASSUME NEW h \in Requests, Arrive(h) \/ HandlerStep(h) \/ LoseClient(h)
      PROVE  /\ ~Elem(queue', r) /\ ~Executed(r)'
             /\ \A p \in Requests : ~Elem(todo'[p], r)
             /\ runStatus'[r] \notin {"completed", "failed"}
  <2>1. Fresh
    BY <1>0, <1>1, HandlerAsks
  <2>2. ~Elem(queue', r)
    BY <1>1, <2>1, EnqueueMoves, HandlerQueueFrame DEF Fresh
  <2>3. ~Executed(r)'
    BY <1>1, <2>1, HandlerFrame DEF Fresh, Executed
  <2>4. ASSUME NEW p \in Requests, Elem(todo'[p], r) PROVE FALSE
    <3>1. p = h /\ Asks(h, r)
      BY <1>1, <2>1, <2>4, HandlerAsks DEF Fresh
    <3>2. p = q
      BY <3>1 DEF OnlyAsker
    <3>3. todo'[q] # <<>>
      BY <2>4, <3>2 DEF Elem
    <3>4. hpc'[q] = "enqueue"
      BY <3>3, TypeStep DEF TypeOK, HandlersOK
    <3> QED
      BY <3>4 DEF Before
  <2>5. runStatus'[r] \notin {"completed", "failed"}
    BY <1>1, <2>1, HandlerEnds DEF Fresh
  <2> QED
    BY <2>2, <2>3, <2>4, <2>5
<1>2. ASSUME NEW w \in Workers, WorkerStep(w) \/ Stream(w)
      PROVE  /\ ~Elem(queue', r) /\ ~Executed(r)'
             /\ \A p \in Requests : ~Elem(todo'[p], r)
             /\ runStatus'[r] \notin {"completed", "failed"}
  <2>1. hpc' = hpc /\ todo' = todo
    BY <1>2, WorkerFrame
  <2>2. Fresh
    BY <1>0, <2>1
  <2>3. ~Elem(queue', r) /\ ~Executed(r)'
    BY <1>2, <2>2, WorkerHolds DEF Fresh
  <2>4. runStatus'[r] = runStatus[r]
    BY <1>2, <2>2, WorkerRows DEF Fresh, Executed
  <2> QED
    BY <2>1, <2>2, <2>3, <2>4 DEF Fresh
<1>3. CASE Restart
  BY <1>0, <1>3, RestartEmpties DEF Fresh, Before
<1>4. CASE UNCHANGED vars
  <2>1. queue' = queue /\ todo' = todo /\ hpc' = hpc /\ job' = job
        /\ runStatus' = runStatus
    BY <1>4 DEF vars, workers, handlers, rows
  <2> QED
    BY <1>0, <2>1 DEF Fresh, Executed
<1> QED
  BY <1>1, <1>2, <1>3, <1>4 DEF Next, Idle

LEMMA FreshInit == Init => FreshInv
<1> SUFFICES ASSUME Init PROVE FreshInv
  OBVIOUS
<1>1. /\ queue = <<>> /\ \A q \in Requests : todo[q] = <<>>
      /\ \A w \in Workers : job[w] = NoRun
      /\ \A r \in Runs : runStatus[r] = "none"
  BY DEF Init
<1>2. DOMAIN <<>> = {}
  OBVIOUS
<1> QED
  BY <1>1, <1>2, RunsAssumption DEF FreshInv, Elem, Executed

(* Every run is asked for by one request at most: clients start each        *)
(* experiment once and retry nothing of it.                                 *)
AskedOnce ==
    \A p, q \in Requests, r \in Runs : Asks(p, r) /\ Asks(q, r) => p = q

LEMMA OnceIsPolite ==
  ASSUME AskedOnce, FreshInv
  PROVE  AskedWhenFree
<1> SUFFICES ASSUME NEW q \in Requests, NEW r \in Runs,
                    Asks(q, r), hpc[q] = "new", Wanted(r)
             PROVE  FALSE
  BY DEF AskedWhenFree
<1>1. OnlyAsker(q, r) /\ hpc[q] \in Before
  BY DEF AskedOnce, OnlyAsker, Before
<1>2. /\ ~Elem(queue, r) /\ ~Executed(r)
      /\ \A p \in Requests : ~Elem(todo[p], r)
  BY <1>1 DEF FreshInv
<1>3. PICK p \in Requests : Active(p, r)
  BY <1>2 DEF Wanted
<1>4. Asks(p, r) /\ hpc[p] # "new"
  BY <1>2, <1>3 DEF Active
<1> QED
  BY <1>4 DEF AskedOnce

(* Clients that ask once never make two workers execute the same run,       *)
(* whatever is cancelled or deleted and wherever the engine restarts.       *)
THEOREM OnceExclusive ==
  ASSUME AskedOnce
  PROVE  Spec => []Exclusive
<1>1. FreshInv => AskedWhenFree
  BY OnceIsPolite
<1>2. Spec => []FreshInv
  BY TypeCorrect, FreshInit, FreshStep, PTL DEF Spec
<1> QED
  BY <1>1, <1>2, PoliteClients, PTL

(* And so a completed run, once completed, is in nobody's hands but those   *)
(* of the worker that completed it, which writes no more of its rows.       *)
Leaving == {"unregister", "listRuns", "setExpCompleted"}

SettledInv ==
    \A r \in Runs : runStatus[r] = "completed" =>
        /\ ~Elem(queue, r)
        /\ \A q \in Requests : /\ ~Elem(todo[q], r)
                               /\ Asks(q, r) => hpc[q] \notin Before
        /\ \A w \in Workers : job[w] = r => pc[w] \in Leaving

(* The only step that completes a run is SetCompleted, by its worker.       *)
LEMMA WhoCompletes ==
  ASSUME TypeOK, NEW w \in Workers, WorkerStep(w) \/ Stream(w), NEW r \in Runs,
         runStatus[r] # "completed", runStatus'[r] = "completed"
  PROVE  job[w] = r /\ job'[w] = r /\ pc'[w] = "unregister"
<1> USE DEF TypeOK, RowsOK, WorkersOK
<1>1. job[w] = r
  BY WorkerRows
<1>2. CASE SetCompleted(w)
  BY <1>1, <1>2 DEF SetCompleted, Within, Move
<1>3. CASE \/ MarkCancelled(w) \/ SetRunning(w) \/ SetCancelled(w)
           \/ SetFailed(w) \/ SetGrading(w)
  BY <1>1, <1>3 DEF MarkCancelled, SetRunning, SetCancelled, SetFailed,
                    SetGrading, TryStatus, SetStatus
<1>4. CASE \/ Stream(w) \/ SaveFailedTranscript(w) \/ SaveTranscript(w)
           \/ SavePartial(w) \/ SaveGrade(w)
           \/ Dequeue(w) \/ GetRun(w) \/ GetExperiment(w) \/ Register(w)
           \/ GetTask(w) \/ Prepare(w) \/ Setup(w) \/ InvokeDone(w)
           \/ Capture(w) \/ Unregister(w) \/ ListRuns(w) \/ SetExpCompleted(w)
  BY <1>4 DEF rows, Stream, SaveFailedTranscript, SaveTranscript, SavePartial,
       SaveGrade, Dequeue, GetRun, GetExperiment, Register, GetTask, Prepare,
       Setup, InvokeDone, Capture, Unregister, ListRuns, SetExpCompleted
<1> QED
  BY <1>2, <1>3, <1>4 DEF WorkerStep

(* A worker on its way out keeps to it, and writes no row of its run.       *)
LEMMA LeavingStep ==
  ASSUME TypeOK, NEW w \in Workers, WorkerStep(w) \/ Stream(w),
         pc[w] \in Leaving
  PROVE  /\ UNCHANGED <<runStatus, transcript, grade>>
         /\ \/ pc'[w] \in Leaving
            \/ pc'[w] = "idle" /\ job'[w] = NoRun
<1> USE DEF TypeOK, WorkersOK, Leaving, rows
<1>1. Unregister(w) \/ ListRuns(w) \/ SetExpCompleted(w)
  BY DEF WorkerStep, Stream,
     Dequeue, GetRun, GetExperiment, MarkCancelled, Register, GetTask,
     Prepare, SetRunning, Setup, InvokeDone, SetCancelled,
     SaveFailedTranscript, SetFailed, Capture, SaveTranscript, SetGrading,
     SavePartial, SaveGrade, SetCompleted
<1>2. UNCHANGED <<runStatus, transcript, grade>>
  BY <1>1 DEF Unregister, ListRuns, SetExpCompleted
<1>3. CASE Unregister(w)
  <2>1. pc' = [pc EXCEPT ![w] = "listRuns"]
    BY <1>3 DEF Unregister, Move
  <2> QED
    BY <1>2, <2>1
<1>4. CASE ListRuns(w)
  <2>1. \/ pc' = [pc EXCEPT ![w] = "setExpCompleted"]
        \/ Release(w)
    BY <1>4 DEF ListRuns, Move
  <2> QED
    BY <1>2, <2>1 DEF Move, Release
<1>5. CASE SetExpCompleted(w)
  BY <1>2, <1>5 DEF SetExpCompleted, Move, Release
<1> QED
  BY <1>1, <1>3, <1>4, <1>5

LEMMA SettledStep ==
  ASSUME AskedOnce
  PROVE  TypeOK /\ FreshInv /\ OnePlace /\ SettledInv /\ [Next]_vars => SettledInv'
<1> SUFFICES ASSUME TypeOK, FreshInv, OnePlace, SettledInv, [Next]_vars,
                    NEW r \in Runs, runStatus'[r] = "completed"
             PROVE  /\ ~Elem(queue', r)
                    /\ \A q \in Requests : /\ ~Elem(todo'[q], r)
                                           /\ Asks(q, r) => hpc'[q] \notin Before
                    /\ \A w \in Workers : job'[w] = r => pc'[w] \in Leaving
  BY DEF SettledInv, Elem, Asks
<1> DEFINE Out == /\ ~Elem(queue, r)
                  /\ \A q \in Requests : /\ ~Elem(todo[q], r)
                                         /\ Asks(q, r) => hpc[q] \notin Before
           Done == \A w \in Workers : job[w] = r => pc[w] \in Leaving
           Goal == /\ ~Elem(queue', r)
                   /\ \A q \in Requests : /\ ~Elem(todo'[q], r)
                                          /\ Asks(q, r) => hpc'[q] \notin Before
                   /\ \A w \in Workers : job'[w] = r => pc'[w] \in Leaving
<1>0. runStatus[r] = "completed" => Out /\ Done
  BY DEF SettledInv
<1>1. ASSUME NEW h \in Requests, Arrive(h) \/ HandlerStep(h) \/ LoseClient(h)
      PROVE  Goal
  <2>1. Out /\ Done
    BY <1>0, <1>1, HandlerEnds
  <2>2. ~Elem(queue', r)
    BY <1>1, <2>1, EnqueueMoves, HandlerQueueFrame
  <2>3. \A q \in Requests : ~Elem(todo'[q], r)
    BY <1>1, <2>1, HandlerAsks
  <2>4. \A q \in Requests : Asks(q, r) => hpc'[q] \notin Before
    BY <1>1, <2>1, HandlerAsks
  <2>5. \A w \in Workers : job'[w] = r => pc'[w] \in Leaving
    BY <1>1, <2>1, HandlerFrame
  <2> QED
    BY <2>2, <2>3, <2>4, <2>5
<1>2. ASSUME NEW w \in Workers, WorkerStep(w) \/ Stream(w)
      PROVE  Goal
  <2>1. hpc' = hpc /\ todo' = todo
    BY <1>2, WorkerFrame
  <2>2. CASE runStatus[r] = "completed"
    <3>1. Out /\ Done
      BY <1>0, <2>2
    <3>2. ~Elem(queue', r)
      BY <1>2, <3>1, WorkerHolds
    <3>3. ASSUME NEW v \in Workers, job'[v] = r PROVE pc'[v] \in Leaving
      <4>1. CASE v # w
        BY <1>2, <3>1, <3>3, <4>1, WorkerRows
      <4>2. CASE v = w
        <5>1. job[w] = r /\ pc[w] \in Leaving
          BY <1>2, <3>1, <3>3, <4>2, WorkerHolds
        <5> QED
          BY <1>2, <3>3, <4>2, <5>1, LeavingStep, RunsAssumption
      <4> QED
        BY <4>1, <4>2
    <3> QED
      BY <2>1, <3>1, <3>2, <3>3
  <2>3. CASE runStatus[r] # "completed"
    <3>1. job[w] = r /\ job'[w] = r /\ pc'[w] = "unregister"
      BY <1>2, <2>3, WhoCompletes
    <3>2. Executed(r)
      BY <3>1 DEF Executed
    <3>3. ~Elem(queue, r) /\ \A q \in Requests : ~Elem(todo[q], r)
      BY <3>2 DEF OnePlace, Active
    <3>4. \A q \in Requests : Asks(q, r) => hpc[q] \notin Before
      BY <3>2 DEF FreshInv, AskedOnce, OnlyAsker
    <3>5. ~Elem(queue', r)
      BY <1>2, <3>3, WorkerHolds
    <3>6. ASSUME NEW v \in Workers, v # w PROVE job'[v] # r
      <4>1. job'[v] = job[v]
        BY <1>2, <3>6, WorkerRows
      <4> QED
        BY <3>1, <3>6, <4>1, RunsAssumption DEF OnePlace, Exclusive
    <3> QED
      BY <2>1, <3>1, <3>3, <3>4, <3>5, <3>6 DEF Leaving
  <2> QED
    BY <2>2, <2>3
<1>3. CASE Restart
  <2>1. Out
    BY <1>0, <1>3, RestartEmpties
  <2> QED
    BY <1>3, <2>1, RestartEmpties DEF Executed, Before
<1>4. CASE UNCHANGED vars
  <2>1. /\ queue' = queue /\ todo' = todo /\ hpc' = hpc /\ job' = job /\ pc' = pc
        /\ runStatus' = runStatus
    BY <1>4 DEF vars, workers, handlers, rows
  <2> QED
    BY <1>0, <2>1
<1> QED
  BY <1>1, <1>2, <1>3, <1>4 DEF Next, Idle

(* What a step does to a completed run.                                     *)
LEMMA KeptStep ==
  ASSUME TypeOK, SettledInv, Next, NEW r \in Runs, runStatus[r] = "completed"
  PROVE  \/ runStatus'[r] = "deleted"
         \/ /\ runStatus'[r] = "completed"
            /\ grade'[r] = grade[r]
            /\ transcript'[r] = transcript[r]
<1> USE DEF TypeOK, RowsOK, rows
<1>1. ASSUME NEW q \in Requests, Arrive(q) \/ HandlerStep(q) \/ LoseClient(q)
      PROVE  \/ runStatus'[r] = "deleted"
             \/ /\ runStatus'[r] = "completed"
                /\ grade'[r] = grade[r]
                /\ transcript'[r] = transcript[r]
  <2>1. runStatus'[r] \in {"completed", "deleted"}
    <3>1. CASE StartEnsure(q)
      BY <3>1 DEF StartEnsure
    <3>2. CASE RetryMarkPending(q)
      <4>1. r # Target[q]
        BY <3>2 DEF RetryMarkPending, SettledInv, Asks, Before
      <4> QED
        BY <3>2, <4>1 DEF RetryMarkPending, SetStatus
    <3>3. CASE Delete(q)
      BY <3>3 DEF Delete
    <3>4. CASE CancelPending(q)
      BY <3>4 DEF CancelPending
    <3>5. CASE \/ StartGetExperiment(q) \/ CancelMark(q) \/ Estimate(q) \/ LoseClient(q)
               \/ StartMarkRunning(q) \/ StartListRunnable(q) \/ Enqueue(q)
               \/ RetryGetRun(q) \/ CancelContexts(q)
      BY <3>5 DEF StartGetExperiment, CancelMark, Estimate, LoseClient, StartMarkRunning,
                  StartListRunnable, Enqueue, RetryGetRun, CancelContexts
    <3> QED
      BY <1>1, <3>1, <3>2, <3>3, <3>4, <3>5 DEF Arrive, HandlerStep
  <2> QED
    BY <1>1, <2>1, HandlerRows
<1>2. ASSUME NEW w \in Workers, WorkerStep(w) \/ Stream(w)
      PROVE  /\ runStatus'[r] = "completed"
             /\ grade'[r] = grade[r]
             /\ transcript'[r] = transcript[r]
  <2>1. CASE job[w] = r
    BY <1>2, <2>1, LeavingStep DEF SettledInv
  <2>2. CASE job[w] # r
    BY <1>2, <2>2, WorkerRows
  <2> QED
    BY <2>1, <2>2
<1>3. CASE Restart
  BY <1>3 DEF Restart
<1>4. CASE Idle
  BY <1>4 DEF Idle, vars
<1> QED
  BY <1>1, <1>2, <1>3, <1>4 DEF Next

(* Of such clients' experiments no completed run loses its status, its      *)
(* grade or its transcript, except to a delete: not to a cancel, not to     *)
(* another run's worker and not to a restart.                               *)
THEOREM CompletedKept ==
  ASSUME AskedOnce
  PROVE  Spec => CompletedRunsAreKept
<1>1. Init => SettledInv
  BY DEF Init, SettledInv
<1>2. TypeOK /\ SettledInv /\ [Next]_vars =>
        [\A r \in Runs :
          runStatus[r] = "completed" =>
            \/ runStatus'[r] = "deleted"
            \/ /\ runStatus'[r] = "completed"
               /\ grade'[r] = grade[r]
               /\ transcript'[r] = transcript[r]]_vars
  BY KeptStep
<1>3. FreshInv => AskedWhenFree
  BY OnceIsPolite
<1> QED
  BY <1>1, <1>2, <1>3, TypeCorrect, FreshInit, FreshStep, OnePlaceInit,
     OnePlaceStep, SettledStep, PTL DEF Spec, CompletedRunsAreKept

-----------------------------------------------------------------------------
(* No experiment stays "running" with nothing left to run.                  *)

(* While an experiment runs and all its runs have ended, one of its workers *)
(* has not refreshed it yet.                                                *)
StrandInv ==
    \A e \in Experiments : expStatus[e] = "running" /\ AllEnded(e) =>
        \E w \in Workers : job[w] # NoRun /\ ExperimentOf[job[w]] = e

(* Every experiment has a run that no second start and no retry asks for,   *)
(* by whichever id its row has.                                             *)
OwnRun ==
    \A e \in Experiments : \E r \in RunsOf(e) :
        \A t \in Runs : SameSlot(r, t) =>
            \A p, q \in Requests : Asks(p, t) /\ Asks(q, t) => p = q

LEMMA WhoSetsRunning ==
  ASSUME TypeOK, NEW q \in Requests,
         Arrive(q) \/ HandlerStep(q) \/ LoseClient(q),
         NEW e \in Experiments, expStatus'[e] = "running", expStatus[e] # "running"
  PROVE  StartMarkRunning(q) /\ Target[q] = e
<1> USE DEF TypeOK, RowsOK, rows
<1>1. CASE StartMarkRunning(q)
  BY <1>1 DEF StartMarkRunning, SetExpStatus
<1>2. CASE CancelMark(q) \/ Estimate(q)
  BY <1>2 DEF CancelMark, Estimate, SetExpStatus
<1>3. CASE Delete(q)
  BY <1>3 DEF Delete
<1>4. CASE \/ StartGetExperiment(q) \/ StartEnsure(q) \/ RetryMarkPending(q) \/ LoseClient(q)
           \/ StartListRunnable(q) \/ Enqueue(q)
           \/ RetryGetRun(q) \/ CancelPending(q) \/ CancelContexts(q)
  BY <1>4 DEF StartGetExperiment, StartEnsure, RetryMarkPending, LoseClient, StartListRunnable,
              Enqueue, RetryGetRun, CancelPending, CancelContexts
<1> QED
  BY <1>1, <1>2, <1>3, <1>4 DEF Arrive, HandlerStep

(* A worker keeps the run whose status it writes, makes no experiment       *)
(* "running", and parts with a run of a running experiment only when the    *)
(* run is gone or the runs it lists are not all done.                       *)
LEMMA WorkerParts ==
  ASSUME TypeOK, NEW w \in Workers, WorkerStep(w) \/ Stream(w)
  PROVE  /\ runStatus' # runStatus => job' = job
         /\ \A e \in Experiments : expStatus'[e] = "running" => expStatus[e] = "running"
         /\ \/ job' = job
            \/ pc[w] = "idle"
            \/ ~Exists(job[w])
            \/ ~AllDone(ExperimentOf[job[w]])
            \/ expStatus'[ExperimentOf[job[w]]] # "running"
<1> USE RunsAssumption DEF TypeOK, RowsOK, WorkersOK, rows, workers, Within
<1>1. CASE \/ MarkCancelled(w) \/ SetRunning(w) \/ SetCancelled(w)
           \/ SetFailed(w) \/ SetGrading(w) \/ SetCompleted(w)
  BY <1>1 DEF MarkCancelled, SetRunning, SetCancelled, SetFailed, SetGrading,
              SetCompleted
<1>2. CASE \/ Stream(w) \/ SaveFailedTranscript(w) \/ SaveTranscript(w)
           \/ SavePartial(w) \/ SaveGrade(w) \/ Register(w)
           \/ GetTask(w) \/ Prepare(w) \/ Setup(w) \/ InvokeDone(w)
           \/ Capture(w) \/ Unregister(w)
  BY <1>2 DEF Stream, SaveFailedTranscript, SaveTranscript, SavePartial,
       SaveGrade, Register, GetTask, Prepare, Setup, InvokeDone, Capture,
       Unregister
<1>3. CASE Dequeue(w) \/ GetRun(w) \/ ListRuns(w)
  BY <1>3 DEF Dequeue, GetRun, ListRuns
<1>4. CASE GetExperiment(w)
  BY <1>4 DEF GetExperiment
<1>5. CASE SetExpCompleted(w)
  <2>1. job[w] \in Runs /\ ExperimentOf[job[w]] \in Experiments
    BY <1>5 DEF SetExpCompleted
  <2> QED
    BY <1>5, <2>1 DEF SetExpCompleted, SetExpStatus
<1> QED
  BY <1>1, <1>2, <1>3, <1>4, <1>5 DEF WorkerStep

(* A running experiment, and one about to be, has a row for every run.      *)
FilledInv ==
    \A e \in Experiments :
        /\ expStatus[e] # "deleted"
        /\ \/ expStatus[e] = "running"
           \/ \E q \in Requests : hpc[q] = "markRunning" /\ Target[q] = e
        => \A r \in RunsOf(e) : HasRow(r)

Held(r) == Elem(queue, r) \/ Executed(r) \/ \E q \in Requests : Elem(todo[q], r)

(* Only a delete removes rows, and jobs are for rows that were there.       *)
RowInv ==
    /\ \A r \in Runs : runStatus[r] = "deleted" => expStatus[ExperimentOf[r]] = "deleted"
    /\ \A r \in Runs : Held(r) => runStatus[r] # "none"
    /\ FilledInv

(* The row of a run, and of its experiment, comes once and goes once.       *)
LEMMA RowFate ==
  ASSUME TypeOK, [Next]_vars, NEW r \in Runs
  PROVE  /\ expStatus[ExperimentOf[r]] = "deleted" => expStatus'[ExperimentOf[r]] = "deleted"
         /\ runStatus'[r] = "deleted" =>
              runStatus[r] = "deleted" \/ expStatus'[ExperimentOf[r]] = "deleted"
         /\ runStatus'[r] = "none" => runStatus[r] = "none"
<1> DEFINE e == ExperimentOf[r]
<1> DEFINE Fate == /\ expStatus[e] = "deleted" => expStatus'[e] = "deleted"
                   /\ runStatus'[r] = "deleted" =>
                        runStatus[r] = "deleted" \/ expStatus'[e] = "deleted"
                   /\ runStatus'[r] = "none" => runStatus[r] = "none"
<1> USE DEF TypeOK, RowsOK, rows
<1>0. e \in Experiments
  BY RunsAssumption
<1> HIDE DEF e
<1>1. ASSUME NEW q \in Requests, Arrive(q) \/ HandlerStep(q) \/ LoseClient(q)
      PROVE  Fate
  <2>1. CASE StartEnsure(q)
    BY <2>1 DEF StartEnsure
  <2>2. CASE RetryMarkPending(q)
    BY <2>2 DEF RetryMarkPending, SetStatus, Exists
  <2>3. CASE Delete(q)
    BY <1>0, <2>3, RequestsAssumption DEF Delete, RunsOf, e
  <2>4. CASE CancelPending(q)
    BY <2>4 DEF CancelPending
  <2>5. CASE CancelMark(q) \/ Estimate(q) \/ StartMarkRunning(q)
    BY <1>0, <2>5 DEF CancelMark, Estimate, StartMarkRunning, SetExpStatus
  <2>6. CASE \/ StartGetExperiment(q) \/ LoseClient(q) \/ StartListRunnable(q)
             \/ Enqueue(q) \/ RetryGetRun(q) \/ CancelContexts(q)
    BY <2>6 DEF StartGetExperiment, LoseClient, StartListRunnable, Enqueue,
                RetryGetRun, CancelContexts
  <2> QED
    BY <1>1, <2>1, <2>2, <2>3, <2>4, <2>5, <2>6 DEF Arrive, HandlerStep
<1>2. ASSUME NEW w \in Workers, WorkerStep(w) \/ Stream(w)
      PROVE  Fate
  <2>1. CASE \/ MarkCancelled(w) \/ SetRunning(w) \/ SetCancelled(w)
             \/ SetFailed(w) \/ SetGrading(w) \/ SetCompleted(w)
    BY <2>1 DEF MarkCancelled, SetRunning, SetCancelled, SetFailed, SetGrading,
         SetCompleted, TryStatus, SetStatus, Exists
  <2>2. CASE SetExpCompleted(w)
    BY <1>0, <2>2 DEF SetExpCompleted, SetExpStatus
  <2>3. CASE \/ Stream(w) \/ SaveFailedTranscript(w) \/ SaveTranscript(w)
             \/ SavePartial(w) \/ SaveGrade(w) \/ Register(w) \/ GetTask(w)
             \/ Prepare(w) \/ Setup(w) \/ InvokeDone(w) \/ Capture(w)
             \/ Dequeue(w) \/ GetRun(w) \/ GetExperiment(w) \/ Unregister(w)
             \/ ListRuns(w)
    BY <2>3 DEF Stream, SaveFailedTranscript, SaveTranscript,
         SavePartial, SaveGrade, Register, GetTask, Prepare, Setup, InvokeDone,
         Capture, Dequeue, GetRun, GetExperiment, Unregister, ListRuns
  <2> QED
    BY <1>2, <2>1, <2>2, <2>3 DEF WorkerStep
<1>3. CASE Restart
  <2>1. /\ runStatus' = runStatus
        /\ expStatus'[e] = IF Reconciled(e) THEN "completed" ELSE expStatus[e]
    BY <1>0, <1>3 DEF Restart
  <2>2. Reconciled(e) => expStatus[e] = "running"
    BY DEF Reconciled
  <2> QED
    BY <2>1, <2>2 DEF e
<1>4. CASE UNCHANGED vars
  BY <1>4 DEF vars
<1> QED
  BY <1>1, <1>2, <1>3, <1>4 DEF Next, Idle, e

(* What a handler lists has a row.                                          *)
LEMMA ListedExists ==
  ASSUME TypeOK, NEW q \in Requests,
         Arrive(q) \/ HandlerStep(q) \/ LoseClient(q),
         NEW p \in Requests, NEW r \in Runs, Elem(todo'[p], r)
  PROVE  Elem(todo[p], r) \/ runStatus[r] # "none"
<1> USE DEF TypeOK, HandlersOK, Goto
<1>1. CASE p # q \/ todo' = todo
  BY <1>1, HandlerAsks
<1>2. CASE p = q /\ StartListRunnable(q)
  <2>1. PICK order \in ByRunNumber(Runnable(Target[q])) : todo' = [todo EXCEPT ![q] = order]
    BY <1>2 DEF StartListRunnable
  <2>2. r \in Runnable(Target[q])
    BY <1>2, <2>1, ListedOnce
  <2> QED
    BY <2>2 DEF Runnable
<1>3. CASE p = q /\ Enqueue(q)
  <2>1. todo[q] # <<>> /\ todo[q] \in Seq(Runs) /\ todo'[q] = Tail(todo[q])
    BY <1>3 DEF Enqueue
  <2> QED
    BY <1>3, <2>1, TakenElems
<1>4. CASE p = q /\ RetryGetRun(q) /\ todo' # todo
  <2>1. Exists(Target[q]) /\ todo'[q] = <<Target[q]>>
    BY <1>4 DEF RetryGetRun
  <2>2. r = Target[q]
    BY <1>4, <2>1 DEF Elem
  <2> QED
    BY <2>1, <2>2 DEF Exists
<1>5. CASE \/ Arrive(q) \/ LoseClient(q) \/ StartEnsure(q) \/ StartMarkRunning(q)
           \/ CancelPending(q) \/ CancelContexts(q)
  <2>1. todo' = todo
    BY <1>5 DEF Arrive, StartGetExperiment, StartEnsure, RetryMarkPending, CancelMark,
                Estimate, Delete, LoseClient, StartMarkRunning, CancelPending,
                CancelContexts
  <2> QED
    BY <1>1, <2>1
<1> QED
  BY <1>1, <1>2, <1>3, <1>4, <1>5 DEF HandlerStep

(* A job is for a row that was there before.                                *)
LEMMA HeldStep ==
  ASSUME TypeOK, RowInv, [Next]_vars, NEW r \in Runs, Held(r)'
  PROVE  runStatus[r] # "none"
<1>1. ASSUME NEW q \in Requests, Arrive(q) \/ HandlerStep(q) \/ LoseClient(q)
      PROVE  runStatus[r] # "none"
  <2>1. CASE Elem(queue', r)
    BY <1>1, <2>1, EnqueueMoves, HandlerQueueFrame DEF RowInv, Held
  <2>2. CASE Executed(r)'
    BY <1>1, <2>2, HandlerFrame DEF RowInv, Held, Executed
  <2>3. ASSUME NEW p \in Requests, Elem(todo'[p], r) PROVE runStatus[r] # "none"
    BY <1>1, <2>3, ListedExists DEF RowInv, Held
  <2> QED
    BY <2>1, <2>2, <2>3 DEF Held, Elem
<1>2. ASSUME NEW w \in Workers, WorkerStep(w) \/ Stream(w)
      PROVE  runStatus[r] # "none"
  BY <1>2, WorkerHolds, WorkerFrame DEF RowInv, Held, Elem
<1>3. CASE Restart
  BY <1>3, RestartEmpties DEF Held
<1>4. CASE UNCHANGED vars
  BY <1>4 DEF vars, workers, handlers, RowInv, Held, Elem, Executed
<1> QED
  BY <1>1, <1>2, <1>3, <1>4 DEF Next, Idle

(* Only the insert brings a start before its status write.                  *)
LEMMA WhoMarks ==
  ASSUME TypeOK, NEW h \in Requests, Arrive(h) \/ HandlerStep(h) \/ LoseClient(h),
         NEW q \in Requests, hpc'[q] = "markRunning", hpc[q] # "markRunning"
  PROVE  q = h /\ StartEnsure(h)
<1>1. q = h
  BY HandlerAsks
<1> QED
  BY <1>1 DEF Arrive, HandlerStep, LoseClient, Goto, TypeOK, HandlersOK,
     StartGetExperiment, RetryMarkPending, CancelMark, Estimate, Delete,
     StartMarkRunning, StartListRunnable, Enqueue, RetryGetRun, CancelPending,
     CancelContexts

LEMMA FilledStep == TypeOK /\ RowInv /\ [Next]_vars => FilledInv'
<1> SUFFICES ASSUME TypeOK, RowInv, [Next]_vars,
                    NEW e \in Experiments, expStatus'[e] # "deleted",
                    \/ expStatus'[e] = "running"
                    \/ \E q \in Requests : hpc'[q] = "markRunning" /\ Target[q] = e,
                    NEW r \in RunsOf(e)
             PROVE  HasRow(r)'
  BY DEF FilledInv, RunsOf
<1>1. r \in Runs /\ ExperimentOf[r] = e
  BY DEF RunsOf
<1>2. HasRow(r) => HasRow(r)'
  <2>1. SUFFICES ASSUME NEW t \in Runs, SameSlot(r, t), Exists(t) PROVE Exists(t)'
    BY DEF HasRow, SameSlot
  <2>2. ExperimentOf[t] = e
    BY <1>1, <2>1 DEF SameSlot
  <2> QED
    BY <2>1, <2>2, RowFate DEF Exists
<1>3. expStatus[e] # "deleted"
  BY <1>1, RowFate
<1>4. ASSUME NEW h \in Requests, Arrive(h) \/ HandlerStep(h) \/ LoseClient(h)
      PROVE  HasRow(r) \/ HasRow(r)'
  <2>1. CASE expStatus'[e] = "running"
    <3>1. CASE expStatus[e] = "running"
      BY <1>3, <3>1 DEF RowInv, FilledInv
    <3>2. CASE expStatus[e] # "running"
      <4>1. StartMarkRunning(h) /\ Target[h] = e
        BY <1>4, <2>1, <3>2, WhoSetsRunning
      <4> QED
        BY <1>3, <4>1 DEF RowInv, FilledInv, StartMarkRunning
    <3> QED
      BY <3>1, <3>2
  <2>2. ASSUME NEW q \in Requests, hpc'[q] = "markRunning", Target[q] = e
        PROVE  HasRow(r) \/ HasRow(r)'
    <3>1. CASE hpc[q] = "markRunning"
      BY <1>3, <2>2, <3>1 DEF RowInv, FilledInv
    <3>2. CASE hpc[q] # "markRunning"
      <4>1. StartEnsure(q)
        BY <1>4, <2>2, <3>2, WhoMarks
      <4>2. PICK new \in SUBSET {x \in RunsOf(e) : runStatus[x] = "none" /\ ~HasRow(x)} :
              /\ HasRow(r) \/ \E t \in new : SameSlot(r, t)
              /\ runStatus' = [x \in Runs |-> IF x \in new THEN "pending" ELSE runStatus[x]]
        BY <2>2, <4>1 DEF StartEnsure
      <4>3. ASSUME NEW t \in new, SameSlot(r, t) PROVE HasRow(r)'
        <5>1. t \in Runs /\ runStatus'[t] = "pending"
          BY <4>2 DEF RunsOf
        <5> QED
          BY <4>3, <5>1 DEF HasRow, SameSlot, Exists
      <4> QED
        BY <4>2, <4>3
    <3> QED
      BY <3>1, <3>2
  <2> QED
    BY <2>1, <2>2
<1>5. ASSUME NEW w \in Workers, WorkerStep(w) \/ Stream(w)
      PROVE  HasRow(r)
  BY <1>3, <1>5, WorkerParts, WorkerFrame DEF RowInv, FilledInv
<1>6. CASE Restart
  <2>1. expStatus'[e] = IF Reconciled(e) THEN "completed" ELSE expStatus[e]
    BY <1>6 DEF Restart
  <2>2. \A q \in Requests : hpc'[q] # "markRunning"
    BY <1>6, RestartEmpties DEF Before
  <2>3. expStatus[e] = "running"
    BY <2>1, <2>2
  <2> QED
    BY <1>2, <1>3, <2>3 DEF RowInv, FilledInv
<1>7. CASE UNCHANGED vars
  <2>1. hpc' = hpc /\ expStatus' = expStatus
    BY <1>7 DEF vars, handlers, rows
  <2> QED
    BY <1>2, <1>3, <2>1 DEF RowInv, FilledInv
<1> QED
  BY <1>2, <1>4, <1>5, <1>6, <1>7 DEF Next, Idle

LEMMA RowStep == TypeOK /\ RowInv /\ [Next]_vars => RowInv'
<1> SUFFICES ASSUME TypeOK, RowInv, [Next]_vars PROVE RowInv'
  OBVIOUS
<1>1. \A r \in Runs : runStatus'[r] = "deleted" => expStatus'[ExperimentOf[r]] = "deleted"
  BY RowFate DEF RowInv
<1>2. \A r \in Runs : Held(r)' => runStatus'[r] # "none"
  BY HeldStep, RowFate
<1> QED
  BY <1>1, <1>2, FilledStep DEF RowInv

LEMMA RowInit == Init => RowInv
<1> SUFFICES ASSUME Init PROVE RowInv
  OBVIOUS
<1>1. /\ queue = <<>> /\ \A q \in Requests : todo[q] = <<>> /\ hpc[q] = "new"
      /\ \A w \in Workers : job[w] = NoRun
      /\ \A r \in Runs : runStatus[r] = "none"
      /\ \A e \in Experiments : expStatus[e] = "draft"
  BY DEF Init
<1>2. DOMAIN <<>> = {}
  OBVIOUS
<1> QED
  BY <1>1, <1>2, RunsAssumption DEF RowInv, FilledInv, Held, Elem, Executed

LEMMA StrandStep ==
  ASSUME OwnRun
  PROVE  TypeOK /\ RowInv /\ FreshInv /\ StrandInv /\ [Next]_vars => StrandInv'
<1> SUFFICES ASSUME TypeOK, RowInv, FreshInv, StrandInv, [Next]_vars,
                    NEW e \in Experiments, expStatus'[e] = "running",
                    NEW one \in RunsOf(e), Exists(one)',
                    \A r \in RunsOf(e) : Exists(r)' => runStatus'[r] \in {"completed", "failed"}
             PROVE  \E w \in Workers : job'[w] # NoRun /\ ExperimentOf[job'[w]] = e
  BY DEF StrandInv, AllEnded, RunsOf
<1>1. PICK own \in RunsOf(e) :
         \A t \in Runs : SameSlot(own, t) =>
            \A p, q \in Requests : Asks(p, t) /\ Asks(q, t) => p = q
  BY DEF OwnRun
<1>2. /\ \A r \in RunsOf(e) : r \in Runs /\ ExperimentOf[r] = e
      /\ own \in RunsOf(e) /\ expStatus[e] # "deleted"
  BY <1>1, RowFate DEF RunsOf
<1>0. \A r \in RunsOf(e) : Exists(r) => Exists(r)' /\ runStatus'[r] \in {"completed", "failed"}
  BY <1>2, RowFate DEF Exists
<1>3. ASSUME NEW q \in Requests, Arrive(q) \/ HandlerStep(q) \/ LoseClient(q)
      PROVE  \E w \in Workers : job'[w] # NoRun /\ ExperimentOf[job'[w]] = e
  <2>0. \A r \in RunsOf(e) : Exists(r)' => runStatus[r] \in {"completed", "failed"}
    BY <1>2, <1>3, HandlerEnds
  <2>1. AllEnded(e)
    BY <1>0, <2>0 DEF AllEnded, Exists
  <2>2. CASE expStatus[e] = "running"
    BY <1>3, <2>1, <2>2, HandlerFrame DEF StrandInv
  <2>3. CASE expStatus[e] # "running"
    <3>1. StartMarkRunning(q) /\ Target[q] = e
      BY <1>3, <2>3, WhoSetsRunning
    <3>2. hpc[q] = "markRunning" /\ Op[q] = "start"
      BY <3>1, RequestsAssumption
      DEF StartMarkRunning, TypeOK, HandlersOK, StepsOf, Endpoints
    <3>3. HasRow(own)
      BY <1>2, <3>1, <3>2 DEF RowInv, FilledInv
    <3>4. PICK t \in Runs : SameSlot(own, t) /\ Exists(t)
      BY <3>3 DEF HasRow
    <3>5. t \in RunsOf(e)
      BY <1>2, <3>4 DEF SameSlot, RunsOf
    <3>6. OnlyAsker(q, t) /\ hpc[q] \in Before
      BY <1>1, <1>2, <3>1, <3>2, <3>4, <3>5 DEF OnlyAsker, Asks, Before
    <3>7. runStatus[t] \notin {"completed", "failed"}
      BY <3>4, <3>6 DEF FreshInv
    <3> QED
      BY <2>1, <3>4, <3>5, <3>7 DEF AllEnded
  <2> QED
    BY <2>2, <2>3
<1>4. ASSUME NEW w \in Workers, WorkerStep(w) \/ Stream(w)
      PROVE  \E v \in Workers : job'[v] # NoRun /\ ExperimentOf[job'[v]] = e
  <2>1. expStatus[e] = "running"
    BY <1>4, WorkerParts
  <2>2. CASE ~AllEnded(e)
    <3>1. PICK r \in RunsOf(e) : runStatus'[r] # runStatus[r]
      BY <1>0, <2>2 DEF AllEnded, Exists
    <3>2. r \in Runs /\ ExperimentOf[r] = e
      BY <1>2
    <3>3. r = job[w] /\ job' = job
      BY <1>4, <3>1, <3>2, WorkerRows, WorkerParts
    <3> QED
      BY <3>2, <3>3, RunsAssumption
  <2>3. CASE AllEnded(e)
    <3>1. PICK v \in Workers : job[v] # NoRun /\ ExperimentOf[job[v]] = e
      BY <2>1, <2>3 DEF StrandInv
    <3>2. CASE v # w
      BY <1>4, <3>1, <3>2, WorkerRows
    <3>3. CASE v = w
      <4>1. job[w] \in RunsOf(e) /\ pc[w] # "idle"
        BY <3>1, <3>3 DEF TypeOK, WorkersOK, RunsOf
      <4>2. Held(job[w])
        BY <4>1 DEF Held, Executed
      <4>3. Exists(job[w])
        BY <1>2, <4>1, <4>2 DEF RowInv, Exists
      <4>4. AllDone(e)
        BY <2>3, <4>1, <4>3 DEF AllDone, AllEnded
      <4>5. job' = job
        BY <1>4, <3>1, <3>3, <4>1, <4>3, <4>4, WorkerParts
      <4> QED
        BY <3>1, <4>5
    <3> QED
      BY <3>2, <3>3
  <2> QED
    BY <2>2, <2>3
<1>5. CASE Restart
  <2>1. runStatus' = runStatus
    BY <1>5 DEF Restart
  <2>2. /\ Exists(one)
        /\ \A r \in RunsOf(e) : Exists(r) => runStatus[r] \in {"completed", "failed"}
    BY <2>1 DEF Exists
  <2>3. expStatus[e] = "running" => Reconciled(e)
    BY <2>2 DEF Reconciled
  <2>4. expStatus'[e] = IF Reconciled(e) THEN "completed" ELSE expStatus[e]
    BY <1>5 DEF Restart
  <2> QED
    BY <2>3, <2>4
<1>6. CASE UNCHANGED vars
  <2>1. expStatus' = expStatus /\ runStatus' = runStatus /\ job' = job
    BY <1>6 DEF vars, rows, workers
  <2>2. AllEnded(e)
    BY <2>1 DEF AllEnded, Exists
  <2> QED
    BY <2>1, <2>2 DEF StrandInv
<1> QED
  BY <1>3, <1>4, <1>5, <1>6 DEF Next, Idle

(* Whatever is cancelled, retried or deleted, however often the engine      *)
(* restarts and clients hang up: if every experiment has a run, under       *)
(* whichever id, that is asked for once, none is ever left "running" by its *)
(* last worker or the boot (orchestrator.go:905-932,                        *)
(* experiment_repo.go:178).                                                 *)
THEOREM NothingStranded ==
  ASSUME OwnRun
  PROVE  Spec => []NoStrandedExperiment
<1>1. Init => StrandInv
  BY DEF Init, StrandInv
<1>2. StrandInv => NoStrandedExperiment
  BY DEF StrandInv, NoStrandedExperiment, WillRefresh
<1> QED
  BY <1>1, <1>2, TypeCorrect, RowInit, RowStep, FreshInit, FreshStep, StrandStep,
     PTL DEF Spec

-----------------------------------------------------------------------------
(* No pending run of a running experiment is forgotten.                     *)

(* Somebody will still write the status of r: not a worker on its way out.  *)
WillWrite(r) ==
    \/ Elem(queue, r)
    \/ \E q \in Requests :
         \/ Op[q] = "start" /\ hpc[q] = "listRunnable" /\ Target[q] = ExperimentOf[r]
         \/ Op[q] = "retry" /\ hpc[q] = "retryGet" /\ Target[q] = r
         \/ Elem(todo[q], r)
    \/ \E w \in Workers : job[w] = r /\ pc[w] \notin Leaving

(* No context is cancelled, and the pending runs of a running experiment    *)
(* are written again.                                                       *)
Pending(r) ==
    /\ runStatus[r] = "pending"
    /\ expStatus[ExperimentOf[r]] = "running"
    /\ ExperimentOf[r] \notin TaskGone
    => WillWrite(r)

PendingInv ==
    /\ \A w \in Workers : ~ctxDone[w]
    /\ \A r \in Runs : Pending(r)

(* Nobody cancels, no client hangs up and the engine does not stop.         *)
Uninterrupted ==
    /\ \A q \in Requests : Op[q] # "cancel"
    /\ MaxLostClients = 0
    /\ MaxRestarts = 0

LEMMA NoneCancelled ==
  ASSUME Uninterrupted, TypeOK, PendingInv, [Next]_vars
  PROVE  /\ ~Restart
         /\ \A q \in Requests : ~LoseClient(q) /\ ~CancelContexts(q)
         /\ \A w \in Workers : ~ctxDone'[w]
<1>1. ~Restart
  BY DEF Uninterrupted, Restart, TypeOK
<1>2. \A q \in Requests : ~LoseClient(q) /\ ~CancelContexts(q)
  BY RequestsAssumption DEF Uninterrupted, LoseClient, CancelContexts, TypeOK,
     HandlersOK, StepsOf, Endpoints
<1>3. ASSUME NEW q \in Requests, Arrive(q) \/ HandlerStep(q)
      PROVE  \A w \in Workers : ~ctxDone'[w]
  BY <1>2, <1>3, HandlerQueueFrame DEF PendingInv
<1>4. ASSUME NEW v \in Workers, WorkerStep(v) \/ Stream(v), NEW w \in Workers
      PROVE  ~ctxDone'[w]
  <2>1. CASE v # w
    BY <1>4, <2>1, WorkerRows DEF PendingInv
  <2>2. CASE Register(w) \/ Unregister(w)
    BY <2>2 DEF Register, Unregister, TypeOK, WorkersOK
  <2>3. CASE v = w /\ ~Register(w) /\ ~Unregister(w)
    <3>1. ctxDone' = ctxDone
      BY <1>4, <2>3 DEF WorkerStep, Stream, workers, Within,
         Dequeue, GetRun, GetExperiment, MarkCancelled, GetTask, Prepare,
         SetRunning, Setup, InvokeDone, SetCancelled, SaveFailedTranscript,
         SetFailed, Capture, SaveTranscript, SetGrading, SavePartial,
         SaveGrade, SetCompleted, ListRuns, SetExpCompleted
    <3> QED
      BY <3>1 DEF PendingInv
  <2> QED
    BY <1>4, <2>1, <2>2, <2>3
<1>5. CASE UNCHANGED vars
  BY <1>1, <1>2, <1>5 DEF vars, workers, PendingInv
<1> QED
  BY <1>1, <1>2, <1>3, <1>4, <1>5 DEF Next, Idle

(* Handlers that do not leave listRunnable or retryGet leave WillWrite.     *)
LEMMA WillWriteKept ==
  ASSUME UNCHANGED <<pc, job, queue, todo>>, NEW r \in Runs,
         \A p \in Requests :
           hpc[p] \in {"listRunnable", "retryGet"} => hpc'[p] = hpc[p],
         WillWrite(r)
  PROVE  WillWrite(r)'
<1>1. CASE Elem(queue, r)
  BY <1>1 DEF WillWrite, Elem
<1>2. CASE \E w \in Workers : job[w] = r /\ pc[w] \notin Leaving
  BY <1>2 DEF WillWrite, Leaving
<1>3. ASSUME NEW q \in Requests,
             \/ Op[q] = "start" /\ hpc[q] = "listRunnable" /\ Target[q] = ExperimentOf[r]
             \/ Op[q] = "retry" /\ hpc[q] = "retryGet" /\ Target[q] = r
             \/ Elem(todo[q], r)
      PROVE  WillWrite(r)'
  BY <1>3 DEF WillWrite, Elem
<1> QED
  BY <1>1, <1>2, <1>3 DEF WillWrite

(* A handler may leave them if it has listed the run by then.               *)
LEMMA WillWriteListed ==
  ASSUME UNCHANGED <<pc, job, queue>>, NEW r \in Runs, NEW q \in Requests,
         \A p \in Requests \ {q} : hpc'[p] = hpc[p] /\ todo'[p] = todo[p],
         \/ Op[q] = "start" /\ hpc[q] = "listRunnable" /\ Target[q] = ExperimentOf[r]
         \/ Op[q] = "retry" /\ hpc[q] = "retryGet" /\ Target[q] = r
         \/ Elem(todo[q], r)
         => Elem(todo'[q], r),
         WillWrite(r)
  PROVE  WillWrite(r)'
<1>1. CASE Elem(queue, r)
  BY <1>1 DEF WillWrite, Elem
<1>2. CASE \E w \in Workers : job[w] = r /\ pc[w] \notin Leaving
  BY <1>2 DEF WillWrite, Leaving
<1>3. ASSUME NEW p \in Requests,
             \/ Op[p] = "start" /\ hpc[p] = "listRunnable" /\ Target[p] = ExperimentOf[r]
             \/ Op[p] = "retry" /\ hpc[p] = "retryGet" /\ Target[p] = r
             \/ Elem(todo[p], r)
      PROVE  WillWrite(r)'
  <2>1. CASE p = q
    BY <1>3, <2>1 DEF WillWrite, Elem
  <2>2. CASE p # q
    <3>1. hpc'[p] = hpc[p] /\ todo'[p] = todo[p]
      BY <2>2
    <3> QED
      BY <1>3, <3>1 DEF WillWrite, Elem
  <2> QED
    BY <2>1, <2>2
<1> QED
  BY <1>1, <1>2, <1>3 DEF WillWrite

(* What a handler does to one run.                                          *)
LEMMA HandlerPending ==
  ASSUME TypeOK, NEW q \in Requests, Arrive(q) \/ HandlerStep(q),
         ~CancelContexts(q), RowInv, NEW r \in Runs, Pending(r)
  PROVE  Pending(r)'
<1> DEFINE e == ExperimentOf[r]
<1> USE RunsAssumption, RequestsAssumption
    DEF TypeOK, RowsOK, HandlersOK, rows, workers, Goto
<1>0. pc' = pc /\ job' = job /\ e \in Experiments
  BY HandlerFrame
<1>10. CASE StartGetExperiment(q)
  <2>1. /\ queue' = queue /\ todo' = todo /\ expStatus' = expStatus
        /\ runStatus' = runStatus /\ hpc[q] = "new"
        /\ \A p \in Requests \ {q} : hpc'[p] = hpc[p]
    BY <1>10 DEF StartGetExperiment
  <2> QED
    BY <1>0, <2>1, WillWriteKept DEF Pending
<1>1. CASE StartEnsure(q)
  <2>1. /\ queue' = queue /\ todo' = todo /\ expStatus' = expStatus
        /\ hpc[q] = "ensure" /\ hpc'[q] = "markRunning"
        /\ \A p \in Requests \ {q} : hpc'[p] = hpc[p]
        /\ runStatus'[r] # runStatus[r] => ~HasRow(r)
    BY <1>1 DEF StartEnsure
  <2>2. CASE runStatus'[r] = runStatus[r]
    BY <1>0, <2>1, <2>2, WillWriteKept DEF Pending
  <2>3. CASE runStatus'[r] # runStatus[r]
    <3>1. expStatus[e] # "running"
      BY <1>0, <2>1, <2>3 DEF RowInv, FilledInv, RunsOf
    <3> QED
      BY <2>1, <3>1 DEF Pending
  <2> QED
    BY <2>2, <2>3
<1>2. CASE RetryMarkPending(q)
  <2>1. /\ queue' = queue /\ todo' = todo /\ expStatus' = expStatus
        /\ Op[q] = "retry" /\ hpc[q] = "new" /\ hpc'[q] = "retryGet"
        /\ \A p \in Requests \ {q} : hpc'[p] = hpc[p]
        /\ runStatus'[r] = "none" => runStatus[r] = "none"
        /\ Target[q] # r => runStatus'[r] = runStatus[r]
    BY <1>2 DEF RetryMarkPending, SetStatus
  <2>2. WillWrite(r) => WillWrite(r)'
    BY <1>0, <2>1, WillWriteKept
  <2>3. Target[q] = r => WillWrite(r)'
    BY <2>1 DEF WillWrite
  <2> QED
    BY <2>1, <2>2, <2>3 DEF Pending
<1>3. CASE CancelMark(q) \/ Estimate(q)
  <2>1. /\ queue' = queue /\ todo' = todo /\ runStatus' = runStatus
        /\ expStatus'[e] = "running" => expStatus[e] = "running"
        /\ hpc[q] = "new" /\ hpc'[q] \in {"done", "cancelPending"}
        /\ \A p \in Requests \ {q} : hpc'[p] = hpc[p]
    BY <1>0, <1>3 DEF CancelMark, Estimate, SetExpStatus
  <2>2. WillWrite(r) => WillWrite(r)'
    BY <1>0, <2>1, WillWriteKept
  <2> QED
    BY <2>1, <2>2 DEF Pending
<1>4. CASE Delete(q)
  <2>1. /\ queue' = queue /\ todo' = todo
        /\ hpc[q] = "new" /\ hpc'[q] = "done"
        /\ \A p \in Requests \ {q} : hpc'[p] = hpc[p]
        /\ runStatus'[r] \in {runStatus[r], "deleted"}
        /\ expStatus'[e] = "running" => expStatus[e] = "running"
    BY <1>0, <1>4 DEF Delete
  <2>2. WillWrite(r) => WillWrite(r)'
    BY <1>0, <2>1, WillWriteKept
  <2> QED
    BY <2>1, <2>2 DEF Pending
<1>5. CASE StartMarkRunning(q)
  <2>1. /\ queue' = queue /\ todo' = todo /\ runStatus' = runStatus
        /\ Op[q] = "start" /\ hpc[q] = "markRunning" /\ hpc'[q] = "listRunnable"
        /\ \A p \in Requests \ {q} : hpc'[p] = hpc[p]
        /\ Target[q] # e => expStatus'[e] = expStatus[e]
    BY <1>5 DEF StartMarkRunning, SetExpStatus, StepsOf, Endpoints
  <2>2. WillWrite(r) => WillWrite(r)'
    BY <1>0, <2>1, WillWriteKept
  <2>3. Target[q] = e => WillWrite(r)'
    BY <2>1 DEF WillWrite
  <2> QED
    BY <2>1, <2>2, <2>3 DEF Pending
<1>6. CASE StartListRunnable(q)
  <2>1. PICK order \in ByRunNumber(Runnable(Target[q])) :
           /\ todo' = [todo EXCEPT ![q] = order]
           /\ Goto(q, IF order = <<>> THEN "done" ELSE "enqueue")
    BY <1>6 DEF StartListRunnable
  <2>2. /\ queue' = queue /\ expStatus' = expStatus /\ runStatus' = runStatus
        /\ hpc[q] = "listRunnable" /\ todo'[q] = order
        /\ hpc'[q] \in {"done", "enqueue"}
        /\ \A p \in Requests \ {q} : hpc'[p] = hpc[p] /\ todo'[p] = todo[p]
    BY <1>6, <2>1 DEF StartListRunnable
  <2>3. Elem(order, r) <=> r \in Runnable(Target[q])
    BY <2>1, ListedOnce
  <2>4. runStatus[r] = "pending" /\ Target[q] = e => Elem(todo'[q], r)
    BY <2>2, <2>3 DEF Runnable, RunsOf
  <2>5. todo[q] = <<>>
    BY <2>2
  <2>6. ~Elem(todo[q], r)
    BY <2>5 DEF Elem
  <2>7. Op[q] = "start"
    BY <2>2 DEF StepsOf, Endpoints
  <2>8. runStatus[r] = "pending" /\ WillWrite(r) => WillWrite(r)'
    BY <1>0, <2>2, <2>4, <2>6, <2>7, WillWriteListed
  <2> QED
    BY <2>2, <2>8 DEF Pending
<1>7. CASE Enqueue(q)
  <2>1. PICK x \in Runs :
           /\ x = Head(todo[q])
           /\ \A s \in Runs : Elem(queue', s) <=> Elem(queue, s) \/ s = x
    BY <1>7, EnqueueMoves
  <2>2. /\ expStatus' = expStatus /\ runStatus' = runStatus
        /\ hpc[q] = "enqueue" /\ todo[q] # <<>> /\ todo'[q] = Tail(todo[q])
        /\ hpc'[q] \in {"done", "enqueue"}
        /\ \A p \in Requests \ {q} : hpc'[p] = hpc[p] /\ todo'[p] = todo[p]
    BY <1>7 DEF Enqueue
  <2>3. Elem(todo[q], r) => Elem(todo'[q], r) \/ r = x
    BY <2>1, <2>2, TakenElems
  <2>4. WillWrite(r) => WillWrite(r)'
    BY <1>0, <2>1, <2>2, <2>3 DEF WillWrite
  <2> QED
    BY <2>2, <2>4 DEF Pending
<1>8. CASE RetryGetRun(q)
  <2>1. /\ queue' = queue /\ expStatus' = expStatus /\ runStatus' = runStatus
        /\ hpc[q] = "retryGet" /\ hpc'[q] \in {"done", "enqueue"}
        /\ \A p \in Requests \ {q} : hpc'[p] = hpc[p] /\ todo'[p] = todo[p]
        /\ Exists(Target[q]) => todo'[q] = <<Target[q]>>
    BY <1>8 DEF RetryGetRun
  <2>2. todo[q] = <<>>
    BY <2>1
  <2>3. ~Elem(todo[q], r)
    BY <2>2 DEF Elem
  <2>0. Elem(<<r>>, r)
    BY DEF Elem
  <2>4. runStatus[r] = "pending" /\ Target[q] = r => Elem(todo'[q], r)
    <3>1. SUFFICES ASSUME runStatus[r] = "pending", Target[q] = r PROVE Elem(todo'[q], r)
      OBVIOUS
    <3>2. todo'[q] = <<r>>
      BY <2>1, <3>1 DEF Exists
    <3> QED
      BY <2>0, <3>2
  <2>5. Op[q] = "retry"
    BY <2>1 DEF StepsOf, Endpoints
  <2>6. runStatus[r] = "pending" /\ WillWrite(r) => WillWrite(r)'
    BY <1>0, <2>1, <2>3, <2>4, <2>5, WillWriteListed
  <2> QED
    BY <2>1, <2>6 DEF Pending
<1>9. CASE CancelPending(q)
  <2>1. /\ queue' = queue /\ todo' = todo /\ expStatus' = expStatus
        /\ hpc[q] = "cancelPending" /\ hpc'[q] = "cancelContexts"
        /\ \A p \in Requests \ {q} : hpc'[p] = hpc[p]
        /\ runStatus'[r] \in {runStatus[r], "cancelled"}
    BY <1>9 DEF CancelPending
  <2>2. WillWrite(r) => WillWrite(r)'
    BY <1>0, <2>1, WillWriteKept
  <2> QED
    BY <2>1, <2>2 DEF Pending
<1> QED
  BY <1>1, <1>2, <1>3, <1>4, <1>5, <1>6, <1>7, <1>8, <1>9, <1>10 DEF Arrive, HandlerStep

(* A worker whose context lives leaves no run pending.                      *)
LEMMA WorkerWrites ==
  ASSUME TypeOK, NEW w \in Workers, WorkerStep(w) \/ Stream(w), ~ctxDone[w],
         job[w] \in Runs, ExperimentOf[job[w]] \notin TaskGone, pc[w] \notin Leaving
  PROVE  \/ job'[w] = job[w] /\ pc'[w] \notin Leaving
         \/ runStatus'[job[w]] # "pending"
         \/ expStatus'[ExperimentOf[job[w]]] # "running"
<1> USE DEF TypeOK, RowsOK, WorkersOK, rows, workers, Within, Move, Leaving
<1>0. pc[w] # "idle"
  BY RunsAssumption
<1>1. CASE \/ MarkCancelled(w) \/ SetCancelled(w) \/ SetFailed(w)
           \/ SetCompleted(w)
  BY <1>1 DEF MarkCancelled, SetCancelled, SetFailed, SetCompleted, TryStatus,
              SetStatus, Exists
<1>2. CASE \/ SetRunning(w) \/ SetGrading(w)
  BY <1>2 DEF SetRunning, SetGrading
<1>3. CASE \/ Stream(w) \/ SaveFailedTranscript(w) \/ SaveTranscript(w)
           \/ SavePartial(w) \/ SaveGrade(w) \/ Register(w) \/ GetTask(w)
           \/ Prepare(w) \/ Setup(w) \/ InvokeDone(w) \/ Capture(w)
  BY <1>3 DEF Stream, SaveFailedTranscript, SaveTranscript, SavePartial,
       SaveGrade, Register, GetTask, Prepare, Setup, InvokeDone, Capture
<1>4. CASE GetRun(w)
  <2>1. CASE Exists(job[w])
    BY <1>4, <2>1 DEF GetRun
  <2>2. CASE ~Exists(job[w])
    BY <1>4, <2>2 DEF GetRun, Exists
  <2> QED
    BY <2>1, <2>2
<1>5. CASE GetExperiment(w)
  <2>1. \/ expStatus'[ExperimentOf[job[w]]] # "running"
        \/ Move(w, "markCancelled") /\ UNCHANGED job
        \/ Move(w, "register") /\ UNCHANGED job
    BY <1>5 DEF GetExperiment
  <2> QED
    BY <2>1
<1>6. ~Dequeue(w) /\ ~Unregister(w) /\ ~ListRuns(w) /\ ~SetExpCompleted(w)
  BY <1>0 DEF Dequeue, Unregister, ListRuns, SetExpCompleted
<1> QED
  BY <1>1, <1>2, <1>3, <1>4, <1>5, <1>6 DEF WorkerStep

(* Nor does it make one pending, or forget one that is queued.              *)
LEMMA WorkerPending ==
  ASSUME TypeOK, NEW w \in Workers, WorkerStep(w) \/ Stream(w), ~ctxDone[w],
         NEW r \in Runs, Pending(r)
  PROVE  Pending(r)'
<1> USE RunsAssumption
<1>1. hpc' = hpc /\ todo' = todo
  BY WorkerFrame
<1>2. expStatus'[ExperimentOf[r]] = "running" => expStatus[ExperimentOf[r]] = "running"
  BY WorkerParts
<1>3. /\ runStatus'[r] = "none" => runStatus[r] = "none"
      /\ runStatus'[r] = "pending" => runStatus[r] = "pending"
  <2>1. CASE r # job[w]
    BY <2>1, WorkerRows
  <2>2. CASE runStatus' = runStatus
    BY <2>2
  <2>3. CASE /\ r = job[w]
             /\ \/ MarkCancelled(w) \/ SetRunning(w) \/ SetCancelled(w)
                \/ SetFailed(w) \/ SetGrading(w) \/ SetCompleted(w)
    BY <2>3 DEF MarkCancelled, SetRunning, SetCancelled, SetFailed, SetGrading,
         SetCompleted, TryStatus, SetStatus, Exists, TypeOK, RowsOK
  <2>4. CASE \/ Stream(w) \/ SaveFailedTranscript(w) \/ SaveTranscript(w)
             \/ SavePartial(w) \/ SaveGrade(w) \/ Register(w) \/ GetTask(w)
             \/ Prepare(w) \/ Setup(w) \/ InvokeDone(w) \/ Capture(w)
             \/ Dequeue(w) \/ GetRun(w) \/ GetExperiment(w) \/ Unregister(w)
             \/ ListRuns(w) \/ SetExpCompleted(w)
    BY <2>4 DEF rows, Stream, SaveFailedTranscript, SaveTranscript,
         SavePartial, SaveGrade, Register, GetTask, Prepare, Setup, InvokeDone,
         Capture, Dequeue, GetRun, GetExperiment, Unregister, ListRuns,
         SetExpCompleted
  <2> QED
    BY <2>1, <2>2, <2>3, <2>4 DEF WorkerStep
<1>4. ASSUME runStatus'[r] = "pending", expStatus'[ExperimentOf[r]] = "running",
             ExperimentOf[r] \notin TaskGone
      PROVE  WillWrite(r)'
  <2>1. WillWrite(r)
    BY <1>2, <1>3, <1>4 DEF Pending
  <2>2. ASSUME NEW q \in Requests,
               \/ Op[q] = "start" /\ hpc[q] = "listRunnable" /\ Target[q] = ExperimentOf[r]
               \/ Op[q] = "retry" /\ hpc[q] = "retryGet" /\ Target[q] = r
               \/ Elem(todo[q], r)
        PROVE  WillWrite(r)'
    BY <1>1, <2>2 DEF WillWrite, Elem
  <2>3. CASE Elem(queue, r)
    <3>1. \/ Elem(queue', r)
          \/ job'[w] = r /\ pc'[w] = "getRun"
      <4>1. CASE queue' = queue
        BY <2>3, <4>1
      <4>2. CASE queue # <<>> /\ job'[w] = Head(queue) /\ queue' = Tail(queue)
                 /\ pc'[w] = "getRun"
        BY <2>3, <4>2, TakenElems DEF TypeOK, WorkersOK
      <4> QED
        BY <4>1, <4>2, WorkerTakes
    <3> QED
      BY <3>1 DEF WillWrite, Leaving, Elem
  <2>4. ASSUME NEW v \in Workers, job[v] = r, pc[v] \notin Leaving
        PROVE  WillWrite(r)'
    <3>1. CASE v # w
      <4>1. job'[v] = job[v] /\ pc'[v] = pc[v]
        BY <3>1, WorkerRows
      <4> QED
        BY <2>4, <4>1 DEF WillWrite, Leaving
    <3>2. CASE v = w
      <4>1. job'[w] = r /\ pc'[w] \notin Leaving
        BY <1>4, <2>4, <3>2, WorkerWrites
      <4> QED
        BY <4>1 DEF WillWrite, Leaving
    <3> QED
      BY <3>1, <3>2
  <2> QED
    BY <2>1, <2>2, <2>3, <2>4 DEF WillWrite
<1> QED
  BY <1>1, <1>2, <1>3, <1>4 DEF Pending

LEMMA PendingStep ==
  ASSUME Uninterrupted
  PROVE  TypeOK /\ RowInv /\ PendingInv /\ [Next]_vars => PendingInv'
<1> SUFFICES ASSUME TypeOK, RowInv, PendingInv, [Next]_vars PROVE PendingInv'
  OBVIOUS
<1>1. /\ ~Restart
      /\ \A q \in Requests : ~LoseClient(q) /\ ~CancelContexts(q)
      /\ \A w \in Workers : ~ctxDone'[w]
  BY NoneCancelled
<1>2. ASSUME NEW r \in Runs PROVE Pending(r)'
  <2>1. Pending(r) /\ \A w \in Workers : ~ctxDone[w]
    BY DEF PendingInv
  <2>2. ASSUME NEW q \in Requests, Arrive(q) \/ HandlerStep(q) PROVE Pending(r)'
    BY <1>1, <2>1, <2>2, HandlerPending
  <2>3. ASSUME NEW w \in Workers, WorkerStep(w) \/ Stream(w) PROVE Pending(r)'
    BY <2>1, <2>3, WorkerPending
  <2>4. CASE UNCHANGED vars
    <3>1. /\ UNCHANGED <<pc, job, queue, todo, hpc>>
          /\ expStatus' = expStatus /\ runStatus' = runStatus
      BY <2>4 DEF vars, workers, handlers, rows
    <3>2. WillWrite(r) => WillWrite(r)'
      BY <3>1, WillWriteKept
    <3> QED
      BY <2>1, <3>1, <3>2 DEF Pending
  <2> QED
    BY <1>1, <2>2, <2>3, <2>4 DEF Next, Idle
<1> QED
  BY <1>1, <1>2 DEF PendingInv

(* Unless somebody cancels, hangs up in the middle of a request or stops    *)
(* the engine, every pending run of a running experiment whose task row is  *)
(* there is still listed, queued or executed, with any number of workers    *)
(* and slots and whatever is started twice, retried, estimated or deleted   *)
(* (orchestrator.go:86-119, 319-349, queue.go:49-51).                       *)
THEOREM NothingForgotten ==
  ASSUME Uninterrupted
  PROVE  Spec => []PendingRunHasJob
<1>1. Init => PendingInv
  BY RunsAssumption DEF Init, PendingInv, Pending
<1>2. PendingInv => PendingRunHasJob
  BY DEF PendingInv, Pending, WillWrite, PendingRunHasJob, HasJob, InQueue, Elem
<1> QED
  BY <1>1, <1>2, TypeCorrect, RowInit, RowStep, PendingStep, PTL DEF Spec

-----------------------------------------------------------------------------
(* Every run lives one life.                                                *)

(* A run that may be executed next, or is gone.                             *)
Resting(r) == runStatus[r] \in {"pending", "failed", "cancelled", "deleted"}

Approach == {"getRun", "getExperiment", "markCancelled", "register", "getTask",
             "prepare", "setRunning"}
Agent    == {"setup", "invoke", "saveFailedTranscript", "capture",
             "saveTranscript", "setGrading"}
Grading  == {"savePartial", "saveGrade", "setCompleted"}
Ending   == {"setCancelled", "setFailed"}

(* What the rows of the run say at each step of its worker.                 *)
Lived(w) == LET r == job[w] IN
    /\ pc[w] \in Approach => Resting(r)
    /\ pc[w] \in Agent \cup Grading \cup Ending =>
         runStatus[r] \notin {"none", "completed"}
    /\ ~ctxDone[w] /\ runStatus[r] # "deleted" =>
         /\ pc[w] \in Agent => runStatus[r] = "running"
         /\ pc[w] \in Grading => runStatus[r] = "grading"
         /\ pc[w] \in Grading \cup {"setGrading"} => transcript[r] = "final"
         /\ pc[w] = "saveGrade" => grade[r] = "partial"
         /\ pc[w] = "setCompleted" => grade[r] = "full"

(* Whatever is on its way to a worker rests.                                *)
LifeInv ==
    /\ \A r \in Runs : Elem(queue, r) => Resting(r)
    /\ \A q \in Requests, r \in Runs : Elem(todo[q], r) => Resting(r)
    /\ \A q \in Requests : hpc[q] = "retryGet" =>
         Resting(Target[q]) \/ runStatus[Target[q]] = "none"
    /\ \A w \in Workers : Lived(w)

(* What a request may make of the status of a run.                          *)
LEMMA HandlerTurns ==
  ASSUME TypeOK, NEW q \in Requests,
         Arrive(q) \/ HandlerStep(q) \/ LoseClient(q), NEW r \in Runs
  PROVE  \/ runStatus'[r] = runStatus[r]
         \/ runStatus'[r] = "deleted"
         \/ runStatus[r] = "none" /\ runStatus'[r] = "pending"
         \/ runStatus[r] = "pending" /\ runStatus'[r] = "cancelled"
         \/ /\ runStatus'[r] = "pending" /\ runStatus[r] # "none"
            /\ Asks(q, r) /\ hpc[q] = "new" /\ hpc'[q] # "new"
<1> USE DEF TypeOK, RowsOK, HandlersOK, rows
<1>1. CASE StartEnsure(q)
  BY <1>1 DEF StartEnsure
<1>2. CASE RetryMarkPending(q)
  <2>1. /\ Op[q] = "retry" /\ hpc[q] = "new" /\ hpc'[q] # "new"
        /\ r # Target[q] => runStatus'[r] = runStatus[r]
        /\ r = Target[q] => \/ runStatus'[r] = runStatus[r]
                            \/ runStatus'[r] = "pending" /\ runStatus[r] # "none"
    BY <1>2 DEF RetryMarkPending, SetStatus, Exists, Goto
  <2> QED
    BY <2>1 DEF Asks
<1>3. CASE Delete(q)
  BY <1>3 DEF Delete
<1>4. CASE CancelPending(q)
  BY <1>4 DEF CancelPending
<1>5. CASE \/ StartGetExperiment(q) \/ CancelMark(q) \/ Estimate(q) \/ LoseClient(q)
           \/ StartMarkRunning(q) \/ StartListRunnable(q) \/ Enqueue(q)
           \/ RetryGetRun(q) \/ CancelContexts(q)
  BY <1>5 DEF StartGetExperiment, CancelMark, Estimate, LoseClient, StartMarkRunning,
              StartListRunnable, Enqueue, RetryGetRun, CancelContexts
<1> QED
  BY <1>1, <1>2, <1>3, <1>4, <1>5 DEF Arrive, HandlerStep

(* What a handler lists rests.                                              *)
LEMMA ListedRests ==
  ASSUME TypeOK, LifeInv, NEW q \in Requests,
         Arrive(q) \/ HandlerStep(q) \/ LoseClient(q),
         NEW p \in Requests, NEW r \in Runs, Elem(todo'[p], r)
  PROVE  Resting(r)
<1> USE DEF TypeOK, HandlersOK, Goto
<1>1. CASE p # q \/ todo' = todo
  BY <1>1, HandlerAsks DEF LifeInv
<1>2. CASE p = q /\ StartListRunnable(q)
  <2>1. PICK order \in ByRunNumber(Runnable(Target[q])) : todo' = [todo EXCEPT ![q] = order]
    BY <1>2 DEF StartListRunnable
  <2>2. r \in Runnable(Target[q])
    BY <1>2, <2>1, ListedOnce
  <2> QED
    BY <2>2 DEF Runnable, Resting
<1>3. CASE p = q /\ Enqueue(q)
  <2>1. todo[q] # <<>> /\ todo[q] \in Seq(Runs) /\ todo'[q] = Tail(todo[q])
    BY <1>3 DEF Enqueue
  <2>2. Elem(todo[q], r)
    BY <1>3, <2>1, TakenElems
  <2> QED
    BY <2>2 DEF LifeInv
<1>4. CASE p = q /\ RetryGetRun(q) /\ todo' # todo
  <2>1. hpc[q] = "retryGet" /\ Exists(Target[q]) /\ todo'[q] = <<Target[q]>>
    BY <1>4 DEF RetryGetRun
  <2>2. r = Target[q]
    BY <1>4, <2>1 DEF Elem
  <2> QED
    BY <2>1, <2>2 DEF LifeInv, Exists
<1>5. CASE \/ Arrive(q) \/ LoseClient(q) \/ StartEnsure(q) \/ StartMarkRunning(q)
           \/ CancelPending(q) \/ CancelContexts(q)
  <2>1. todo' = todo
    BY <1>5 DEF Arrive, StartGetExperiment, StartEnsure, RetryMarkPending, CancelMark, Estimate, Delete,
                LoseClient, StartMarkRunning, CancelPending, CancelContexts
  <2> QED
    BY <1>1, <2>1
<1> QED
  BY <1>1, <1>2, <1>3, <1>4, <1>5 DEF HandlerStep

LEMMA HandlerLives ==
  ASSUME TypeOK, AskedWhenFree, LifeInv, NEW q \in Requests,
         Arrive(q) \/ HandlerStep(q) \/ LoseClient(q)
  PROVE  LifeInv'
<1>1. \A r \in Runs : Resting(r) => Resting(r)'
  BY HandlerTurns DEF Resting
<1>2. ASSUME NEW r \in Runs, Elem(queue', r) PROVE Resting(r)'
  <2>1. CASE queue' = queue
    BY <1>1, <1>2, <2>1 DEF LifeInv
  <2>2. CASE Enqueue(q)
    BY <1>1, <1>2, <2>2, EnqueueMoves DEF LifeInv
  <2> QED
    BY <2>1, <2>2, HandlerQueueFrame
<1>3. \A p \in Requests, r \in Runs : Elem(todo'[p], r) => Resting(r)'
  BY <1>1, ListedRests
<1>4. ASSUME NEW p \in Requests, hpc'[p] = "retryGet"
      PROVE  Resting(Target[p])' \/ runStatus'[Target[p]] = "none"
  <2>1. CASE hpc[p] = "retryGet"
    <3>1. Target[p] \in Runs
      <4>1. Op[p] = "retry"
        BY <2>1, RequestsAssumption DEF TypeOK, HandlersOK, StepsOf, Endpoints
      <4> QED
        BY <4>1, RequestsAssumption
    <3>2. Resting(Target[p]) \/ runStatus[Target[p]] = "none"
      BY <2>1 DEF LifeInv
    <3> QED
      BY <3>1, <3>2, HandlerTurns DEF Resting
  <2>2. CASE hpc[p] # "retryGet"
    <3>1. p = q
      BY <1>4, <2>2, HandlerAsks
    <3>2. RetryMarkPending(q)
      BY <1>4, <2>2, <3>1 DEF Arrive, HandlerStep, LoseClient, Goto, TypeOK, HandlersOK,
         StartGetExperiment, StartEnsure, CancelMark, Estimate, Delete, StartMarkRunning, StartListRunnable,
         Enqueue, RetryGetRun, CancelPending, CancelContexts
    <3>3. Target[q] \in Runs
      BY <3>2, RequestsAssumption DEF RetryMarkPending
    <3> QED
      BY <3>1, <3>2, <3>3 DEF RetryMarkPending, SetStatus, Exists, Resting, TypeOK, RowsOK
  <2> QED
    BY <2>1, <2>2
<1>5. ASSUME NEW w \in Workers PROVE Lived(w)'
  <2>1. pc' = pc /\ job' = job
    BY HandlerFrame
  <2>2. Lived(w)
    BY DEF LifeInv
  <2>3. CASE pc[w] = "idle"
    BY <2>1, <2>3 DEF Lived, Approach, Agent, Grading, Ending
  <2>4. CASE pc[w] # "idle"
    <3>0. PICK r \in Runs : r = job[w]
      BY <2>4 DEF TypeOK, WorkersOK
    <3>1. Executed(r)
      BY <3>0 DEF Executed
    <3>2. ~(Asks(q, r) /\ hpc[q] = "new" /\ hpc'[q] # "new")
      BY <3>1 DEF AskedWhenFree, Wanted
    <3>3. /\ runStatus'[r] = "none" => runStatus[r] = "none"
          /\ runStatus'[r] = "completed" => runStatus[r] = "completed"
          /\ \/ runStatus'[r] = "deleted"
             \/ /\ runStatus[r] # "deleted"
                /\ transcript'[r] = transcript[r]
                /\ grade'[r] = grade[r]
      BY <3>1, HandlerRows
    <3>4. \/ runStatus'[r] = runStatus[r]
          \/ runStatus'[r] = "deleted"
          \/ runStatus[r] = "none" /\ runStatus'[r] = "pending"
          \/ runStatus[r] = "pending" /\ runStatus'[r] = "cancelled"
      BY <3>1, <3>2, HandlerTurns
    <3>5. ~ctxDone'[w] => ~ctxDone[w]
      BY HandlerContexts
    <3>6. Resting(r) => Resting(r)'
      BY <1>1, <3>1
    <3> QED
      BY <2>1, <2>2, <3>0, <3>3, <3>4, <3>5, <3>6 DEF Lived, Resting, Agent, Grading, Ending
  <2> QED
    BY <2>3, <2>4
<1> QED
  BY <1>2, <1>3, <1>4, <1>5 DEF LifeInv, Elem

(* The step of a worker keeps what it says of its own run.                  *)
LEMMA OwnLife ==
  ASSUME TypeOK, LifeInv, NEW w \in Workers, WorkerStep(w) \/ Stream(w)
  PROVE  Lived(w)'
<1> USE DEF TypeOK, RowsOK, WorkersOK, rows, workers, Move, Within, Release,
        Approach, Agent, Grading, Ending
<1>0. Lived(w)
  BY DEF LifeInv
<1>1. CASE Dequeue(w)
  <2>1. PICK r \in Runs : Elem(queue, r) /\ job'[w] = r /\ pc'[w] = "getRun" /\ runStatus' = runStatus
    BY <1>1, WorkerTakes, TakenElems DEF Dequeue
  <2> QED
    BY <2>1 DEF LifeInv, Resting, Lived
<1>2. CASE pc'[w] = "idle"
  BY <1>2 DEF Lived
<1>3. CASE pc'[w] # "idle" /\ (GetRun(w) \/ GetExperiment(w) \/ ListRuns(w))
  <2>1. /\ pc'[w] \in {"getExperiment", "markCancelled", "register", "setExpCompleted"}
        /\ pc'[w] # "setExpCompleted" => pc[w] \in Approach
        /\ job'[w] = job[w] /\ runStatus' = runStatus
    BY <1>3 DEF GetRun, GetExperiment, ListRuns
  <2> QED
    BY <1>0, <2>1 DEF Lived, Resting
<1> DEFINE r == job[w]
<1>4. CASE \/ Register(w) \/ GetTask(w) \/ Prepare(w) \/ Setup(w)
           \/ InvokeDone(w) \/ Capture(w) \/ Unregister(w)
  BY <1>0, <1>4 DEF Lived, Resting, Register, GetTask, Prepare, Setup, InvokeDone,
     Capture, Unregister
<1>5. CASE \/ MarkCancelled(w) \/ SetCancelled(w) \/ SetFailed(w) \/ SetCompleted(w)
  BY <1>5 DEF Lived, MarkCancelled, SetCancelled, SetFailed, SetCompleted
<1>6. CASE SetRunning(w)
  <2>1. /\ pc[w] = "setRunning" /\ pc'[w] = "setup" /\ job' = job /\ ctxDone' = ctxDone
        /\ r \in Runs /\ Resting(r)
    BY <1>0, <1>6 DEF SetRunning, Lived
  <2>2. runStatus'[r] = IF ctxDone[w] \/ runStatus[r] = "deleted" THEN runStatus[r] ELSE "running"
    BY <1>6, <2>1 DEF SetRunning, TryStatus, SetStatus, Exists, Resting
  <2> QED
    BY <2>1, <2>2 DEF Lived, Resting
<1>7. CASE SetGrading(w)
  <2>1. /\ pc[w] = "setGrading" /\ pc'[w] = "savePartial" /\ job' = job /\ ctxDone' = ctxDone
        /\ r \in Runs /\ transcript' = transcript /\ grade' = grade
    BY <1>7 DEF SetGrading
  <2>2. runStatus[r] \notin {"none", "completed"}
    BY <1>0, <2>1 DEF Lived
  <2>3. runStatus'[r] = IF ctxDone[w] \/ runStatus[r] = "deleted" THEN runStatus[r] ELSE "grading"
    BY <1>7, <2>1, <2>2 DEF SetGrading, TryStatus, SetStatus, Exists
  <2> QED
    BY <1>0, <2>1, <2>2, <2>3 DEF Lived
<1>8. CASE \/ Stream(w) \/ SaveFailedTranscript(w) \/ SaveTranscript(w)
  BY <1>0, <1>8 DEF Lived, Stream, SaveFailedTranscript, SaveTranscript, TryTranscript
<1>9. CASE \/ SavePartial(w) \/ SaveGrade(w)
  BY <1>0, <1>9 DEF Lived, SavePartial, SaveGrade
<1>10. CASE SetExpCompleted(w)
  BY <1>10 DEF Lived, SetExpCompleted
<1> QED
  BY <1>1, <1>2, <1>3, <1>4, <1>5, <1>6, <1>7, <1>8, <1>9, <1>10 DEF WorkerStep

LEMMA WorkerLives ==
  ASSUME TypeOK, OnePlace, LifeInv, NEW w \in Workers, WorkerStep(w) \/ Stream(w)
  PROVE  LifeInv'
<1>1. hpc' = hpc /\ todo' = todo
  BY WorkerFrame
<1>2. \A r \in Runs : ~Executed(r) => runStatus'[r] = runStatus[r]
  BY WorkerRows DEF Executed
<1>3. ASSUME NEW r \in Runs, Elem(queue', r) PROVE Resting(r)'
  <2>1. Elem(queue, r) /\ ~Executed(r)
    BY <1>3, WorkerHolds DEF OnePlace
  <2> QED
    BY <1>2, <2>1 DEF LifeInv, Resting
<1>4. ASSUME NEW q \in Requests, NEW r \in Runs, Elem(todo[q], r) PROVE Resting(r)'
  <2>1. ~Executed(r)
    BY <1>4 DEF OnePlace, Active
  <2> QED
    BY <1>2, <1>4, <2>1 DEF LifeInv, Resting
<1>5. ASSUME NEW q \in Requests, hpc[q] = "retryGet"
      PROVE  Resting(Target[q])' \/ runStatus'[Target[q]] = "none"
  <2>1. Op[q] = "retry"
    BY <1>5, RequestsAssumption DEF TypeOK, HandlersOK, StepsOf, Endpoints
  <2>2. Target[q] \in Runs /\ Active(q, Target[q])
    BY <1>5, <2>1, RequestsAssumption DEF Active, Asks, Before
  <2>3. runStatus'[Target[q]] = runStatus[Target[q]]
    BY <1>2, <2>2 DEF OnePlace
  <2> QED
    BY <1>5, <2>3 DEF LifeInv, Resting
<1>6. ASSUME NEW v \in Workers PROVE Lived(v)'
  <2>1. CASE v = w
    BY <2>1, OwnLife
  <2>2. CASE v # w
    <3>1. pc'[v] = pc[v] /\ job'[v] = job[v] /\ ctxDone'[v] = ctxDone[v] /\ Lived(v)
      BY <2>2, WorkerRows DEF LifeInv
    <3>2. CASE pc[v] = "idle"
      BY <3>1, <3>2 DEF Lived, Approach, Agent, Grading, Ending
    <3>3. CASE job[v] \in Runs
      <4>1. job[v] # job[w]
        BY <2>2, <3>3, RunsAssumption DEF OnePlace, Exclusive
      <4>2. /\ runStatus'[job[v]] = runStatus[job[v]]
            /\ transcript'[job[v]] = transcript[job[v]]
            /\ grade'[job[v]] = grade[job[v]]
        BY <3>3, <4>1, WorkerRows
      <4> QED
        BY <3>1, <4>2 DEF Lived, Resting
    <3> QED
      BY <3>2, <3>3 DEF TypeOK, WorkersOK
  <2> QED
    BY <2>1, <2>2
<1> QED
  BY <1>1, <1>3, <1>4, <1>5, <1>6 DEF LifeInv, Elem

LEMMA LifeStep ==
  TypeOK /\ OnePlace /\ LifeInv /\ [AskedWhenFree]_vars /\ [Next]_vars => LifeInv'
<1> SUFFICES ASSUME TypeOK, OnePlace, LifeInv, [AskedWhenFree]_vars, [Next]_vars
             PROVE  LifeInv'
  OBVIOUS
<1>1. CASE UNCHANGED vars
  <2>1. UNCHANGED <<runStatus, transcript, grade, queue, todo, hpc, pc, job, ctxDone>>
    BY <1>1 DEF vars, rows, workers, handlers
  <2> QED
    BY <2>1 DEF LifeInv, Elem, Resting, Lived
<1>2. CASE Restart
  <2>1. /\ \A r \in Runs : ~Elem(queue', r) /\ \A q \in Requests : ~Elem(todo'[q], r)
        /\ \A q \in Requests : hpc'[q] # "retryGet"
        /\ \A w \in Workers : pc'[w] = "idle"
    BY <1>2, RestartEmpties DEF Restart, Before
  <2> QED
    BY <2>1 DEF LifeInv, Elem, Lived, Approach, Agent, Grading, Ending
<1>3. ASSUME NEW q \in Requests, Arrive(q) \/ HandlerStep(q) \/ LoseClient(q), AskedWhenFree
      PROVE  LifeInv'
  BY <1>3, HandlerLives
<1>4. ASSUME NEW w \in Workers, WorkerStep(w) \/ Stream(w) PROVE LifeInv'
  BY <1>4, WorkerLives
<1> QED
  BY <1>1, <1>2, <1>3, <1>4 DEF Next, Idle

LEMMA LifeInit == Init => LifeInv
<1> SUFFICES ASSUME Init PROVE LifeInv
  OBVIOUS
<1>1. /\ queue = <<>> /\ \A q \in Requests : todo[q] = <<>> /\ hpc[q] = "new"
      /\ \A w \in Workers : pc[w] = "idle"
  BY DEF Init
<1>2. DOMAIN <<>> = {}
  OBVIOUS
<1> QED
  BY <1>1, <1>2 DEF LifeInv, Elem, Lived, Approach, Agent, Grading, Ending

(* A statement on the status of one row.                                    *)
LEMMA OneTurns ==
  ASSUME TypeOK, NEW r \in Runs, NEW from, NEW to, SetStatus(r, to),
         UNCHANGED <<transcript, grade>>,
         Exists(r) => runStatus[r] \in from
  PROVE  Life!Turn({r}, from, to) \/ UNCHANGED <<runStatus, transcript, grade>>
<1>1. CASE Exists(r)
  <2>1. runStatus' = [x \in Runs |-> IF x \in {r} THEN to ELSE runStatus[x]]
    BY <1>1 DEF SetStatus, TypeOK, RowsOK
  <2> QED
    BY <1>1, <2>1 DEF Life!Turn
<1>2. CASE ~Exists(r)
  BY <1>2 DEF SetStatus
<1> QED
  BY <1>1, <1>2

LEMMA HandlerImplements ==
  ASSUME TypeOK, NEW q \in Requests, Arrive(q) \/ HandlerStep(q) \/ LoseClient(q)
  PROVE  Life!Next \/ UNCHANGED <<runStatus, transcript, grade>>
<1> USE DEF TypeOK, RowsOK, rows
<1>1. CASE StartEnsure(q)
  <2>1. PICK S \in SUBSET {r \in RunsOf(Target[q]) : runStatus[r] = "none" /\ ~HasRow(r)} :
          runStatus' = [r \in Runs |-> IF r \in S THEN "pending" ELSE runStatus[r]]
    BY <1>1 DEF StartEnsure
  <2>2. S \in SUBSET Runs
    BY DEF RunsOf
  <2>3. Life!Create(S)
    BY <1>1, <2>1, <2>2 DEF StartEnsure, Life!Create, Life!Turn
  <2> QED
    BY <2>2, <2>3 DEF Life!Next
<1>2. CASE RetryMarkPending(q)
  <2>1. Target[q] \in Runs /\ Target[q] \in RetriedRuns
    BY <1>2, RequestsAssumption DEF RetryMarkPending, RetriedRuns
  <2>2. \/ Life!Turn({Target[q]}, Life!Unfinished \cup {"completed"}, "pending")
        \/ UNCHANGED <<runStatus, transcript, grade>>
    BY <1>2, <2>1, OneTurns DEF RetryMarkPending, Exists, Life!Unfinished, Life!Waiting, RunStatuses
  <2> QED
    BY <2>1, <2>2 DEF Life!Next, Life!Retry
<1>3. CASE Delete(q)
  <2> DEFINE S == {r \in RunsOf(Target[q]) : Exists(r)}
  <2>1. Life!Delete(S)
    BY <1>3 DEF Delete, Life!Delete
  <2>2. S \in SUBSET Runs
    BY DEF RunsOf
  <2> QED
    BY <2>1, <2>2 DEF Life!Next
<1>4. CASE CancelPending(q)
  <2> DEFINE S == {r \in Runs : ExperimentOf[r] = Target[q] /\ runStatus[r] = "pending"}
  <2>1. runStatus' = [r \in Runs |-> IF ExperimentOf[r] = Target[q] /\ runStatus[r] = "pending"
                                     THEN "cancelled" ELSE runStatus[r]]
    BY <1>4 DEF CancelPending
  <2>2. runStatus' = [r \in Runs |-> IF r \in S THEN "cancelled" ELSE runStatus[r]]
    BY <2>1
  <2>3. Life!CancelPending(S)
    BY <1>4, <2>2 DEF CancelPending, Life!CancelPending, Life!Turn
  <2> QED
    BY <2>3 DEF Life!Next
<1>5. CASE \/ StartGetExperiment(q) \/ CancelMark(q) \/ Estimate(q) \/ LoseClient(q)
           \/ StartMarkRunning(q) \/ StartListRunnable(q) \/ Enqueue(q)
           \/ RetryGetRun(q) \/ CancelContexts(q)
  BY <1>5 DEF StartGetExperiment, CancelMark, Estimate, LoseClient, StartMarkRunning,
              StartListRunnable, Enqueue, RetryGetRun, CancelContexts
<1> QED
  BY <1>1, <1>2, <1>3, <1>4, <1>5 DEF Arrive, HandlerStep

LEMMA WorkerImplements ==
  ASSUME TypeOK, NEW w \in Workers, Lived(w), WorkerStep(w) \/ Stream(w)
  PROVE  Life!Next \/ UNCHANGED <<runStatus, transcript, grade>>
<1> USE DEF rows
<1>1. CASE \/ Dequeue(w) \/ GetRun(w) \/ GetExperiment(w) \/ Register(w)
           \/ GetTask(w) \/ Prepare(w) \/ Setup(w) \/ InvokeDone(w)
           \/ Capture(w) \/ Unregister(w) \/ ListRuns(w) \/ SetExpCompleted(w)
  BY <1>1 DEF Dequeue, GetRun, GetExperiment, Register, GetTask, Prepare, Setup,
     InvokeDone, Capture, Unregister, ListRuns, SetExpCompleted
<1>2. SUFFICES ASSUME NEW r \in Runs, r = job[w],
                      \/ MarkCancelled(w) \/ SetRunning(w) \/ SetCancelled(w)
                      \/ SetFailed(w) \/ SetGrading(w) \/ SetCompleted(w)
                      \/ Stream(w) \/ SaveFailedTranscript(w) \/ SaveTranscript(w)
                      \/ SavePartial(w) \/ SaveGrade(w)
               PROVE  Life!Next \/ UNCHANGED <<runStatus, transcript, grade>>
  <2>1. CASE pc[w] = "idle"
    BY <1>1, <2>1 DEF WorkerStep, MarkCancelled, SetRunning, SetCancelled, SetFailed,
       SetGrading, SetCompleted, Stream, SaveFailedTranscript, SaveTranscript,
       SavePartial, SaveGrade
  <2> QED
    BY <1>1, <1>2, <2>1 DEF WorkerStep, TypeOK, WorkersOK
<1>3. CASE MarkCancelled(w) \/ SetCancelled(w)
  <2>1. SetStatus(r, "cancelled") /\ UNCHANGED <<transcript, grade>>
        /\ pc[w] \in Approach \cup Ending
    BY <1>2, <1>3 DEF MarkCancelled, SetCancelled, Approach, Ending
  <2>2. Exists(r) => runStatus[r] \in Life!Unfinished
    BY <1>2, <2>1 DEF Lived, Resting, Exists, Life!Unfinished, Life!Waiting, TypeOK, RowsOK, RunStatuses
  <2>3. Life!Cancel(r) \/ UNCHANGED <<runStatus, transcript, grade>>
    BY <2>1, <2>2, OneTurns DEF Life!Cancel
  <2> QED
    BY <2>3 DEF Life!Next
<1>4. CASE /\ ctxDone[w]
           /\ \/ SetRunning(w) \/ SetFailed(w) \/ SetGrading(w) \/ SetCompleted(w)
              \/ Stream(w) \/ SaveFailedTranscript(w) \/ SaveTranscript(w)
              \/ SavePartial(w) \/ SaveGrade(w)
  BY <1>4 DEF SetRunning, SetFailed, SetGrading, SetCompleted, Stream, SaveFailedTranscript,
     SaveTranscript, SavePartial, SaveGrade, TryStatus, TryTranscript
<1>5. CASE ~ctxDone[w] /\ SetRunning(w)
  <2>1. SetStatus(r, "running") /\ UNCHANGED <<transcript, grade>> /\ pc[w] \in Approach
    BY <1>2, <1>5 DEF SetRunning, TryStatus, Approach
  <2>2. Exists(r) => runStatus[r] \in Life!Waiting
    BY <1>2, <2>1 DEF Lived, Resting, Exists, Life!Waiting
  <2>3. Life!Begin(r) \/ UNCHANGED <<runStatus, transcript, grade>>
    BY <2>1, <2>2, OneTurns DEF Life!Begin
  <2> QED
    BY <2>3 DEF Life!Next
<1>6. CASE ~ctxDone[w] /\ SetFailed(w)
  <2>1. SetStatus(r, "failed") /\ UNCHANGED <<transcript, grade>> /\ pc[w] \in Ending
    BY <1>2, <1>6 DEF SetFailed, TryStatus, Ending
  <2>2. Exists(r) => runStatus[r] \in Life!Unfinished
    BY <1>2, <2>1 DEF Lived, Exists, Life!Unfinished, Life!Waiting, TypeOK, RowsOK, RunStatuses
  <2>3. Life!Fail(r) \/ UNCHANGED <<runStatus, transcript, grade>>
    BY <2>1, <2>2, OneTurns DEF Life!Fail
  <2> QED
    BY <2>3 DEF Life!Next
<1>7. CASE ~ctxDone[w] /\ SetGrading(w)
  <2>1. SetStatus(r, "grading") /\ UNCHANGED <<transcript, grade>> /\ pc[w] = "setGrading"
    BY <1>2, <1>7 DEF SetGrading, TryStatus
  <2>2. Exists(r) => runStatus[r] = "running" /\ transcript[r] = "final"
    BY <1>2, <1>7, <2>1 DEF Lived, Exists, Agent
  <2>3. Life!Turn({r}, {"running"}, "grading") \/ UNCHANGED <<runStatus, transcript, grade>>
    BY <2>1, <2>2, OneTurns
  <2>4. Exists(r) \/ UNCHANGED <<runStatus, transcript, grade>>
    BY <2>1 DEF SetStatus
  <2> QED
    BY <2>2, <2>3, <2>4 DEF Life!Next, Life!BeginGrading
<1>8. CASE ~ctxDone[w] /\ SetCompleted(w)
  <2>1. SetStatus(r, "completed") /\ UNCHANGED <<transcript, grade>> /\ pc[w] = "setCompleted"
    BY <1>2, <1>8 DEF SetCompleted, TryStatus
  <2>2. Exists(r) => runStatus[r] = "grading" /\ transcript[r] = "final" /\ grade[r] = "full"
    BY <1>2, <1>8, <2>1 DEF Lived, Exists, Grading
  <2>3. Life!Turn({r}, {"grading"}, "completed") \/ UNCHANGED <<runStatus, transcript, grade>>
    BY <2>1, <2>2, OneTurns
  <2>4. Exists(r) \/ UNCHANGED <<runStatus, transcript, grade>>
    BY <2>1 DEF SetStatus
  <2> QED
    BY <2>2, <2>3, <2>4 DEF Life!Next, Life!Complete
<1>9. CASE ~ctxDone[w] /\ (Stream(w) \/ SaveFailedTranscript(w) \/ SaveTranscript(w))
  <2>1. PICK t \in {"partial", "final"} : transcript' = [transcript EXCEPT ![r] = t]
    BY <1>2, <1>9 DEF Stream, SaveFailedTranscript, SaveTranscript, TryTranscript
  <2>2. UNCHANGED <<runStatus, grade>> /\ pc[w] \in Agent
    BY <1>9 DEF Stream, SaveFailedTranscript, SaveTranscript, Agent
  <2>3. runStatus[r] \in {"running", "deleted"}
    BY <1>2, <1>9, <2>2 DEF Lived
  <2>4. Life!SaveTranscript(r, t) \/ Life!WriteLate(r)
    BY <2>1, <2>2, <2>3 DEF Life!SaveTranscript, Life!WriteLate
  <2> QED
    BY <2>1, <2>4 DEF Life!Next
<1>10. CASE ~ctxDone[w] /\ SavePartial(w)
  <2>1. grade' = [grade EXCEPT ![r] = "partial"] /\ UNCHANGED <<runStatus, transcript>>
        /\ pc[w] \in Grading
    BY <1>2, <1>10 DEF SavePartial, Grading
  <2>2. runStatus[r] \in {"grading", "deleted"}
    BY <1>2, <1>10, <2>1 DEF Lived
  <2>3. grade[r] \in {"none", "partial", "full"}
    BY DEF TypeOK, RowsOK
  <2>4. Life!SaveGrade(r, {"none", "partial", "full"}, "partial") \/ Life!WriteLate(r)
    BY <2>1, <2>2, <2>3 DEF Life!SaveGrade, Life!WriteLate
  <2> QED
    BY <2>4 DEF Life!Next
<1>11. CASE ~ctxDone[w] /\ SaveGrade(w)
  <2>1. grade' = [grade EXCEPT ![r] = "full"] /\ UNCHANGED <<runStatus, transcript>>
        /\ pc[w] = "saveGrade"
    BY <1>2, <1>11 DEF SaveGrade
  <2>2. \/ runStatus[r] = "deleted"
        \/ runStatus[r] = "grading" /\ grade[r] = "partial"
    BY <1>2, <1>11, <2>1 DEF Lived, Grading
  <2>3. Life!SaveGrade(r, {"partial"}, "full") \/ Life!WriteLate(r)
    BY <2>1, <2>2 DEF Life!SaveGrade, Life!WriteLate
  <2> QED
    BY <2>3 DEF Life!Next
<1> QED
  BY <1>2, <1>3, <1>4, <1>5, <1>6, <1>7, <1>8, <1>9, <1>10, <1>11

LEMMA LifeImplemented ==
  TypeOK /\ LifeInv /\ [Next]_vars => [Life!Next]_Life!lifeVars
<1> SUFFICES ASSUME TypeOK, LifeInv, [Next]_vars
             PROVE  Life!Next \/ UNCHANGED <<runStatus, transcript, grade>>
  BY DEF Life!lifeVars
<1>1. CASE Restart \/ UNCHANGED vars
  BY <1>1 DEF Restart, vars, rows
<1>2. ASSUME NEW w \in Workers, WorkerStep(w) \/ Stream(w)
      PROVE  Life!Next \/ UNCHANGED <<runStatus, transcript, grade>>
  BY <1>2, WorkerImplements DEF LifeInv
<1> QED
  BY <1>1, <1>2, HandlerImplements DEF Next, Idle

(* The engine implements the life of a run (RunLife): with any number of    *)
(* workers, clients that cancel, delete, retry and start again what nobody  *)
(* holds, a delete between the read and the insert of a start included, and *)
(* a stop between any two statements (orchestrator.go:319-540,              *)
(* run_repo.go:13-36).                                                      *)
THEOREM RunsLive == Spec /\ [][AskedWhenFree]_vars => LivesOfRuns
<1>1. Init => Life!Init
  BY DEF Init, Life!Init
<1> QED
  BY <1>1, TypeCorrect, OnePlaceInit, OnePlaceStep, LifeInit, LifeStep, LifeImplemented,
     PTL DEF Spec, LivesOfRuns, Life!Spec

(* With clients that ask once it does so whatever the moments of their      *)
(* requests, deletes included.                                              *)
THEOREM RunsLiveOnce == ASSUME AskedOnce PROVE Spec => LivesOfRuns
<1>1. FreshInv => AskedWhenFree
  BY OnceIsPolite
<1> QED
  BY <1>1, TypeCorrect, FreshInit, FreshStep, RunsLive, PTL DEF Spec
=============================================================================
