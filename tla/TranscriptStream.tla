-------------------------- MODULE TranscriptStream --------------------------
(***************************************************************************)
(* One agent invocation of the "bare" harness: the sandbox runs the agent  *)
(* as a container or a local process, reader goroutines collect its output *)
(* in a ring buffer and hand every line to the streamer, which writes the  *)
(* transcript row while the agent still runs.  In the end the orchestrator *)
(* overwrites that row with the result of the invocation.  The agent may   *)
(* exit at any point, stall, run into the deadline, or be cancelled.       *)
(*                                                                         *)
(* A line is a number with a kind: a JSON event, prose or blank.           *)
(*                                                                         *)
(* Sources: RunShellWithOutput and outputCollector of                      *)
(* engine/internal/sandbox/manager.go, sandbox/ringbuf.go, and executeRun  *)
(* with incrementalTranscriptStreamer of experiment/orchestrator.go.       *)
(***************************************************************************)
EXTENDS Integers, Sequences, SequencesExt

CONSTANTS
    Lines,      \* the lines the agent may print
    Kind,       \* "json", "prose" or "blank"
    Script,     \* what it prints on "stdout" and on "stderr"
    RingCap,    \* how many lines the ring buffer holds (8 MiB in the code)
    PipeCap     \* how many lines a pipe of a local process holds

Streams == {"stdout", "stderr"}

ASSUME StreamAssumption ==
    /\ Kind \in [Lines -> {"json", "prose", "blank"}]
    /\ Script \in [Streams -> Seq(Lines)]
    /\ RingCap \in Nat \ {0}
    /\ PipeCap \in Nat \ {0}

VARIABLES
    mode,       \* "docker", "nologs" (its logs cannot be followed), "local"
    agent,      \* "running", "exited", "killed"
    left,       \* what the agent has not printed yet
    pipe,       \* printed and not read yet; a container has one log
    reader,     \* where a reader goroutine stands in writeLine
    held,       \* the line it handles
    ring,       \* ringBuffer.chunks
    truncated,  \* ringBuffer.truncated
    buf,        \* incrementalTranscriptStreamer.buf
    prevBlank,  \* incrementalTranscriptStreamer.prevWasBlank
    row,        \* transcripts.raw_output
    runner,     \* the worker: "wait", "drain", "return", "saved"
    stop,       \* "no", or why the context ended: "timeout", "cancel"
    outcome,    \* "none" yet, "ok", "error", or "aborted" by its context
    result      \* RunResult.RawOutput

agentVars  == <<agent, left>>
readerVars == <<reader, held>>
ringVars   == <<ring, truncated>>
streamVars == <<buf, prevBlank>>
vars == <<mode, agentVars, pipe, readerVars, ringVars, streamVars, row,
          runner, stop, outcome, result>>

TypeOK ==
    /\ mode \in {"docker", "nologs", "local"}
    /\ agent \in {"running", "exited", "killed"}
    /\ left \in [Streams -> Seq(Lines)]
    /\ pipe \in [Streams -> Seq(Lines)]
    /\ reader \in [Streams -> {"read", "ring", "call", "done"}]
    /\ held \in [Streams -> Seq(Lines)]
    /\ \A s \in Streams : Len(held[s]) = IF reader[s] \in {"ring", "call"} THEN 1 ELSE 0
    /\ ring \in Seq(Lines) /\ Len(ring) <= RingCap
    /\ truncated \in BOOLEAN
    /\ buf \in Seq(Lines)
    /\ prevBlank \in BOOLEAN
    /\ row \in Seq(Lines)
    /\ runner \in {"wait", "drain", "return", "saved"}
    /\ stop \in {"no", "timeout", "cancel"}
    /\ outcome \in {"none", "ok", "error", "aborted"}
    /\ result \in Seq(Lines)

\* The pipe a stream goes to, and the goroutines that read: the daemon puts
\* both streams of a container into one log.
Into(s) == IF mode = "local" THEN s ELSE "stdout"
HasReader(s, how) == how = "local" \/ (how = "docker" /\ s = "stdout")

Init ==
    /\ mode \in {"docker", "nologs", "local"}
    /\ agent = "running" /\ left = Script
    /\ pipe = [s \in Streams |-> <<>>]
    /\ reader = [s \in Streams |-> IF HasReader(s, mode) THEN "read" ELSE "done"]
    /\ held = [s \in Streams |-> <<>>]
    /\ ring = <<>> /\ truncated = FALSE
    /\ buf = <<>> /\ prevBlank = FALSE
    /\ row = <<>>
    /\ runner = "wait" /\ stop = "no" /\ outcome = "none" /\ result = <<>>

----
(* The agent.                                                               *)

\* A local process blocks on a full pipe, the daemon's log has no bound.
Emit(s) ==
    /\ agent = "running" /\ left[s] # <<>>
    /\ mode = "local" => Len(pipe[s]) < PipeCap
    /\ pipe' = [pipe EXCEPT ![Into(s)] = Append(@, Head(left[s]))]
    /\ left' = [left EXCEPT ![s] = Tail(@)]
    /\ UNCHANGED <<mode, agent, readerVars, ringVars, streamVars, row, runner,
                   stop, outcome, result>>

Exit ==
    /\ agent = "running"
    /\ agent' = "exited"
    /\ UNCHANGED <<mode, left, pipe, readerVars, ringVars, streamVars, row,
                   runner, stop, outcome, result>>

\* The deadline of invokeWithTimeout, or CancelExperiment.  A local process
\* is killed; a container goes on until it is removed.
StopAgent(why) ==
    /\ runner = "wait" /\ stop = "no"
    /\ stop' = why
    /\ agent' = IF mode = "local" /\ agent = "running" THEN "killed" ELSE agent
    /\ UNCHANGED <<mode, left, pipe, readerVars, ringVars, streamVars, row,
                   runner, outcome, result>>

Timeout == StopAgent("timeout")
Cancel  == StopAgent("cancel")

----
(* The readers: outputCollector.scan, or copyDockerLogs and lineWriter.     *)

Step(s, place, line) ==
    /\ reader' = [reader EXCEPT ![s] = place]
    /\ held' = [held EXCEPT ![s] = line]

Read(s) ==
    /\ reader[s] = "read" /\ pipe[s] # <<>>
    /\ Step(s, "ring", <<Head(pipe[s])>>)
    /\ pipe' = [pipe EXCEPT ![s] = Tail(@)]
    /\ UNCHANGED <<mode, agentVars, ringVars, streamVars, row, runner, stop,
                   outcome, result>>

\* The end of the output; or the end of the context of ContainerLogs,
\* cancelLogs, or cmd.Wait, which close what is being read whether it has
\* been drained or not.
EndOfOutput(s) ==
    /\ reader[s] = "read"
    /\ \/ agent # "running" /\ pipe[s] = <<>>
       \/ runner = "drain"
       \/ stop # "no" /\ mode = "docker"
    /\ Step(s, "done", <<>>)
    /\ UNCHANGED <<mode, agentVars, pipe, ringVars, streamVars, row, runner,
                   stop, outcome, result>>

\* Mutant: the oldest line goes, and the flag is not set.
ForgetHead(line) ==
    LET all == Append(ring, line) IN
    IF Len(all) > RingCap
    THEN ring' = Tail(all) /\ UNCHANGED truncated
    ELSE ring' = all /\ UNCHANGED truncated

\* ringBuffer.WriteString.
WriteString(line) ==
    LET all == Append(ring, line) IN
    IF Len(all) > RingCap
    THEN ring' = Tail(all) /\ truncated' = TRUE
    ELSE ring' = all /\ UNCHANGED truncated

\* Under the collector's mutex; the callback comes after it is released.
\* Blank lines reach the ring and not the callback.
WriteLine(s) ==
    /\ reader[s] = "ring"
    /\ WriteString(held[s][1])
    /\ IF Kind[held[s][1]] = "blank"
       THEN Step(s, "read", <<>>)
       ELSE Step(s, "call", held[s])
    /\ UNCHANGED <<mode, agentVars, pipe, streamVars, row, runner, stop,
                   outcome, result>>

\* Mutant: a flush writes what came since the last one.
FlushNew(all) == row' = IF stop = "cancel" THEN row ELSE <<Last(all)>>

\* flushLocked: the row is overwritten with the whole buffer.  The statement
\* runs under the run's context, which a cancel ends and the deadline of the
\* invocation does not.
Flush(all) == row' = IF stop = "cancel" THEN row ELSE all

\* OnOutput: incrementalTranscriptStreamer.append under its own mutex.
OnOutput(s) ==
    LET line  == held[s][1]
        all   == Append(buf, line)
        blank == Kind[line] = "blank"
    IN  /\ reader[s] = "call"
        /\ buf' = all
        /\ IF (blank /\ ~prevBlank) \/ Kind[line] = "json"
           THEN Flush(all) ELSE UNCHANGED row
        /\ prevBlank' = blank
        /\ Step(s, "read", <<>>)
        /\ UNCHANGED <<mode, agentVars, pipe, ringVars, runner, stop, outcome, result>>

----
(* The worker.                                                              *)

\* Mutant: the end of the context does not end the wait for a container.
WaitForExit ==
    /\ runner = "wait"
    /\ agent # "running" /\ outcome' \in {"ok", "error"}
    /\ runner' = "drain"
    /\ UNCHANGED <<mode, agentVars, pipe, readerVars, ringVars, streamVars,
                   row, stop, result>>

\* cmd.Wait or ContainerWait returns: the agent ended, or the context did,
\* and select picks either when both have.  The copy of the workspace fails
\* for a container whose context has ended.
AgentEnded ==
    /\ runner = "wait"
    /\ \/ /\ agent = "exited" /\ outcome' \in {"ok", "error"}
          /\ (stop # "no" /\ mode # "local") => outcome' = "error"
       \/ agent = "killed" /\ outcome' = "error"
       \/ stop # "no" /\ mode # "local" /\ outcome' = "aborted"
    /\ runner' = "drain"
    /\ UNCHANGED <<mode, agentVars, pipe, readerVars, ringVars, streamVars,
                   row, stop, result>>

\* Logs that could not be followed are fetched as a whole at the end.
Collected ==
    CASE outcome = "aborted" -> <<>>
      [] outcome # "aborted" /\ mode = "nologs" -> IF stop = "no" THEN pipe["stdout"] ELSE <<>>
      [] OTHER -> ring

\* Mutant: nobody waits for the readers.
ReturnAtOnce ==
    /\ runner = "drain"
    /\ result' = Collected
    /\ runner' = "return"
    /\ UNCHANGED <<mode, agentVars, pipe, readerVars, ringVars, streamVars,
                   row, stop, outcome>>

\* wg.Wait, then the output; a container is removed in any case.
Return ==
    /\ runner = "drain"
    /\ \A s \in Streams : reader[s] = "done"
    /\ result' = Collected
    /\ agent' = IF agent = "running" THEN "killed" ELSE agent
    /\ runner' = "return"
    /\ UNCHANGED <<mode, left, pipe, readerVars, ringVars, streamVars, row,
                   stop, outcome>>

\* executeRun: a cancelled run keeps the streamed row, any other outcome
\* replaces it, a failure too.
Save ==
    /\ runner = "return"
    /\ row' = IF stop = "cancel" THEN row ELSE result
    /\ runner' = "saved"
    /\ UNCHANGED <<mode, agentVars, pipe, readerVars, ringVars, streamVars,
                   stop, outcome, result>>

Reader(s) == Read(s) \/ EndOfOutput(s) \/ WriteLine(s) \/ OnOutput(s)
Worker == AgentEnded \/ Return \/ Save

\* A run that was saved has nothing left to do.
Done == runner = "saved" /\ (\A s \in Streams : reader[s] = "done") /\ UNCHANGED vars

Next ==
    \/ \E s \in Streams : Emit(s) \/ Reader(s)
    \/ Exit \/ Timeout \/ Cancel
    \/ Worker \/ Done

Spec == Init /\ [][Next]_vars

(* Goroutines run and the deadline passes; the agent may stall.             *)
Fairness ==
    /\ \A s \in Streams : WF_vars(Reader(s))
    /\ WF_vars(Worker) /\ WF_vars(Timeout)

FairSpec == Spec /\ Fairness

----
(* Safety.                                                                  *)

(* While the agent runs, what a viewer has read stays: every flush extends  *)
(* the row, with two readers that call back concurrently, too.              *)
FlushesExtend ==
    [][runner' # "saved" => IsPrefix(row, row')]_vars

(* The final transcript is the last write: no callback of a reader that was *)
(* still under way puts a streamed prefix over it.                          *)
FinalIsLast ==
    /\ runner = "saved" /\ stop # "cancel" => row = result
    /\ runner \in {"return", "saved"} => \A s \in Streams : reader[s] = "done"

(* Whatever was shown live is in the collected output, unless the ring says *)
(* that it was truncated: the two copies do not diverge.                    *)
LiveLinesAreKept ==
    ~truncated => Range(buf) \subseteq Range(ring)

(* A JSON event is in the row as soon as its callback returned, though the  *)
(* row is written only then: no event waits for the end of the run.         *)
EventsAreShown ==
    stop # "cancel" /\ runner # "saved" =>
        \A i \in DOMAIN buf : Kind[buf[i]] = "json" => buf[i] \in Range(row)

(* Liveness.  An agent that stalls, also on a pipe nobody reads, does not   *)
(* hold its worker: the run is saved.                                       *)
InvocationEnds == <>(runner = "saved")

----
(* orchestrator.go:795-798: the streamed writes never lose data, they are a *)
(* prefix of the final transcript.  A failure that returns no output        *)
(* overwrites them with nothing.                                            *)
NothingIsLost == [][Range(row) \subseteq Range(row')]_vars
=============================================================================
