--------------------------- MODULE MonitorPage_proofs ---------------------------
(* What the experiment monitor shows as finished, for any number of runs, workers *)
(* and clicks.                                                                    *)
EXTENDS MonitorPage, TLAPS

Statuses == {"pending", "running", "completed", "failed", "cancelled"}
Types == {"experiment.status", "run.status", "run.progress", "experiment.complete"}
Messages == [type : Types, run : Runs \cup {None}, status : Statuses \cup {None}]

\* The engine has finished a run.
Over(r) == r \in DOMAIN runs /\ runs[r] \in Finished

\* A run that waits for a worker has not been executed.
EngineSound ==
    /\ runs = NoRuns \/ runs \in [Runs -> Statuses]
    /\ \A r \in jobs : r \in DOMAIN runs /\ runs[r] \in {"pending", "cancelled"}
\* Neither the page, nor an answer, nor a message is ahead of the engine.
ShownSound == \A r \in DOMAIN shownRuns : shownRuns[r] \in Finished => Over(r)
MessagesSound ==
    /\ events \in Seq(Messages)
    /\ \A i \in DOMAIN events :
           (events[i].type = "run.status" /\ events[i].status \in Finished)
               => Over(events[i].run)
\* An answer on its way is not behind what the page shows as finished.
AnswerSound ==
    fetch["runs"].at = "read" =>
        LET answer == fetch["runs"].answer IN
        /\ \A r \in DOMAIN answer : answer[r] \in Finished => Over(r)
        /\ \A r \in DOMAIN shownRuns :
               shownRuns[r] \in Finished => r \in DOMAIN answer /\ answer[r] \in Finished

MonitorInv ==
    /\ DOMAIN cache = Queries /\ DOMAIN fetch = Queries
    /\ EngineSound /\ ShownSound /\ MessagesSound /\ AnswerSound

--------------------------------------------------------------------------------
(* Steps of the engine.                                                          *)

EngineStep == Start \/ Cancel \/ Work
\* A finished run stays finished, and nothing unfinished is announced as finished.
LEMMA EngineKeepsFinished ==
    ASSUME EngineSound, EngineStep
    PROVE  EngineSound' /\ \A r : Over(r) => Over(r)'
<1>1. \A r \in DOMAIN runs : r \in Runs /\ runs[r] \in Statuses /\ DOMAIN runs = Runs
    BY DEF EngineSound, NoRuns
<1>2. CASE Start
    <2>1. CASE runs = NoRuns
        <3>1. /\ runs' = [r \in Runs |-> "pending"] /\ jobs = {}
              /\ jobs' \subseteq Runs
            BY <1>2, <2>1 DEF Start, EngineSound, NoRuns
        <3>2. \A r : ~Over(r)
            BY <2>1 DEF Over, NoRuns
        <3> QED BY <3>1, <3>2 DEF EngineSound, Statuses
    <2>2. CASE runs # NoRuns
        <3>1. runs' = runs /\ runs \in [Runs -> Statuses]
              /\ jobs' = jobs \cup {r \in Runs : runs[r] = "pending"}
            BY <1>2, <2>2 DEF Start, EngineSound
        <3> QED BY <3>1 DEF EngineSound, Over
    <2> QED BY <2>1, <2>2
<1>3. CASE Cancel
    <2>1. /\ runs' = [r \in DOMAIN runs |-> IF runs[r] = "pending" THEN "cancelled" ELSE runs[r]]
          /\ jobs' = jobs
        BY <1>3 DEF Cancel
    <2>2. runs' = NoRuns \/ runs' \in [Runs -> Statuses]
        <3>1. CASE runs = NoRuns
            BY <2>1, <3>1 DEF NoRuns
        <3>2. CASE runs \in [Runs -> Statuses]
            BY <2>1, <3>2 DEF Statuses
        <3> QED BY <3>1, <3>2 DEF EngineSound
    <2> QED BY <2>1, <2>2 DEF EngineSound, Over, Finished
<1>4. ASSUME NEW r \in DOMAIN runs, StartJob(r)
      PROVE  EngineSound' /\ \A p : Over(p) => Over(p)'
    <2>1. r \in jobs /\ jobs' = jobs \ {r} /\ runs[r] \notin Finished
        BY <1>4 DEF StartJob, EngineSound, Finished
    <2>2. PICK s \in {"cancelled", "running"} : runs' = [runs EXCEPT ![r] = s]
        BY <1>4 DEF StartJob, SetRun
    <2>3. runs \in [Runs -> Statuses]
        BY <1>1 DEF EngineSound, NoRuns
    <2>4. runs' \in [Runs -> Statuses]
        BY <2>2, <2>3 DEF Statuses
    <2>5. \A p : Over(p) => Over(p)'
        BY <2>1, <2>2, <2>3 DEF Over
    <2>6. \A p \in jobs' : p \in DOMAIN runs' /\ runs'[p] \in {"pending", "cancelled"}
        BY <2>1, <2>2, <2>3 DEF EngineSound
    <2> QED BY <2>4, <2>5, <2>6 DEF EngineSound
<1>5. ASSUME NEW r \in DOMAIN runs, NEW s \in Finished \cup {"cancelled"}, EndJob(r, s)
      PROVE  EngineSound' /\ \A p : Over(p) => Over(p)'
    <2>1. jobs' = jobs /\ runs[r] = "running" /\ runs' = [runs EXCEPT ![r] = s]
        BY <1>5 DEF EndJob, SetRun
    <2>2. runs \in [Runs -> Statuses]
        BY <1>1 DEF EngineSound, NoRuns
    <2>3. runs' \in [Runs -> Statuses] /\ r \notin jobs
        BY <2>1, <2>2 DEF Statuses, Finished, EngineSound
    <2>4. \A p : Over(p) => Over(p)'
        BY <2>1, <2>2 DEF Over, Finished
    <2>5. \A p \in jobs' : p \in DOMAIN runs' /\ runs'[p] \in {"pending", "cancelled"}
        BY <2>1, <2>2, <2>3 DEF EngineSound
    <2> QED BY <2>3, <2>4, <2>5 DEF EngineSound
<1>6. ASSUME NEW r \in DOMAIN runs, FailQuietly(r)
      PROVE  EngineSound' /\ \A p : Over(p) => Over(p)'
    <2>1. jobs' = jobs /\ runs[r] = "running" /\ runs' = [runs EXCEPT ![r] = "failed"]
        BY <1>6 DEF FailQuietly
    <2>2. runs \in [Runs -> Statuses]
        BY <1>1 DEF EngineSound, NoRuns
    <2>3. runs' \in [Runs -> Statuses] /\ r \notin jobs
        BY <2>1, <2>2 DEF Statuses, EngineSound
    <2>4. \A p : Over(p) => Over(p)'
        BY <2>1, <2>2 DEF Over, Finished
    <2>5. \A p \in jobs' : p \in DOMAIN runs' /\ runs'[p] \in {"pending", "cancelled"}
        BY <2>1, <2>2, <2>3 DEF EngineSound
    <2> QED BY <2>3, <2>4, <2>5 DEF EngineSound
<1>7. CASE Refresh
    BY <1>7 DEF Refresh, EngineSound, Over
<1> QED BY <1>2, <1>3, <1>4, <1>5, <1>6, <1>7 DEF EngineStep, Work

\* An announcement calls only runs finished that are.
OverNow(r) == r \in DOMAIN runs' /\ runs'[r] \in Finished
Truthful(e) == (e.type = "run.status" /\ e.status \in Finished) => OverNow(e.run)
Announces(new) ==
    /\ new \in Seq(Messages)
    /\ \A i \in DOMAIN new : Truthful(new[i])
    /\ events' = events \/ events' = events \o new

LEMMA OneMessage ==
    ASSUME NEW e \in Messages, Truthful(e), Broadcast(<<e>>) PROVE \E new : Announces(new)
<1>1. <<e>> \in Seq(Messages) /\ \A i \in DOMAIN <<e>> : <<e>>[i] = e
    OBVIOUS
<1>2. Announces(<<e>>)
    BY <1>1 DEF Announces, Broadcast
<1> QED BY <1>2

LEMMA EngineAnnounces ==
    ASSUME EngineSound, EngineStep PROVE \E new : Announces(new)
<1>1. \A r \in DOMAIN runs : r \in Runs /\ runs \in [Runs -> Statuses]
    BY DEF EngineSound, NoRuns
<1>2. ASSUME NEW s \in {"running", "cancelled"}, Broadcast(<<ExperimentStatus(s)>>)
      PROVE  \E new : Announces(new)
    <2>1. ExperimentStatus(s) \in Messages /\ Truthful(ExperimentStatus(s))
        BY DEF ExperimentStatus, Messages, Types, Statuses, Truthful
    <2> QED BY <1>2, <2>1, OneMessage
<1>3. ASSUME NEW r \in DOMAIN runs, NEW s \in Statuses, SetRun(r, s)
      PROVE  \E new : Announces(new)
    <2>1. /\ RunStatus(r, s) \in Messages
          /\ RunStatus(r, s).run = r /\ RunStatus(r, s).status = s
        BY <1>1 DEF RunStatus, Messages, Types
    <2>2. s \in Finished => OverNow(r)
        BY <1>1, <1>3 DEF SetRun, OverNow
    <2>3. Truthful(RunStatus(r, s))
        BY <2>1, <2>2 DEF Truthful
    <2>4. Broadcast(<<RunStatus(r, s)>>)
        BY <1>3 DEF SetRun
    <2> QED BY <2>1, <2>3, <2>4, OneMessage
<1>4. ASSUME Refresh PROVE \E new : Announces(new)
    <2>1. Progress \in Messages /\ Complete \in Messages /\ Truthful(Progress) /\ Truthful(Complete)
        BY DEF Progress, Complete, Messages, Types, Truthful
    <2>2. CASE Broadcast(<<Progress>>)
        BY <2>1, <2>2, OneMessage
    <2>3. CASE Broadcast(<<Progress, Complete>>)
        <3> DEFINE new == <<Progress, Complete>>
        <3>1. new \in Seq(Messages) /\ \A i \in DOMAIN new : new[i] = Progress \/ new[i] = Complete
            BY <2>1
        <3>2. Announces(new)
            BY <2>1, <2>3, <3>1 DEF Announces, Broadcast
        <3> QED BY <3>2
    <2> QED BY <1>4, <2>2, <2>3 DEF Refresh
<1>5. CASE Start \/ Cancel
    BY <1>5, <1>2 DEF Start, Cancel
<1>6. ASSUME NEW r \in DOMAIN runs, StartJob(r) PROVE \E new : Announces(new)
    BY <1>3, <1>6 DEF StartJob, Statuses
<1>7. ASSUME NEW r \in DOMAIN runs, NEW s \in Finished \cup {"cancelled"}, EndJob(r, s)
      PROVE  \E new : Announces(new)
    BY <1>3, <1>7 DEF EndJob, Statuses, Finished
<1>8. ASSUME NEW r \in DOMAIN runs, FailQuietly(r) PROVE \E new : Announces(new)
    <2> DEFINE none == <<>>
    <2>1. none \in Seq(Messages) /\ DOMAIN none = {} /\ events' = events
        BY <1>8 DEF FailQuietly
    <2>2. Announces(none)
        BY <2>1 DEF Announces
    <2> QED BY <2>2
<1> QED BY <1>4, <1>5, <1>6, <1>7, <1>8 DEF EngineStep, Work

\* What a concatenation consists of.
LEMMA Concatenated ==
    ASSUME NEW S, NEW s \in Seq(S), NEW t \in Seq(S)
    PROVE  /\ s \o t \in Seq(S)
           /\ \A i \in DOMAIN (s \o t) :
                  \/ i \in DOMAIN s /\ (s \o t)[i] = s[i]
                  \/ \E j \in DOMAIN t : (s \o t)[i] = t[j]
<1>1. /\ s \o t \in Seq(S) /\ DOMAIN (s \o t) = 1 .. Len(s) + Len(t)
      /\ Len(s) \in Nat /\ Len(t) \in Nat /\ DOMAIN s = 1 .. Len(s) /\ DOMAIN t = 1 .. Len(t)
    OBVIOUS
<1>2. ASSUME NEW i \in 1 .. Len(s) + Len(t)
      PROVE  \/ i \in 1 .. Len(s) /\ (s \o t)[i] = s[i]
             \/ \E j \in 1 .. Len(t) : (s \o t)[i] = t[j]
    <2>1. CASE i <= Len(s)
        BY <2>1, <1>1
    <2>2. CASE i > Len(s)
        <3>1. i - Len(s) \in 1 .. Len(t) /\ (s \o t)[i] = t[i - Len(s)]
            BY <2>2, <1>1
        <3> QED BY <3>1
    <2> QED BY <2>1, <2>2, <1>1
<1> QED BY <1>1, <1>2

\* The engine's steps keep what the page knows behind the engine.
LEMMA EngineStepKeeps == ASSUME MonitorInv, EngineStep PROVE MonitorInv'
<1>1. EngineSound' /\ \A r : Over(r) => Over(r)'
    BY EngineKeepsFinished DEF MonitorInv
<1>2. UNCHANGED pageVars
    BY DEF EngineStep, Work, Start, Cancel, StartJob, EndJob, SetRun, FailQuietly, Refresh
<1>3. MessagesSound'
    <2>1. PICK new : Announces(new)
        BY EngineAnnounces DEF MonitorInv
    <2>2. /\ events \in Seq(Messages) /\ new \in Seq(Messages)
          /\ \A i \in DOMAIN events : Truthful(events[i])
          /\ \A j \in DOMAIN new : Truthful(new[j])
        BY <1>1, <2>1 DEF MonitorInv, MessagesSound, Announces, Truthful, Over, OverNow
    <2>3. CASE events' = events
        BY <2>2, <2>3 DEF MessagesSound, Truthful, Over, OverNow
    <2>4. CASE events' = events \o new
        <3>1. /\ events' \in Seq(Messages)
              /\ \A i \in DOMAIN events' :
                     \/ i \in DOMAIN events /\ events'[i] = events[i]
                     \/ \E j \in DOMAIN new : events'[i] = new[j]
            BY <2>2, <2>4, Concatenated
        <3>2. \A i \in DOMAIN events' : Truthful(events'[i])
            BY <2>2, <3>1
        <3> QED BY <3>1, <3>2 DEF MessagesSound, Truthful, Over, OverNow
    <2> QED BY <2>1, <2>3, <2>4 DEF Announces
<1>4. ShownSound' /\ AnswerSound'
    BY <1>1, <1>2 DEF pageVars, MonitorInv, ShownSound, AnswerSound, shownRuns
<1> QED BY <1>1, <1>2, <1>3, <1>4 DEF MonitorInv, pageVars

--------------------------------------------------------------------------------
(* Steps of the page.                                                            *)

\* Requests that start and sockets that open or break say nothing about the runs.
LEMMA Quiet ==
    ASSUME MonitorInv, UNCHANGED <<engineVars, cache>>, DOMAIN fetch' = Queries,
           events' = events \/ events' = <<>>,
           fetch'["runs"] = fetch["runs"] \/ fetch'["runs"] = Sent
    PROVE  MonitorInv'
<1>1. (\A r : Over(r)' <=> Over(r)) /\ EngineSound'
    BY DEF engineVars, Over, MonitorInv, EngineSound
<1>2. ShownSound' /\ shownRuns' = shownRuns
    BY <1>1 DEF MonitorInv, ShownSound, shownRuns
<1>3. MessagesSound'
    <2>1. CASE events' = events
        BY <1>1, <2>1 DEF MonitorInv, MessagesSound
    <2>2. CASE events' = <<>>
        BY <2>2 DEF MessagesSound
    <2> QED BY <2>1, <2>2
<1>4. AnswerSound'
    <2>1. CASE fetch'["runs"] = fetch["runs"]
        BY <1>1, <1>2, <2>1 DEF MonitorInv, AnswerSound
    <2>2. CASE fetch'["runs"] = Sent
        BY <2>2 DEF AnswerSound, Sent
    <2> QED BY <2>1, <2>2
<1> QED BY <1>1, <1>2, <1>3, <1>4 DEF MonitorInv

LEMMA EngineReadsKeeps ==
    ASSUME MonitorInv, NEW q \in Queries, EngineReads(q) PROVE MonitorInv'
<1>1. /\ UNCHANGED <<engineVars, cache, events>> /\ DOMAIN fetch' = Queries
      /\ DOMAIN fetch = Queries
    BY DEF EngineReads, MonitorInv
<1>2. CASE q # "runs"
    <2>1. fetch'["runs"] = fetch["runs"]
        BY <1>1, <1>2 DEF EngineReads, Queries
    <2> QED BY <1>1, <2>1, Quiet
<1>3. CASE q = "runs"
    <2>1. fetch'["runs"] = [at |-> "read", answer |-> runs]
        BY <1>1, <1>3 DEF EngineReads, Queries
    <2>2. (\A r : Over(r)' <=> Over(r)) /\ EngineSound' /\ shownRuns' = shownRuns
        BY <1>1 DEF engineVars, Over, MonitorInv, EngineSound, shownRuns
    <2>3. ShownSound' /\ MessagesSound'
        BY <1>1, <2>2 DEF MonitorInv, ShownSound, MessagesSound
    <2>4. AnswerSound'
        BY <2>1, <2>2 DEF MonitorInv, AnswerSound, ShownSound, Over
    <2> QED BY <1>1, <2>2, <2>3, <2>4 DEF MonitorInv
<1> QED BY <1>2, <1>3

LEMMA AnswerKeeps == ASSUME MonitorInv, NEW q \in Queries, Answer(q) PROVE MonitorInv'
<1>1. /\ UNCHANGED <<engineVars, events>>
      /\ DOMAIN fetch = Queries /\ DOMAIN cache = Queries
      /\ fetch' = [fetch EXCEPT ![q] = Idle]
      /\ cache' = [cache EXCEPT ![q] = fetch[q].answer]
    BY DEF Answer, MonitorInv
<1>2. (\A r : Over(r)' <=> Over(r)) /\ EngineSound' /\ MessagesSound'
    BY <1>1 DEF engineVars, Over, MonitorInv, EngineSound, MessagesSound
<1>3. ShownSound' /\ AnswerSound'
    <2>1. CASE q # "runs"
        <3>1. fetch'["runs"] = fetch["runs"] /\ shownRuns' = shownRuns
            BY <1>1, <2>1 DEF Queries, shownRuns
        <3> QED BY <1>2, <3>1 DEF MonitorInv, ShownSound, AnswerSound
    <2>2. CASE q = "runs"
        <3>1. /\ fetch'["runs"] = Idle /\ shownRuns' = fetch["runs"].answer
              /\ fetch["runs"].at = "read"
            BY <1>1, <2>2 DEF Answer, Queries, shownRuns
        <3>2. ShownSound'
            BY <1>2, <3>1 DEF MonitorInv, ShownSound, AnswerSound
        <3>3. AnswerSound'
            BY <3>1 DEF AnswerSound, Idle
        <3> QED BY <3>2, <3>3
    <2> QED BY <2>1, <2>2
<1> QED BY <1>1, <1>2, <1>3 DEF MonitorInv

\* An event that finishes a run drops the answer on its way.
LEMMA EventAsks ==
    ASSUME DOMAIN fetch = Queries, NEW e, NEW hold
    PROVE  /\ DOMAIN Asked(e, hold) = Queries
           /\ Asked(e, hold)["runs"] \in {fetch["runs"], Sent}
           /\ (e.type = "run.status" /\ e.status \in Finished /\ "runs" \in hold) =>
                  Asked(e, hold)["runs"] = Sent
<1>1. ASSUME NEW f, DOMAIN f = Queries, NEW q \in Queries
      PROVE  /\ DOMAIN Invalidated(f, q, hold) = Queries
             /\ Invalidated(f, q, hold)[q] = IF f[q] = Idle \/ q \in hold THEN Sent ELSE f[q]
             /\ \A p \in Queries \ {q} : Invalidated(f, q, hold)[p] = f[p]
    BY <1>1 DEF Invalidated
<1>2. "runs" \in Queries /\ "experiment" \in Queries /\ "runs" # "experiment"
    BY DEF Queries
<1> DEFINE runsAgain == Invalidated(fetch, "runs", hold)
<1>3. /\ DOMAIN runsAgain = Queries
      /\ runsAgain["runs"] \in {fetch["runs"], Sent}
      /\ "runs" \in hold => runsAgain["runs"] = Sent
    BY <1>1, <1>2
<1> HIDE DEF runsAgain
<1>4. /\ DOMAIN Invalidated(runsAgain, "experiment", hold) = Queries
      /\ Invalidated(runsAgain, "experiment", hold)["runs"] = runsAgain["runs"]
    BY <1>1, <1>2, <1>3
<1>5. Asked(e, hold) = IF e.type \in {"run.progress", "experiment.complete"}
                       THEN Invalidated(runsAgain, "experiment", hold)
                       ELSE IF e.type = "run.status" /\ e.status \in Finished THEN runsAgain
                       ELSE fetch
    BY DEF Asked, runsAgain
<1> QED BY <1>3, <1>4, <1>5

LEMMA DeliverKeeps ==
    ASSUME MonitorInv, Deliver
    PROVE  MonitorInv' /\ events' # events
<1> DEFINE e == events[1]
           hold == IF e.type = "run.status" THEN loaded \cup {"runs"} ELSE loaded
<1>1. /\ events \in Seq(Messages) /\ events # <<>> /\ events' = Tail(events)
      /\ UNCHANGED engineVars /\ DOMAIN fetch = Queries
      /\ cache' = Patched(e) /\ fetch' = Asked(e, hold)
    BY DEF MonitorInv, MessagesSound, Deliver
<1>2. /\ events' \in Seq(Messages) /\ Len(events') # Len(events)
      /\ 1 \in DOMAIN events
      /\ \A i \in DOMAIN events' : i + 1 \in DOMAIN events /\ events'[i] = events[i + 1]
    BY <1>1
<1>3. (\A r : Over(r)' <=> Over(r)) /\ EngineSound'
    BY <1>1 DEF engineVars, Over, MonitorInv, EngineSound
<1>4. MessagesSound'
    BY <1>2, <1>3 DEF MonitorInv, MessagesSound
<1>5. (e.type = "run.status" /\ e.status \in Finished) => Over(e.run)
    BY <1>2 DEF MonitorInv, MessagesSound
<1> HIDE DEF e
<1>6. /\ DOMAIN fetch' = Queries
      /\ fetch'["runs"] \in {fetch["runs"], Sent}
      /\ (e.type = "run.status" /\ e.status \in Finished) => fetch'["runs"] = Sent
    BY <1>1, EventAsks
<1>7. DOMAIN cache' = Queries /\ shownRuns' = PatchedRuns(e)
    BY <1>1 DEF Patched, shownRuns, Queries
<1>8. /\ DOMAIN shownRuns' = DOMAIN shownRuns
      /\ \A r \in DOMAIN shownRuns :
             \/ shownRuns'[r] = shownRuns[r]
             \/ e.type = "run.status" /\ r = e.run /\ shownRuns'[r] = e.status
    BY <1>7 DEF PatchedRuns
<1>9. ShownSound'
    BY <1>3, <1>5, <1>8 DEF MonitorInv, ShownSound
<1>10. AnswerSound'
    <2>1. CASE fetch'["runs"] = Sent
        BY <2>1 DEF AnswerSound, Sent
    <2>2. CASE fetch'["runs"] # Sent
        <3>1. /\ fetch'["runs"] = fetch["runs"]
              /\ ~(e.type = "run.status" /\ e.status \in Finished)
            BY <2>2, <1>6
        <3>2. \A r \in DOMAIN shownRuns' : shownRuns'[r] \in Finished =>
                  r \in DOMAIN shownRuns /\ shownRuns[r] \in Finished
            BY <1>8, <3>1
        <3> QED BY <1>3, <3>1, <3>2 DEF MonitorInv, AnswerSound
    <2> QED BY <2>1, <2>2
<1> QED BY <1>2, <1>3, <1>4, <1>6, <1>7, <1>9, <1>10 DEF MonitorInv

\* Every step of the engine, of the queries and of the socket keeps the invariant.
LEMMA InitiallySound == Init => MonitorInv
<1> SUFFICES ASSUME Init PROVE MonitorInv
    OBVIOUS
<1>1. EngineSound
    BY DEF Init, EngineSound
<1>2. DOMAIN cache = Queries /\ DOMAIN fetch = Queries /\ shownRuns = NoRuns
      /\ fetch["runs"] = Sent /\ events = <<>>
    BY DEF Init, Queries, shownRuns
<1>3. ShownSound
    BY <1>2 DEF ShownSound, NoRuns
<1>4. MessagesSound
    BY <1>2 DEF MessagesSound
<1>5. AnswerSound
    BY <1>2 DEF AnswerSound, Sent
<1> QED BY <1>1, <1>2, <1>3, <1>4, <1>5 DEF MonitorInv

LEMMA StepKeeps == MonitorInv /\ [Next]_monitorVars => MonitorInv'
<1> SUFFICES ASSUME MonitorInv, [Next]_monitorVars PROVE MonitorInv'
    OBVIOUS
<1>1. CASE SocketOpens \/ SocketBreaks
    <2>1. UNCHANGED <<engineVars, cache, fetch>> /\ (events' = events \/ events' = <<>>)
        BY <1>1 DEF SocketOpens, SocketBreaks, pageVars
    <2>2. DOMAIN fetch' = Queries
        BY <2>1 DEF MonitorInv
    <2> QED BY <2>1, <2>2, Quiet
<1>2. CASE Focus
    <2>1. /\ UNCHANGED <<engineVars, cache, events>> /\ DOMAIN fetch' = Queries
          /\ fetch'["runs"] = fetch["runs"] \/ fetch'["runs"] = Sent
        BY <1>2 DEF Focus, Queries
    <2> QED BY <2>1, Quiet
<1>3. CASE UNCHANGED monitorVars
    <2>1. UNCHANGED <<engineVars, cache, events, fetch>> /\ DOMAIN fetch' = Queries
        BY <1>3 DEF monitorVars, engineVars, MonitorInv
    <2> QED BY <2>1, Quiet
<1> QED BY <1>1, <1>2, <1>3, EngineStepKeeps, EngineReadsKeeps, AnswerKeeps, DeliverKeeps
        DEF Next, EngineStep

\* What the page shows as finished is finished, whatever it was told and in which
\* order.
THEOREM ShownIsOver == Spec => []ShownSound
<1>1. MonitorInv => ShownSound
    BY DEF MonitorInv
<1> QED BY <1>1, InitiallySound, StepKeeps, PTL DEF Spec

\* No answer shows a run as unfinished that was shown as finished (AnswersKeepFinished,
\* monitor.tsx:55-92), for any number of runs and requests.
THEOREM AnswersNeverTakeBack == Spec => AnswersKeepFinished
<1>1. MonitorInv /\ [Next]_monitorVars =>
          [\A r \in DOMAIN shownRuns :
               (shownRuns[r] \in Finished /\ events' = events) =>
                   r \in DOMAIN shownRuns' /\ shownRuns'[r] \in Finished]_monitorVars
    <2> SUFFICES ASSUME MonitorInv, Next, NEW r \in DOMAIN shownRuns,
                        shownRuns[r] \in Finished, events' = events
                 PROVE  r \in DOMAIN shownRuns' /\ shownRuns'[r] \in Finished
        OBVIOUS
    <2>1. CASE cache' = cache
        BY <2>1 DEF shownRuns
    <2>2. ASSUME NEW q \in Queries, Answer(q)
          PROVE  r \in DOMAIN shownRuns' /\ shownRuns'[r] \in Finished
        <3>1. DOMAIN cache = Queries /\ cache' = [cache EXCEPT ![q] = fetch[q].answer]
              /\ fetch[q].at = "read"
            BY <2>2 DEF Answer, MonitorInv
        <3>2. CASE q # "runs"
            BY <3>1, <3>2 DEF shownRuns, Queries
        <3>3. CASE q = "runs"
            <4>1. shownRuns' = fetch["runs"].answer
                BY <3>1, <3>3 DEF shownRuns, Queries
            <4> QED BY <3>1, <3>3, <4>1 DEF MonitorInv, AnswerSound
        <3> QED BY <3>2, <3>3
    <2>3. ~Deliver
        BY DeliverKeeps
    <2>4. ASSUME EngineStep \/ SocketOpens \/ SocketBreaks \/ Focus \/ \E q \in Queries : EngineReads(q)
          PROVE  cache' = cache
        BY <2>4 DEF EngineStep, Work, Start, Cancel, StartJob, EndJob, SetRun, FailQuietly, Refresh,
           SocketOpens, SocketBreaks, Focus, EngineReads, pageVars
    <2> QED BY <2>1, <2>2, <2>3, <2>4 DEF Next, EngineStep
<1> QED BY <1>1, InitiallySound, StepKeeps, PTL DEF Spec, AnswersKeepFinished
================================================================================
