------------------------------ MODULE GradingPage ------------------------------
(* The grading inspector of one run: it polls the run and its grade while the     *)
(* engine grades in phases (a partial grade, the judged one, the diagnostic, the  *)
(* final status), and its Regrade button replaces both rows.                      *)
EXTENDS Naturals, FiniteSets

CONSTANTS
    Judgements,   \* what a judge may return: functions from dimensions to 0..10
    MaxUpdates,   \* bound: the answers after which the grade is no longer polled
    MaxRegrades   \* bound: clicks on Regrade

Unjudged == [d \in {} |-> 0]
NoGrade == [version |-> 0, source |-> "none", disabled |-> FALSE, scores |-> Unjudged]
NoProfile == [version |-> 0, label |-> FALSE]
Queries == {"run", "grade", "diagnostic"}
\* However the run ended: the page treats its ends alike.
Terminal == {"over"}

VARIABLES
    stage,      \* the engine's side: how far the run is,
    saved,      \* its grade row,
    profile,    \* its diagnostic row
    shown,      \* what each query holds
    loaded,     \* the queries that hold data
    failed,     \* the queries whose last request failed
    fetch,      \* each query's request: [at, answer]
    updates,    \* the answers of the grade query, counted as far as it matters
    regrade,    \* the Regrade request: [at, clicks]
    told,       \* the versions the page was told to show by a regrade that succeeded
    openDims    \* the rationales that are open on the judge card

gradingVars == <<stage, saved, profile, shown, loaded, failed, fetch, updates, regrade,
                 told, openDims>>
engineRows == <<stage, saved, profile>>
queryVars == <<shown, loaded, failed, fetch, updates>>

Idle == [at |-> "idle"]
Sent == [at |-> "sent"]

--------------------------------------------------------------------------------
(* The engine.                                                               *)

Status == CASE stage \in Terminal -> stage
            [] stage = "running" -> "running"
            [] OTHER -> "grading"

\* A grade replaces the row there is.
Save(source, disabled, scores) ==
    saved' = [version |-> saved.version + 1, source |-> source, disabled |-> disabled,
              scores |-> scores]
\* What the grader answers: a verdict, with a judgement unless the judge is switched
\* off, or, when it is unreachable, the placeholder.
SaveVerdict ==
    \/ \E scores \in Judgements : Save("grader", FALSE, scores)
    \/ Save("grader", TRUE, Unjudged)
\* Only a judge that is switched on labels a failure.
SaveProfile == profile' = [version |-> profile.version + 1, label |-> ~saved.disabled]

SavePartial ==
    /\ stage = "running" /\ stage' = "judging"
    /\ Save("grader", FALSE, Unjudged)
    /\ UNCHANGED profile
SaveGrade ==
    /\ stage = "judging" /\ stage' = "graded"
    /\ SaveVerdict \/ Save("fallback", FALSE, Unjudged)
    /\ UNCHANGED profile
PersistDiagnostic ==
    /\ stage = "graded" /\ stage' = "profiled"
    /\ SaveProfile
    /\ UNCHANGED saved
Finish ==
    /\ stage \in {"running", "judging", "profiled"} /\ stage' \in Terminal
    /\ UNCHANGED <<saved, profile>>
Engine ==
    /\ SavePartial \/ SaveGrade \/ PersistDiagnostic \/ Finish
    /\ UNCHANGED <<queryVars, regrade, told, openDims>>

--------------------------------------------------------------------------------
(* What the page shows.                                                      *)

isGrading == DOMAIN shown["grade"].scores = {}
Page == CASE "run" \in failed -> "error"
          [] "run" \notin failed \cup loaded -> "loading"
          [] OTHER -> "body"
Header == [busy |-> regrade.at # "idle",
           source |-> IF shown["grade"].source = "fallback" THEN "fallback" ELSE "grader"]
\* No rows: the card says that the judge is in progress.
JudgeRows == {[dim |-> d, open |-> d \in openDims] : d \in DOMAIN shown["grade"].scores}
\* No label: the card says that no failure was classified.
FailureShown == shown["diagnostic"].label

--------------------------------------------------------------------------------
(* The queries.                                                              *)

\* A run is asked for again while it is shown as unfinished; a grade, while it has
\* no judgement, the judge is not switched off and the run is shown as unfinished.
PollDue(q) ==
    CASE q = "run" -> q \in loaded /\ shown["run"] \notin Terminal
      [] q = "grade" -> /\ isGrading /\ ~shown["grade"].disabled
                        /\ shown["run"] \notin Terminal /\ updates <= MaxUpdates
      [] q = "diagnostic" -> FALSE
Poll(q) ==
    /\ fetch[q] = Idle /\ PollDue(q)
    /\ fetch' = [fetch EXCEPT ![q] = Sent]
    /\ UNCHANGED <<engineRows, shown, loaded, failed, updates, regrade, told, openDims>>

Row(q) == CASE q = "run" -> Status [] q = "grade" -> saved [] q = "diagnostic" -> profile
\* The engine reads a row when it answers, which may be long before the page has the
\* answer. The run's answers are not overtaken by a write of the page: one step.
EngineReads(q) ==
    /\ fetch[q] = Sent /\ q # "run"
    /\ fetch' = [fetch EXCEPT ![q] = [at |-> "read", answer |-> Row(q)]]
    /\ UNCHANGED <<engineRows, shown, loaded, failed, updates, regrade, told, openDims>>
\* The answer: a row, or that there is none, which is an error.
Answer(q) ==
    LET answer == IF q = "run" THEN Status ELSE fetch[q].answer
        missing == q # "run" /\ answer.version = 0 IN
    /\ fetch[q].at = IF q = "run" THEN "sent" ELSE "read"
    /\ fetch' = [fetch EXCEPT ![q] = Idle]
    /\ IF missing
       THEN failed' = failed \cup {q} /\ UNCHANGED <<shown, loaded, updates>>
       ELSE /\ shown' = [shown EXCEPT ![q] = answer]
            /\ loaded' = loaded \cup {q}
            /\ failed' = failed \ {q}
            /\ updates' = IF q = "grade" /\ updates <= MaxUpdates THEN updates + 1 ELSE updates
    /\ UNCHANGED <<engineRows, regrade, told, openDims>>
\* The run's request fails for good, which takes the page down, data or not. (That a
\* request for the other rows fails is as if it were answered later.)
RunFails ==
    /\ fetch["run"] = Sent
    /\ fetch' = [fetch EXCEPT !["run"] = Idle]
    /\ failed' = failed \cup {"run"}
    /\ openDims' = {}
    /\ UNCHANGED <<engineRows, shown, loaded, updates, regrade, told>>
\* The error's Retry button: a request in flight is dropped if there are data.
Again(f, qs) == [q \in Queries |->
    IF q \in qs /\ (f[q] = Idle \/ q \in loaded) THEN Sent ELSE f[q]]
Retry ==
    /\ Page = "error"
    /\ fetch' = Again(fetch, {"run", "grade"})
    /\ UNCHANGED <<engineRows, shown, loaded, failed, updates, regrade, told, openDims>>

--------------------------------------------------------------------------------
(* Regrade: the engine grades while the request is open.                     *)

Regrade ==
    /\ Page = "body" /\ ~Header.busy /\ regrade.clicks < MaxRegrades
    /\ regrade' = [at |-> "sent", clicks |-> regrade.clicks + 1]
    /\ UNCHANGED <<engineRows, queryVars, told, openDims>>
RegradeStep(from, to) == regrade.at = from /\ regrade' = [regrade EXCEPT !.at = to]
RegradeSaves ==
    /\ RegradeStep("sent", "saved")
    /\ SaveVerdict
    /\ UNCHANGED <<stage, profile, queryVars, told, openDims>>
RegradeProfiles ==
    /\ RegradeStep("saved", "profiled")
    /\ SaveProfile
    /\ UNCHANGED <<stage, saved, queryVars, told, openDims>>
\* No transcript, or the grader only has the placeholder: nothing is replaced.
RegradeRefused ==
    /\ RegradeStep("sent", "idle")
    /\ UNCHANGED <<engineRows, queryVars, told, openDims>>
\* Mutant: a request in flight is joined, though it may have been answered before.
RegradeDoneJoining ==
    /\ RegradeStep("profiled", "idle")
    /\ fetch' = [q \in Queries |-> IF q # "run" /\ fetch[q] = Idle THEN Sent ELSE fetch[q]]
    /\ told' = [q \in {"grade", "diagnostic"} |->
                   IF q \in loaded THEN Row(q).version ELSE told[q]]
    /\ UNCHANGED <<engineRows, shown, loaded, failed, updates, openDims>>
\* The grade and the diagnostic are invalidated.
RegradeDone ==
    /\ RegradeStep("profiled", "idle")
    /\ fetch' = Again(fetch, {"grade", "diagnostic"})
    /\ told' = [q \in {"grade", "diagnostic"} |->
                   IF q \in loaded THEN Row(q).version ELSE told[q]]
    /\ UNCHANGED <<engineRows, shown, loaded, failed, updates, openDims>>

--------------------------------------------------------------------------------
(* The judge card.                                                           *)

ToggleDim(d) ==
    /\ Page = "body" /\ d \in DOMAIN shown["grade"].scores
    /\ openDims' = IF d \in openDims THEN openDims \ {d} ELSE openDims \cup {d}
    /\ UNCHANGED <<engineRows, queryVars, regrade, told>>

\* The page is opened while the engine is at a stage of the run.
Mounted(at) ==
    /\ stage = at
    /\ saved = NoGrade /\ profile = NoProfile
    /\ shown = [q \in Queries |-> CASE q = "run" -> "none" [] q = "grade" -> NoGrade
                                    [] q = "diagnostic" -> NoProfile]
    /\ loaded = {} /\ failed = {} /\ updates = 0
    /\ fetch = [q \in Queries |-> Sent]
    /\ regrade = [at |-> "idle", clicks |-> 0]
    /\ told = [q \in {"grade", "diagnostic"} |-> 0]
    /\ openDims = {}
Init == Mounted("running")

Next ==
    \/ Engine
    \/ \E q \in Queries : Poll(q) \/ EngineReads(q) \/ Answer(q)
    \/ RunFails
    \/ Retry
    \/ Regrade \/ RegradeSaves \/ RegradeProfiles \/ RegradeRefused \/ RegradeDone
    \/ \E d \in UNION {DOMAIN scores : scores \in Judgements} : ToggleDim(d)

Spec == Init /\ [][Next]_gradingVars

--------------------------------------------------------------------------------
\* After a regrade that succeeded the page does not settle on what it replaced: a
\* grade or diagnostic that was shown when it ended is not shown any more once no
\* request for it is in flight, unless that request failed.
RegradeIsShown ==
    \A q \in {"grade", "diagnostic"} :
        (fetch[q] = Idle /\ q \notin failed) => shown[q].version >= told[q]

\* A page at rest does not say that the judge is in progress when the run is over
\* and its grade has been judged.
JudgeIsShown ==
    (/\ \A q \in Queries : fetch[q] = Idle /\ ~PollDue(q)
     /\ Page = "body" /\ failed = {} /\ stage \in Terminal /\ DOMAIN saved.scores # {}) =>
        JudgeRows # {}
================================================================================
