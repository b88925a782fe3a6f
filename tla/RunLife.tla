------------------------------- MODULE RunLife -------------------------------
(***************************************************************************)
(* What the engine promises of a run, whoever executes it and however its  *)
(* requests, workers and restarts interleave: the rows of a run show one   *)
(* life, in which only a run that is waiting begins, only one that was     *)
(* executed, saved and graded completes, and a completed one is over       *)
(* unless its client asks for it again or deletes it.                      *)
(***************************************************************************)
CONSTANTS
    Runs,       \* the runs of all experiments
    Retried     \* those that a client may ask for again

VARIABLES
    status,     \* runs.status, "none" before there is a row
    transcript, \* the transcripts row
    grade       \* the grades row

lifeVars == <<status, transcript, grade>>

Waiting == {"pending", "failed", "cancelled"}
Unfinished == Waiting \cup {"running", "grading"}

Init ==
    /\ status = [r \in Runs |-> "none"]
    /\ transcript = [r \in Runs |-> "none"]
    /\ grade = [r \in Runs |-> "none"]

Turn(S, from, to) ==
    /\ \A r \in S : status[r] \in from
    /\ status' = [r \in Runs |-> IF r \in S THEN to ELSE status[r]]
    /\ UNCHANGED <<transcript, grade>>

(* What a request does to many runs at once, or to one again.              *)
Create(S) == Turn(S, {"none"}, "pending")
CancelPending(S) == Turn(S, {"pending"}, "cancelled")
Delete(S) ==
    /\ status' = [r \in Runs |-> IF r \in S THEN "deleted" ELSE status[r]]
    /\ transcript' = [r \in Runs |-> IF r \in S THEN "none" ELSE transcript[r]]
    /\ grade' = [r \in Runs |-> IF r \in S THEN "none" ELSE grade[r]]
Retry(r) == r \in Retried /\ Turn({r}, Unfinished \cup {"completed"}, "pending")

(* What happens to a run that is executed.                                 *)
Begin(r) == Turn({r}, Waiting, "running")
SaveTranscript(r, content) ==
    /\ status[r] = "running"
    /\ transcript' = [transcript EXCEPT ![r] = content]
    /\ UNCHANGED <<status, grade>>
BeginGrading(r) == transcript[r] = "final" /\ Turn({r}, {"running"}, "grading")
SaveGrade(r, before, content) ==
    /\ status[r] = "grading"
    /\ grade[r] \in before
    /\ grade' = [grade EXCEPT ![r] = content]
    /\ UNCHANGED <<status, transcript>>
Complete(r) ==
    /\ transcript[r] = "final" /\ grade[r] = "full"
    /\ Turn({r}, {"grading"}, "completed")
Fail(r) == Turn({r}, Unfinished, "failed")
Cancel(r) == Turn({r}, Unfinished, "cancelled")

(* Of a run that was deleted while it was executed, rows may be written,    *)
(* but it does not come back.                                               *)
WriteLate(r) ==
    /\ status[r] = "deleted"
    /\ \/ \E t \in {"partial", "final"} :
              transcript' = [transcript EXCEPT ![r] = t] /\ UNCHANGED <<status, grade>>
       \/ \E g \in {"partial", "full"} :
              grade' = [grade EXCEPT ![r] = g] /\ UNCHANGED <<status, transcript>>

Next ==
    \/ \E S \in SUBSET Runs : Create(S) \/ CancelPending(S) \/ Delete(S)
    \/ \E r \in Runs :
        \/ Retry(r) \/ Begin(r)
        \/ SaveTranscript(r, "partial") \/ SaveTranscript(r, "final")
        \/ BeginGrading(r)
        \/ SaveGrade(r, {"none", "partial", "full"}, "partial")
        \/ SaveGrade(r, {"partial"}, "full")
        \/ Complete(r) \/ Fail(r) \/ Cancel(r) \/ WriteLate(r)

Spec == Init /\ [][Next]_lifeVars
=============================================================================
