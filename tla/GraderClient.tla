---------------------------- MODULE GraderClient ----------------------------
(***************************************************************************)
(* How the engine calls the Python grader: GradeRun and ClassifyFailure    *)
(* share one gRPC connection and one circuit breaker.  A call passes the   *)
(* breaker, tries the RPC a few times with backoff in between, reports its *)
(* outcome to the breaker and returns the grader's answer or a fallback,   *)
(* never an error.  Workers and HTTP handlers call concurrently; the       *)
(* breaker's methods hold its mutex, so each is one step.                  *)
(*                                                                         *)
(* Sources: engine/internal/experiment/grader_client.go and resilience.go. *)
(* The breaker itself is sony/gobreaker v2, modelled from how it is used.  *)
(***************************************************************************)
EXTENDS Integers

CONSTANTS
    Callers,      \* the goroutines that grade or classify
    Kind,         \* the RPC a caller makes: "grade" or "classify"
    MaxAttempts,  \* defaultGraderRetry.MaxAttempts (3 in the code)
    Threshold,    \* consecutive failures that open the breaker (5)
    MayClose      \* whether the engine may shut the connection down

ASSUME GraderAssumption ==
    /\ Kind \in [Callers -> {"grade", "classify"}]
    /\ MaxAttempts \in Nat \ {0}
    /\ Threshold \in Nat \ {0}
    /\ MayClose \in BOOLEAN

MaxRequests == 1  \* the probes that a half-open breaker admits

VARIABLES
    breaker,   \* the state of the breaker
    expired,   \* the open state has lasted its 30 seconds
    requests,  \* Counts.Requests, which only the half-open state looks at
    failures,  \* Counts.ConsecutiveFailures
    current,   \* the calls admitted in the breaker's current generation
    pc,        \* where a caller stands
    attempts,  \* the attempts it has made
    err,       \* the error of its last attempt
    ctxDone,   \* its context was cancelled, or the RPC's deadline passed
    latch,     \* graderDownLogged
    client,    \* the client stub is set: Close was not called yet
    mode       \* what the grader does with an RPC

breakerVars == <<breaker, expired, requests, failures, current>>
callVars    == <<pc, attempts, err, ctxDone>>
vars        == <<breakerVars, callVars, latch, client, mode>>

Modes == {"up", "down", "broken", "hung"}

(* "status" is a gRPC status with code Canceled or DeadlineExceeded, and    *)
(* "context" the bare ctx.Err() that retryGrader returns from its backoff.  *)
Errors == {"none", "ok", "empty", "unavailable", "internal", "status",
           "context", "rejected", "panic"}

Places == {"idle", "attempt", "backoff", "report", "answered", "failed",
           "panicked"}

TypeOK ==
    /\ breaker \in {"closed", "open", "halfOpen"}
    /\ expired \in BOOLEAN
    /\ requests \in 0..MaxRequests
    /\ failures \in 0..(Threshold - 1)
    /\ current \in SUBSET Callers
    /\ pc \in [Callers -> Places]
    /\ attempts \in [Callers -> 0..(MaxAttempts - 1)]
    /\ err \in [Callers -> Errors]
    /\ ctxDone \in [Callers -> BOOLEAN]
    /\ latch \in BOOLEAN
    /\ client \in BOOLEAN
    /\ mode \in Modes

Init ==
    /\ breaker = "closed"
    /\ expired = FALSE
    /\ requests = 0
    /\ failures = 0
    /\ current = {}
    /\ pc = [c \in Callers |-> "idle"]
    /\ attempts = [c \in Callers |-> 0]
    /\ err = [c \in Callers |-> "none"]
    /\ ctxDone = [c \in Callers |-> FALSE]
    /\ latch = FALSE
    /\ client = TRUE
    /\ mode = "up"

-----------------------------------------------------------------------------
(* The breaker.                                                             *)

(* currentState: an open breaker whose time is up becomes half-open.        *)
State == IF breaker = "open" /\ expired THEN "halfOpen" ELSE breaker

(* A new state starts a new generation: the counts are cleared, and calls   *)
(* that were admitted before do not count any more.                         *)
Become(state) ==
    /\ breaker' = state
    /\ expired' = FALSE
    /\ requests' = 0
    /\ failures' = 0
    /\ current' = {}

(* Mutant: only the context errors count as successes.                      *)
IsContextError(e) == e = "context"

(* IsSuccessful: no error, or a context error.  A gRPC status is not one,   *)
(* whatever its code: errors.Is does not see context.Canceled in it.        *)
IsSuccessful(e) == e \in {"ok", "empty", "context"}

Reject(c) ==
    /\ pc' = [pc EXCEPT ![c] = "failed"]
    /\ err' = [err EXCEPT ![c] = "rejected"]
    /\ UNCHANGED <<breakerVars, attempts, ctxDone>>

Admitted(c) ==
    /\ pc' = [pc EXCEPT ![c] = "attempt"]
    /\ UNCHANGED <<attempts, err, ctxDone>>

(* Mutant: the half-open state admits everybody.                            *)
AdmitAll(c) ==
    /\ pc[c] = "idle" /\ client
    /\ \/ State = "open" /\ Reject(c)
       \/ /\ State = "halfOpen"
          /\ breaker' = "halfOpen" /\ expired' = FALSE
          /\ requests' = 1 /\ failures' = 0
          /\ current' = IF breaker = "open" THEN {c} ELSE current \cup {c}
          /\ Admitted(c)
       \/ /\ State = "closed"
          /\ current' = current \cup {c}
          /\ Admitted(c)
          /\ UNCHANGED <<breaker, expired, requests, failures>>
    /\ UNCHANGED <<latch, client, mode>>

(* The nil check of the client (without a client the fallback is returned   *)
(* at once, and nothing changes), then beforeRequest.                       *)
Admit(c) ==
    /\ pc[c] = "idle" /\ client
    /\ \/ State = "open" /\ Reject(c)
       \/ breaker = "halfOpen" /\ requests >= MaxRequests /\ Reject(c)
       \/ /\ State = "halfOpen" /\ (breaker = "halfOpen" => requests < MaxRequests)
          /\ breaker' = "halfOpen" /\ expired' = FALSE
          /\ requests' = 1 /\ failures' = 0
          /\ current' = IF breaker = "open" THEN {c} ELSE current \cup {c}
          /\ Admitted(c)
       \/ /\ State = "closed"
          /\ current' = current \cup {c}
          /\ Admitted(c)
          /\ UNCHANGED <<breaker, expired, requests, failures>>
    /\ UNCHANGED <<latch, client, mode>>

-----------------------------------------------------------------------------
(* retryGrader.                                                             *)

Outcome(c, place, e) ==
    /\ pc' = [pc EXCEPT ![c] = place]
    /\ err' = [err EXCEPT ![c] = e]

(* Mutant: the RPC is made under a context of its own, without deadline.    *)
AnswersWithoutContext(c) ==
    IF ~client THEN {"panic"}
    ELSE CASE mode = "up"     -> IF Kind[c] = "classify" THEN {"ok", "empty"} ELSE {"ok"}
           [] mode = "down"   -> {"unavailable"}
           [] mode = "broken" -> {"internal"}
           [] mode = "hung"   -> {}

(* What the RPC can answer now.  A grader that hangs answers only through   *)
(* the end of the context; a client that was closed meanwhile is a nil      *)
(* interface, and the call panics.                                          *)
Answers(c) ==
    IF ~client THEN {"panic"}
    ELSE IF ctxDone[c] THEN {"status"}
    ELSE CASE mode = "up"     -> IF Kind[c] = "classify" THEN {"ok", "empty"} ELSE {"ok"}
           [] mode = "down"   -> {"unavailable"}
           [] mode = "broken" -> {"internal"}
           [] mode = "hung"   -> {}

(* Only Unavailable is retried.                                             *)
Attempt(c) ==
    /\ pc[c] = "attempt"
    /\ \E e \in Answers(c) :
         IF e = "unavailable" /\ attempts[c] < MaxAttempts - 1
         THEN /\ Outcome(c, "backoff", e)
              /\ attempts' = [attempts EXCEPT ![c] = @ + 1]
         ELSE Outcome(c, "report", e) /\ UNCHANGED attempts
    /\ UNCHANGED <<breakerVars, ctxDone, latch, client, mode>>

(* The delay passes, or the context ends; when both have, select picks one. *)
Backoff(c) ==
    /\ pc[c] = "backoff"
    /\ \/ Outcome(c, "attempt", err[c])
       \/ ctxDone[c] /\ Outcome(c, "report", "context")
    /\ UNCHANGED <<breakerVars, attempts, ctxDone, latch, client, mode>>

(* afterRequest, in the generation that admitted the call.                  *)
OnSuccess(c) ==
    \/ /\ breaker = "halfOpen"
       /\ Become("closed")
    \/ /\ breaker = "closed"
       /\ failures' = 0
       /\ current' = current \ {c}
       /\ UNCHANGED <<breaker, expired, requests>>

(* Mutant: the breaker opens one failure late.                              *)
TripLate(c) ==
    \/ /\ breaker = "halfOpen" \/ failures + 1 > Threshold
       /\ Become("open")
    \/ /\ breaker = "closed" /\ failures + 1 <= Threshold
       /\ failures' = failures + 1
       /\ current' = current \ {c}
       /\ UNCHANGED <<breaker, expired, requests>>

OnFailure(c) ==
    \/ /\ breaker = "halfOpen" \/ failures + 1 >= Threshold
       /\ Become("open")
    \/ /\ breaker = "closed" /\ failures + 1 < Threshold
       /\ failures' = failures + 1
       /\ current' = current \ {c}
       /\ UNCHANGED <<breaker, expired, requests>>

(* afterRequest of a call from an earlier generation only lets the open     *)
(* breaker notice that its time is up.                                      *)
Stale(c) ==
    IF State = breaker THEN UNCHANGED breakerVars ELSE Become(State)

(* Nobody looks at the attempts and the context of this call again.         *)
Settle(c) ==
    /\ attempts' = [attempts EXCEPT ![c] = 0]
    /\ ctxDone' = [ctxDone EXCEPT ![c] = FALSE]

(* Mutant: a call whose context ended is not reported.                      *)
ForgetEndedCalls(c) ==
    /\ pc[c] = "report"
    /\ IF c \notin current THEN Stale(c)
       ELSE IF ctxDone[c]
       THEN current' = current \ {c} /\ UNCHANGED <<breaker, expired, requests, failures>>
       ELSE IF IsSuccessful(err[c]) THEN OnSuccess(c)
       ELSE OnFailure(c)
    /\ pc' = [pc EXCEPT ![c] = IF err[c] \in {"ok", "empty"} THEN "answered" ELSE "failed"]
    /\ Settle(c)
    /\ UNCHANGED <<err, latch, client, mode>>

Report(c) ==
    /\ pc[c] = "report"
    /\ IF c \notin current THEN Stale(c)
       ELSE IF IsSuccessful(err[c]) THEN OnSuccess(c)
       ELSE OnFailure(c)
    /\ pc' = [pc EXCEPT ![c] =
         CASE err[c] \in {"ok", "empty"} -> "answered"
           [] err[c] = "panic" -> "panicked"
           [] OTHER -> "failed"]
    /\ Settle(c)
    /\ UNCHANGED <<err, latch, client, mode>>

-----------------------------------------------------------------------------
(* GradeRun and ClassifyFailure return.                                     *)

Return(c) ==
    /\ pc' = [pc EXCEPT ![c] = "idle"]
    /\ err' = [err EXCEPT ![c] = "none"]
    /\ UNCHANGED <<attempts, ctxDone>>

(* The grader's answer, or the fallback for an empty classification.  A     *)
(* grade resets the latch.                                                  *)
ReturnAnswer(c) ==
    /\ pc[c] = "answered"
    /\ Return(c)
    /\ latch' = (latch /\ Kind[c] = "classify")
    /\ UNCHANGED <<breakerVars, client, mode>>

(* A grade that the breaker rejected warns unless the latch is set; any     *)
(* other failure is logged as an error, and so is every failure to classify.*)
ReturnFallback(c) ==
    /\ pc[c] = "failed"
    /\ Return(c)
    /\ latch' = (latch \/ (Kind[c] = "grade" /\ err[c] = "rejected"))
    /\ UNCHANGED <<breakerVars, client, mode>>

-----------------------------------------------------------------------------
(* The environment.                                                         *)

(* An experiment is cancelled, or the deadline of the call passes.          *)
EndContext(c) ==
    /\ pc[c] \in {"attempt", "backoff"} /\ ~ctxDone[c]
    /\ ctxDone' = [ctxDone EXCEPT ![c] = TRUE]
    /\ UNCHANGED <<breakerVars, pc, attempts, err, latch, client, mode>>

OpenTimeout ==
    /\ breaker = "open" /\ ~expired
    /\ expired' = TRUE
    /\ UNCHANGED <<breaker, requests, failures, current, callVars, latch, client, mode>>

GraderChanges ==
    /\ mode' \in Modes \ {mode}
    /\ UNCHANGED <<breakerVars, callVars, latch, client>>

(* The deferred Close of the shutdown: the queue's workers still run, since *)
(* queue.Close is deferred earlier and so runs later.                       *)
Close ==
    /\ MayClose /\ client
    /\ client' = FALSE
    /\ UNCHANGED <<breakerVars, callVars, latch, mode>>

CallStep(c) ==
    \/ Attempt(c) \/ Backoff(c) \/ Report(c)
    \/ ReturnAnswer(c) \/ ReturnFallback(c)

Next ==
    \/ \E c \in Callers : Admit(c) \/ CallStep(c) \/ EndContext(c)
    \/ OpenTimeout \/ GraderChanges \/ Close

Spec == Init /\ [][Next]_vars

(* Every call carries a deadline (gradeRunTimeout, classifyFailureTimeout), *)
(* timers fire and goroutines run.  Nothing makes anybody call, and nothing *)
(* makes the grader come back.                                              *)
Fairness ==
    /\ \A c \in Callers : WF_vars(CallStep(c)) /\ WF_vars(EndContext(c))
    /\ WF_vars(OpenTimeout)

FairSpec == Spec /\ Fairness

-----------------------------------------------------------------------------
(* Safety.                                                                  *)

(* However calls interleave with the trip, the timeout and late answers of  *)
(* calls from before, a half-open breaker lets one call through.            *)
ProbeIsAlone ==
    breaker = "halfOpen" => \A c, d \in current : c = d

(* A half-open breaker that rejects everybody has a probe that will report: *)
(* a probe that panics, is cancelled or runs into its deadline does not     *)
(* leave the breaker half-open for ever.                                    *)
NeverWedged ==
    breaker = "halfOpen" /\ requests = MaxRequests =>
        \E c \in current : pc[c] \in {"attempt", "backoff", "report"}

(* Liveness.  A grade or a classification never blocks its worker for ever, *)
(* though the grader may hang.                                              *)
CallsReturn ==
    \A c \in Callers : pc[c] # "idle" ~> pc[c] \in {"idle", "panicked"}

(* Once the grader works again and nobody cancels, the breaker closes and   *)
(* stays closed, provided that anybody calls.                               *)
Recovers ==
    <>[](mode = "up" /\ \A c \in Callers : ~ctxDone[c])
      /\ []<>(\E c \in Callers : pc[c] \notin {"idle", "panicked"})
    => <>[](breaker = "closed")

-----------------------------------------------------------------------------
(* What comments say of the program, and the code does not do.              *)

(* resilience.go:61-64, 116-120: an operator who cancels runs, or a call    *)
(* that runs into its deadline, cannot trip the breaker for everyone else.  *)
CancelNeverTrips ==
    [][\A c \in Callers :
          pc[c] = "report" /\ pc'[c] # "report"
            /\ err[c] \in {"status", "context"}
          => failures' <= failures /\ (breaker' = "open" => breaker = "open")]_vars
=============================================================================
