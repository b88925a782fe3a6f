------------------------ MODULE GraderClient_proofs ------------------------
(***************************************************************************)
(* Proofs about GraderClient: for any number of callers, attempts and      *)
(* failures, a half-open breaker has at most one probe, and while it       *)
(* rejects other calls it has exactly one, which will report.              *)
(***************************************************************************)
EXTENDS GraderClient, TLAPS

(* The calls that count are under way; an open breaker has none, and a      *)
(* half-open one has as many as it has admitted.                            *)
BreakerInv ==
    /\ \A c \in current : pc[c] \in {"attempt", "backoff", "report"}
    /\ breaker = "open" => current = {}
    /\ breaker = "halfOpen" => /\ requests = 0 => current = {}
                               /\ requests = 1 => current # {}
                               /\ \A c, d \in current : c = d

IInv == TypeOK /\ BreakerInv

(* The counts of a new generation, and one more failure, are in bounds.     *)
LEMMA Bounds ==
    /\ 0 \in 0..MaxRequests /\ 1 \in 0..MaxRequests /\ 0 # 1
    /\ 0 \in 0..(Threshold - 1)
    /\ 0 \in 0..(MaxAttempts - 1)
    /\ \A f \in 0..(Threshold - 1) :
         f + 1 < Threshold => f + 1 \in 0..(Threshold - 1)
    /\ \A a \in 0..(MaxAttempts - 1) :
         a < MaxAttempts - 1 => a + 1 \in 0..(MaxAttempts - 1)
  BY GraderAssumption DEF MaxRequests, GraderAssumption

(* What a report leaves behind, whatever the answer was and whichever       *)
(* generation the call belongs to.                                          *)
Reported(c) ==
    /\ breaker' \in {"closed", "open", "halfOpen"}
    /\ expired' \in BOOLEAN
    /\ requests' \in 0..MaxRequests
    /\ failures' \in 0..(Threshold - 1)
    /\ current' \in SUBSET (current \ {c})
    /\ breaker' = "open" => current' = {}
    /\ breaker' = "halfOpen" => /\ requests' = 0 => current' = {}
                                /\ requests' = 1 => current' # {}
                                /\ \A d, e \in current' : d = e

LEMMA BecomeStep ==
    ASSUME NEW s \in {"closed", "open", "halfOpen"}, NEW c, Become(s)
    PROVE  Reported(c)
  BY Bounds, Zenon DEF Become, Reported

LEMMA StaleStep ==
    ASSUME IInv, NEW c \in Callers, c \notin current, Stale(c)
    PROVE  Reported(c)
<1>1. CASE State = breaker
  <2>1. UNCHANGED <<breaker, expired, requests, failures, current>>
    BY <1>1 DEF Stale, breakerVars
  <2>2. current \in SUBSET (current \ {c})
    OBVIOUS
  <2> QED
    BY <2>1, <2>2 DEF IInv, TypeOK, BreakerInv, Reported
<1>2. CASE State # breaker
  BY <1>2, BecomeStep DEF Stale, State
<1> QED
  BY <1>1, <1>2

LEMMA SuccessStep ==
    ASSUME IInv, NEW c \in Callers, c \in current, OnSuccess(c)
    PROVE  Reported(c)
<1>1. CASE Become("closed")
  BY <1>1, BecomeStep
<1>2. CASE /\ breaker = "closed"
           /\ failures' = 0
           /\ current' = current \ {c}
           /\ UNCHANGED <<breaker, expired, requests>>
  BY <1>2, Bounds DEF IInv, TypeOK, Reported
<1> QED
  BY <1>1, <1>2 DEF OnSuccess

LEMMA FailureStep ==
    ASSUME IInv, NEW c \in Callers, c \in current, OnFailure(c)
    PROVE  Reported(c)
<1>1. CASE Become("open")
  BY <1>1, BecomeStep
<1>2. CASE /\ breaker = "closed" /\ failures + 1 < Threshold
           /\ failures' = failures + 1
           /\ current' = current \ {c}
           /\ UNCHANGED <<breaker, expired, requests>>
  BY <1>2, Bounds DEF IInv, TypeOK, Reported
<1> QED
  BY <1>1, <1>2 DEF OnFailure

LEMMA InvInit == Init => IInv
  BY Bounds DEF Init, IInv, TypeOK, BreakerInv, Places, Errors, Modes

LEMMA InvStep == IInv /\ [Next]_vars => IInv'
<1> SUFFICES ASSUME IInv, [Next]_vars
             PROVE  IInv'
  OBVIOUS
<1> USE DEF IInv, TypeOK, Places, Errors, Modes
<1>1. ASSUME NEW c \in Callers, Admit(c)
      PROVE  IInv'
  <2>1. CASE Reject(c)
    BY <1>1, <2>1 DEF Admit, Reject, BreakerInv, breakerVars
  <2>2. CASE /\ State = "halfOpen" /\ (breaker = "halfOpen" => requests < MaxRequests)
             /\ breaker' = "halfOpen" /\ expired' = FALSE
             /\ requests' = 1 /\ failures' = 0
             /\ current' = IF breaker = "open" THEN {c} ELSE current \cup {c}
             /\ Admitted(c)
    <3>0. breaker = "open" \/ (breaker = "halfOpen" /\ requests = 0)
      BY <2>2 DEF State, MaxRequests
    <3>1. current' = {c}
      BY <2>2, <3>0 DEF BreakerInv
    <3>2. /\ pc' = [pc EXCEPT ![c] = "attempt"]
          /\ UNCHANGED <<attempts, err, ctxDone, latch, client, mode>>
      BY <1>1, <2>2 DEF Admit, Admitted
    <3>3. pc' \in [Callers -> Places]
      BY <3>2
    <3>4. TypeOK'
      BY <2>2, <3>1, <3>2, <3>3, Bounds, Zenon
    <3> QED
      BY <2>2, <3>1, <3>2, <3>4, Bounds DEF BreakerInv
  <2>3. CASE /\ State = "closed"
             /\ current' = current \cup {c}
             /\ Admitted(c)
             /\ UNCHANGED <<breaker, expired, requests, failures>>
    BY <1>1, <2>3 DEF Admit, Admitted, State, BreakerInv
  <2> QED
    BY <1>1, <2>1, <2>2, <2>3 DEF Admit
<1>2. ASSUME NEW c \in Callers, Attempt(c)
      PROVE  IInv'
  <2>1. PICK e \in Answers(c) :
          \/ /\ e = "unavailable" /\ attempts[c] < MaxAttempts - 1
             /\ Outcome(c, "backoff", e)
             /\ attempts' = [attempts EXCEPT ![c] = @ + 1]
          \/ Outcome(c, "report", e) /\ UNCHANGED attempts
    BY <1>2 DEF Attempt
  <2>2. e \in Errors
    BY <2>1 DEF Answers
  <2>3. TypeOK'
    BY <1>2, <2>1, <2>2, Bounds DEF Attempt, Outcome, breakerVars
  <2>4. BreakerInv'
    BY <1>2, <2>1 DEF Attempt, Outcome, breakerVars, BreakerInv
  <2> QED
    BY <2>3, <2>4
<1>3. ASSUME NEW c \in Callers, Backoff(c)
      PROVE  IInv'
  BY <1>3 DEF Backoff, Outcome, breakerVars, BreakerInv
<1>4. ASSUME NEW c \in Callers, Report(c)
      PROVE  IInv'
  <2>1. Reported(c)
    BY <1>4, StaleStep, SuccessStep, FailureStep DEF Report
  <2>2. /\ pc' \in [Callers -> Places]
        /\ \A d \in Callers \ {c} : pc'[d] = pc[d]
    BY <1>4 DEF Report
  <2>3. TypeOK'
    BY <1>4, <2>1, <2>2, Bounds DEF Report, Settle, Reported
  <2> QED
    BY <2>1, <2>2, <2>3 DEF BreakerInv, Reported
<1>5. ASSUME NEW c \in Callers, ReturnAnswer(c) \/ ReturnFallback(c)
      PROVE  IInv'
  BY <1>5 DEF ReturnAnswer, ReturnFallback, Return, breakerVars, BreakerInv
<1>6. ASSUME NEW c \in Callers, EndContext(c)
      PROVE  IInv'
  BY <1>6 DEF EndContext, breakerVars, BreakerInv
<1>7. CASE OpenTimeout \/ GraderChanges \/ Close \/ UNCHANGED vars
  BY <1>7 DEF OpenTimeout, GraderChanges, Close, vars, breakerVars, callVars, BreakerInv
<1> QED
  BY <1>1, <1>2, <1>3, <1>4, <1>5, <1>6, <1>7 DEF Next, CallStep

LEMMA Invariance == Spec => []IInv
  BY InvInit, InvStep, PTL DEF Spec

(* Type correctness, the bounds of the breaker's counts included: whatever  *)
(* resilience.go and gobreaker do between them, the failures that count     *)
(* stay below the threshold.                                                *)
THEOREM TypeCorrect == Spec => []TypeOK
<1>1. IInv => TypeOK
  BY DEF IInv
<1> QED
  BY <1>1, Invariance, PTL

(* A half-open breaker lets one call through at a time (newGraderBreaker).  *)
THEOREM OneProbe == Spec => []ProbeIsAlone
<1>1. IInv => ProbeIsAlone
  BY DEF IInv, BreakerInv, ProbeIsAlone
<1> QED
  BY <1>1, Invariance, PTL

(* While a half-open breaker rejects other calls, its probe is under way.   *)
THEOREM NotWedged == Spec => []NeverWedged
<1>1. IInv => NeverWedged
  BY DEF IInv, BreakerInv, NeverWedged, MaxRequests
<1> QED
  BY <1>1, Invariance, PTL
=============================================================================
