--------------------------- MODULE Harness_proofs ---------------------------
(***************************************************************************)
(* Proofs about Harness: for any plan, any output of the agent and any     *)
(* moment at which the context ends, at most one call is made with a dead  *)
(* context, and a run that goes on to be graded made every call of its     *)
(* plan without an error.                                                  *)
(***************************************************************************)
EXTENDS Harness, ListFacts

Errors  == {"none", "failed", "context"}
Turns   == [stage : StageNames, index : Nat, does : Does]
Over    == {"teardown", "ended"}
AtWork  == {"loop", "agent"}

(* Where the plan stands.  A call under way is one of the plan; the loop    *)
(* goes on only while ralph is not stuck.                                   *)
PlanInv ==
    /\ phase = "agent" => Called < Len(Plan(harness))
    /\ streak = 2 => phase \in Over
    /\ phase \in {"setup", "prep"} => results = <<>>

(* What the calls returned.  While the loop goes on none was refused, and   *)
(* only a role of multiagent may have failed.                               *)
CallsInv ==
    /\ OneRefusal
    /\ dead /\ phase = "agent" => ctx # "live"
    /\ phase \notin Over => err = "none"
    /\ phase \in AtWork => \A i \in DOMAIN results :
          results[i].err = "none" \/ (harness = "multiagent" /\ results[i].err = "failed")
    /\ phase \in Over /\ err = "none" =>
          /\ \A i \in DOMAIN results : results[i].err = "none"
          /\ Called = Len(Plan(harness)) \/ harness = "ralph"
    /\ outcome = "ok" => err = "none"

IInv == TypeOK /\ PlanInv /\ CallsInv

(* A sequence is one of its own elements.                                   *)
LEMMA OwnRange ==
    ASSUME NEW S, NEW s \in Seq(S), NEW T, Range(s) \subseteq T
    PROVE  s \in Seq(T)
<1>1. s \in [1..Len(s) -> S] /\ DOMAIN s = 1..Len(s) /\ Len(s) \in Nat
  OBVIOUS
<1>2. s \in [1..Len(s) -> T]
  BY <1>1 DEF Range
<1> QED
  BY <1>1, <1>2

(* A plan of one call.                                                      *)
LEMMA Single == ASSUME NEW S, NEW x \in S PROVE <<x>> \in Seq(S) /\ Len(<<x>>) = 1
  OBVIOUS

(* A plan is a sequence of names.                                           *)
LEMMA PlanType ==
    ASSUME NEW h \in HarnessIds
    PROVE  Plan(h) \in Seq(StageNames)
<1>1. /\ Iterations \in Seq(STRING) /\ Roles \in Seq(STRING) /\ SpecStages \in Seq(STRING)
      /\ MaxIterations \in Nat \ {0} /\ Len(Iterations) >= MaxIterations
  BY HarnessAssumption DEF HarnessAssumption
<1>2. Roles \in Seq(StageNames) /\ SpecStages \in Seq(StageNames) /\ Iterations \in Seq(StageNames)
  BY <1>1, OwnRange DEF StageNames
<1>3. SubSeq(Iterations, 1, MaxIterations) \in Seq(StageNames)
  BY <1>1, <1>2
<1>4. "" \in StageNames
  BY DEF StageNames
<1>5. <<"">> \in Seq(StageNames)
  BY <1>4, Single, Zenon
<1>6. h = "ralph" => Plan(h) = SubSeq(Iterations, 1, MaxIterations)
  BY Zenon DEF Plan
<1>7. h = "multiagent" => Plan(h) = Roles
  BY DEF Plan
<1>8. h = "speckit" => Plan(h) = SpecStages
  BY DEF Plan
<1>9. h \in {"bare", "agent_instructions"} => Plan(h) = <<"">>
  BY DEF Plan
<1>10. h \in {"bare", "agent_instructions", "ralph", "multiagent", "speckit"}
  BY HarnessAssumption DEF HarnessAssumption
<1> QED
  BY <1>2, <1>3, <1>5, <1>6, <1>7, <1>8, <1>9, <1>10, Zenon

(* Stamped turns are turns.                                                 *)
LEMMA GroupingType ==
    ASSUME NEW said \in Outputs, NEW stage \in StageNames
    PROVE  AssignTurnGrouping(said, stage) \in Seq(Turns)
<1>1. said \in Seq(Does)
  BY HarnessAssumption DEF HarnessAssumption
<1>2. \A i \in 1..Len(said) : i - 1 \in Nat /\ said[i] \in Does
  BY <1>1
<1>3. AssignTurnGrouping(said, stage) \in [1..Len(said) -> Turns]
  BY <1>1, <1>2 DEF AssignTurnGrouping, Turns
<1>4. Len(said) \in Nat
  BY <1>1
<1> QED
  BY <1>3, <1>4, SeqDef, Zenon

(* A call that returned is appended, and the others stay.                   *)
LEMMA Recorded ==
    ASSUME TypeOK, PlanInv, phase = "agent",
           NEW said \in Outputs, NEW why \in Errors, NEW idle \in BOOLEAN,
           NEW fp \in Works \cup {NoPrint}, Record(said, why, idle, fp), harness' = harness
    PROVE  /\ results' \in Seq(Results)
           /\ Called' = Called + 1 /\ Called' <= Len(Plan(harness'))
           /\ DOMAIN results' = 1..(Called + 1)
           /\ results'[Called + 1].err = why
           /\ results'[Called + 1].refused = dead
           /\ \A i \in 1..Called : i \in DOMAIN results /\ results'[i] = results[i]
<1>1. /\ results \in Seq(Results) /\ Called \in Nat /\ dead \in BOOLEAN
      /\ Plan(harness) \in Seq(StageNames) /\ Called < Len(Plan(harness))
  BY PlanType DEF TypeOK, PlanInv, Called
<1>2. Stage \in StageNames
  BY <1>1 DEF Stage
<1>3. AssignTurnGrouping(said, Stage) \in Seq(Turns)
  BY <1>2, GroupingType
<1>4. Result(said, why, idle, fp) \in Results
  BY <1>1, <1>2, <1>3 DEF Result, Results, Turns, Errors
<1>5. Result(said, why, idle, fp).err = why /\ Result(said, why, idle, fp).refused = dead
  BY DEF Result
<1>6. results' = Append(results, Result(said, why, idle, fp))
  BY DEF Record
<1>7. /\ results' \in Seq(Results) /\ Len(results') = Len(results) + 1
      /\ DOMAIN results' = 1..(Len(results) + 1)
      /\ results'[Len(results) + 1] = Result(said, why, idle, fp)
      /\ \A i \in 1..Len(results) : i \in DOMAIN results /\ results'[i] = results[i]
  BY <1>1, <1>4, <1>6
<1>8. Len(results) = Called /\ Len(results') = Called' /\ Len(Plan(harness')) \in Nat
  BY <1>1 DEF Called
<1> QED
  BY <1>1, <1>5, <1>7, <1>8

(* The agent's two ways to return.                                          *)
LEMMA AgentCases ==
    ASSUME TypeOK, NEW said \in Outputs, NEW why \in Errors, Agent(said, why)
    PROVE  /\ files' \subseteq Paths
           /\ dead => why = "context"
  BY HarnessAssumption DEF HarnessAssumption, Agent, TypeOK

(* A plan of ralph has MaxIterations calls, and each leaves a fingerprint.   *)
LEMMA LeaveType ==
    ASSUME TypeOK, PlanInv, phase = "agent", harness = "ralph",
           NEW idle \in BOOLEAN, Leave(idle)
    PROVE  work' \in Works
<1>1. Plan(harness) = SubSeq(Iterations, 1, MaxIterations)
  BY DEF Plan
<1>2. MaxIterations \in Nat \ {0} /\ Len(Plan(harness)) = MaxIterations
  BY <1>1, HarnessAssumption DEF HarnessAssumption
<1>3. Called \in Nat /\ Called < MaxIterations
  BY <1>2 DEF PlanInv, TypeOK, Called
<1>4. work \in Works
  BY DEF TypeOK
<1> QED
  BY <1>2, <1>3, <1>4 DEF Leave, Works

(* What every loop does with a call that returned.                          *)
LEMMA ReturnTypes ==
    ASSUME TypeOK, PlanInv, phase = "agent",
           NEW said \in Outputs, NEW why \in Errors, NEW idle \in BOOLEAN,
           NEW fp \in Works \cup {NoPrint},
           Agent(said, why), Record(said, why, idle, fp), AfterCall,
           phase' \in {"loop", "teardown"}, err' \in Errors,
           work' \in Works, prev' \in Works \cup {NoPrint}, streak' \in 0..2,
           streak' = 2 => phase' = "teardown"
    PROVE  TypeOK' /\ PlanInv'
<1>1. harness' = harness
  BY DEF AfterCall, task
<1>2. results' \in Seq(Results) /\ Called' <= Len(Plan(harness'))
  BY <1>1, Recorded
<1>3. files' \subseteq Paths
  BY AgentCases
<1>4. TypeOK'
  BY <1>1, <1>2, <1>3 DEF TypeOK, AfterCall, task, Errors
<1>5. PlanInv'
  BY DEF PlanInv, Over
<1> QED
  BY <1>4, <1>5

(* A call that returned, as CallsInv sees it.                               *)
LEMMA ReturnCalls ==
    ASSUME IInv, phase = "agent",
           NEW said \in Outputs, NEW why \in Errors, NEW idle \in BOOLEAN,
           NEW fp \in Works \cup {NoPrint},
           Agent(said, why), Record(said, why, idle, fp), AfterCall,
           \/ /\ phase' = "loop" /\ err' = err
              /\ why = "none" \/ (harness = "multiagent" /\ why = "failed")
           \/ phase' = "teardown" /\ err' = why /\ why # "none"
           \/ phase' = "teardown" /\ err' = why /\ harness \in {"bare", "agent_instructions"}
           \/ phase' = "teardown" /\ err' = err /\ why = "none" /\ harness = "ralph"
    PROVE  CallsInv'
<1>1. harness' = harness /\ ctx' = ctx /\ dead' = dead /\ outcome' = outcome
  BY DEF AfterCall, task
<1>2. /\ Called' = Called + 1
      /\ DOMAIN results' = 1..(Called + 1)
      /\ results'[Called + 1].err = why
      /\ results'[Called + 1].refused = dead
      /\ \A i \in 1..Called : i \in DOMAIN results /\ results'[i] = results[i]
  BY <1>1, Recorded DEF IInv
<1>3. results \in Seq(Results) /\ Called \in Nat
  BY DEF IInv, TypeOK, Called
<1>4. dead => why = "context" /\ phase' = "teardown"
  BY AgentCases DEF IInv
<1>5. \A i \in 1..Called :
        /\ ~results'[i].refused
        /\ results'[i].err = "none" \/ (harness = "multiagent" /\ results'[i].err = "failed")
  BY <1>2, <1>3 DEF IInv, CallsInv, OneRefusal, AtWork
<1>6. OneRefusal'
  BY <1>2, <1>3, <1>4, <1>5 DEF OneRefusal
<1>7. phase' \in AtWork => \A i \in DOMAIN results' :
        results'[i].err = "none" \/ (harness' = "multiagent" /\ results'[i].err = "failed")
  BY <1>1, <1>2, <1>3, <1>5 DEF AtWork
<1>8. err = "none"
  BY DEF IInv, CallsInv, Over
<1>9. phase' \in Over /\ err' = "none" =>
        /\ \A i \in DOMAIN results' : results'[i].err = "none"
        /\ Called' = Len(Plan(harness')) \/ harness' = "ralph"
  <2>1. SUFFICES ASSUME phase' \in Over, err' = "none"
                 PROVE  /\ \A i \in DOMAIN results' : results'[i].err = "none"
                        /\ Called' = Len(Plan(harness')) \/ harness' = "ralph"
    OBVIOUS
  <2>2. why = "none" /\ harness \in {"bare", "agent_instructions", "ralph"}
    BY <2>1 DEF Over
  <2>3. \A i \in DOMAIN results' : results'[i].err = "none"
    BY <1>2, <1>3, <1>5, <2>2
  <2>4. harness \in {"bare", "agent_instructions"} => Plan(harness) = <<"">>
    BY DEF Plan
  <2>5. Len(<<"">>) = 1
    BY Single, Zenon
  <2>6. harness \in {"bare", "agent_instructions"} => Called' = Len(Plan(harness))
    <3>1. Called < Len(Plan(harness))
      BY DEF IInv, PlanInv
    <3>2. harness \in {"bare", "agent_instructions"} => Len(Plan(harness)) = 1
      BY <2>4, <2>5, Zenon
    <3>3. Called \in Nat /\ Called' = Called + 1
      BY <1>2, <1>3
    <3>4. ASSUME harness \in {"bare", "agent_instructions"}
          PROVE  Called' = Len(Plan(harness))
      <4>1. Len(Plan(harness)) = 1
        BY <3>2, <3>4
      <4>2. Called < 1
        BY <3>1, <4>1
      <4>3. Called' = 1
        BY <3>3, <4>2
      <4> QED
        BY <4>1, <4>3
    <3> QED
      BY <3>4
  <2> QED
    BY <1>1, <2>2, <2>3, <2>6
<1> QED
  BY <1>1, <1>4, <1>6, <1>7, <1>8, <1>9 DEF CallsInv, IInv, Over, AtWork, TypeOK

LEMMA InvInit == Init => IInv
<1> SUFFICES ASSUME Init
             PROVE  IInv
  OBVIOUS
<1>1. harness \in HarnessIds /\ Plan(harness) \in Seq(StageNames)
  BY PlanType DEF Init
<1>2. results = <<>> /\ Called = 0 /\ DOMAIN results = {} /\ results \in Seq(Results)
  BY DEF Init, Called
<1>3. shipped \subseteq Paths
  BY HarnessAssumption DEF HarnessAssumption, Init
<1>4. Called <= Len(Plan(harness))
  BY <1>1, <1>2
<1>5. results \in Seq(Results) /\ Called <= Len(Plan(harness))
  BY <1>2, <1>4
<1>6. configured \in BOOLEAN /\ constitution \in BOOLEAN
  BY DEF Init
<1>7. files \subseteq Paths /\ work \in Works
  BY <1>3, HarnessAssumption DEF HarnessAssumption, Init, Works
<1>9. owns \in BOOLEAN /\ dead \in BOOLEAN /\ renews \in BOOLEAN
  BY Zenon DEF Init
<1>10. prev \in Works \cup {NoPrint} /\ streak \in 0..2
  BY DEF Init
<1>11. ctx = "live" /\ phase = "setup" /\ err = "none" /\ outcome = "none"
  BY DEF Init
<1>8. TypeOK
  BY <1>1, <1>3, <1>5, <1>6, <1>7, <1>9, <1>10, <1>11 DEF TypeOK
<1> QED
  BY <1>2, <1>8 DEF Init, IInv, PlanInv, CallsInv, OneRefusal, Over, AtWork

(* A step that makes no call and leaves the results alone.                  *)
LEMMA Quiescent ==
    ASSUME IInv, UNCHANGED <<harness, results>>
    PROVE  /\ Called' = Called /\ Len(Plan(harness')) = Len(Plan(harness))
           /\ DOMAIN results' = DOMAIN results
           /\ Called \in Nat /\ Len(Plan(harness)) \in Nat
  BY PlanType DEF Called, IInv, TypeOK

(* One call of each harness.                                                *)
LEMMA ReturnStep ==
    ASSUME IInv, NEW said \in Outputs, NEW why \in Errors,
           \/ ReturnSingle(said, why) \/ ReturnSpecKit(said, why)
           \/ ReturnMultiAgent(said, why) \/ ReturnRalph(said, why)
    PROVE  IInv'
<1>0. TypeOK /\ PlanInv /\ err \in Errors /\ streak \in 0..2 /\ prev \in Works \cup {NoPrint}
  BY DEF IInv, TypeOK, Errors
<1>a. work \in Works
  BY DEF IInv, TypeOK
<1>1. CASE ReturnSingle(said, why)
  <2>1. TypeOK' /\ PlanInv'
    BY <1>0, <1>a, <1>1, ReturnTypes DEF ReturnSingle, PlanInv, Over
  <2>2. CallsInv'
    BY <1>1, ReturnCalls DEF ReturnSingle
  <2> QED
    BY <2>1, <2>2 DEF IInv
<1>2. CASE ReturnSpecKit(said, why)
  <2>0. err = "none"
    BY <1>2 DEF IInv, CallsInv, ReturnSpecKit, Over
  <2>1. TypeOK' /\ PlanInv'
    BY <1>0, <1>a, <1>2, ReturnTypes DEF ReturnSpecKit, PlanInv, Over
  <2>2. CallsInv'
    BY <1>2, <2>0, ReturnCalls DEF ReturnSpecKit
  <2> QED
    BY <2>1, <2>2 DEF IInv
<1>3. CASE ReturnMultiAgent(said, why)
  <2>1. TypeOK' /\ PlanInv'
    BY <1>0, <1>a, <1>3, ReturnTypes DEF ReturnMultiAgent, PlanInv, Over
  <2>2. CallsInv'
    BY <1>3, ReturnCalls DEF ReturnMultiAgent, Errors
  <2> QED
    BY <2>1, <2>2 DEF IInv
<1>4. CASE ReturnRalph(said, why)
  <2>0. phase = "agent" /\ Agent(said, why) /\ AfterCall /\ harness = "ralph"
    BY <1>4 DEF ReturnRalph
  <2>1. CASE why # "none"
    <3>1. TypeOK' /\ PlanInv'
      BY <1>0, <1>a, <1>4, <2>1, ReturnTypes DEF ReturnRalph, PlanInv, Over
    <3>2. CallsInv'
      BY <1>4, <2>1, ReturnCalls DEF ReturnRalph
    <3> QED
      BY <3>1, <3>2 DEF IInv
  <2>2. CASE why = "none"
    <3>0. PICK idle \in BOOLEAN :
            /\ Leave(idle)
            /\ \E fp \in {work', NoPrint} :
                 /\ Record(said, why, idle, fp)
                 /\ IF fp = NoPrint THEN phase' = "loop" /\ UNCHANGED <<prev, streak>>
                                    ELSE Progress(fp)
            /\ UNCHANGED err
      BY <1>4, <2>2 DEF ReturnRalph
    <3>a. work' \in Works
      BY <1>0, <2>0, <3>0, LeaveType
    <3>1. PICK fp \in {work', NoPrint} :
            /\ Record(said, why, idle, fp)
            /\ IF fp = NoPrint THEN phase' = "loop" /\ UNCHANGED <<prev, streak>>
                               ELSE Progress(fp)
            /\ UNCHANGED err
      BY <3>0
    <3>2. fp \in Works \cup {NoPrint}
      BY <3>a, <3>1
    <3>3. streak \in 0..1
      BY <1>0, <2>0 DEF PlanInv, Over
    <3>4. CASE fp = NoPrint
      <4>1. TypeOK' /\ PlanInv'
        BY <1>0, <2>0, <3>a, <3>1, <3>2, <3>3, <3>4, ReturnTypes
      <4>2. CallsInv'
        BY <2>0, <2>2, <3>1, <3>2, <3>4, ReturnCalls
      <4> QED
        BY <4>1, <4>2 DEF IInv
    <3>5. CASE fp # NoPrint
      <4>0. /\ streak' \in 0..2 /\ prev' \in Works \cup {NoPrint}
            /\ phase' \in {"loop", "teardown"}
            /\ streak' = 2 => phase' = "teardown"
        BY <1>0, <3>1, <3>2, <3>3, <3>5 DEF Progress
      <4>1. TypeOK' /\ PlanInv'
        BY <1>0, <2>0, <3>a, <3>1, <3>2, <4>0, ReturnTypes
      <4>2. CallsInv'
        BY <2>0, <2>2, <3>1, <3>2, <4>0, ReturnCalls
      <4> QED
        BY <4>1, <4>2 DEF IInv
    <3> QED
      BY <3>4, <3>5
  <2> QED
    BY <2>1, <2>2
<1> QED
  BY <1>1, <1>2, <1>3, <1>4

LEMMA InvStep == IInv /\ [Next]_vars => IInv'
<1> SUFFICES ASSUME IInv, [Next]_vars
             PROVE  IInv'
  OBVIOUS
<1> USE DEF IInv, PlanInv, CallsInv, OneRefusal, Over, AtWork
<1>1. CASE Setup
  <2>1. UNCHANGED <<harness, results>>
    BY <1>1 DEF Setup, task, loop
  <2>2. Laid \subseteq Paths
    BY DEF Laid, Paths
  <2>3. TypeOK'
    BY <1>1, <2>1, <2>2, Quiescent DEF Setup, TypeOK, task, loop, space
  <2> QED
    BY <1>1, <2>1, <2>3, Quiescent DEF Setup, TypeOK, task, loop, space
<1>2. CASE SetupFails \/ Prep
  <2>1. UNCHANGED <<harness, results>>
    BY <1>2 DEF SetupFails, Prep, task, loop
  <2>2. TypeOK'
    BY <1>2, <2>1, Quiescent DEF SetupFails, Prep, TypeOK, task, loop, space
  <2> QED
    BY <1>2, <2>1, <2>2, Quiescent DEF SetupFails, Prep, TypeOK, task, loop, space
<1>3. CASE Expire \/ Cancel
  <2>1. UNCHANGED <<harness, results>>
    BY <1>3 DEF Expire, Cancel, task, loop
  <2>2. TypeOK'
    BY <1>3, <2>1, Quiescent DEF Expire, Cancel, TypeOK, task, loop, space
  <2> QED
    BY <1>3, <2>1, <2>2, Quiescent DEF Expire, Cancel, TypeOK, task, loop, space
<1>4. CASE Call
  <2>1. UNCHANGED <<harness, results>>
    BY <1>4 DEF Call, task
  <2>2. TypeOK'
    BY <1>4, <2>1, Quiescent DEF Call, Sandbox, TypeOK, task
  <2> QED
    BY <1>4, <2>1, <2>2, Quiescent DEF Call, Sandbox, TypeOK, task
<1>5. CASE StopForContext
  <2>1. UNCHANGED <<harness, results>>
    BY <1>5 DEF StopForContext, task, loop
  <2>2. TypeOK'
    BY <1>5, <2>1, Quiescent DEF StopForContext, TypeOK, task, loop, space
  <2> QED
    BY <1>5, <2>1, <2>2, Quiescent DEF StopForContext, TypeOK, task, loop, space
<1>6. CASE LoopEnds
  <2>1. UNCHANGED <<harness, results>>
    BY <1>6 DEF LoopEnds, task, loop
  <2>2. TypeOK'
    BY <1>6, <2>1, Quiescent DEF LoopEnds, TypeOK, task, loop, space
  <2> QED
    BY <1>6, <2>1, <2>2, Quiescent DEF LoopEnds, TypeOK, task, loop, space
<1>7. CASE Return
  <2>1. PICK said \in Outputs, why \in Errors :
            \/ ReturnSingle(said, why) \/ ReturnSpecKit(said, why)
            \/ ReturnMultiAgent(said, why) \/ ReturnRalph(said, why)
    BY <1>7 DEF Return, Errors
  <2> QED
    BY <2>1, ReturnStep
<1>8. CASE Teardown
  <2>1. UNCHANGED <<harness, results>>
    BY <1>8 DEF Teardown, task, loop
  <2>2. TypeOK'
    BY <1>8, <2>1, Quiescent DEF Teardown, TypeOK, task, loop, space
  <2> QED
    BY <1>8, <2>1, <2>2, Quiescent DEF Teardown, TypeOK, task, loop, space
<1>9. CASE UNCHANGED vars
  <2>1. UNCHANGED <<harness, results>>
    BY <1>9 DEF vars, task, loop
  <2>2. TypeOK'
    BY <1>9, <2>1, Quiescent DEF vars, TypeOK, task, loop, space
  <2> QED
    BY <1>9, <2>1, <2>2, Quiescent DEF vars, TypeOK, task, loop, space
<1> QED
  BY <1>1, <1>2, <1>3, <1>4, <1>5, <1>6, <1>7, <1>8, <1>9 DEF Next, Loop, Done

LEMMA Invariance == Spec => []IInv
<1> QED
  BY InvInit, InvStep, PTL DEF Spec

(* Every variable keeps its type: no call is made beyond the plan, and      *)
(* ralph's streak never passes the two idle iterations that halt it.        *)
THEOREM TypeCorrect == Spec => []TypeOK
<1>1. IInv => TypeOK
  BY DEF IInv
<1> QED
  BY <1>1, Invariance, PTL

(* For plans of any length, Invoke makes at most one call with a context    *)
(* that is already dead, and that call is its last.                         *)
THEOREM AtMostOneRefusal == Spec => []OneRefusal
<1>1. IInv => OneRefusal
  BY DEF IInv, CallsInv
<1> QED
  BY <1>1, Invariance, PTL

(* For plans of any length and errors at any point, a run that goes on to   *)
(* be graded made all its calls and none failed, or ralph gave up.          *)
THEOREM GradedMeansComplete == Spec => []OKMeansComplete
<1>1. IInv => OKMeansComplete
  <2>1. SUFFICES ASSUME IInv, outcome = "ok"
                 PROVE  /\ \A i \in DOMAIN results : results[i].err = "none"
                        /\ Called = Len(Plan(harness)) \/ harness = "ralph"
    BY DEF OKMeansComplete
  <2>2. phase = "ended" /\ err = "none"
    BY <2>1 DEF IInv, CallsInv, TypeOK
  <2> QED
    BY <2>1, <2>2 DEF IInv, CallsInv, Over
<1> QED
  BY <1>1, Invariance, PTL

-----------------------------------------------------------------------------
(* What Teardown removes.                                                   *)

(* The created_by_harness flag says what Setup found, for as long as the    *)
(* run lasts and whatever the agent does to the files.                      *)
OwnsInv ==
    /\ phase = "setup" => files = shipped
    /\ phase \notin {"setup", "rejected"} =>
         (owns <=> \/ harness = "agent_instructions"
                   \/ harness = "speckit" /\ ".specify" \notin shipped)

LEMMA OwnsStep == IInv /\ OwnsInv /\ [Next]_vars => OwnsInv'
<1> SUFFICES ASSUME IInv, OwnsInv, [Next]_vars
             PROVE  OwnsInv'
  OBVIOUS
<1> USE DEF OwnsInv, task
<1>1. CASE Setup
  <2>1. /\ phase = "setup" /\ phase' \in {"prep", "loop"}
        /\ harness' = harness /\ shipped' = shipped /\ files = shipped
        /\ owns' <=> Laid # {}
    BY <1>1 DEF Setup
  <2>2. harness = "agent_instructions" => Laid = {"CLAUDE.md"}
    BY DEF Laid
  <2>3. harness = "speckit" /\ ".specify" \notin files => Laid = {".specify", ".specify/memory"}
    BY DEF Laid
  <2>4. ~(harness = "agent_instructions") /\ ~(harness = "speckit" /\ ".specify" \notin files)
           => Laid = {}
    BY DEF Laid
  <2> QED
    BY <2>1, <2>2, <2>3, <2>4
<1>2. CASE SetupFails \/ Prep
  BY <1>2 DEF SetupFails, Prep
<1>3. CASE Expire \/ Cancel
  BY <1>3 DEF Expire, Cancel
<1>4. CASE Loop
  BY <1>4 DEF Loop, Call, StopForContext, LoopEnds
<1>5. CASE Return
  <2>1. /\ phase = "agent" /\ phase' \in {"loop", "teardown"}
        /\ UNCHANGED <<task, owns>>
    BY <1>5 DEF Return, ReturnSingle, ReturnSpecKit, ReturnMultiAgent,
                ReturnRalph, AfterCall, Progress
  <2> QED
    BY <2>1
<1>6. CASE Teardown
  BY <1>6 DEF Teardown
<1>7. CASE UNCHANGED vars
  BY <1>7 DEF vars
<1> QED
  BY <1>1, <1>2, <1>3, <1>4, <1>5, <1>6, <1>7 DEF Next, Done

(* For every task and whatever the agent creates and deletes: Teardown      *)
(* removes the files that Setup created, and no file the task shipped       *)
(* (agent_instructions.go, speckit.go: Teardown).                           *)
THEOREM OnlyOwnFilesGo == Spec => TeardownKeeps
<1>1. Init => OwnsInv
  BY DEF Init, OwnsInv
<1>2. ASSUME IInv, OwnsInv, Next, phase = "teardown", phase' = "ended"
      PROVE  /\ files' \subseteq files
             /\ files \ files' = IF harness \in {"agent_instructions", "speckit"}
                THEN (files \cap Scaffold(harness)) \
                     (IF ".specify" \in shipped THEN Scaffold("speckit") ELSE {})
                ELSE {}
  <2>1. Teardown
    BY <1>2 DEF Next, Setup, SetupFails, Prep, Expire, Cancel, Loop, Call,
       StopForContext, LoopEnds, Return, ReturnSingle, ReturnSpecKit,
       ReturnMultiAgent, ReturnRalph, Done, vars
  <2>2. files' = IF owns THEN files \ Scaffold(harness) ELSE files
    BY <2>1 DEF Teardown
  <2>3. owns <=> \/ harness = "agent_instructions"
                 \/ harness = "speckit" /\ ".specify" \notin shipped
    BY <1>2 DEF OwnsInv
  <2>4. /\ Scaffold("speckit") = {".specify", ".specify/memory"}
        /\ Scaffold("agent_instructions") = {"CLAUDE.md"}
    BY DEF Scaffold
  <2>5. CASE harness = "agent_instructions"
    BY <2>2, <2>3, <2>4, <2>5
  <2>6. CASE harness = "speckit"
    BY <2>2, <2>3, <2>4, <2>6
  <2>7. CASE harness \notin {"agent_instructions", "speckit"}
    BY <2>2, <2>3, <2>7
  <2> QED
    BY <2>5, <2>6, <2>7
<1>3. IInv /\ OwnsInv /\ [Next]_vars =>
        [phase = "teardown" /\ phase' = "ended" =>
        /\ files' \subseteq files
        /\ files \ files' = IF harness \in {"agent_instructions", "speckit"}
                            THEN (files \cap Scaffold(harness)) \
                                 (IF ".specify" \in shipped THEN Scaffold("speckit") ELSE {})
                            ELSE {}]_vars
  BY <1>2
<1> QED
  BY <1>1, <1>3, Invariance, OwnsStep, PTL DEF Spec, TeardownKeeps

-----------------------------------------------------------------------------
(* When ralph gives up.                                                     *)

(* prev is the last fingerprint taken, and streak says how often it came in *)
(* a row, up to the third time.                                             *)
StreakOf(c) ==
    /\ Taken(c) = {} => prev = NoPrint /\ streak = 0
    /\ Taken(c) # {} => \E k \in Taken(c) :
         /\ \A m \in Taken(c) : m <= k
         /\ prev = results[k].print
         /\ streak # 0 <=> \E j \in Taken(c) : Idle(c, j, k)
         /\ streak = 2 <=> \E i, j \in Taken(c) : Idle(c, i, j) /\ Idle(c, j, k)

RalphInv ==
    harness = "ralph" =>
        /\ \A n \in 0..(Called - 1) : ~Stuck(n)
        /\ StreakOf(Called)
        /\ phase \in Over /\ err = "none" =>
             Called = Len(Plan(harness)) \/ streak = 2

LEMMA StuckIsTwo ==
  ASSUME NEW c \in Nat, StreakOf(c)
  PROVE  Stuck(c) <=> streak = 2
<1>1. CASE Taken(c) = {}
  BY <1>1 DEF StreakOf, Stuck
<1>2. CASE Taken(c) # {}
  <2>1. PICK k \in Taken(c) :
          /\ \A m \in Taken(c) : m <= k
          /\ streak = 2 <=> \E i, j \in Taken(c) : Idle(c, i, j) /\ Idle(c, j, k)
    BY <1>2 DEF StreakOf
  <2>2. \A h \in Taken(c) : (\A m \in Taken(c) : m <= h) => h = k
    BY <2>1 DEF Taken
  <2> QED
    BY <2>1, <2>2 DEF Stuck
<1> QED
  BY <1>1, <1>2

(* A call that returns changes nothing about those before it.               *)
LEMMA StuckKept ==
  ASSUME NEW n \in Nat, \A i \in 1..n : results'[i] = results[i]
  PROVE  /\ Taken(n)' = Taken(n)
         /\ \A j, k : Idle(n, j, k)' <=> Idle(n, j, k)
         /\ Stuck(n)' <=> Stuck(n)
<1>1. Taken(n)' = Taken(n)
  BY DEF Taken
<1>2. \A j \in Taken(n) : results'[j] = results[j]
  BY DEF Taken
<1>3. \A j, k : Idle(n, j, k)' <=> Idle(n, j, k)
  BY <1>1, <1>2 DEF Idle
<1> QED
  BY <1>1, <1>3 DEF Stuck

LEMMA StreakSkips ==
  ASSUME NEW c \in Nat, StreakOf(c), UNCHANGED <<prev, streak>>,
         \A i \in 1..c : results'[i] = results[i],
         results'[c + 1].print = NoPrint
  PROVE  StreakOf(c + 1)'
<1>1. /\ Taken(c)' = Taken(c)
      /\ \A j, k : Idle(c, j, k)' <=> Idle(c, j, k)
  BY StuckKept
<1>2. Taken(c + 1)' = Taken(c)
  <2>1. 1..(c + 1) = (1..c) \cup {c + 1}
    OBVIOUS
  <2> QED
    BY <2>1 DEF Taken
<1>3. \A j, k : Idle(c + 1, j, k)' <=> Idle(c, j, k)
  BY <1>1, <1>2 DEF Idle
<1>4. \A j \in Taken(c) : results'[j] = results[j]
  BY DEF Taken
<1> QED
  BY <1>2, <1>3, <1>4 DEF StreakOf

LEMMA StreakGrows ==
  ASSUME NEW c \in Nat, StreakOf(c), streak \in 0..1,
         NEW fp, fp # NoPrint, Progress(fp),
         \A i \in 1..c : results'[i] = results[i],
         results'[c + 1].print = fp
  PROVE  StreakOf(c + 1)'
<1>1. \A j, k : Idle(c, j, k)' <=> Idle(c, j, k)
  BY StuckKept
<1>2. /\ Taken(c + 1)' = Taken(c) \cup {c + 1}
      /\ \A m \in Taken(c) : m \in 1..c /\ results'[m] = results[m]
                             /\ results[m].print # NoPrint
  <2>1. 1..(c + 1) = (1..c) \cup {c + 1}
    OBVIOUS
  <2>2. \A i \in 1..c : i # c + 1
    OBVIOUS
  <2> QED
    BY <2>1, <2>2 DEF Taken
<1>3. \A m \in Taken(c + 1)' : m <= c + 1
  BY <1>2
<1>4. prev' = fp
  BY DEF Progress
<1>5. streak' = IF fp = prev /\ prev # NoPrint THEN streak + 1 ELSE 0
  BY DEF Progress
<1>6. \A i, j \in Taken(c) : Idle(c + 1, i, j)' <=> Idle(c, i, j)
  BY <1>2 DEF Idle
<1>7. \A i : ~Idle(c + 1, c + 1, i)' 
  BY <1>2, <1>3 DEF Idle
<1>8. CASE Taken(c) = {}
  <2>1. streak' = 0
    BY <1>5, <1>8 DEF StreakOf
  <2>2. \A j \in Taken(c + 1)' : ~Idle(c + 1, j, c + 1)'
    BY <1>2, <1>7, <1>8
  <2> QED
    BY <1>2, <1>3, <1>4, <2>1, <2>2 DEF StreakOf
<1>9. CASE Taken(c) # {}
  <2>1. PICK k \in Taken(c) :
          /\ \A m \in Taken(c) : m <= k
          /\ prev = results[k].print
          /\ streak # 0 <=> \E j \in Taken(c) : Idle(c, j, k)
    BY <1>9 DEF StreakOf
  <2>2. prev # NoPrint /\ k \in 1..c
    BY <1>2, <2>1
  <2>3. \A j \in Taken(c) : Idle(c + 1, j, c + 1)' <=> j = k /\ fp = prev
    <3>1. ASSUME NEW j \in Taken(c), Idle(c + 1, j, c + 1)' PROVE j = k /\ fp = prev
      <4>1. k <= j \/ k >= c + 1
        BY <1>2, <3>1 DEF Idle
      <4>2. j = k
        BY <1>2, <2>1, <2>2, <4>1
      <4>3. results'[j].print = fp
        BY <3>1 DEF Idle
      <4> QED
        BY <1>2, <2>1, <4>2, <4>3
    <3>2. ASSUME fp = prev PROVE Idle(c + 1, k, c + 1)'
      <4>1. {k, c + 1} \subseteq Taken(c + 1)' /\ k < c + 1
        BY <1>2, <2>2
      <4>2. \A m \in Taken(c + 1)' : m <= k \/ m >= c + 1
        BY <1>2, <2>1
      <4>3. results'[k].print = results'[c + 1].print
        BY <1>2, <2>1, <3>2
      <4> QED
        BY <4>1, <4>2, <4>3 DEF Idle
    <3> QED
      BY <3>1, <3>2
  <2>4. (\E j \in Taken(c + 1)' : Idle(c + 1, j, c + 1)') <=> fp = prev
    BY <1>2, <1>7, <2>1, <2>3
  <2>5. (\E i, j \in Taken(c + 1)' : Idle(c + 1, i, j)' /\ Idle(c + 1, j, c + 1)')
          <=> fp = prev /\ \E i \in Taken(c) : Idle(c, i, k)
    BY <1>2, <1>6, <1>7, <2>1, <2>3
  <2>6. streak' # 0 <=> fp = prev
    BY <1>5, <2>2
  <2>7. streak' = 2 <=> fp = prev /\ streak # 0
    BY <1>5, <2>2
  <2>8. Taken(c + 1)' # {} /\ c + 1 \in Taken(c + 1)' /\ prev' = results'[c + 1].print
    BY <1>2, <1>4
  <2>9. streak' = 2 <=>
          \E i, j \in Taken(c + 1)' : Idle(c + 1, i, j)' /\ Idle(c + 1, j, c + 1)'
    BY <2>1, <2>5, <2>7
  <2> QED
    BY <1>3, <2>4, <2>6, <2>8, <2>9 DEF StreakOf
<1> QED
  BY <1>8, <1>9

(* A call of ralph that returned, as StreakOf sees it.                      *)
LEMMA RalphReturns ==
  ASSUME IInv, RalphInv, harness = "ralph",
         NEW said \in Outputs, NEW why \in Errors, ReturnRalph(said, why)
  PROVE  /\ Called' = Called + 1
         /\ \A i \in 1..Called : results'[i] = results[i]
         /\ StreakOf(Called)'
         /\ phase' = "teardown" /\ err' = "none" => streak' = 2
<1>1. TypeOK /\ PlanInv /\ phase = "agent" /\ Called \in Nat /\ err = "none"
  BY DEF IInv, CallsInv, ReturnRalph, TypeOK, Called, Over
<1>2. streak \in 0..1 /\ StreakOf(Called)
  BY <1>1 DEF TypeOK, PlanInv, Over, RalphInv
<1>3. \A idle, fp : Record(said, why, idle, fp) =>
         /\ Called' = Called + 1
         /\ \A i \in 1..Called : results'[i] = results[i]
         /\ results'[Called + 1].print = fp
  <2>1. SUFFICES ASSUME NEW idle, NEW fp, Record(said, why, idle, fp)
                 PROVE  /\ Called' = Called + 1
                        /\ \A i \in 1..Called : results'[i] = results[i]
                        /\ results'[Called + 1].print = fp
    OBVIOUS
  <2>2. results \in Seq(Results) /\ results' = Append(results, Result(said, why, idle, fp))
    BY <1>1, <2>1 DEF Record, TypeOK
  <2>3. results \in Seq(Results \cup {Result(said, why, idle, fp)})
    BY <2>2
  <2>4. /\ Len(results') = Len(results) + 1
        /\ results'[Len(results) + 1] = Result(said, why, idle, fp)
        /\ \A i \in 1..Len(results) : results'[i] = results[i]
    BY <2>2, <2>3, AppendProperties
  <2>5. Result(said, why, idle, fp).print = fp
    BY DEF Result
  <2> QED
    BY <2>4, <2>5 DEF Called
<1>4. PICK c \in Nat : c = Called
  BY <1>1
<1>5. CASE why # "none"
  <2>1. Record(said, why, FALSE, NoPrint) /\ err' = why /\ UNCHANGED <<prev, streak>>
    BY <1>5 DEF ReturnRalph
  <2>2. StreakOf(c + 1)'
    BY <1>2, <1>3, <1>4, <2>1, StreakSkips
  <2> QED
    BY <1>3, <1>4, <1>5, <2>1, <2>2
<1>6. CASE why = "none"
  <2>1. PICK idle \in BOOLEAN, fp \in {work', NoPrint} :
          /\ Record(said, why, idle, fp)
          /\ IF fp = NoPrint THEN phase' = "loop" /\ UNCHANGED <<prev, streak>>
                             ELSE Progress(fp)
    BY <1>6 DEF ReturnRalph
  <2>2. CASE fp = NoPrint
    <3>1. StreakOf(c + 1)'
      BY <1>2, <1>3, <1>4, <2>1, <2>2, StreakSkips
    <3> QED
      BY <1>3, <1>4, <2>1, <2>2, <3>1
  <2>3. CASE fp # NoPrint
    <3>1. StreakOf(c + 1)'
      BY <1>2, <1>3, <1>4, <2>1, <2>3, StreakGrows
    <3>2. phase' = "teardown" => streak' = 2
      BY <1>2, <2>1, <2>3 DEF Progress
    <3> QED
      BY <1>3, <1>4, <2>1, <3>1, <3>2
  <2> QED
    BY <2>2, <2>3
<1> QED
  BY <1>5, <1>6

LEMMA RalphStep == IInv /\ RalphInv /\ [Next]_vars => RalphInv'
<1> SUFFICES ASSUME IInv, RalphInv, [Next]_vars, harness' = "ralph"
             PROVE  /\ \A n \in 0..(Called - 1)' : ~Stuck(n)'
                    /\ StreakOf(Called)'
                    /\ phase' \in Over /\ err' = "none" =>
                         Called' = Len(Plan(harness)') \/ streak' = 2
  BY DEF RalphInv
<1>0. harness = "ralph"
  BY DEF Next, vars, task, Setup, SetupFails, Prep, Expire, Cancel, Loop, Call,
     StopForContext, LoopEnds, Return, ReturnSingle, ReturnSpecKit,
     ReturnMultiAgent, ReturnRalph, AfterCall, Teardown, Done
<1>1. /\ Called \in Nat /\ streak \in 0..2 /\ StreakOf(Called)
      /\ \A n \in 0..(Called - 1) : ~Stuck(n)
  BY <1>0 DEF IInv, TypeOK, Called, RalphInv
<1>2. ASSUME NEW said \in Outputs, NEW why \in Errors, ReturnRalph(said, why)
      PROVE  /\ \A n \in 0..(Called - 1)' : ~Stuck(n)'
             /\ StreakOf(Called)'
             /\ phase' \in Over /\ err' = "none" =>
                  Called' = Len(Plan(harness)') \/ streak' = 2
  <2>1. /\ Called' = Called + 1
        /\ \A i \in 1..Called : results'[i] = results[i]
        /\ StreakOf(Called)'
        /\ phase' = "teardown" /\ err' = "none" => streak' = 2
    BY <1>0, <1>2, RalphReturns
  <2>2. phase = "agent" /\ phase' \in {"loop", "teardown"}
    BY <1>2 DEF ReturnRalph, Progress
  <2>3. ~Stuck(Called)
    <3>1. streak # 2
      BY <2>2 DEF IInv, PlanInv, Over
    <3> QED
      BY <1>1, <3>1, StuckIsTwo
  <2>4. ASSUME NEW n \in 0..(Called - 1)' PROVE ~Stuck(n)'
    <3>1. n \in 0..Called
      BY <1>1, <2>1
    <3>2. ~Stuck(n)
      <4>1. n \in 0..(Called - 1) \/ n = Called
        BY <1>1, <3>1
      <4> QED
        BY <1>1, <2>3, <4>1
    <3>3. n \in Nat /\ \A i \in 1..n : results'[i] = results[i]
      BY <1>1, <2>1, <3>1
    <3> QED
      BY <3>2, <3>3, StuckKept
  <2> QED
    BY <2>1, <2>2, <2>4 DEF Over
<1>3. ASSUME UNCHANGED <<results, prev, streak>>,
             phase' \in Over /\ err' = "none" =>
                 \/ phase \in Over /\ err = "none"
                 \/ Called = Len(Plan(harness))
      PROVE  /\ \A n \in 0..(Called - 1)' : ~Stuck(n)'
             /\ StreakOf(Called)'
             /\ phase' \in Over /\ err' = "none" =>
                  Called' = Len(Plan(harness)') \/ streak' = 2
  <2>1. Called' = Called /\ Plan(harness)' = Plan(harness)
    BY <1>0, <1>3 DEF Called, Plan
  <2>2. \A n \in 0..(Called - 1) : ~Stuck(n)'
    BY <1>1, <1>3, StuckKept
  <2>3. StreakOf(Called)'
    BY <1>1, <1>3, <2>1 DEF StreakOf, Taken, Idle
  <2>4. phase \in Over /\ err = "none" =>
           Called = Len(Plan(harness)) \/ streak = 2
    BY <1>0 DEF RalphInv
  <2> QED
    BY <1>3, <2>1, <2>2, <2>3, <2>4
<1>4. CASE Return
  <2>1. PICK said \in Outputs, why \in Errors : ReturnRalph(said, why)
    BY <1>0, <1>4 DEF Return, ReturnSingle, ReturnSpecKit, ReturnMultiAgent, Errors
  <2> QED
    BY <1>2, <2>1
<1>5. CASE \/ Setup \/ SetupFails \/ Prep \/ Expire \/ Cancel \/ Call
           \/ StopForContext \/ LoopEnds \/ Teardown \/ UNCHANGED vars
  BY <1>3, <1>5 DEF Setup, SetupFails, Prep, Expire, Cancel, Call,
     StopForContext, LoopEnds, Teardown, vars, loop, Over
<1> QED
  BY <1>4, <1>5 DEF Next, Loop, Done

(* While no call renews the files, one in which the agent wrote nothing     *)
(* leaves the fingerprint of the call before.                               *)
RestInv ==
    harness = "ralph" /\ ~renews =>
        /\ \A i \in 2..Called :
              results[i].idle /\ i - 1 \in Taken(Called) /\ i \in Taken(Called)
                => results[i].print = results[i - 1].print
        /\ phase \in AtWork /\ Called \in Taken(Called) => results[Called].print = work

(* Two such calls are idle ones.                                            *)
LEMMA RestIsStuck ==
  ASSUME RestInv, Called \in Nat, harness = "ralph", ~renews, Rested(Called)
  PROVE  Stuck(Called)
<1>1. PICK n \in Nat : n = Called
  OBVIOUS
<1>2. n > 2 /\ {n - 2, n - 1, n} \subseteq Taken(n) /\ results[n].idle /\ results[n - 1].idle
  BY <1>1 DEF Rested
<1>3. results[n].print = results[n - 1].print
  BY <1>1, <1>2 DEF RestInv
<1>4. results[n - 1].print = results[n - 2].print
  <2>1. n - 1 \in 2..Called /\ (n - 1) - 1 = n - 2
    BY <1>1, <1>2
  <2> QED
    BY <1>1, <1>2, <2>1 DEF RestInv
<1>5. \A m \in Taken(n) : m \in 1..n
  BY DEF Taken
<1>6. Idle(n, n - 2, n - 1) /\ Idle(n, n - 1, n)
  BY <1>2, <1>3, <1>4, <1>5 DEF Idle
<1> QED
  BY <1>1, <1>2, <1>5, <1>6 DEF Stuck

LEMMA RestStep == IInv /\ RestInv /\ [Next]_vars => RestInv'
<1> SUFFICES ASSUME IInv, RestInv, [Next]_vars, harness' = "ralph", ~renews'
             PROVE  /\ \A i \in 2..Called' :
                          results'[i].idle /\ i - 1 \in Taken(Called)' /\ i \in Taken(Called)'
                            => results'[i].print = results'[i - 1].print
                    /\ phase' \in AtWork /\ Called' \in Taken(Called)' => results'[Called'].print = work'
  BY DEF RestInv
<1>a. harness = "ralph"
  BY DEF Next, vars, task, Setup, SetupFails, Prep, Expire, Cancel, Loop, Call,
     StopForContext, LoopEnds, Return, ReturnSingle, ReturnSpecKit,
     ReturnMultiAgent, ReturnRalph, AfterCall, Teardown, Done
<1>b. renews' = renews \/ renews' \in {renews, TRUE}
  BY DEF Next, vars, space, Setup, SetupFails, Prep, Expire, Cancel, Loop, Call, Sandbox,
     StopForContext, LoopEnds, Return, ReturnSingle, ReturnSpecKit,
     ReturnMultiAgent, ReturnRalph, AfterCall, Teardown, Done
<1>c. results \in Seq(Results) /\ Called = Len(results) /\ Called \in Nat
  BY DEF IInv, TypeOK, Called
<1>d. ~renews
  BY <1>b DEF IInv, TypeOK
<1>0. harness = "ralph" /\ ~renews /\ results \in Seq(Results) /\ Called = Len(results) /\ Called \in Nat
  BY <1>a, <1>c, <1>d
<1>1. /\ \A i \in 2..Called :
            results[i].idle /\ i - 1 \in Taken(Called) /\ i \in Taken(Called)
              => results[i].print = results[i - 1].print
      /\ phase \in AtWork /\ Called \in Taken(Called) => results[Called].print = work
  BY <1>0 DEF RestInv
<1>2. ASSUME UNCHANGED <<results, work>>, phase' \in AtWork => phase \in AtWork \/ results = <<>>
      PROVE  /\ \A i \in 2..Called' :
                  results'[i].idle /\ i - 1 \in Taken(Called)' /\ i \in Taken(Called)'
                    => results'[i].print = results'[i - 1].print
             /\ phase' \in AtWork /\ Called' \in Taken(Called)' => results'[Called'].print = work'
  BY <1>1, <1>2 DEF Called, Taken
<1>3. ASSUME NEW said, NEW why, NEW idle, NEW fp, Record(said, why, idle, fp),
             phase \in AtWork,
             idle /\ fp # NoPrint => fp = work,
             phase' \in AtWork /\ fp # NoPrint => fp = work'
      PROVE  /\ \A i \in 2..Called' :
                  results'[i].idle /\ i - 1 \in Taken(Called)' /\ i \in Taken(Called)'
                    => results'[i].print = results'[i - 1].print
             /\ phase' \in AtWork /\ Called' \in Taken(Called)' => results'[Called'].print = work'
  <2>1. PICK c \in Nat : c = Called
    BY <1>0
  <2>2. results' = Append(results, Result(said, why, idle, fp))
    BY <1>3 DEF Record
  <2>3. results \in Seq(Results \cup {Result(said, why, idle, fp)})
    BY <1>0
  <2>4. /\ Called' = c + 1
        /\ results'[c + 1] = Result(said, why, idle, fp)
        /\ \A i \in 1..c : results'[i] = results[i]
    BY <1>0, <2>1, <2>2, <2>3, AppendProperties DEF Called
  <2>5. results'[c + 1].idle = idle /\ results'[c + 1].print = fp
    BY <2>4 DEF Result
  <2>6. \A i \in 1..c : i \in Taken(Called)' <=> i \in Taken(c)
    BY <2>4 DEF Taken
  <2>7. c + 1 \in Taken(Called)' => fp # NoPrint
    BY <2>4, <2>5 DEF Taken
  <2>8. ASSUME NEW i \in 2..(c + 1), results'[i].idle, i - 1 \in Taken(Called)', i \in Taken(Called)'
        PROVE  results'[i].print = results'[i - 1].print
    <3>1. CASE i \in 2..c
      <4>1. i \in 1..c /\ i - 1 \in 1..c
        BY <3>1
      <4> QED
        BY <1>1, <2>1, <2>4, <2>6, <2>8, <3>1, <4>1
    <3>2. CASE i = c + 1
      <4>1. i - 1 = c /\ c \in 1..c
        BY <2>8, <3>2
      <4>2. c \in Taken(c)
        BY <2>6, <2>8, <4>1
      <4>3. results[c].print = work
        BY <1>1, <1>3, <2>1, <4>2
      <4>4. fp = work
        BY <1>3, <2>5, <2>7, <2>8, <3>2
      <4> QED
        BY <2>4, <2>5, <3>2, <4>1, <4>3, <4>4
    <3> QED
      BY <3>1, <3>2
  <2> QED
    BY <1>3, <2>4, <2>5, <2>7, <2>8
<1>4. CASE Return
  <2>1. PICK said \in Outputs, why \in Errors : ReturnRalph(said, why)
    BY <1>0, <1>4 DEF Return, ReturnSingle, ReturnSpecKit, ReturnMultiAgent, Errors
  <2>2. phase \in AtWork
    BY <2>1 DEF ReturnRalph, AtWork
  <2>3. CASE why # "none"
    BY <1>3, <2>1, <2>2, <2>3 DEF ReturnRalph
  <2>4. CASE why = "none"
    <3>1. PICK idle \in BOOLEAN, fp \in {work', NoPrint} :
             Leave(idle) /\ Record(said, why, idle, fp)
      BY <2>1, <2>4 DEF ReturnRalph
    <3>2. idle => work' = work
      BY <1>0, <3>1 DEF Leave
    <3> QED
      BY <1>3, <2>2, <3>1, <3>2
  <2> QED
    BY <2>3, <2>4
<1>5. CASE \/ Setup \/ SetupFails \/ Prep \/ Expire \/ Cancel \/ Call
           \/ StopForContext \/ LoopEnds \/ Teardown \/ UNCHANGED vars
  BY <1>2, <1>5 DEF Setup, SetupFails, Prep, Expire, Cancel, Call,
     StopForContext, LoopEnds, Teardown, vars, loop, space, AtWork, IInv, PlanInv
<1> QED
  BY <1>4, <1>5 DEF Next, Loop, Done

(* For any number of iterations and whatever the agent does: ralph stops    *)
(* when two iterations in a row left the fingerprint as it was, at once,    *)
(* never before, and with failed fingerprints in between as well (ralph.go: *)
(* noProgressStreakHalt); and where no call renews the files, it stops when *)
(* the agent wrote nothing in two iterations.                               *)
THEOREM RalphHalts == Spec => []StuckHalts
<1>1. Init => RalphInv /\ RestInv
  BY DEF Init, RalphInv, RestInv, StreakOf, Taken, Called, Over
<1>2. ASSUME IInv, RalphInv, RestInv PROVE StuckHalts
  <2>1. SUFFICES ASSUME harness = "ralph"
                 PROVE  /\ \A n \in 0..(Called - 1) : ~Stuck(n)
                        /\ phase \in {"loop", "agent"} => ~Stuck(Called)
                        /\ outcome = "ok" /\ Called < MaxIterations => Stuck(Called)
                        /\ ~renews /\ phase \in {"loop", "agent"} => ~Rested(Called)
    BY DEF StuckHalts
  <2>2. Called \in Nat
    BY <1>2 DEF IInv, TypeOK, Called
  <2>3. Stuck(Called) <=> streak = 2
    BY <1>2, <2>1, <2>2, StuckIsTwo DEF RalphInv
  <2>4. phase \in {"loop", "agent"} => streak # 2
    BY <1>2 DEF IInv, PlanInv, Over
  <2>5. ASSUME outcome = "ok", Called < MaxIterations PROVE streak = 2
    <3>1. phase \in Over /\ err = "none"
      BY <1>2, <2>5 DEF IInv, CallsInv, TypeOK, Over
    <3>2. Plan(harness) = SubSeq(Iterations, 1, MaxIterations)
      BY <2>1 DEF Plan
    <3>3. Len(Plan(harness)) = MaxIterations
      BY <3>2, HarnessAssumption DEF HarnessAssumption
    <3> QED
      BY <1>2, <2>1, <2>2, <2>5, <3>1, <3>3, HarnessAssumption
      DEF RalphInv, HarnessAssumption
  <2>6. ~renews /\ phase \in {"loop", "agent"} => ~Rested(Called)
    BY <1>2, <2>1, <2>2, <2>3, <2>4, RestIsStuck
  <2> QED
    BY <1>2, <2>1, <2>3, <2>4, <2>5, <2>6 DEF RalphInv
<1> QED
  BY <1>1, <1>2, Invariance, RalphStep, RestStep, PTL DEF Spec

-----------------------------------------------------------------------------
(* The stages and the turns of a merged transcript.                         *)

(* The catalogue's stages and ralph's iterations have names, each its own   *)
(* (catalog.go:35, ralph.go:85).                                            *)
DistinctStages ==
    \A s \in {Iterations, SpecStages} :
        \A i, j \in DOMAIN s : s[i] # "" /\ (s[i] = s[j] => i = j)

(* Every turn of a call is stamped with the call's stage and numbered in    *)
(* the call.                                                                *)
Stamped(i) ==
    /\ results[i].stage = Plan(harness)[i]
    /\ \A k \in DOMAIN results[i].turns : /\ results[i].turns[k].stage = results[i].stage
                                          /\ results[i].turns[k].index = k - 1
StampInv == \A i \in DOMAIN results : Stamped(i)

LEMMA TurnsOfCalls ==
    ASSUME TypeOK
    PROVE  \A i \in DOMAIN results : results[i].turns \in Seq(Turns)
<1>1. \A i \in DOMAIN results : results[i] \in Results
  BY DEF TypeOK
<1>2. ASSUME NEW r \in Results PROVE r.turns \in Seq(Turns)
  BY DEF Results, Turns
<1> QED
  BY <1>1, <1>2

LEMMA StampStep == IInv /\ StampInv /\ [Next]_vars => StampInv'
<1> SUFFICES ASSUME IInv, StampInv, [Next]_vars PROVE StampInv'
  OBVIOUS
<1>1. ASSUME UNCHANGED <<harness, results>> PROVE StampInv'
  BY <1>1 DEF StampInv, Stamped
<1>2. ASSUME NEW said \in Outputs, NEW why, NEW idle, NEW fp,
             Record(said, why, idle, fp), harness' = harness
      PROVE  StampInv'
  <2> DEFINE turns == AssignTurnGrouping(said, Stage)
             r == Result(said, why, idle, fp)
  <2>1. results' = Append(results, r) /\ results \in Seq(Results)
    BY <1>2 DEF Record, IInv, TypeOK
  <2>2. r.stage = Plan(harness)[Called + 1] /\ r.turns = turns
    BY DEF Result, Stage
  <2>3. \A k \in DOMAIN turns : turns[k].stage = Plan(harness)[Called + 1] /\ turns[k].index = k - 1
    BY DEF AssignTurnGrouping, Stage
  <2> HIDE DEF turns, r
  <2>4. /\ DOMAIN results' = 1..(Called + 1) /\ Called \in Nat /\ DOMAIN results = 1..Called
        /\ results'[Called + 1] = r
        /\ \A i \in 1..Called : results'[i] = results[i]
    BY <2>1 DEF Called
  <2>5. ASSUME NEW i \in 1..Called PROVE Stamped(i)'
    BY <1>2, <2>4, <2>5 DEF StampInv, Stamped
  <2>6. PICK n : n = Called + 1
    OBVIOUS
  <2>7. results'[n] = r /\ r.stage = Plan(harness)[n] /\ r.turns = turns
    BY <2>2, <2>4, <2>6
  <2>8. \A k \in DOMAIN turns : turns[k].stage = Plan(harness)[n] /\ turns[k].index = k - 1
    BY <2>3, <2>6
  <2>9. results'[n].stage = Plan(harness')[n]
    BY <1>2, <2>7
  <2>10. \A k \in DOMAIN results'[n].turns :
            results'[n].turns[k].stage = results'[n].stage /\ results'[n].turns[k].index = k - 1
    BY <2>7, <2>8
  <2>11. Stamped(n)'
    BY <2>9, <2>10 DEF Stamped
  <2>12. \A i \in DOMAIN results' : i \in 1..Called \/ i = n
    BY <2>4, <2>6
  <2>13. ASSUME NEW i \in DOMAIN results' PROVE Stamped(i)'
    BY <2>5, <2>11, <2>12, <2>13
  <2> QED
    BY <2>13 DEF StampInv
<1>3. CASE Return
  <2>1. PICK said \in Outputs, why \in {"none", "failed", "context"} :
             \/ ReturnSingle(said, why) \/ ReturnSpecKit(said, why)
             \/ ReturnMultiAgent(said, why) \/ ReturnRalph(said, why)
    BY <1>3 DEF Return
  <2>2. harness' = harness /\ \E idle, fp : Record(said, why, idle, fp)
    BY <2>1 DEF ReturnSingle, ReturnSpecKit, ReturnMultiAgent, ReturnRalph, AfterCall, task
  <2> QED
    BY <1>2, <2>2
<1> QED
  BY <1>1, <1>3 DEF Next, Setup, SetupFails, Prep, Expire, Cancel, Loop, Call, StopForContext,
     LoopEnds, Teardown, Done, vars, task, loop

(* The merged transcript holds the turns of all calls and no others.        *)
LEMMA MergedTurns ==
    ASSUME TypeOK
    PROVE  /\ Merged \in Seq(Turns)
           /\ Range(Merged) = UNION {Range(results[i].turns) : i \in DOMAIN results}
<1> DEFINE pieces == [i \in DOMAIN results |-> results[i].turns]
<1>1. results \in Seq(Results)
  BY DEF TypeOK
<1>2. \A i \in DOMAIN results : results[i].turns \in Seq(Turns)
  BY TurnsOfCalls
<1>3. pieces \in Seq(Seq(Turns)) /\ DOMAIN pieces = DOMAIN results
  BY <1>1, <1>2
<1>4. Merged = FlattenSeq(pieces)
  BY DEF Merged
<1>5. \A i \in DOMAIN pieces : pieces[i] = results[i].turns
  OBVIOUS
<1> HIDE DEF pieces
<1>6. /\ FlattenSeq(pieces) \in Seq(Turns)
      /\ ToSet(FlattenSeq(pieces)) = UNION {ToSet(pieces[i]) : i \in DOMAIN pieces}
  BY <1>3, Flattened
<1>7. \A s : ToSet(s) = Range(s)
  BY DEF ToSet, Range
<1> QED
  BY <1>3, <1>4, <1>5, <1>6, <1>7

(* With a name of its own for each stage, a transcript names as many stages *)
(* as calls left a turn.                                                    *)
LEMMA StagesHeard ==
    ASSUME DistinctStages, IInv, StampInv, harness \in {"ralph", "speckit"}
    PROVE  /\ IsFiniteSet(Heard)
           /\ Cardinality(StagesOf(Merged)) = Cardinality(Heard)
<1> DEFINE plan == Plan(harness)
           f == [i \in Heard |-> plan[i]]
<1>1. /\ results \in Seq(Results) /\ DOMAIN results = 1..Called /\ Called \in Nat
      /\ Called <= Len(plan) /\ harness \in HarnessIds
  BY DEF IInv, TypeOK, Called
<1>2. /\ plan \in Seq(StageNames)
      /\ \A i, j \in DOMAIN plan : plan[i] # "" /\ (plan[i] = plan[j] => i = j)
  <2>1. plan \in Seq(StageNames)
    BY <1>1, PlanType
  <2>2. CASE harness = "speckit"
    <3>1. plan = SpecStages
      BY <2>2 DEF Plan
    <3> HIDE DEF plan
    <3> QED
      BY <2>1, <3>1 DEF DistinctStages
  <2>3. CASE harness = "ralph"
    <3>1. plan = SubSeq(Iterations, 1, MaxIterations)
      BY <2>3 DEF Plan
    <3>2. /\ Iterations \in Seq(STRING) /\ MaxIterations \in Nat \ {0} /\ Len(Iterations) >= MaxIterations
      BY HarnessAssumption DEF HarnessAssumption
    <3>3. /\ DOMAIN plan = 1..MaxIterations
          /\ \A i \in 1..MaxIterations : plan[i] = Iterations[i] /\ i \in DOMAIN Iterations
      BY <3>1, <3>2
    <3> HIDE DEF plan
    <3> QED
      BY <2>1, <3>3 DEF DistinctStages
  <2> QED
    BY <2>2, <2>3, <2>1
<1> HIDE DEF plan
<1>3. Heard \subseteq DOMAIN plan /\ Heard \subseteq DOMAIN results
  <2>1. Len(plan) \in Nat /\ DOMAIN plan = 1..Len(plan)
    <3> SUFFICES ASSUME NEW p, p \in Seq(StageNames)
                 PROVE  Len(p) \in Nat /\ DOMAIN p = 1..Len(p)
      BY <1>2
    <3> QED
      BY LenProperties
  <2>2. 1..Called \subseteq 1..Len(plan)
    BY <1>1, <2>1
  <2> QED
    BY <1>1, <2>1, <2>2 DEF Heard
<1>4. IsFiniteSet(Heard)
  <2>1. IsFiniteSet(1..Called)
    BY <1>1, FS_Interval
  <2> QED
    BY <1>1, <1>3, <2>1, FS_Subset
<1>5. \A i \in DOMAIN results : \A k \in DOMAIN results[i].turns : results[i].turns[k].stage = plan[i]
  BY DEF StampInv, Stamped, plan
<1>6. \A i \in DOMAIN results : results[i].turns \in Seq(Turns)
  BY TurnsOfCalls DEF IInv
<1>7. ASSUME NEW s PROVE s \in StagesOf(Merged) <=> \E i \in Heard : s = plan[i]
  <2>1. s \in StagesOf(Merged) <=> s # "" /\ \E t \in Range(Merged) : t.stage = s
    <3>1. \A m \in DOMAIN Merged : Merged[m] \in Range(Merged)
      BY DEF Range
    <3>2. \A t \in Range(Merged) : \E m \in DOMAIN Merged : t = Merged[m]
      BY DEF Range
    <3> QED
      BY <3>1, <3>2 DEF StagesOf
  <2>2. Range(Merged) = UNION {Range(results[i].turns) : i \in DOMAIN results}
    BY MergedTurns DEF IInv
  <2>3. ASSUME NEW t \in Range(Merged) PROVE \E i \in Heard : t.stage = plan[i]
    <3>1. PICK i \in DOMAIN results : t \in Range(results[i].turns)
      BY <2>2
    <3>2. PICK k \in DOMAIN results[i].turns : t = results[i].turns[k]
      BY <3>1 DEF Range
    <3>3. results[i].turns # <<>>
      BY <1>6, <3>2
    <3> QED
      BY <1>5, <3>2, <3>3 DEF Heard
  <2>4. ASSUME NEW i \in Heard PROVE plan[i] # "" /\ \E t \in Range(Merged) : t.stage = plan[i]
    <3>1. i \in DOMAIN results /\ results[i].turns # <<>> /\ results[i].turns \in Seq(Turns)
      BY <1>6 DEF Heard
    <3>2. 1 \in DOMAIN results[i].turns
      BY <3>1
    <3>3. results[i].turns[1] \in Range(results[i].turns)
      BY <3>2 DEF Range
    <3>4. results[i].turns[1] \in Range(Merged)
      BY <2>2, <3>1, <3>3
    <3> QED
      BY <1>2, <1>3, <1>5, <3>1, <3>2, <3>4
  <2> QED
    BY <2>1, <2>3, <2>4
<1>8. f \in Bijection(Heard, StagesOf(Merged))
  <2>1. f \in [Heard -> StagesOf(Merged)]
    BY <1>7
  <2>2. \A i, j \in Heard : f[i] = f[j] => i = j
    BY <1>2, <1>3
  <2>3. \A s \in StagesOf(Merged) : \E i \in Heard : f[i] = s
    BY <1>7
  <2> HIDE DEF f
  <2> QED
    BY <2>1, <2>2, <2>3 DEF Bijection, Injection, Surjection, IsInjective
<1>9. ExistsBijection(Heard, StagesOf(Merged))
  BY <1>8 DEF ExistsBijection
<1> QED
  BY <1>4, <1>9, FS_Bijection

(* ralph's fallback reads the turns of one call like that call alone.       *)
LEMMA EditThenTest ==
    ASSUME NEW s \in Seq(Turns), NEW t \in Seq(Turns), Range(s) = Range(t),
           \A k \in DOMAIN t : t[k].index = k - 1
    PROVE  LET edit == FirstIndex(s, EditTurns(s, {"app", "spec"})) IN
           (edit >= 0 /\ \E i \in EditTurns(s, {"test"}) : s[i].index > edit)
              <=> EditsThenTests(t)
<1> DEFINE E == EditTurns(s, {"app", "spec"})
           T == {s[i].index : i \in E}
           edit == FirstIndex(s, E)
<1>1. /\ \A i \in DOMAIN s : \E k \in DOMAIN t : s[i] = t[k]
      /\ \A k \in DOMAIN t : \E i \in DOMAIN s : s[i] = t[k]
  BY DEF Range
<1>2. \A k \in DOMAIN t : k \in Nat /\ k >= 1 /\ t[k].index = k - 1
  OBVIOUS
<1>3. T \in SUBSET Nat
  <2>1. \A i \in DOMAIN s : s[i].index \in Nat
    <3>1. \A i \in DOMAIN s : s[i] \in Turns
      OBVIOUS
    <3> QED
      BY <3>1 DEF Turns
  <2> QED
    BY <2>1 DEF EditTurns
<1>4. T # {} => edit \in T /\ \A n \in T : edit <= n
  <2> SUFFICES ASSUME T # {} PROVE edit \in T /\ \A n \in T : edit <= n
    OBVIOUS
  <2>1. edit = Min(T)
    BY DEF FirstIndex
  <2> HIDE DEF T, edit
  <2>2. \E n \in T : \A m \in T : n <= m
    BY <1>3, Least
  <2> QED
    BY <2>1, <2>2 DEF Min
<1>5. E = {} => edit = -1
  BY DEF FirstIndex
<1>6. T = {} <=> E = {}
  OBVIOUS
<1>7. /\ \A i \in E : i \in DOMAIN s /\ s[i].does \in {"app", "spec"} /\ s[i].index \in T
      /\ \A n \in T : \E i \in E : n = s[i].index
      /\ \A i \in DOMAIN s : s[i].does \in {"app", "spec"} => i \in E
  BY DEF EditTurns
<1>8. \A i : i \in EditTurns(s, {"test"}) <=> i \in DOMAIN s /\ s[i].does = "test"
  BY DEF EditTurns
<1> HIDE DEF E, T, edit
<1>9. ASSUME edit >= 0, NEW i \in EditTurns(s, {"test"}), s[i].index > edit
      PROVE  EditsThenTests(t)
  <2>1. edit \in T
    BY <1>4, <1>5, <1>6, <1>9
  <2>2. PICK j \in E : edit = s[j].index
    BY <1>7, <2>1
  <2>3. PICK a \in DOMAIN t, b \in DOMAIN t : s[j] = t[a] /\ s[i] = t[b]
    BY <1>1, <1>7, <1>8, <1>9
  <2>4. a < b
    BY <1>2, <1>9, <2>2, <2>3
  <2> QED
    BY <1>7, <1>8, <1>9, <2>2, <2>3, <2>4 DEF EditsThenTests
<1>10. ASSUME EditsThenTests(t)
       PROVE  edit >= 0 /\ \E i \in EditTurns(s, {"test"}) : s[i].index > edit
  <2>1. PICK a \in DOMAIN t, b \in DOMAIN t :
          a < b /\ t[a].does \in {"app", "spec"} /\ t[b].does = "test"
    BY <1>10 DEF EditsThenTests
  <2>2. PICK i \in DOMAIN s, j \in DOMAIN s : s[i] = t[a] /\ s[j] = t[b]
    BY <1>1
  <2>3. s[i].index = a - 1 /\ s[j].index = b - 1
    BY <1>2, <2>2
  <2>5. s[i].index \in T
    BY <1>7, <2>1, <2>2
  <2>6. a - 1 \in T
    BY <2>3, <2>5
  <2>7. j \in EditTurns(s, {"test"})
    BY <1>8, <2>1, <2>2
  <2>4. edit \in Nat /\ edit <= a - 1
    BY <1>3, <1>4, <2>6
  <2>8. b - 1 > edit
    BY <1>2, <2>1, <2>4
  <2> QED
    BY <2>3, <2>4, <2>7, <2>8
<1> QED
  BY <1>9, <1>10 DEF edit, E

LEMMA ChecksCountStages ==
    ASSUME DistinctStages, IInv, StampInv
    PROVE  StageChecksAreRight
<1>1. results \in Seq(Results) /\ \A i \in DOMAIN results : results[i].turns \in Seq(Turns)
  BY TurnsOfCalls DEF IInv, TypeOK
<1>2. Merged \in Seq(Turns) /\ Range(Merged) = UNION {Range(results[i].turns) : i \in DOMAIN results}
  BY MergedTurns DEF IInv
<1>3. ASSUME harness = "speckit" PROVE StagesRanCheck(Merged) <=> Cardinality(Heard) >= 2
  BY <1>3, StagesHeard DEF StagesRanCheck
<1>4. ASSUME harness = "ralph"
      PROVE  CheckRalph(Merged) <=>
                \/ Cardinality(Heard) >= 2
                \/ \E i \in Heard : EditsThenTests(results[i].turns)
  <2> DEFINE edit == FirstIndex(Merged, EditTurns(Merged, {"app", "spec"}))
             Rhythm == edit >= 0 /\ \E i \in EditTurns(Merged, {"test"}) : Merged[i].index > edit
  <2>1. IsFiniteSet(Heard) /\ Cardinality(StagesOf(Merged)) = Cardinality(Heard)
    BY <1>4, StagesHeard
  <2>2. CheckRalph(Merged) <=> Cardinality(StagesOf(Merged)) >= 2 \/ Rhythm
    BY DEF CheckRalph
  <2>3. ASSUME ~(Cardinality(Heard) >= 2)
        PROVE  Rhythm <=> \E i \in Heard : EditsThenTests(results[i].turns)
    <3>1. Cardinality(Heard) \in {0, 1}
      BY <2>1, <2>3, FS_CardinalityType
    <3>2. \A i \in DOMAIN results : i \notin Heard => Range(results[i].turns) = {}
      BY DEF Heard, Range
    <3>3. CASE Cardinality(Heard) = 0
      <4>1. Heard = {}
        BY <2>1, <3>3, FS_EmptySet
      <4>2. Range(Merged) = {}
        BY <1>2, <3>2, <4>1
      <4>3. DOMAIN Merged = {}
        BY <4>2 DEF Range
      <4>4. ~Rhythm
        BY <4>3 DEF EditTurns
      <4> QED
        BY <4>1, <4>4
    <3>4. CASE Cardinality(Heard) = 1
      <4>1. PICK h : Heard = {h}
        BY <2>1, <3>4, FS_Singleton
      <4>2. h \in DOMAIN results
        BY <4>1 DEF Heard
      <4>3. Range(Merged) = Range(results[h].turns)
        BY <1>2, <3>2, <4>1, <4>2
      <4>4. results[h].turns \in Seq(Turns)
            /\ \A k \in DOMAIN results[h].turns : results[h].turns[k].index = k - 1
        BY <1>1, <4>2 DEF StampInv, Stamped
      <4>5. Rhythm <=> EditsThenTests(results[h].turns)
        BY <1>2, <4>3, <4>4, EditThenTest
      <4> QED
        BY <4>1, <4>5
    <3> QED
      BY <3>1, <3>3, <3>4
  <2> HIDE DEF Rhythm
  <2> QED
    BY <2>1, <2>2, <2>3
<1> QED
  BY <1>3, <1>4 DEF StageChecksAreRight

(* For plans of any length, any outputs and any errors: with a name of its  *)
(* own for each stage, the checks that count stages see the calls as they   *)
(* were made, through the merge (StageChecksAreRight, checkRalph and        *)
(* checkSpecKit).  Without the names two stages could pass for one.         *)
THEOREM StageChecksHold == ASSUME DistinctStages PROVE Spec => []StageChecksAreRight
<1>1. Init => StampInv
  BY DEF Init, StampInv
<1>2. IInv /\ StampInv => StageChecksAreRight
  BY ChecksCountStages
<1> QED
  BY <1>1, <1>2, StampStep, Invariance, PTL DEF Spec
=============================================================================
