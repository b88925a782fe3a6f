------------------------------- MODULE Harness ------------------------------
(***************************************************************************)
(* The life of one run's harness: Setup lays scaffold files down, a prep   *)
(* command may run in the sandbox, Invoke calls the agent as often as the  *)
(* harness prescribes, and Teardown removes what Setup created.  Meanwhile *)
(* the wall clock runs out, the operator cancels, and calls fail, stall or *)
(* change the workspace.                                                   *)
(*                                                                         *)
(* The plan of a harness is the sequence of stages it calls the agent for. *)
(*                                                                         *)
(* Sources: engine/internal/builtin/harness/*.go, engine/pkg/harness, and  *)
(* executeRun of engine/internal/experiment/orchestrator.go.               *)
(***************************************************************************)
EXTENDS Adherence, SequencesExt

CONSTANTS
    HarnessIds,     \* the harnesses of the instance
    MaxIterations,  \* Budget.MaxIterations, for ralph
    Iterations,     \* the stages "iteration-0", "iteration-1", ...
    Roles,          \* the configured roles of multiagent, in order
    SpecStages,     \* the stages of the spec-kit extension, in order
    Outputs,        \* what one call may print: sequences over Does
    Shipments,      \* the scaffold paths a task may ship
    Touches         \* the scaffold paths an agent may create or delete

Paths == {"CLAUDE.md", ".specify", ".specify/memory"}

ASSUME HarnessAssumption ==
    /\ HarnessIds \subseteq {"bare", "agent_instructions", "ralph", "multiagent", "speckit"}
    /\ MaxIterations \in Nat \ {0}
    /\ Iterations \in Seq(STRING) /\ Len(Iterations) >= MaxIterations
    /\ Roles \in Seq(STRING) /\ Len(Roles) \in 1..5
    /\ SpecStages \in Seq(STRING) /\ SpecStages # <<>>
    /\ Outputs \subseteq Seq(Does)
    /\ Touches \subseteq Paths
    /\ Shipments \subseteq SUBSET Paths
    /\ \A s \in Shipments : ".specify/memory" \in s => ".specify" \in s

VARIABLES
    harness,      \* variant.HarnessID
    configured,   \* whether the variant's harness_config is usable
    constitution, \* whether the task ships a constitution
    shipped,      \* the scaffold paths the task ships
    files,        \* the scaffold paths in the workspace
    owns,         \* the created_by_harness flag of HarnessRun.Metadata
    ctx,          \* the context of Invoke: "live", "expired", "cancelled"
    phase,        \* where executeRun stands
    dead,         \* whether the current call started with a dead context
    renews,       \* ralph: whether a call rewrites files that the agent left alone
    work,         \* ralph: the workspace as fingerprintDir sees it
    results,      \* the calls that returned, in order
    prev,         \* ralph: prevFingerprint
    streak,       \* ralph: noProgressStreak
    err,          \* what Invoke returns: "none", "failed", "context"
    outcome       \* how the run goes on: "none", "ok", "failed", "cancelled"

task == <<harness, configured, constitution, shipped>>
loop == <<dead, results, prev, streak>>
space == <<renews, work>>
vars == <<task, files, owns, ctx, phase, space, loop, err, outcome>>

Plan(h) ==
    CASE h = "ralph"      -> SubSeq(Iterations, 1, MaxIterations)
      [] h = "multiagent" -> Roles
      [] h = "speckit"    -> SpecStages
      [] h \in {"bare", "agent_instructions"} -> <<"">>

\* A fingerprint is a hash of the names, sizes and times of all files: it is
\* that of the last call that wrote one, 0 for the workspace as prepared.
Works   == 0..MaxIterations
NoPrint == -1

Called == Len(results)
Stage  == Plan(harness)[Called + 1]

StageNames == {""} \cup Range(Iterations) \cup Range(Roles) \cup Range(SpecStages)

Results == [stage : StageNames,
            turns : Seq([stage : StageNames, index : Nat, does : Does]),
            err : {"none", "failed", "context"}, refused : BOOLEAN,
            idle : BOOLEAN, print : Works \cup {NoPrint}]

TypeOK ==
    /\ harness \in HarnessIds
    /\ configured \in BOOLEAN /\ constitution \in BOOLEAN
    /\ shipped \subseteq Paths /\ files \subseteq Paths
    /\ owns \in BOOLEAN
    /\ ctx \in {"live", "expired", "cancelled"}
    /\ phase \in {"setup", "prep", "loop", "agent", "teardown", "ended", "rejected"}
    /\ dead \in BOOLEAN /\ renews \in BOOLEAN
    /\ work \in Works
    /\ results \in Seq(Results) /\ Called <= Len(Plan(harness))
    /\ prev \in Works \cup {NoPrint}
    /\ streak \in 0..2
    /\ err \in {"none", "failed", "context"}
    /\ outcome \in {"none", "ok", "failed", "cancelled"}
    /\ (outcome # "none") <=> (phase = "ended")

\* What a harness does not read has one value.
Init ==
    /\ harness \in HarnessIds
    /\ configured \in IF harness \in {"bare", "ralph"} THEN {TRUE} ELSE BOOLEAN
    /\ constitution \in IF harness = "speckit" THEN BOOLEAN ELSE {FALSE}
    /\ shipped \in IF harness \in {"agent_instructions", "speckit"} THEN Shipments ELSE {{}}
    /\ files = shipped
    /\ owns = FALSE
    /\ ctx = "live" /\ dead = FALSE /\ phase = "setup"
    /\ renews \in IF harness = "ralph" THEN BOOLEAN ELSE {FALSE}
    /\ work = 0
    /\ results = <<>> /\ prev = NoPrint /\ streak = 0
    /\ err = "none" /\ outcome = "none"

----
(* Setup and the prep commands.                                             *)

\* extractAgentInstructionsContent, extractRoles, extractSpecKitExtension.
ConfigUsable == harness \in {"bare", "ralph"} \/ configured

\* A CLAUDE.md is never overwritten; a constitution cannot be written into a
\* .specify without memory/.
Obstructed ==
    \/ harness = "agent_instructions" /\ "CLAUDE.md" \in files
    \/ harness = "speckit" /\ constitution
       /\ ".specify" \in files /\ ".specify/memory" \notin files

\* What Setup creates, when it is not there.
Laid ==
    CASE harness = "agent_instructions"                 -> {"CLAUDE.md"}
      [] harness = "speckit" /\ ".specify" \notin files -> {".specify", ".specify/memory"}
      [] OTHER                                          -> {}

\* Mutant: the harness takes what it finds for its own.
OwnsAnyway ==
    /\ phase = "setup" /\ ConfigUsable /\ ~Obstructed
    /\ files' = files \cup Laid
    /\ owns' = (harness \in {"agent_instructions", "speckit"})
    /\ phase' = IF harness = "speckit" THEN "prep" ELSE "loop"
    /\ UNCHANGED <<task, ctx, space, loop, err, outcome>>

\* The flag says whether Setup created something.
Setup ==
    /\ phase = "setup" /\ ConfigUsable /\ ~Obstructed
    /\ files' = files \cup Laid
    /\ owns' = (Laid # {})
    /\ phase' = IF harness = "speckit" THEN "prep" ELSE "loop"
    /\ UNCHANGED <<task, ctx, space, loop, err, outcome>>

\* The run fails, and its workspace goes as a whole.
SetupFails ==
    /\ phase = "setup" /\ (~ConfigUsable \/ Obstructed)
    /\ phase' = "rejected"
    /\ UNCHANGED <<task, files, owns, ctx, space, loop, err, outcome>>

\* SandboxPrepCommands: `specify init`, under the run's context only, which
\* has no deadline.  A failure returns without a Teardown.
Prep ==
    /\ phase = "prep"
    /\ phase' \in IF ctx = "live" THEN {"loop", "rejected"} ELSE {"rejected"}
    /\ UNCHANGED <<task, files, owns, ctx, space, loop, err, outcome>>

----
(* The context, and the agent.                                              *)

\* Mutant: the deadline is looked at between two calls only.
ExpireBetween ==
    /\ phase = "loop" /\ ctx = "live"
    /\ ctx' = "expired"
    /\ UNCHANGED <<task, files, owns, phase, space, loop, err, outcome>>

\* invokeWithTimeout.
Expire ==
    /\ phase \in {"loop", "agent"} /\ ctx = "live"
    /\ ctx' = "expired"
    /\ UNCHANGED <<task, files, owns, phase, space, loop, err, outcome>>

Cancel ==
    /\ phase \notin {"ended", "rejected"} /\ ctx # "cancelled"
    /\ ctx' = "cancelled"
    /\ UNCHANGED <<task, files, owns, phase, space, loop, err, outcome>>

\* ensureDockerClient asks for a daemon until it finds one.  From then on each
\* call ends with all files written back from its container; for an ollama
\* model each call begins with writing opencode.json.
Sandbox == renews' \in IF harness = "ralph" THEN {renews, TRUE} ELSE {renews}

\* The head of the loop.  ralph and speckit ask the context first.
Call ==
    /\ phase = "loop" /\ Called < Len(Plan(harness))
    /\ harness \in {"ralph", "speckit"} => ctx = "live"
    /\ phase' = "agent" /\ dead' = (ctx # "live")
    /\ Sandbox
    /\ UNCHANGED <<task, files, owns, ctx, work, results, prev, streak, err, outcome>>

\* Mutant: the loop ends as if it were complete.
StopQuietly ==
    /\ phase = "loop" /\ Called < Len(Plan(harness))
    /\ harness \in {"ralph", "speckit"} /\ ctx # "live"
    /\ phase' = "teardown"
    /\ UNCHANGED <<task, files, owns, ctx, space, loop, err, outcome>>

StopForContext ==
    /\ phase = "loop" /\ Called < Len(Plan(harness))
    /\ harness \in {"ralph", "speckit"} /\ ctx # "live"
    /\ err' = "context" /\ phase' = "teardown"
    /\ UNCHANGED <<task, files, owns, ctx, space, loop, outcome>>

\* The end of the plan; multiagent joins the errors of its roles.
LoopEnds ==
    /\ phase = "loop" /\ Called = Len(Plan(harness))
    /\ err' = IF harness = "multiagent" /\ \E i \in DOMAIN results : results[i].err = "failed"
              THEN "failed" ELSE err
    /\ phase' = "teardown"
    /\ UNCHANGED <<task, files, owns, ctx, space, loop, outcome>>

\* Execute returns (said, why).  The agent leaves the workspace as it wants.
Agent(said, why) ==
    \/ /\ ~dead /\ why \in {"none", "failed"}
       /\ \E p \in SUBSET Touches : files' \in {files \cup p, files \ p}
    \* A container that the context ends prints nothing, a local process is
    \* killed and has printed something; a dead context starts neither.
    \/ /\ ctx # "live" /\ why = "context" /\ said = <<>>
       /\ files' = files

\* What the loop keeps of a call: fp is the fingerprint taken after it, idle
\* says that the agent wrote nothing.
Result(said, why, idle, fp) ==
    [stage |-> Stage, turns |-> AssignTurnGrouping(said, Stage), err |-> why,
     refused |-> dead, idle |-> idle, print |-> fp]

Record(said, why, idle, fp) == results' = Append(results, Result(said, why, idle, fp))

AfterCall == UNCHANGED <<task, owns, ctx, renews, dead, outcome>>

\* Bare.Invoke and AgentInstructions.Invoke.
ReturnSingle(said, why) ==
    /\ phase = "agent" /\ harness \in {"bare", "agent_instructions"}
    /\ Agent(said, why) /\ Record(said, why, FALSE, NoPrint)
    /\ err' = why /\ phase' = "teardown"
    /\ AfterCall /\ UNCHANGED <<work, prev, streak>>

\* SpecKit.Invoke: the first failure ends the stages.
ReturnSpecKit(said, why) ==
    /\ phase = "agent" /\ harness = "speckit"
    /\ Agent(said, why) /\ Record(said, why, FALSE, NoPrint)
    /\ err' = why /\ phase' = IF why = "none" THEN "loop" ELSE "teardown"
    /\ AfterCall /\ UNCHANGED <<work, prev, streak>>

\* MultiAgent.Invoke: a role that fails does not end the sequence, a context
\* error does.
ReturnMultiAgent(said, why) ==
    /\ phase = "agent" /\ harness = "multiagent"
    /\ Agent(said, why) /\ Record(said, why, FALSE, NoPrint)
    /\ IF why = "context"
       THEN err' = why /\ phase' = "teardown"
       ELSE phase' = "loop" /\ UNCHANGED err
    /\ AfterCall /\ UNCHANGED <<work, prev, streak>>

\* Mutant: one idle iteration too many.
HaltLate(fp) ==
    /\ streak' = IF fp = prev /\ prev # NoPrint THEN streak + 1 ELSE 0
    /\ phase' = IF streak' > 2 THEN "teardown" ELSE "loop"
    /\ prev' = IF phase' = "loop" THEN fp ELSE prev

\* noProgressStreakHalt.
Progress(fp) ==
    /\ streak' = IF fp = prev /\ prev # NoPrint THEN streak + 1 ELSE 0
    /\ phase' = IF streak' >= 2 THEN "teardown" ELSE "loop"
    /\ prev' = IF phase' = "loop" THEN fp ELSE prev

\* The files after a call that succeeded: one that renews leaves new times,
\* whatever the agent did.
Leave(idle) == work' = IF idle /\ ~renews THEN work ELSE Called + 1

\* Ralph.Invoke.  A fingerprint that fails (fp = NoPrint) is skipped.
ReturnRalph(said, why) ==
    /\ phase = "agent" /\ harness = "ralph"
    /\ Agent(said, why)
    /\ IF why # "none"
       THEN /\ Record(said, why, FALSE, NoPrint)
            /\ err' = why /\ phase' = "teardown" /\ UNCHANGED <<work, prev, streak>>
       ELSE \E idle \in BOOLEAN :
            /\ Leave(idle)
            /\ \E fp \in {work', NoPrint} :
                 /\ Record(said, why, idle, fp)
                 /\ IF fp = NoPrint THEN phase' = "loop" /\ UNCHANGED <<prev, streak>>
                                    ELSE Progress(fp)
            /\ UNCHANGED err
    /\ AfterCall

Return ==
    \E said \in Outputs, why \in {"none", "failed", "context"} :
        \/ ReturnSingle(said, why)     \/ ReturnSpecKit(said, why)
        \/ ReturnMultiAgent(said, why) \/ ReturnRalph(said, why)

\* The same for a call whose context is dead: Execute comes back by itself.
Abort ==
    /\ ctx # "live"
    /\ \E said \in Outputs, why \in {"failed", "context"} :
        \/ ReturnSingle(said, why)     \/ ReturnSpecKit(said, why)
        \/ ReturnMultiAgent(said, why) \/ ReturnRalph(said, why)

----
(* The end.                                                                 *)

Scaffold(h) == IF h = "speckit" THEN {".specify", ".specify/memory"} ELSE {"CLAUDE.md"}

\* Teardown, whatever Invoke returned; then executeRun classifies the error.
Teardown ==
    /\ phase = "teardown"
    /\ files' = IF owns THEN files \ Scaffold(harness) ELSE files
    /\ phase' = "ended"
    /\ outcome' = CASE err = "none"                       -> "ok"
                    [] err # "none" /\ ctx = "cancelled"  -> "cancelled"
                    [] OTHER                              -> "failed"
    /\ UNCHANGED <<task, owns, ctx, space, loop, err>>

Loop == Call \/ StopForContext \/ LoopEnds
Done == phase \in {"ended", "rejected"} /\ UNCHANGED vars

Next ==
    \/ Setup \/ SetupFails \/ Prep
    \/ Expire \/ Cancel
    \/ Loop \/ Return \/ Teardown
    \/ Done

Spec == Init /\ [][Next]_vars

(* The worker goes on, the deadline passes and a dead context ends the call *)
(* that runs under it; an agent may stall, and so may a prep command.       *)
FairSpec ==
    /\ Spec
    /\ WF_vars(Loop) /\ WF_vars(Expire) /\ WF_vars(Abort) /\ WF_vars(Teardown)

\* mergeIterationTranscripts, mergeStageTranscripts and the roles of
\* MultiAgent.Invoke: the turns of all calls, in order, renumbered by none.
Merged == FlattenSeq([i \in DOMAIN results |-> results[i].turns])

----
(* Safety.                                                                  *)

\* Those of the first n calls whose fingerprint could be taken.
Taken(n) == {i \in 1..n : results[i].print # NoPrint}

\* Call k left the fingerprint that the call before it, j, had left.
Idle(n, j, k) ==
    /\ {j, k} \subseteq Taken(n) /\ j < k
    /\ \A m \in Taken(n) : m <= j \/ m >= k
    /\ results[j].print = results[k].print

\* The last two of the first n calls were idle.
Stuck(n) ==
    \E i, j, k \in Taken(n) :
        Idle(n, i, j) /\ Idle(n, j, k) /\ \A m \in Taken(n) : m <= k

\* The agent wrote nothing in the last two of the first n calls, and their
\* fingerprints and the one before could be taken.
Rested(n) == n > 2 /\ (n - 2)..n \subseteq Taken(n) /\ results[n].idle /\ results[n - 1].idle

(* ralph.go: a loop whose fingerprint is the same for two iterations in a   *)
(* row is halted, at once and never before, with failed fingerprints in     *)
(* between as well: it makes no call when it is stuck, and stops early      *)
(* without an error only then.  As long as no call renews the files, that   *)
(* is so when the agent wrote nothing in two iterations.                    *)
StuckHalts ==
    harness = "ralph" =>
        /\ \A n \in 0..(Called - 1) : ~Stuck(n)
        /\ phase \in {"loop", "agent"} => ~Stuck(Called)
        /\ outcome = "ok" /\ Called < MaxIterations => Stuck(Called)
        /\ ~renews /\ phase \in {"loop", "agent"} => ~Rested(Called)

(* A run goes on to be graded only if the prescribed calls were all made    *)
(* and none of them failed, or ralph gave up: neither a deadline between    *)
(* two calls nor a role that failed early looks like success.               *)
OKMeansComplete ==
    outcome = "ok" =>
        /\ \A i \in DOMAIN results : results[i].err = "none"
        /\ Called = Len(Plan(harness)) \/ harness = "ralph"

(* At most one call is made with a context that is already dead, and it is  *)
(* the last: a cancelled run does not work through the rest of its plan.    *)
OneRefusal ==
    \A i \in DOMAIN results : results[i].refused => i = Called /\ phase \notin {"loop", "agent"}

(* orchestrator.go: Teardown "removes harness-owned files while preserving  *)
(* the agent's edits".  It deletes what the harness laid down, which the    *)
(* task did not ship, and nothing else.                                     *)
TeardownKeeps ==
    [][phase = "teardown" /\ phase' = "ended" =>
        /\ files' \subseteq files
        /\ files \ files' = IF harness \in {"agent_instructions", "speckit"}
                            THEN (files \cap Scaffold(harness)) \
                                 (IF ".specify" \in shipped THEN Scaffold("speckit") ELSE {})
                            ELSE {}]_vars

\* The calls that left a turn.
Heard == {i \in DOMAIN results : results[i].turns # <<>>}

\* A call that edits and then tests.
EditsThenTests(t) ==
    \E i, j \in DOMAIN t : i < j /\ t[i].does \in {"app", "spec"} /\ t[j].does = "test"

(* The checks that count stages see the calls as they were made, through    *)
(* the merge: "iterated" holds iff two iterations left a turn, or one that  *)
(* is alone edited and then tested; "stages_ran" iff two stages left one.   *)
StageChecksAreRight ==
    outcome = "ok" =>
        /\ harness = "ralph" =>
            (CheckRalph(Merged) <=>
                \/ Cardinality(Heard) >= 2
                \/ \E i \in Heard : EditsThenTests(results[i].turns))
        /\ harness = "speckit" =>
            (StagesRanCheck(Merged) <=> Cardinality(Heard) >= 2)

(* Liveness.  An agent that stalls does not keep its worker: Invoke returns *)
(* and the harness is torn down.                                            *)
InvokeEnds == (phase = "loop") ~> (phase = "ended")

----
(* ralph.go:22-24: "a fully idle agent halts after 3 invocations".  It does *)
(* not where a call renews the files: fingerprintDir hashes their times.    *)
IdleHalts ==
    harness = "ralph" /\ phase = "loop" => ~Rested(Called)

\* A spec artifact is written before app/ is first edited.
SpecFirst(turns) ==
    \A i \in EditTurns(turns, {"app"}) : \E j \in EditTurns(turns, {"spec"}) : j < i

(* adherence.go:218-219: "a spec artifact (specs/ or *spec.md) is written   *)
(* BEFORE the first app/ source edit.  If no source edit happened, passes." *)
(* The check compares TurnIndex, which starts again with every stage.       *)
SpecBeforeImpl ==
    outcome = "ok" /\ harness = "speckit" =>
        (SpecBeforeImplCheck(Merged) <=> SpecFirst(Merged))
=============================================================================
