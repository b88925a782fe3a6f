------------------------------ MODULE LaunchPage ------------------------------
(* The diagnostic launcher: a form over tasks, harnesses, executors and models   *)
(* whose catalogues arrive late, the forms of the harnesses, and the requests a  *)
(* launch sends, one per experiment. The effects of a React commit belong to the *)
(* step that causes the commit.                                                  *)
EXTENDS Naturals, FiniteSets, SequencesExt

CONSTANTS
    Tasks,          \* the tasks in catalogue order
    Executors,      \* the executors in catalogue order
    Enabled,        \* the executors whose chip can be clicked
    ModelsBefore,   \* the models known before and after a refresh of the catalogue
    ModelsAfter,
    Allowed,           \* which (executor, model) pairs the provider table allows
    Extensions,     \* the spec-kit extensions
    Names,          \* the names a user gives a role
    MaxRoles,       \* 5 in the code
    Sizes,          \* the sample sizes of the slider
    MaxEdits,       \* bound: edits of the form
    MaxLaunches     \* bound: clicks that send requests

Harnesses == {"bare", "agent_instructions", "multiagent", "speckit"}
Unset == "unset"
GoodNames == Names \ {"Bad Name"}

VARIABLES
    catalogue,     \* what has arrived: [tasks, executors, extensions, models]
    form,          \* the page's state
    edits,
    requests,      \* the launches sent so far: [launch, cell, variants, state]
    promised,      \* what the page promised when each launch was clicked
    partialError,  \* the message next to the button
    destination    \* where the page navigated to: a launch, or 0 while it is open

launchVars == <<catalogue, form, edits, requests, promised, partialError, destination>>

--------------------------------------------------------------------------------
(* What the form means.                                                      *)

\* The models on offer: those some picked executor may use.
VisibleModels(c, executors) ==
    {model \in c.models : \E e \in executors : <<e, model>> \in Allowed}

\* The roles of the multi-agent form: [name, prompt], the prompt written or not.
Seed == <<[name |-> "planner", written |-> TRUE], [name |-> "coder", written |-> TRUE]>>
ValidateMultiAgentConfig(roles) ==
    /\ Len(roles) \in 1 .. MaxRoles
    /\ \A i \in DOMAIN roles : roles[i].name \in GoodNames /\ roles[i].written
    /\ \A i, j \in DOMAIN roles : i # j => roles[i].name # roles[j].name

\* One variant per harness, one per extension for spec-kit, in picking order.
BuildLaunchVariants(f) ==
    FlattenSeq([i \in DOMAIN f.harnesses |->
        IF f.harnesses[i] = "speckit"
        THEN [k \in DOMAIN f.extensions |-> <<"speckit", f.extensions[k]>>]
        ELSE <<<<f.harnesses[i], "own">>>>])

\* What the page announces: an axis without a pick still counts as one.
CountExperiments(f) ==
    LET AtLeastOne(n) == IF n = 0 THEN 1 ELSE n IN
    AtLeastOne(Cardinality(f.tasks)) * AtLeastOne(Cardinality(f.executors))
        * AtLeastOne(Cardinality(f.models))
TotalRuns(f) == CountExperiments(f) * Len(BuildLaunchVariants(f)) * f.size
ExpandLaunchMatrix(f) == f.tasks \X f.executors \X f.models

\* Whether the harnesses that are picked are configured.
Picked(f, h) == Contains(f.harnesses, h)
AgentInstructionsReady(f) == Picked(f, "agent_instructions") => f.instructions = "text"
MultiAgentReady(f) == Picked(f, "multiagent") => ValidateMultiAgentConfig(f.roles)
SpecKitReady(f) == Picked(f, "speckit") => f.extensions # <<>>
isPending == requests # <<>> /\ Last(requests).state = "sent"

\* The button. It looks at the last request only.
CanSubmit(f) ==
    /\ f.tasks # {}
    /\ BuildLaunchVariants(f) # <<>>
    /\ AgentInstructionsReady(f) /\ MultiAgentReady(f) /\ SpecKitReady(f)
    /\ ~isPending
ButtonLabel ==
    IF isPending THEN "Launching"
    ELSE IF form.tasks = {} THEN "Pick a task"
    ELSE IF BuildLaunchVariants(form) = <<>> THEN "Pick a variant"
    ELSE IF ~AgentInstructionsReady(form) THEN "Type agent instructions"
    ELSE IF ~MultiAgentReady(form) THEN "Configure multiagent roles"
    ELSE IF ~SpecKitReady(form) THEN "Pick a spec-kit extension" ELSE "Launch"

\* The cards of the page. A chip can be clicked unless it is disabled.
Chip(checked, disabled) == [checked |-> checked, disabled |-> disabled]
TaskCard ==
    [tasks |-> IF catalogue.tasks THEN [i \in DOMAIN Tasks |-> Tasks[i] \in form.tasks] ELSE <<>>,
     suiteLabel |-> CountExperiments(form) >= 2]
MatrixCard ==
    [harnesses |-> [h \in Harnesses |-> Chip(Picked(form, h), FALSE)],
     panels |-> SelectSeq(form.harnesses, LAMBDA h : h # "bare"),
     executors |-> [e \in {x \in ToSet(Executors) : catalogue.executors} |->
                       Chip(e \in form.executors, e \notin Enabled)],
     models |-> [m \in VisibleModels(catalogue, form.executors) |->
                    Chip(m \in form.models, FALSE)]]
VariantPreview == [variants |-> BuildLaunchVariants(form), size |-> form.size]
ActionBar == [experiments |-> CountExperiments(form), runs |-> TotalRuns(form),
              button |-> ButtonLabel, message |-> partialError]

--------------------------------------------------------------------------------
(* A commit: the effects that fill in defaults and drop what is not on offer. *)

DefaultExecutor(c) ==
    LET i == SelectInSeq(Executors, LAMBDA e : e \in Enabled) IN
    Executors[IF i = 0 THEN 1 ELSE i]
\* Mutant: picks are not compared with the new list of models.
SettledKeeping(c, f) ==
    [f EXCEPT !.executors = IF @ = {} /\ c.executors THEN {DefaultExecutor(c)} ELSE @,
              !.tasks = IF @ = {} /\ c.tasks /\ ~f.preset THEN {Tasks[1]} ELSE @,
              !.roles = IF @ = <<>> /\ Picked(f, "multiagent") THEN Seed ELSE @,
              !.extensions = IF ~f.mounted /\ Picked(f, "speckit") THEN <<"canonical">> ELSE @,
              !.mounted = @ \/ Picked(f, "speckit")]
\* The form at rest: an executor and a task are picked for the user (also after
\* the last one was unticked), the harness forms emit their seeds when they
\* mount for the first time, models that are no longer offered are unticked.
Settled(c, f) ==
    LET executors == IF f.executors = {} /\ c.executors THEN {DefaultExecutor(c)}
                     ELSE f.executors IN
    [f EXCEPT !.executors = executors,
              !.tasks = IF @ = {} /\ c.tasks /\ ~f.preset THEN {Tasks[1]} ELSE @,
              !.models = @ \cap VisibleModels(c, executors),
              !.roles = IF @ = <<>> /\ Picked(f, "multiagent") THEN Seed ELSE @,
              !.extensions = IF ~f.mounted /\ Picked(f, "speckit") THEN <<"canonical">> ELSE @,
              !.mounted = @ \/ Picked(f, "speckit")]

Edit(f) ==
    /\ destination = 0 /\ edits < MaxEdits
    /\ edits' = edits + 1
    /\ form' = Settled(catalogue, f)
    /\ UNCHANGED <<catalogue, requests, promised, partialError, destination>>
Arrive(c) ==
    /\ destination = 0 /\ c # catalogue
    /\ catalogue' = c
    /\ form' = Settled(c, form)
    /\ UNCHANGED <<edits, requests, promised, partialError, destination>>

TasksArrive == Arrive([catalogue EXCEPT !.tasks = TRUE])
ExecutorsArrive == Arrive([catalogue EXCEPT !.executors = TRUE])
ExtensionsArrive == Arrive([catalogue EXCEPT !.extensions = TRUE])
ModelsArrive == catalogue.models = {} /\ Arrive([catalogue EXCEPT !.models = ModelsBefore])
\* The refresh button: the mutation's answer becomes the list.
RefreshModels == Arrive([catalogue EXCEPT !.models = ModelsAfter])

--------------------------------------------------------------------------------
(* The user fills in the form.                                               *)

Flip(S, x) == (S \ {x}) \cup ({x} \ S)
FlipSeq(s, x) == IF Contains(s, x) THEN Remove(s, x) ELSE Append(s, x)

ToggleTask(t) == TaskCard.tasks # <<>> /\ Edit([form EXCEPT !.tasks = Flip(@, t)])
ToggleHarness(h) == Edit([form EXCEPT !.harnesses = FlipSeq(@, h)])
ToggleExecutor(e) ==
    /\ e \in DOMAIN MatrixCard.executors /\ ~MatrixCard.executors[e].disabled
    /\ Edit([form EXCEPT !.executors = Flip(@, e)])
ToggleModel(model) ==
    /\ model \in DOMAIN MatrixCard.models
    /\ Edit([form EXCEPT !.models = Flip(@, model)])
SetSize(n) == n # form.size /\ Edit([form EXCEPT !.size = n])

TypeInstructions(text) ==
    /\ Picked(form, "agent_instructions") /\ text # form.instructions
    /\ Edit([form EXCEPT !.instructions = text])
ToggleExtension(x) ==
    /\ Picked(form, "speckit") /\ catalogue.extensions
    /\ Edit([form EXCEPT !.extensions = FlipSeq(@, x)])

EditRoles(roles) == Picked(form, "multiagent") /\ Edit([form EXCEPT !.roles = roles])
EditName(i, name) == name # form.roles[i].name /\ EditRoles([form.roles EXCEPT ![i].name = name])
EditPrompt(i) == EditRoles([form.roles EXCEPT ![i].written = ~@])
RemoveRole(i) == Len(form.roles) > 1 /\ EditRoles(RemoveAt(form.roles, i))
\* A new role is named after its place, although the name may be taken.
AddRole ==
    /\ Len(form.roles) < MaxRoles
    /\ EditRoles(Append(form.roles, [name |-> <<"role1", "role2", "role3", "role4",
                                       "role5">>[Len(form.roles) + 1], written |-> FALSE]))
MoveRole(i, j) ==
    j \in DOMAIN form.roles /\ EditRoles([form.roles EXCEPT ![i] = form.roles[j], ![j] = @])

--------------------------------------------------------------------------------
(* A launch.                                                                 *)

\* Mutant: only the executor is looked for.
MissingExecutor(f) == IF f.executors = {} THEN "executor" ELSE Unset
Missing(f) ==
    IF f.executors = {} THEN "executor" ELSE IF f.models = {} THEN "model" ELSE Unset

\* A click on the button. Without an executor or a model there is a message;
\* otherwise one request per cell goes out, all at once.
Launch ==
    /\ destination = 0 /\ CanSubmit(form) /\ Len(promised) < MaxLaunches
    /\ LET cells == SetToSeq(ExpandLaunchMatrix(form))
           n == Len(promised) + 1 IN
       /\ partialError' = Missing(form)
       /\ IF Missing(form) # Unset THEN UNCHANGED <<requests, promised>>
          ELSE /\ requests' = requests \o [i \in DOMAIN cells |->
                      [launch |-> n, cell |-> cells[i], form |-> form, state |-> "sent"]]
               /\ promised' = Append(promised, [experiments |-> CountExperiments(form),
                                                runs |-> TotalRuns(form)])
    /\ UNCHANGED <<catalogue, form, edits, destination>>

RequestsOf(n) == {i \in DOMAIN requests : requests[i].launch = n}
\* The engine answers one request. A launch of one experiment leads to its
\* compare page if it was created; a suite leads to the list when all requests
\* have ended, and says what failed. The page that is left keeps nothing.
Answer(i, ok) ==
    LET n == requests[i].launch
        after == [requests EXCEPT ![i].state = IF ok THEN "created" ELSE "failed"]
        ended == \A k \in RequestsOf(n) : after[k].state # "sent"
        suite == Cardinality(RequestsOf(n)) > 1 IN
    /\ requests[i].state = "sent"
    /\ requests' = after
    /\ destination' = IF destination = 0 /\ ended /\ (suite \/ ok) THEN n ELSE destination
    /\ partialError' = IF suite /\ ended /\ \E k \in RequestsOf(n) : after[k].state = "failed"
                       THEN "partial"
                       ELSE IF ~ok /\ ~suite THEN "failed" ELSE partialError
    /\ UNCHANGED <<catalogue, form, edits, promised>>

Mounted(preset) ==
    /\ catalogue = [tasks |-> FALSE, executors |-> FALSE, extensions |-> FALSE, models |-> {}]
    /\ form = [preset |-> preset, tasks |-> IF preset THEN {Tasks[1]} ELSE {},
               harnesses |-> <<"bare">>, executors |-> {}, models |-> {},
               size |-> CHOOSE n \in Sizes : TRUE, instructions |-> Unset,
               roles |-> <<>>, extensions |-> <<>>, mounted |-> FALSE]
    /\ edits = 0
    /\ requests = <<>>
    /\ promised = <<>>
    /\ partialError = Unset
    /\ destination = 0
\* The page is opened plainly, or with ?task= from the task list.
Init == \E preset \in BOOLEAN : Mounted(preset)

RolesNext ==
    \/ \E i \in DOMAIN form.roles :
           \/ \E name \in Names : EditName(i, name)
           \/ EditPrompt(i)
           \/ RemoveRole(i)
           \/ MoveRole(i, i + 1)
           \/ MoveRole(i, i - 1)
    \/ AddRole
EditNext ==
    \/ \E t \in ToSet(Tasks) : ToggleTask(t)
    \/ \E h \in Harnesses : ToggleHarness(h)
    \/ \E e \in ToSet(Executors) : ToggleExecutor(e)
    \/ \E model \in ModelsBefore \cup ModelsAfter : ToggleModel(model)
    \/ \E n \in Sizes : SetSize(n)
    \/ \E text \in {"blank", "text"} : TypeInstructions(text)
    \/ \E x \in Extensions : ToggleExtension(x)
    \/ RolesNext
Next ==
    \/ EditNext
    \/ TasksArrive
    \/ ExecutorsArrive
    \/ ExtensionsArrive
    \/ ModelsArrive
    \/ RefreshModels
    \/ Launch
    \/ \E i \in DOMAIN requests, ok \in BOOLEAN : Answer(i, ok)
Spec == Init /\ [][Next]_launchVars

--------------------------------------------------------------------------------
\* A launch creates exactly the experiments and the runs the page announced next
\* to the button, whatever arrived late, was refreshed or was unticked before.
LaunchesWhatWasShown ==
    \A n \in DOMAIN promised :
        /\ Cardinality(RequestsOf(n)) = promised[n].experiments
        /\ \A i \in RequestsOf(n) :
               promised[n].experiments * Len(BuildLaunchVariants(requests[i].form))
                   * requests[i].form.size = promised[n].runs

\* No request is sent that the engine or a harness would refuse: its cell names a
\* model that the executor runs and that the catalogue lists at that moment, and
\* every harness that needs a configuration has a valid one.
SentIsRunnable ==
    [][\A i \in DOMAIN requests' \ DOMAIN requests :
           /\ requests'[i].cell[3] \in VisibleModels(catalogue, {requests'[i].cell[2]})
           /\ Picked(form, "multiagent") => ValidateMultiAgentConfig(form.roles)
           /\ Picked(form, "agent_instructions") => form.instructions = "text"
           /\ Picked(form, "speckit") => form.extensions # <<>>]_launchVars
================================================================================
