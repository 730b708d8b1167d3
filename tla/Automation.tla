-------------------------------- MODULE Automation --------------------------------
(***************************************************************************)
(* Stored workflows, the event triggers that run them, and notifications   *)
(* (workflows/store.py, workflows/triggers.py, notifications and their     *)
(* commands).  What one run of a workflow does is WorkflowEngine; here a   *)
(* run is the row it leaves: which definition ran, and how it ended.       *)
(***************************************************************************)
EXTENDS Console

CONSTANTS Names, Reserved,      \* workflow names; those a custom one may not have
          BuiltinSteps,         \* BuiltinSteps[n]: the steps of built-in workflow n
          KnownCapabilities,    \* capabilities of the tool catalogue
          StepLists,            \* what a user gives as steps
          Targets, EventTypes,
          Globs,                \* patterns, each the set of the texts it matches
          Providers,            \* Providers[n]: configuration of notification provider n
          MaxTriggers, MaxRuns  \* bounds

ASSUME ReservedAssumption == Reserved \subseteq DOMAIN BuiltinSteps

ASSUME StoredAssumption == NONE \notin [steps : StepLists, version : Nat, enabled : BOOLEAN]

VARIABLES workflows,  \* workflows[n]: the row of custom workflow n, or NONE
          adapters,   \* capabilities a process that starts now has an adapter for
          triggers,   \* in row order, "gone" when removed
          runs,       \* rows of workflow_runs, in order
          notices     \* rows of notifications, in order

automationRecords == <<workflows, adapters, triggers, runs, notices>>
automationVars == <<automationRecords, consoleVars>>

(***************************************************************************)
(* Validation.                                                             *)
(***************************************************************************)

\* A step without a name goes by its position.
StepName(steps, k) == IF steps[k].name = NONE THEN k ELSE steps[k].name
StepNames(steps) == {StepName(steps, k) : k \in DOMAIN steps}

\* Some steps that all wait for one another.
Cyclic(steps) ==
  \E group \in SUBSET StepNames(steps) \ {{}} : \A k \in DOMAIN steps :
    StepName(steps, k) \in group => steps[k].after \cap group # {}

\* Known means catalogued or provided by an adapter; only an adapter can run it.
ValidateSteps(steps) ==
  /\ steps # <<>>
  /\ \A k \in DOMAIN steps : steps[k].capability \in adapters
  /\ \A k, l \in DOMAIN steps : k # l /\ steps[k].name # NONE => steps[k].name # steps[l].name
  /\ \A k \in DOMAIN steps : steps[k].after \subseteq StepNames(steps) /\ steps[k].retry \in 0..10
  /\ ~ Cyclic(steps)

ValidateName(name) == name \notin Reserved

(***************************************************************************)
(* Stored workflows.                                                       *)
(***************************************************************************)

\* An INSERT: the name must be new.
InsertWorkflow(name, steps) ==
  /\ ValidateName(name) /\ ValidateSteps(steps)
  /\ workflows[name] = NONE
  /\ workflows' = [workflows EXCEPT ![name] = [steps |-> steps, version |-> 1, enabled |-> TRUE]]

WorkflowCreate(t, name, steps) ==
  /\ Starts(t, resting) /\ InsertWorkflow(name, steps)
  /\ Tells(t, [created |-> name])
  /\ UNCHANGED <<adapters, triggers, runs, notices>>

\* workflow edit: the row is read, then updated by name.  What is not given is
\* NONE, or no steps at all, and stays as it is in the row.
WorkflowEdit(t, name, steps, enabled) ==
  /\ workflows[name] # NONE
  /\ steps # <<>> => ValidateSteps(steps)
  /\ Starts(t, [at |-> "edit", name |-> name, steps |-> steps, enabled |-> enabled])
  /\ UNCHANGED <<automationRecords, told>>

\* A mutant of UpdateWorkflow: an edit of the steps alone does not count.
UpdateInPlace(p) ==
  /\ proc[p].at = "edit"
  /\ workflows' = [workflows EXCEPT
       ![proc[p].name].version = IF proc[p].enabled = NONE THEN @ ELSE @ + 1,
       ![proc[p].name].steps = IF proc[p].steps = <<>> THEN @ ELSE proc[p].steps,
       ![proc[p].name].enabled = IF proc[p].enabled = NONE THEN @ ELSE proc[p].enabled]
  /\ Goes(p, resting) /\ Updates(p)
  /\ Tells(p, [updated |-> proc[p].name])
  /\ UNCHANGED <<adapters, triggers, runs, notices>>

\* The version counts in the UPDATE itself, so that two edits make two versions.
UpdateWorkflow(p) ==
  /\ proc[p].at = "edit"
  /\ workflows' = [workflows EXCEPT
       ![proc[p].name].version = @ + 1,
       ![proc[p].name].steps = IF proc[p].steps = <<>> THEN @ ELSE proc[p].steps,
       ![proc[p].name].enabled = IF proc[p].enabled = NONE THEN @ ELSE proc[p].enabled]
  /\ Goes(p, resting) /\ Updates(p)
  /\ Tells(p, [updated |-> proc[p].name])
  /\ UNCHANGED <<adapters, triggers, runs, notices>>

WorkflowList(t) ==
  Reads(t, DOMAIN BuiltinSteps \cup {n \in Names : workflows[n] # NONE})
  /\ UNCHANGED automationRecords

\* The stored steps are validated against the adapters there are by now.
WorkflowValidate(t, name) ==
  /\ workflows[name] # NONE
  /\ Reads(t, [valid |-> ValidateSteps(workflows[name].steps)])
  /\ UNCHANGED automationRecords

Definition(name, steps, version, origin) ==
  [name |-> name, steps |-> steps, version |-> version, origin |-> origin]

\* A built-in workflow, else an enabled custom one, else the capability of that
\* name as a workflow of one step: a disabled workflow whose name is a capability
\* still resolves.
Resolve(name) ==
  IF name \in DOMAIN BuiltinSteps THEN Definition(name, BuiltinSteps[name], 1, "builtin")
  ELSE IF name \in Names /\ workflows[name] # NONE /\ workflows[name].enabled
       THEN Definition(name, workflows[name].steps, workflows[name].version, "custom")
  ELSE IF name \in adapters
       THEN Definition(name, <<[capability |-> name, name |-> NONE, after |-> {}, retry |-> 0]>>,
                       1, "capability")
  ELSE NONE

(***************************************************************************)
(* Runs.                                                                   *)
(***************************************************************************)

\* The policy engine allows each step on the target, or not: one answer a step.
Plan(definition, allowed) ==
  \A k \in DOMAIN definition.steps : definition.steps[k].capability \in allowed

\* workflow run: the name is resolved before the user is authenticated and the
\* session opened.
WorkflowRun(t, name, dry, known, permitted, allowed) ==
  LET definition == Resolve(name) IN
  /\ definition # NONE /\ known /\ permitted
  /\ IF dry THEN Reads(t, [blocked |-> ~ Plan(definition, allowed)])
     ELSE Starts(t, [at |-> "run", definition |-> definition, todo |-> <<>>, fired |-> <<>>,
                     trigger |-> 0, row |-> 0, view |-> "plain"]) /\ UNCHANGED told
  /\ UNCHANGED automationRecords

\* What `ksec assess` says beside the outcome: of each step its explanation, to
\* an expert with the command if an adapter builds one, and to a beginner what
\* the status of the run means.
StepExplanations(definition, view) ==
  [k \in DOMAIN definition.steps |->
     [capability |-> definition.steps[k].capability,
      command |-> view = "expert" /\ definition.steps[k].capability \in adapters]]

BeginnerSummary(status) ==
  IF status = "completed" THEN "ready to review" ELSE "blocked or failed"

\* assess: a run like any other, with a session that may be refused.
Assess(t, name, view, dry, known, permitted, allowed) ==
  LET definition == Resolve(name) IN
  /\ definition # NONE /\ known
  /\ IF ~ permitted THEN Reads(t, [refused |-> name])
     ELSE IF dry THEN Reads(t, [blocked |-> ~ Plan(definition, allowed),
                                explained |-> StepExplanations(definition, view)])
     ELSE Starts(t, [at |-> "run", definition |-> definition, todo |-> <<>>, fired |-> <<>>,
                     trigger |-> 0, row |-> 0, view |-> view]) /\ UNCHANGED told
  /\ UNCHANGED automationRecords

WorkflowUnknown(t, name, known, permitted) ==
  /\ Resolve(name) = NONE \/ ~ known \/ ~ permitted
  /\ Reads(t, [refused |-> name]) /\ UNCHANGED automationRecords

\* The row keeps the version and the steps that are about to run.
StartRun(p) ==
  /\ proc[p].at = "run" /\ Len(runs) < MaxRuns
  /\ runs' = Append(runs, [definition |-> proc[p].definition, status |-> "running"])
  /\ Goes(p, [proc[p] EXCEPT !.at = "running", !.row = Len(runs) + 1]) /\ Updates(p)
  /\ UNCHANGED <<workflows, adapters, triggers, notices, told>>

FinishRun(p, status) ==
  /\ proc[p].at = "running"
  /\ runs' = [runs EXCEPT ![proc[p].row].status = status]
  /\ Goes(p, IF proc[p].trigger = 0 THEN resting ELSE [proc[p] EXCEPT !.at = "mark"])
  /\ Tells(p, [ran |-> proc[p].definition.name, status |-> status,
               summary |-> IF proc[p].view = "beginner" THEN BeginnerSummary(status) ELSE NONE])
  /\ Updates(p)
  /\ UNCHANGED <<workflows, adapters, triggers, notices>>

WorkflowHistory(t, name) ==
  Reads(t, SelectSeq(runs, LAMBDA r : name \in {r.definition.name, NONE}))
  /\ UNCHANGED automationRecords

(***************************************************************************)
(* Triggers.                                                               *)
(***************************************************************************)

Present(n) == n \in DOMAIN triggers /\ triggers[n].status # "gone"

TriggerAdd(t, event, glob, workflow, field) ==
  /\ Len(triggers) < MaxTriggers
  /\ triggers' = Append(triggers, [event |-> event, glob |-> glob, workflow |-> workflow,
                                   field |-> field, status |-> "on", fired |-> FALSE])
  /\ Commands(t)
  /\ UNCHANGED <<workflows, adapters, runs, notices, told>>

TriggerList(t) ==
  Reads(t, {n \in DOMAIN triggers : Present(n)}) /\ UNCHANGED automationRecords

TriggerRemove(t, n) ==
  /\ Present(n)
  /\ triggers' = [triggers EXCEPT ![n].status = "gone"]
  /\ Commands(t)
  /\ UNCHANGED <<workflows, adapters, runs, notices, told>>

TriggerSetEnabled(t, n, status) ==
  /\ Present(n)
  /\ triggers' = [triggers EXCEPT ![n].status = status]
  /\ Commands(t)
  /\ UNCHANGED <<workflows, adapters, runs, notices, told>>

TriggerEnable(t, n) == TriggerSetEnabled(t, n, "on")
TriggerDisable(t, n) == TriggerSetEnabled(t, n, "off")

\* Enabled triggers of the event whose pattern the payload's field satisfies; a
\* field the payload does not have is the empty text.
TriggerMatches(event, payload) ==
  SelectSeq([n \in DOMAIN triggers |-> n],
    LAMBDA n : /\ triggers[n].status = "on" /\ triggers[n].event = event
               /\ (IF triggers[n].field \in DOMAIN payload THEN payload[triggers[n].field] ELSE "")
                    \in triggers[n].glob)

\* workflow trigger fire: the matches are read once, with what they run.
TriggerFire(t, event, payload, known) ==
  LET matched == TriggerMatches(event, payload) IN
  /\ IF ~ known THEN Reads(t, [refused |-> event])
     ELSE IF matched = <<>> THEN Reads(t, [matched |-> 0])
     ELSE Starts(t, [at |-> "fire", definition |-> NONE, trigger |-> 0, row |-> 0,
                     view |-> "plain", fired |-> <<>>,
                     todo |-> [k \in DOMAIN matched |->
                                 [id |-> matched[k], workflow |-> triggers[matched[k]].workflow]]])
          /\ UNCHANGED told
  /\ UNCHANGED automationRecords

\* A workflow that does not resolve, or that the policy blocks, is passed over.
Passed(p, outcome) ==
  [proc[p] EXCEPT !.at = "fire", !.todo = Tail(@), !.fired = Append(@, outcome)]

ResolveTrigger(p, allowed) ==
  /\ proc[p].at = "fire" /\ proc[p].todo # <<>>
  /\ LET definition == Resolve(Head(proc[p].todo).workflow) IN
     Goes(p, IF definition = NONE THEN Passed(p, "skipped")
             ELSE IF ~ Plan(definition, allowed) THEN Passed(p, "blocked")
             ELSE [proc[p] EXCEPT !.at = "run", !.definition = definition,
                                  !.trigger = Head(proc[p].todo).id])
  /\ UNCHANGED <<automationRecords, told, quiet>>

\* A session that cannot be opened ends the command: the triggers that are left
\* are not fired.
SessionRefused(p) ==
  /\ proc[p].at = "fire" /\ proc[p].todo # <<>>
  /\ Resolve(Head(proc[p].todo).workflow) # NONE
  /\ Refuses(p) /\ UNCHANGED automationRecords

\* A trigger that has been removed meanwhile is not there to be marked.
MarkFired(p) ==
  /\ proc[p].at = "mark"
  /\ triggers' = IF Present(proc[p].trigger)
                 THEN [triggers EXCEPT ![proc[p].trigger].fired = TRUE] ELSE triggers
  /\ Goes(p, Passed(p, "ran")) /\ Updates(p)
  /\ UNCHANGED <<workflows, adapters, runs, notices, told>>

FiredAll(p) ==
  /\ proc[p].at = "fire" /\ proc[p].todo = <<>>
  /\ Tells(p, [fired |-> proc[p].fired])
  /\ Goes(p, resting) /\ UNCHANGED <<automationRecords, quiet>>

(***************************************************************************)
(* Notifications.                                                          *)
(***************************************************************************)

\* What is delivered is never an exception: a provider says whether it went.
DeliverOne(config, reachable) ==
  CASE config.type = "log" -> TRUE
    [] config.type = "email" -> config.complete /\ reachable
    [] config.type \in {"telegram", "slack", "discord", "webhook"} -> config.complete /\ reachable
    [] OTHER -> FALSE

Deliver(reachable) == [n \in DOMAIN Providers |-> DeliverOne(Providers[n], n \in reachable)]

\* The row first, in a transaction of its own; then the providers.
RecordNotice(t, event, reachable) ==
  /\ notices' = Append(notices, [event |-> event])
  /\ Tells(t, Deliver(reachable))

NotifyTest(t, reachable) ==
  /\ IF DOMAIN Providers = {} THEN Reads(t, [sent |-> FALSE])
     ELSE Reads(t, [sent |-> \A n \in DOMAIN Providers : Deliver(reachable)[n]])
  /\ UNCHANGED automationRecords

NotifyList(t) == Reads(t, Len(notices)) /\ UNCHANGED automationRecords

\* Something worth telling: a case, an exercise, a drift.
Notifies(t, event, reachable) ==
  /\ Starts(t, resting) /\ RecordNotice(t, event, reachable)
  /\ UNCHANGED <<workflows, adapters, triggers, runs>>

\* Plugins and tools come and go.
AdaptersChange(capability) ==
  /\ adapters' = (adapters \ {capability}) \cup ({capability} \ adapters)
  /\ UNCHANGED <<workflows, triggers, runs, notices, consoleVars>>

AutomationKilled(p) == Refuses(p) /\ UNCHANGED automationRecords

(***************************************************************************)
(* The specification.                                                      *)
(***************************************************************************)

Views == {"beginner", "professional", "expert"}
Payloads == UNION {[fields -> Targets] : fields \in SUBSET {"target", "host"}}
Edits == (StepLists \cup {<<>>}) \X {TRUE, FALSE, NONE}

AutomationInit ==
  /\ workflows = [n \in Names |-> NONE] /\ adapters = KnownCapabilities
  /\ triggers = <<>> /\ runs = <<>> /\ notices = <<>>

RunStep(p) == StartRun(p) \/ \E status \in {"completed", "failed"} : FinishRun(p, status)

StoreStep(t) ==
  \/ \E n \in Names, s \in StepLists : WorkflowCreate(t, n, s)
  \/ \E n \in Names, e \in Edits : WorkflowEdit(t, n, e[1], e[2])
  \/ UpdateWorkflow(t)
  \/ WorkflowList(t) \/ \E n \in Names : WorkflowValidate(t, n)
  \/ \E n \in Names, dry, known, permitted \in BOOLEAN, allowed \in SUBSET KnownCapabilities :
       \/ WorkflowRun(t, n, dry, known, permitted, allowed)
       \/ WorkflowUnknown(t, n, known, permitted)
       \/ \E view \in Views : Assess(t, n, view, dry, known, permitted, allowed)
  \/ \E n \in Names \cup {NONE} : WorkflowHistory(t, n)

TriggerStep(t) ==
  \/ \E e \in EventTypes, g \in Globs, n \in Names : TriggerAdd(t, e, g, n, "target")
  \/ TriggerList(t)
  \/ \E n \in DOMAIN triggers : TriggerRemove(t, n) \/ TriggerEnable(t, n) \/ TriggerDisable(t, n)
  \/ \E e \in EventTypes, payload \in Payloads, known \in BOOLEAN :
       TriggerFire(t, e, payload, known)
  \/ \E allowed \in SUBSET KnownCapabilities : ResolveTrigger(t, allowed)
  \/ SessionRefused(t) \/ MarkFired(t) \/ FiredAll(t)

NoticeStep(t) ==
  \/ \E reachable \in SUBSET DOMAIN Providers :
       NotifyTest(t, reachable) \/ \E e \in EventTypes : Notifies(t, e, reachable)
  \/ NotifyList(t)

AutomationNext ==
  \/ \E p \in Procs :
       RunStep(p) \/ StoreStep(p) \/ TriggerStep(p) \/ NoticeStep(p) \/ AutomationKilled(p)
  \/ \E c \in KnownCapabilities : AdaptersChange(c)

AutomationSpec == DeskInit /\ ConsoleInit /\ AutomationInit /\ [][AutomationNext]_automationVars

AutomationTypeOK ==
  /\ \A n \in Names : workflows[n] # NONE => workflows[n].version >= 1 /\ workflows[n].steps # <<>>
  /\ \A n \in DOMAIN triggers : triggers[n].status \in {"on", "off", "gone"}
  /\ \A r \in DOMAIN runs : runs[r].status \in {"running", "completed", "failed"}

\* The version in a run's row says what ran: two runs of a stored workflow that
\* give the same version have run the same steps, whatever edits of how many
\* terminals came between (WorkflowStore.update, WorkflowEngine.run).
VersionNamesSteps ==
  \A r, s \in DOMAIN runs :
    LET a == runs[r].definition
        b == runs[s].definition IN
    a.origin = "custom" /\ b.origin = "custom" /\ a.name = b.name /\ a.version = b.version
      => a.steps = b.steps
=================================================================================
