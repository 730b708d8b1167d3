------------------------------- MODULE MCPlatform -------------------------------
(***************************************************************************)
(* A small instance of the modules of the platform's own upkeep: plugins,  *)
(* stored workflows, the database file, tools and programs.  They share    *)
(* terminals and their database; the topic of a behaviour, fixed in the    *)
(* initial state, is the module, and the family of its steps, that the     *)
(* behaviour takes, so that the state spaces add up.                       *)
(***************************************************************************)
EXTENDS Plugins, Automation, Upkeep, Toolbox, Programs, TLC

CONSTANTS ta, tb, pa, pb, x, y, web, w, c1, c2, recon, site, evt, nm, all,
          nmap, masscan, scanning, api, intruder, empty, t1595, t1190, t9, amy, dns

VARIABLE topic

MCProcs == {ta, tb}

\* Plugins: one that ships with KSEC, and packages a developer makes of another.
Package(i, trust, permissions, capability, loads) ==
  [id |-> i, name |-> capability, version |-> "0.1.0", category |-> web, trust |-> trust,
   permissions |-> permissions, capabilities |-> {capability}, safety |-> "ACTIVE_SAFE",
   adapters |-> {[capability |-> capability, class |-> "Adapter", loads |-> loads]}]
Granted == {"network.access", "tool.execute"}
Good == Package(pa, "LOCAL", Granted, x, TRUE)
MCShipped == [i \in {pb} |-> Package(pb, "CORE_TRUSTED", Granted, y, TRUE)]
MCPackages == {Good, Package(pa, "UNTRUSTED", {}, x, TRUE), Package(pa, "LOCAL", {}, x, TRUE)}

\* Stored workflows: a step, two steps in an order, two that wait for one another.
Single(capability) == [capability |-> capability, name |-> NONE, after |-> {}, retry |-> 0]
Chained == <<[Single(c1) EXCEPT !.name = nm, !.after = {2}], [Single(c2) EXCEPT !.retry = 1]>>
Looped == <<[Single(c1) EXCEPT !.after = {2}], [Single(c2) EXCEPT !.after = {1}]>>
MCStepLists == {<<Single(c1)>>, <<Single(c2)>>, Chained, Looped}
MCBuiltin == recon :> <<Single(c1)>>
MCGlobs == {{site}, {site, ""}}
Log == [type |-> "log", complete |-> TRUE]
MCProviders == ("log" :> Log) @@ ("mail" :> [Log EXCEPT !.type = "email"])
               @@ ("pager" :> [Log EXCEPT !.type = "pager"])
Trigger(workflow) == [event |-> evt, glob |-> {site}, workflow |-> workflow, field |-> "target",
                      status |-> "on", fired |-> FALSE]

\* Migrations: one of a guarded statement, one of two, one that adds a column.
Statement(object, guarded) == [object |-> object, guarded |-> guarded]
MCMigrations ==
  << <<Statement("jobs", TRUE)>>, <<Statement("links", TRUE), Statement("retry", FALSE)>>,
     <<Statement("process", FALSE)>> >>

\* Tools: two that provide one capability.
Provides(name) == [name |-> name, package |-> name, category |-> web, capability |-> scanning]
MCCatalogue == <<Provides(nmap), Provides(masscan)>>
MCDomains == api :> {nmap}
MCPostures ==
  {[markers |-> TRUE, secrets |-> FALSE, readable |-> TRUE, guard |-> FALSE],
   [markers |-> FALSE, secrets |-> TRUE, readable |-> FALSE, guard |-> TRUE]}
MCDepths == [beginner |-> {"plain"}, professional |-> {"technical"},
             expert |-> {"plain", "technical"}]

\* Programs: a profile of two steps, one of none.
AdvStep(technique, tactic) == [technique |-> technique, tactic |-> tactic, capability |-> scanning]
MCProfiles == (intruder :> <<AdvStep(t1190, NONE), AdvStep(t1595, NONE)>>) @@ (empty :> <<>>)
MCTacticOf == (t1595 :> "reconnaissance") @@ (t1190 :> "initial-access")
MCChainPhase == ("reconnaissance" :> 1) @@ ("initial-access" :> 2)
MCAtomics == dns :> scanning
MCControls == ("SI-4" :> {"audit_active", "evidence_integrity"}) @@ ("AC-3" :> {"authorization"})
              @@ ("4.1" :> {"tls_version"})
MCEstates ==
  {[audit |-> TRUE, events |-> 1, required |-> TRUE, engagements |-> 1, rules |-> 0,
    evidence |-> {TRUE}, backups |-> <<FALSE, TRUE>>],
   [audit |-> TRUE, events |-> 0, required |-> FALSE, engagements |-> 1, rules |-> 1,
    evidence |-> {}, backups |-> <<>>]}

mcVars == <<pluginRecords, automationRecords, upkeepRecords, toolboxRecords, programRecords,
            consoleVars, topic>>

pluginTopics == {"plugins", "vetting"}
automationTopics == {"workflows", "triggers", "notices"}
upkeepTopics == {"upgrade", "backups", "changes"}
toolTopics == {"tools", "modules"}
programTopics == {"profiles", "simulations", "atomics", "learning"}

(***************************************************************************)
(* The commands typed in each topic: at the first terminal up to MaxWork,  *)
(* at the second one, except where there is room for more.                 *)
(***************************************************************************)

roomy == {"upgrade", "changes", "profiles"}

PluginOrder(do, i, trust) ==
  [do |-> do, id |-> i, admin |-> TRUE, yes |-> TRUE, trust |-> trust, capability |-> x]

PluginOrders(p) ==
  IF topic = "plugins"
  THEN {PluginOrder(do, pa, "LOCAL") : do \in
          IF p = ta THEN {"install", "uninstall", "ENABLED", "job"}
          ELSE {"install", "uninstall", "DISABLED"}}
  ELSE IF p = tb THEN {}
  ELSE {PluginOrder(do, pa, "LOCAL") : do \in {"install", "list", "info", "check", "ENABLED"}}
       \cup {PluginOrder("uninstall", pb, "LOCAL"), PluginOrder("BLOCKED", pa, "LOCAL")}
       \cup {[PluginOrder("BLOCKED", pa, "LOCAL") EXCEPT !.admin = FALSE],
             [PluginOrder("uninstall", pa, "LOCAL") EXCEPT !.yes = FALSE]}

UpkeepOrder(do) == [do |-> do, id |-> 1, yes |-> TRUE, scope |-> all]

UpkeepTyped(p) ==
  CASE topic = "upgrade" -> {UpkeepOrder("version")}
    [] topic = "backups" /\ p = ta ->
         {UpkeepOrder("backup"), UpkeepOrder("restore"),
          [UpkeepOrder("restore") EXCEPT !.yes = FALSE]}
    [] topic = "backups" /\ p = tb ->
         {UpkeepOrder(do) : do \in {"backup", "copies", "verify", "change", "update", "health",
                                    "repair", "version"}}
         \cup {[UpkeepOrder("repair") EXCEPT !.yes = FALSE]}
    [] topic = "changes" /\ p = ta -> {UpkeepOrder(do) : do \in {"baseline", "scan"}}
    [] topic = "changes" /\ p = tb ->
         {UpkeepOrder(do) : do \in {"change", "baselines", "forget baseline", "scans"}}

WorkflowTyped(t) ==
  IF t = ta
  THEN \/ \E e \in {<<Chained, NONE>>, <<<<>>, FALSE>>} : WorkflowEdit(ta, w, e[1], e[2])
       \/ \E n \in {w, c1} : WorkflowRun(ta, n, FALSE, TRUE, TRUE, {c1})
  ELSE \/ \E enabled \in {TRUE, NONE} : WorkflowEdit(tb, w, <<Single(c2)>>, enabled)
       \/ \E s \in StepLists : WorkflowCreate(tb, recon, s) \/ WorkflowCreate(tb, c2, s)
       \/ WorkflowList(tb) \/ WorkflowValidate(tb, w) \/ WorkflowHistory(tb, w)
       \/ WorkflowRun(tb, w, TRUE, TRUE, TRUE, {c1}) \/ WorkflowUnknown(tb, w, FALSE, TRUE)
       \/ \E dry, permitted \in BOOLEAN :
            Assess(tb, w, IF dry THEN "expert" ELSE "beginner", dry, TRUE, permitted, {c1})

TriggerTyped(t) ==
  IF t = ta THEN \E known \in BOOLEAN : TriggerFire(ta, evt, [target |-> site], known)
  ELSE \/ \E g \in Globs : TriggerAdd(tb, evt, g, w, "host")
       \/ TriggerList(tb) \/ TriggerFire(tb, evt, [host |-> site], TRUE)
       \/ \E n \in DOMAIN triggers :
            TriggerRemove(tb, n) \/ TriggerEnable(tb, n) \/ TriggerDisable(tb, n)

TriggerRuns(t) ==
  ResolveTrigger(t, {c1}) \/ SessionRefused(t) \/ MarkFired(t) \/ FiredAll(t)

ToolTyped(t) ==
  IF t = ta
  THEN \/ ToolsUpdate(ta)
       \/ \E admin \in BOOLEAN : ToolsInstall(ta, scanning, nmap, admin, FALSE, TRUE)
  ELSE \/ ToolsInstall(tb, scanning, NONE, TRUE, FALSE, TRUE)
       \/ ToolsRemove(tb, nmap) \/ ToolsHealth(tb)

SimulationTyped(t) ==
  IF t = ta THEN ExerciseNew(ta, intruder) \/ ExerciseRun(ta, 1, FALSE)
  ELSE ExerciseRun(tb, 1, TRUE) \/ AdversaryChain(tb, 1, FALSE) \/ ProfileDelete(tb, intruder)
       \/ AdversaryReport(tb, 1) \/ ExerciseList(tb) \/ ExerciseUnknown(tb, 1)

(***************************************************************************)
(* The specification.                                                      *)
(***************************************************************************)

Stored == [k \in DOMAIN Profiles[intruder] |->
             [Profiles[intruder][k] EXCEPT !.tactic = TacticOf[Profiles[intruder][k].technique]]]

MCInit ==
  /\ topic \in UNION {pluginTopics, automationTopics, upkeepTopics, toolTopics, programTopics}
  /\ proc = [p \in Procs |-> resting]
  /\ quiet = [p \in Procs |-> TRUE]
  /\ work = [p \in Procs |-> IF p = tb /\ topic \notin roomy THEN 1 ELSE MaxWork]
  /\ ConsoleInit
  /\ disk = [i \in Ids |-> IF i \in Bundled THEN Shipped[i] ELSE NONE]
  /\ drafts \in IF topic = "vetting" THEN {[i \in Ids |-> IF i = pa THEN d ELSE NONE] :
                                             d \in Packages \cup {NONE}}
                ELSE {[i \in Ids |-> IF i = pa THEN Good ELSE NONE]}
  /\ registry = [i \in Ids |-> NONE]
  /\ stranded = {}
  /\ workflows = [n \in Names |-> IF topic \in automationTopics /\ n = w
                    THEN [steps |-> <<Single(c1)>>, version |-> 1, enabled |-> TRUE] ELSE NONE]
  /\ adapters = KnownCapabilities
  /\ triggers = IF topic = "triggers" THEN <<Trigger(w), Trigger(c1)>> ELSE <<>>
  /\ runs = <<>> /\ notices = <<>>
  /\ dbs = <<Database(IF topic = "upgrade" THEN OldVersion ELSE Len(Migrations))>> /\ live = 1
  /\ backups = <<>> /\ bare = {} /\ notified = {}
  /\ ToolboxInit /\ present \subseteq IF topic \in toolTopics THEN {masscan} ELSE {}
  /\ ttps = {} /\ lessons = [u \in Learners |-> [l \in Lessons |-> "none"]]
  /\ drills = [u \in Learners |-> [d \in Drills |-> NONE]]
  /\ profiles = [n \in DOMAIN Profiles |->
                   IF topic = "simulations" /\ n = intruder THEN Stored ELSE NONE]
  /\ simulations = <<>> /\ ledger = <<>> /\ cut = {}

PluginsMove ==
  \/ \E p \in Procs : PluginStep(p) \/ \E cmd \in PluginOrders(p) : PluginStart(p, cmd)
  \/ topic = "vetting" /\ (Scaffold(ta, pa, web, "LOCAL", "ACTIVE_SAFE", x) \/ Edited(pa, Good))

AutomationMoves ==
  \/ topic \in {"workflows", "triggers"} /\ \E t \in Procs :
       RunStep(t) \/ AutomationKilled(t)
  \/ topic = "workflows" /\ \E t \in Procs : WorkflowTyped(t) \/ UpdateWorkflow(t)
  \/ topic = "triggers" /\ \/ \E t \in Procs : TriggerTyped(t) \/ TriggerRuns(t)
                           \/ AdaptersChange(c1)
  \/ topic = "notices" /\ \E t \in Procs : NoticeStep(t)

UpkeepMoves ==
  \/ \E p \in Procs : UpkeepStep(p) \/ \E cmd \in UpkeepTyped(p) : UpkeepStart(p, cmd)
  \/ Altered(1)

ToolsMove ==
  \/ \E p \in Procs : WriteBack(p) \/ ToolInstallStep(p) \/ ToolboxKilled(p)
  \/ topic = "tools" /\ ((\E t \in Procs : ToolTyped(t)) \/ PathChanges(nmap))
  \/ topic = "modules" /\ (ModuleStep(ta) \/ SearchStep(tb))

ProgramsMove ==
  \/ topic = "profiles" /\ \E p \in Procs : ProfileStep(p)
  \/ topic = "simulations" /\ \E p \in Procs :
       SimulationTyped(p) \/ SimulationRun(p) \/ ProfileDeleted(p)
  \/ topic = "atomics" /\ \E p \in Procs : AtomicStep(p) \/ GrcStep(p)
  \/ topic = "learning" /\ \E p \in Procs : LearnStep(p)
  \/ \E p \in Procs : ProgramKilled(p)

MCNext ==
  /\ \/ /\ topic \in pluginTopics /\ PluginsMove
        /\ UNCHANGED <<automationRecords, upkeepRecords, toolboxRecords, programRecords>>
     \/ /\ topic \in automationTopics /\ AutomationMoves
        /\ UNCHANGED <<pluginRecords, upkeepRecords, toolboxRecords, programRecords>>
     \/ /\ topic \in upkeepTopics /\ UpkeepMoves
        /\ UNCHANGED <<pluginRecords, automationRecords, toolboxRecords, programRecords>>
     \/ /\ topic \in toolTopics /\ ToolsMove
        /\ UNCHANGED <<pluginRecords, automationRecords, upkeepRecords, programRecords>>
     \/ /\ topic \in programTopics /\ ProgramsMove
        /\ UNCHANGED <<pluginRecords, automationRecords, upkeepRecords, toolboxRecords>>
  /\ UNCHANGED topic

PlatformTypesOK ==
  PluginTypeOK /\ AutomationTypeOK /\ UpkeepTypeOK /\ ToolboxTypeOK /\ ProgramsTypeOK

MCSpec == MCInit /\ [][MCNext]_mcVars
=================================================================================
