--------------------------------- MODULE Plugins ---------------------------------
(***************************************************************************)
(* The plugin manager and its commands (plugins, adapters/registry.py,     *)
(* cli/plugin.py).  A plugin is a directory and a row of plugin_registry.  *)
(* Nothing ties the two together: every process that starts brings the     *)
(* rows up to date with the directories, one statement after the other,    *)
(* while another may be installing or removing one.                        *)
(***************************************************************************)
EXTENDS Console, SequencesExt, FiniteSetsExt

CONSTANTS Ids, Bundled,   \* plugin identifiers, and those that ship with KSEC
          Shipped,        \* Shipped[i]: the package in the bundled directory of i
          Packages,       \* what a developer may put in a directory
          BuiltIn,        \* capabilities with an adapter of KSEC's own
          Categories, Permissions

ASSUME BundledAssumption == Bundled \subseteq Ids /\ DOMAIN Shipped = Bundled

VARIABLES disk,      \* disk[i]: the package in the plugin directory of i, or NONE
          drafts,    \* drafts[i]: the package in a developer's directory, or NONE
          registry,  \* registry[i]: the row of i, NONE before its first
          stranded   \* ghost: plugins whose row and directory a kill or an overlap parted

pluginRecords == <<disk, drafts, registry, stranded>>
pluginVars == <<pluginRecords, consoleVars>>

(***************************************************************************)
(* The manifest.  A field that is missing or malformed is NONE.            *)
(***************************************************************************)

TrustLevels == {"CORE_TRUSTED", "VERIFIED", "LOCAL", "THIRD_PARTY", "UNTRUSTED", "BLOCKED"}
ExecutableTrustLevels == TrustLevels \ {"UNTRUSTED", "BLOCKED"}
SafetyClasses == {"PASSIVE", "ACTIVE_SAFE", "ACTIVE_AGGRESSIVE"}

\* The permissions a safety class calls for.
SafetyPermissions(class) ==
  {"network.access"} \cup (CASE class = "PASSIVE" -> {"filesystem.read"}
                             [] class = "ACTIVE_SAFE" -> {"tool.execute"}
                             [] class = "ACTIVE_AGGRESSIVE" -> {"tool.execute", "network.listen"})

\* The fields that make a manifest invalid.
Errors(m) ==
  {k \in {"id", "name", "version"} : m[k] = NONE}
  \cup (IF m.category \in Categories THEN {} ELSE {"category"})
  \cup (IF m.trust \in TrustLevels THEN {} ELSE {"trust"})
  \cup (IF m.permissions \subseteq Permissions THEN {} ELSE {"permissions"})
  \cup (IF m.capabilities # {} \/ m.adapters # {} THEN {} ELSE {"capabilities"})
  \cup (IF /\ m.safety \in SafetyClasses
           /\ m.trust \in ExecutableTrustLevels =>
                SafetyPermissions(m.safety) \subseteq m.permissions
        THEN {} ELSE {"safety"})
  \cup (IF \A a \in m.adapters : a.capability # NONE /\ a.class # NONE THEN {} ELSE {"adapters"})

Manifest(i, category, trust, safety, capability, class) ==
  [id |-> i, name |-> capability, version |-> "0.1.0", category |-> category, trust |-> trust,
   permissions |-> SafetyPermissions(safety), capabilities |-> {capability}, safety |-> safety,
   adapters |-> {[capability |-> capability, class |-> class, loads |-> FALSE]}]

\* plugin new: a skeleton.  Its adapter is named by a module without the suffix
\* an import asks for, so it does not load until somebody edits the manifest.
Scaffold(t, i, category, trust, safety, capability) ==
  /\ category \in Categories /\ trust \in TrustLevels /\ safety \in SafetyClasses
  /\ drafts[i] = NONE
  /\ drafts' = [drafts EXCEPT ![i] = Manifest(i, category, trust, safety, capability, "Adapter")]
  /\ Commands(t)
  /\ UNCHANGED <<disk, registry, stranded, told>>

(***************************************************************************)
(* Every process: bring the rows up to date, then load what may run.       *)
(***************************************************************************)

Statuses == {"INSTALLED", "ENABLED", "DISABLED", "BLOCKED", "UNINSTALLED"}

\* Directories in the order they are searched, the bundled ones first.
PluginDirs ==
  LET present == {i \in Ids : disk[i] # NONE} IN
  SetToSeq(present \cap Bundled) \o SetToSeq(present \ Bundled)

Sound(m) == m # NONE /\ Errors(m) = {}

Valid(i) == Sound(disk[i])

Row(status, trust, package) ==
  [status |-> status, trust |-> trust, permissions |-> package.permissions, hash |-> package]

\* Every package a directory may come to hold, and every row made of one.
AllPackages ==
  Packages \cup {Shipped[i] : i \in Bundled}
  \cup {Manifest(i, category, trust, safety, m.name, "Adapter") : i \in Ids,
          category \in Categories, trust \in TrustLevels, safety \in SafetyClasses, m \in Packages}

PluginRows ==
  {Row(status, trust, m) : status \in Statuses, trust \in TrustLevels, m \in AllPackages}

ASSUME AbsenceAssumption == NONE \notin AllPackages /\ NONE \notin PluginRows

\* A row that has not been uninstalled.
Get(i) == registry[i] # NONE /\ registry[i].status # "UNINSTALLED"

Executable(row) ==
  /\ row.status = "ENABLED" /\ row.trust \in ExecutableTrustLevels
  /\ "tool.execute" \in row.permissions

\* What a process holds: the command it was started for, the directories it has
\* still to look at, the plugin behind each capability it has registered, and
\* which of the manifests it has read are of an executable trust level.
PluginStart(p, cmd) ==
  /\ Starts(p, [at |-> "sync", todo |-> PluginDirs, cmd |-> cmd, owners |-> {}, next |-> "load",
                seen |-> NONE, cached |-> <<>>])
  /\ UNCHANGED <<pluginRecords, told>>

\* An invalid manifest is left to `plugin check`.
SyncFind(p) ==
  /\ proc[p].at = "sync" /\ proc[p].todo # <<>>
  /\ LET i == Head(proc[p].todo) IN
     Goes(p, IF ~ Valid(i) THEN [proc[p] EXCEPT !.todo = Tail(@)]
             ELSE [proc[p] EXCEPT !.at = IF registry[i] = NONE THEN "insert" ELSE "update",
                                  !.seen = disk[i],
                                  !.cached = (i :> (disk[i].trust \in ExecutableTrustLevels)) @@ @])
  /\ UNCHANGED <<pluginRecords, told, quiet>>

RowWritten(p) ==
  Goes(p, [proc[p] EXCEPT !.at = "sync", !.todo = Tail(@), !.seen = NONE]) /\ Updates(p)

SyncInsert(p) ==
  LET i == Head(proc[p].todo)
      status == IF i \in Bundled THEN "ENABLED" ELSE "INSTALLED" IN
  /\ proc[p].at = "insert" /\ registry[i] = NONE
  /\ registry' = [registry EXCEPT ![i] = Row(status, proc[p].seen.trust, proc[p].seen)]
  /\ RowWritten(p)
  /\ UNCHANGED <<disk, drafts, stranded, told>>

\* Another process has inserted the row since: the INSERT raises, and this
\* process does not start.
SyncRaised(p) ==
  /\ proc[p].at = "insert" /\ registry[Head(proc[p].todo)] # NONE
  /\ Refuses(p) /\ UNCHANGED pluginRecords

\* All but the status follows the manifest, the trust level an operator gave too.
SyncUpdate(p) ==
  LET i == Head(proc[p].todo) IN
  /\ proc[p].at = "update"
  /\ registry' = [registry EXCEPT ![i] = Row(@.status, proc[p].seen.trust, proc[p].seen)]
  /\ RowWritten(p)
  /\ UNCHANGED <<disk, drafts, stranded, told>>

Synced(p) ==
  /\ proc[p].at = "sync" /\ proc[p].todo = <<>>
  /\ Goes(p, [proc[p] EXCEPT !.at = proc[p].next,
                             !.todo = IF proc[p].next = "load" THEN PluginDirs ELSE <<>>])
  /\ UNCHANGED <<pluginRecords, told, quiet>>

\* An adapter whose module imports; a capability that has one already keeps it.
LoadPlugin(owners, i) ==
  owners \cup {<<a.capability, i>> : a \in {a \in disk[i].adapters :
    a.loads /\ a.capability \notin BuiltIn /\ \A o \in owners : o[1] # a.capability}}

\* What rows and directories say now is what this process goes by until it ends.
LoadEnabled(p) ==
  /\ proc[p].at = "load"
  /\ LET loadable == SelectSeq(proc[p].todo, LAMBDA i :
                       Valid(i) /\ Get(i) /\ Executable(registry[i])) IN
     Goes(p, [proc[p] EXCEPT !.at = proc[p].cmd.do, !.todo = <<>>,
                             !.owners = FoldLeft(LoadPlugin, @, loadable)])
  /\ UNCHANGED <<pluginRecords, told, quiet>>

(***************************************************************************)
(* The commands, once their process has started.                           *)
(***************************************************************************)

Do(p, command) == proc[p].at = command

\* An administrator, with a password, whom the policy engine lets manage plugins.
RequireAdmin(p) == proc[p].cmd.admin

\* The manifest is the one this process has read, when it could.
MayRun(p, i) ==
  IF i \in DOMAIN proc[p].cached THEN proc[p].cached[i]
  ELSE Valid(i) /\ disk[i].trust \in ExecutableTrustLevels

\* Anything that stops a command before it has changed something.
PluginRefused(p) ==
  LET i == proc[p].cmd.id IN
  /\ \/ /\ proc[p].at \in {"install", "uninstall", "ENABLED", "DISABLED", "BLOCKED"}
        /\ ~ RequireAdmin(p)
     \/ proc[p].at \in {"install", "uninstall"} /\ ~ proc[p].cmd.yes
     \/ Do(p, "install") /\ ~ Sound(drafts[i])
     \/ Do(p, "place") /\ (Get(i) \/ disk[i] # NONE)
     \/ Do(p, "uninstall") /\ (~ Get(i) \/ i \in Bundled)
     \/ proc[p].at \in {"ENABLED", "DISABLED", "BLOCKED"} /\ ~ Get(i)
     \/ Do(p, "ENABLED") /\ ~ MayRun(p, i)
  /\ Refuses(p) /\ UNCHANGED pluginRecords

\* plugin install: the manifest is read and approved, then the directories are
\* brought up to date once more to see whether the plugin is there.
PluginInstall(p) ==
  /\ Do(p, "install") /\ RequireAdmin(p) /\ proc[p].cmd.yes
  /\ Sound(drafts[proc[p].cmd.id])
  /\ Goes(p, [proc[p] EXCEPT !.at = "sync", !.todo = PluginDirs, !.next = "place"])
  /\ UNCHANGED <<pluginRecords, told, quiet>>

\* The directory is copied first.
Place(p) ==
  LET i == proc[p].cmd.id IN
  /\ Do(p, "place") /\ ~ Get(i) /\ disk[i] = NONE
  /\ disk' = [disk EXCEPT ![i] = drafts[i]]
  /\ Goes(p, [proc[p] EXCEPT !.at = "record", !.seen = drafts[i]])
  /\ UNCHANGED <<drafts, registry, stranded, told, quiet>>

\* Then the row is inserted, with the trust level of the command line.  When there
\* is one, of an uninstalled plugin or of a start that came between, the INSERT
\* raises what the handler of install() does not catch: the directory stays.
RecordInstall(p) ==
  LET i == proc[p].cmd.id
      status == IF proc[p].seen.trust \in ExecutableTrustLevels THEN "ENABLED" ELSE "INSTALLED" IN
  /\ Do(p, "record")
  /\ IF registry[i] = NONE
     THEN /\ registry' = [registry EXCEPT ![i] = Row(status, proc[p].cmd.trust, proc[p].seen)]
          /\ Tells(p, [status |-> status, executable |-> Executable(registry'[i])])
          /\ Goes(p, resting) /\ Updates(p)
     ELSE Refuses(p) /\ UNCHANGED registry
  /\ UNCHANGED <<disk, drafts, stranded>>

\* The plugin is looked up before its status is set.
SetPluginStatus(p) ==
  /\ RequireAdmin(p) /\ Get(proc[p].cmd.id)
  /\ Goes(p, [proc[p] EXCEPT !.at = "status"])
  /\ UNCHANGED <<pluginRecords, told, quiet>>

\* To be enabled its manifest must load and be of an executable trust level.
PluginEnable(p) ==
  /\ Do(p, "ENABLED") /\ MayRun(p, proc[p].cmd.id)
  /\ SetPluginStatus(p)

PluginDisable(p) == Do(p, "DISABLED") /\ SetPluginStatus(p)

PluginBlock(p) == Do(p, "BLOCKED") /\ SetPluginStatus(p)

\* The UPDATE asks nothing of the row, which may have been uninstalled since.
WriteStatus(p) ==
  LET i == proc[p].cmd.id IN
  /\ Do(p, "status")
  /\ registry' = [registry EXCEPT ![i].status = proc[p].cmd.do]
  /\ stranded' = IF disk[i] # NONE \/ quiet[p] THEN stranded ELSE stranded \cup {i}
  /\ Goes(p, resting) /\ Updates(p)
  /\ Tells(p, [status |-> proc[p].cmd.do, executable |-> Executable(registry'[i])])
  /\ UNCHANGED <<disk, drafts>>

\* plugin uninstall: the directory goes first.
PluginUninstall(p) ==
  LET i == proc[p].cmd.id IN
  /\ Do(p, "uninstall") /\ RequireAdmin(p) /\ proc[p].cmd.yes /\ Get(i) /\ i \notin Bundled
  /\ disk' = [disk EXCEPT ![i] = NONE]
  /\ Goes(p, [proc[p] EXCEPT !.at = "forget"])
  /\ UNCHANGED <<drafts, registry, stranded, told, quiet>>

\* A mutant of ForgetPlugin: the row is left as it is.
ForgetNothing(p) ==
  /\ Do(p, "forget")
  /\ Goes(p, resting)
  /\ UNCHANGED <<pluginRecords, told, quiet>>

ForgetPlugin(p) ==
  /\ Do(p, "forget")
  /\ registry' = [registry EXCEPT ![proc[p].cmd.id].status = "UNINSTALLED"]
  /\ Goes(p, resting) /\ Updates(p)
  /\ UNCHANGED <<disk, drafts, stranded, told>>

\* plugin list, a second round of the directories; plugin info; plugin check.
ListPlugins(p) ==
  /\ Do(p, "list")
  /\ Goes(p, [proc[p] EXCEPT !.at = "sync", !.todo = PluginDirs, !.next = "listed"])
  /\ UNCHANGED <<pluginRecords, told, quiet>>

PluginList(p) ==
  /\ Do(p, "listed")
  /\ Tells(p, {<<i, registry[i].status, Executable(registry[i])>> : i \in {i \in Ids : Get(i)}})
  /\ Goes(p, resting) /\ UNCHANGED <<pluginRecords, quiet>>

PluginInfo(p) ==
  LET i == proc[p].cmd.id IN
  /\ Do(p, "info")
  /\ Tells(p, IF Get(i) THEN registry[i] ELSE NONE)
  /\ Goes(p, resting) /\ UNCHANGED <<pluginRecords, quiet>>

\* A directory whose manifest is invalid, that has no row, or whose content is not
\* what the row's hash was taken of.
Unhealthy(i) == disk[i] # NONE /\ (~ Valid(i) \/ ~ Get(i) \/ registry[i].hash # disk[i])

PluginCheck(p) ==
  /\ Do(p, "check")
  /\ Tells(p, {i \in Ids : Unhealthy(i)})
  /\ Goes(p, resting) /\ UNCHANGED <<pluginRecords, quiet>>

\* A job of a capability a plugin provides asks for the row again; one of a
\* capability of KSEC's own is let through, and one nobody has registered an
\* adapter for does not get here.
AssertCapabilityAllowed(p) ==
  LET i == CHOOSE i \in Ids : <<proc[p].cmd.capability, i>> \in proc[p].owners IN
  /\ Do(p, "job")
  /\ Tells(p, IF proc[p].cmd.capability \in BuiltIn THEN [allowed |-> TRUE, plugin |-> NONE]
              ELSE IF \A o \in proc[p].owners : o[1] # proc[p].cmd.capability
                   THEN [allowed |-> FALSE, plugin |-> NONE]
              ELSE [allowed |-> Get(i) /\ Executable(registry[i]), plugin |-> i])
  /\ Goes(p, resting) /\ UNCHANGED <<pluginRecords, quiet>>

\* A developer edits a draft, or somebody the installed directory.
Edited(i, package) ==
  /\ \/ drafts[i] # NONE /\ drafts' = [drafts EXCEPT ![i] = package] /\ UNCHANGED disk
     \/ disk[i] # NONE /\ disk' = [disk EXCEPT ![i] = package] /\ UNCHANGED drafts
  /\ UNCHANGED <<registry, stranded, consoleVars>>

PluginKilled(p) ==
  /\ Refuses(p)
  /\ stranded' = IF Do(p, "forget") THEN stranded \cup {proc[p].cmd.id} ELSE stranded
  /\ UNCHANGED <<disk, drafts, registry>>

(***************************************************************************)
(* The specification.                                                      *)
(***************************************************************************)

Orders == {"install", "uninstall", "ENABLED", "DISABLED", "BLOCKED", "list", "info", "check", "job"}

PluginCommands ==
  {[do |-> do, id |-> i, admin |-> admin, yes |-> yes, trust |-> trust, capability |-> c] :
     do \in Orders, i \in Ids, admin \in BOOLEAN, yes \in BOOLEAN, trust \in TrustLevels,
     c \in UNION {m.capabilities : m \in Packages} \cup BuiltIn}

PluginInit ==
  /\ disk = [i \in Ids |-> IF i \in Bundled THEN Shipped[i] ELSE NONE]
  /\ drafts = [i \in Ids |-> NONE]
  /\ registry = [i \in Ids |-> NONE]
  /\ stranded = {}

SyncStep(p) == SyncFind(p) \/ SyncInsert(p) \/ SyncUpdate(p) \/ SyncRaised(p) \/ Synced(p)
               \/ LoadEnabled(p)
InstallStep(p) == PluginInstall(p) \/ Place(p) \/ RecordInstall(p)
StatusStep(p) ==
  \/ PluginEnable(p) \/ PluginDisable(p) \/ PluginBlock(p) \/ WriteStatus(p)
  \/ PluginUninstall(p) \/ ForgetPlugin(p)
AnswerStep(p) ==
  ListPlugins(p) \/ PluginList(p) \/ PluginInfo(p) \/ PluginCheck(p) \/ AssertCapabilityAllowed(p)

PluginStep(p) ==
  \/ SyncStep(p) \/ InstallStep(p) \/ StatusStep(p) \/ AnswerStep(p)
  \/ PluginRefused(p) \/ PluginKilled(p)

PluginNext ==
  \/ \E p \in Procs : PluginStep(p) \/ \E cmd \in PluginCommands : PluginStart(p, cmd)
  \/ \E p \in Procs, i \in Ids, category \in Categories, trust \in TrustLevels,
        safety \in SafetyClasses, m \in Packages :
       Scaffold(p, i, category, trust, safety, m.name)
  \/ \E i \in Ids, m \in Packages : Edited(i, m)

PluginSpec == DeskInit /\ ConsoleInit /\ PluginInit /\ [][PluginNext]_pluginVars

PluginTypeOK ==
  /\ \A i \in Ids : registry[i] # NONE =>
       registry[i].status \in Statuses /\ registry[i].trust \in TrustLevels
  /\ stranded \subseteq Ids

\* A plugin that is registered has its directory: install copies before it inserts
\* and uninstall marks the row after it has removed the directory, so that only a
\* command that was killed between the two, or one that was overtaken by another,
\* leaves a row of nothing (PluginManager.install, uninstall, set_status).
RowsHaveFiles ==
  \A i \in Ids : Get(i) =>
    \/ disk[i] # NONE \/ i \in stranded
    \/ \E p \in Procs : Do(p, "forget") /\ proc[p].cmd.id = i
=================================================================================
