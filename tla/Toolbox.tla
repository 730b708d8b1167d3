--------------------------------- MODULE Toolbox ---------------------------------
(***************************************************************************)
(* The tools of the host and what the platform knows of them (capabilities,*)
(* installer, modules and their commands).  The registry of tools is a     *)
(* copy of what a search of the path found: almost every command that asks *)
(* searches again and writes all the rows, in one transaction that follows *)
(* the search.                                                             *)
(***************************************************************************)
EXTENDS Console

CONSTANTS Catalogue,   \* known tools, in order: name, package, category, capability
          Domains,     \* Domains[m]: the tools of domain module m
          Versioned,   \* tools whose binary answers a version probe
          Postures,    \* what the posture checks of a module may find on the host
          Depths,      \* Depths[mode]: the parts of an explanation that mode shows
          MaxTrail     \* bound on the audit entries

VARIABLES present,  \* tools whose binary is on the path
          rows,     \* rows[tool]: the registry's row, or NONE
          trail,    \* audit entries, in order
          stale     \* ghost: tools whose row a kill, an overlap or a change by hand left behind

toolboxRecords == <<present, rows, trail, stale>>
toolboxVars == <<toolboxRecords, consoleVars>>

ASSUME CatalogueAssumption ==
  Len(Catalogue) \in Nat /\ DOMAIN Catalogue = 1..Len(Catalogue)

Tools == {Catalogue[k].name : k \in DOMAIN Catalogue}
Tool(name) == CHOOSE tool \in {Catalogue[k] : k \in DOMAIN Catalogue} : tool.name = name

(***************************************************************************)
(* The registry.                                                           *)
(***************************************************************************)

\* What one search of the path finds.
Discover == [name \in Tools |-> [ready |-> name \in present,
                                 version |-> name \in present \cap Versioned]]

Available == {Tool(name).capability : name \in present \cap Tools}

\* The tools each capability lacks, with those it has.
MissingCapabilities ==
  {<<tool.capability, tool.name>> : tool \in {Tool(name) : name \in Tools \ present}}

\* All rows are replaced by what was found, which may be older than they are.
Persist(p, found) ==
  /\ rows' = found
  /\ stale' = IF quiet[p] THEN {} ELSE Tools
  /\ Updates(p)
  /\ UNCHANGED <<present, trail>>

Searches(t, answer) ==
  /\ Starts(t, [at |-> "persist", found |-> Discover, answer |-> answer, tool |-> NONE])
  /\ UNCHANGED <<toolboxRecords, told>>

Persisted(p) ==
  /\ proc[p].at = "persist"
  /\ Persist(p, proc[p].found)
  /\ Goes(p, resting) /\ Tells(p, proc[p].answer)

\* A tool as the commands show it.
ToolRecord(name) == [tool |-> Tool(name), state |-> Discover[name]]

\* tools list, with its filters: one that is broken is there without a version.
ToolsList(t, category, filter) ==
  LET shown(name) ==
        /\ category \in {NONE, Tool(name).category}
        /\ CASE filter = "installed" -> Discover[name].ready
             [] filter = "missing" -> ~ Discover[name].ready
             [] filter = "broken" -> Discover[name].ready /\ ~ Discover[name].version
             [] OTHER -> TRUE IN
  Searches(t, {ToolRecord(name) : name \in {name \in Tools : shown(name)}})

ToolsSearch(t, query) ==
  Searches(t, {name \in Tools :
    query \in {NONE, name, Tool(name).capability, Tool(name).category}})

ToolsCapabilities(t) ==
  Searches(t, [c \in {Tool(name).capability : name \in Tools} |-> c \in Available])

ToolsInfo(t, name) == Searches(t, IF name \in Tools THEN ToolRecord(name) ELSE [unknown |-> name])

\* tools update: how many there are and how many are ready.
ToolsUpdate(t) == Searches(t, <<Cardinality(Tools), Cardinality(present \cap Tools)>>)

\* The rows are written before the path is looked at again for what is missing:
\* the two answers of tools health may differ.
ToolsHealth(t) ==
  /\ Starts(t, [at |-> "health", found |-> Discover])
  /\ UNCHANGED <<toolboxRecords, told>>

HealthPersisted(p) ==
  /\ proc[p].at = "health"
  /\ Persist(p, proc[p].found)
  /\ Goes(p, [proc[p] EXCEPT !.at = "missing"]) /\ UNCHANGED told

HealthAnswered(p) ==
  /\ proc[p].at = "missing"
  /\ Tells(p, [tools |-> proc[p].found, missing |-> MissingCapabilities])
  /\ Goes(p, resting) /\ UNCHANGED <<toolboxRecords, quiet>>

\* The row alone is deleted, until the next search brings it back.
RemoveFromRegistry(name) == rows' = [rows EXCEPT ![name] = NONE]

ToolsRemove(t, name) ==
  /\ IF name \in Tools /\ rows[name] # NONE
     THEN Commands(t) /\ RemoveFromRegistry(name) /\ Tells(t, [removed |-> name])
     ELSE Reads(t, [removed |-> NONE]) /\ UNCHANGED rows
  /\ UNCHANGED <<present, trail, stale>>

\* The flag decides the mode, else the configuration, else it is professional.
ResolveMode(flag, configured) ==
  LET asked == IF flag = NONE THEN configured ELSE flag IN
  IF asked \in DOMAIN Depths THEN asked ELSE "professional"

ToolsExplain(t, name, flag, configured) ==
  /\ Reads(t, IF name \in Tools THEN <<name, Depths[ResolveMode(flag, configured)]>>
              ELSE [unknown |-> name])
  /\ UNCHANGED toolboxRecords

ToolsDocs(t, name, flag, configured) == ToolsExplain(t, name, flag, configured)

(***************************************************************************)
(* Installing a tool.                                                      *)
(***************************************************************************)

\* Where the catalogue names the tools that provide a capability.
FindProviders(capability) == {k \in DOMAIN Catalogue : Catalogue[k].capability = capability}

\* The first provider that is in the package asked for, else the first of all.
ProviderOf(capability, package) ==
  LET providers == FindProviders(capability)
      asked == {k \in providers : Catalogue[k].package = package}
      suited == IF asked = {} THEN providers ELSE asked IN
  Catalogue[CHOOSE k \in suited : \A j \in suited : k <= j]

\* There is a provider, and it is not installed.
InstallPlan(capability, package) ==
  FindProviders(capability) # {} /\ ProviderOf(capability, package).name \notin present

\* tools install: an administrator, a plan, an approval.
ToolsInstall(t, capability, package, admin, dry, yes) ==
  /\ IF admin /\ InstallPlan(capability, package) /\ ~ dry /\ yes
     THEN /\ Starts(t, [at |-> "install", capability |-> capability, package |-> package])
          /\ UNCHANGED told
     ELSE Reads(t, [installed |-> FALSE])
  /\ UNCHANGED toolboxRecords

\* The plan is made again; the beginning is on record before the packages change.
InstallStarts(p, apt) ==
  /\ proc[p].at = "install" /\ Len(trail) < MaxTrail
  /\ IF ~ InstallPlan(proc[p].capability, proc[p].package) \/ ~ apt
     THEN Refuses(p) /\ UNCHANGED trail
     ELSE LET name == ProviderOf(proc[p].capability, proc[p].package).name IN
          /\ trail' = Append(trail, [tool |-> name, outcome |-> "started"])
          /\ Goes(p, [at |-> "apt", tool |-> name]) /\ Updates(p) /\ UNCHANGED told
  /\ UNCHANGED <<present, rows, stale>>

\* The packages change, whatever apt-get says of it in the end.
PackageInstalled(p) ==
  /\ proc[p].at = "apt" /\ proc[p].tool \notin present
  /\ present' = present \cup {proc[p].tool}
  /\ Updates(p)
  /\ UNCHANGED <<rows, trail, stale, proc, work, told>>

\* Ten minutes, or a command that does not run: the beginning is all there is.
AptRaised(p) ==
  /\ proc[p].at = "apt"
  /\ stale' = stale \cup {proc[p].tool}
  /\ Refuses(p) /\ UNCHANGED <<present, rows, trail>>

\* A mutant of AptEnds: the registry is written from what the plan had found.
AptEndsWithPlan(p, outcome) ==
  /\ proc[p].at = "apt"
  /\ outcome = "success" => proc[p].tool \in present
  /\ trail' = Append(trail, [tool |-> proc[p].tool, outcome |-> outcome])
  /\ Goes(p, IF outcome = "failed" THEN resting
             ELSE [at |-> "persist", found |-> [Discover EXCEPT ![proc[p].tool].ready = FALSE],
                   answer |-> [installed |-> TRUE], tool |-> proc[p].tool])
  /\ Updates(p)
  /\ UNCHANGED <<present, rows, stale, told>>

\* The outcome follows the exit code; only a success is looked for on the path, and
\* brings the registry up to date.
AptEnds(p, outcome) ==
  /\ proc[p].at = "apt"
  /\ outcome = "success" => proc[p].tool \in present
  /\ trail' = Append(trail, [tool |-> proc[p].tool, outcome |-> outcome])
  /\ Goes(p, IF outcome = "failed" THEN resting
             ELSE [at |-> "refresh", tool |-> proc[p].tool])
  /\ Updates(p)
  /\ UNCHANGED <<present, rows, stale, told>>

\* The search that brings the registry up to date.
InstallRefresh(p) ==
  /\ proc[p].at = "refresh"
  /\ Goes(p, [at |-> "persist", found |-> Discover, answer |-> [installed |-> TRUE],
              tool |-> proc[p].tool])
  /\ UNCHANGED <<toolboxRecords, told, quiet>>

(***************************************************************************)
(* Domain modules.                                                         *)
(***************************************************************************)

ModuleList(t) == Reads(t, DOMAIN Domains) /\ UNCHANGED toolboxRecords

ModuleInfo(t, m) ==
  /\ Reads(t, IF m \in DOMAIN Domains THEN Domains[m] \cap present ELSE [unknown |-> m])
  /\ UNCHANGED toolboxRecords

\* What is found tells a failure from a pass; what is absent is worth a remark.
ConfigPresent(posture) == IF posture.markers THEN "PASS" ELSE "INFO"
NoSecretInCwd(posture) == IF posture.secrets THEN "FAIL" ELSE "PASS"
WorldReadable(posture) == IF posture.readable THEN "FAIL" ELSE "PASS"
MetadataGuard(posture) == IF posture.guard THEN "PASS" ELSE "INFO"

CheckResults(posture) ==
  [config_present |-> ConfigPresent(posture), no_secret_in_cwd |-> NoSecretInCwd(posture),
   no_world_readable_config |-> WorldReadable(posture), metadata_guard |-> MetadataGuard(posture)]

\* Nothing is run against a target; the run is on record.
ModuleCheck(t, m, posture) ==
  /\ IF m \in DOMAIN Domains
     THEN /\ Commands(t) /\ Tells(t, CheckResults(posture)) /\ Len(trail) < MaxTrail
          /\ trail' = Append(trail, [tool |-> m, outcome |-> "checked"])
     ELSE Reads(t, [unknown |-> m]) /\ UNCHANGED trail
  /\ UNCHANGED <<present, rows, stale>>

\* A tool comes or goes without the platform's doing.
PathChanges(name) ==
  /\ present' = (present \ {name}) \cup ({name} \ present)
  /\ stale' = stale \cup {name}
  /\ quiet' = [q \in Procs |-> proc[q] = resting]
  /\ UNCHANGED <<rows, trail, proc, work, told>>

ToolboxKilled(p) ==
  /\ stale' = IF "tool" \in DOMAIN proc[p] THEN stale \cup ({proc[p].tool} \cap Tools) ELSE stale
  /\ Refuses(p) /\ UNCHANGED <<present, rows, trail>>

(***************************************************************************)
(* The specification.                                                      *)
(***************************************************************************)

ToolboxInit ==
  /\ present \in SUBSET Tools /\ rows = [name \in Tools |-> NONE]
  /\ trail = <<>> /\ stale = {}

SearchStep(t) ==
  \/ \E filter \in {"installed", "missing", "broken", NONE}, name \in Tools :
       ToolsList(t, Tool(name).category, filter)
  \/ ToolsCapabilities(t) \/ ToolsUpdate(t) \/ ToolsHealth(t)
  \/ \E name \in Tools \cup {NONE} :
       ToolsSearch(t, name) \/ ToolsInfo(t, name) \/ ToolsRemove(t, name)
  \/ \E name \in Tools, flag, configured \in DOMAIN Depths \cup {NONE} :
       ToolsExplain(t, name, flag, configured) \/ ToolsDocs(t, name, flag, configured)

WriteBack(p) == Persisted(p) \/ HealthPersisted(p) \/ HealthAnswered(p)

ToolInstallStep(p) ==
  \/ \E apt \in BOOLEAN : InstallStarts(p, apt)
  \/ PackageInstalled(p) \/ AptRaised(p) \/ InstallRefresh(p)
  \/ \E outcome \in {"success", "failed"} : AptEnds(p, outcome)

ModuleStep(t) ==
  \/ ModuleList(t)
  \/ \E m \in DOMAIN Domains \cup {NONE}, posture \in Postures :
       ModuleInfo(t, m) \/ ModuleCheck(t, m, posture)

ToolboxNext ==
  \/ \E p \in Procs :
       SearchStep(p) \/ WriteBack(p) \/ ToolInstallStep(p) \/ ModuleStep(p) \/ ToolboxKilled(p)
  \/ \E p \in Procs, name, other \in Tools, admin, dry, yes \in BOOLEAN :
       ToolsInstall(p, Tool(name).capability, Tool(other).package, admin, dry, yes)
  \/ \E name \in Tools : PathChanges(name)

ToolboxSpec == DeskInit /\ ConsoleInit /\ ToolboxInit /\ [][ToolboxNext]_toolboxVars

ToolboxTypeOK ==
  /\ present \subseteq Tools /\ stale \subseteq Tools
  /\ \A k \in DOMAIN trail : trail[k].outcome \in {"started", "success", "failed", "checked"}

\* The last audit entry about a tool is that its installation succeeded.
Succeeded(name) ==
  \E k \in DOMAIN trail :
    /\ trail[k].tool = name /\ trail[k].outcome = "success"
    /\ \A j \in DOMAIN trail : j > k => trail[j].tool # name

\* A tool whose installation is on record as a success, and that is on the path, is
\* ready in the registry, or has no row there, once its command is over: only a
\* kill, a time-out, a change of the path by hand, or a search of another command
\* that began before leaves the row of before (ToolInstallManager.install, _persist).
InstalledIsReady ==
  \A name \in present : Succeeded(name) /\ rows[name] # NONE =>
    \/ rows[name].ready \/ name \in stale
    \/ \E p \in Procs : "tool" \in DOMAIN proc[p] /\ proc[p].tool = name
=================================================================================
