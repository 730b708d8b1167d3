------------------------------ MODULE ThreatIntel ------------------------------
(***************************************************************************)
(* Indicators of compromise, the assets they are found on, and the         *)
(* analyses that write indicators, evidence and findings: extraction,      *)
(* malware analysis, vulnerability checks, exploit lookup and endpoint     *)
(* checks (threat_intel, assets, correlation, malware, vuln, endpoint and  *)
(* their commands).  Everything here looks a row up in one statement and   *)
(* writes it in another.                                                   *)
(***************************************************************************)
EXTENDS Casework

CONSTANTS Values, Canonical,  \* observed values, and what they normalise to
          Extracts,           \* what an extraction finds, in entities and in text
          Actors, Campaigns, Ttps,
          Authorized,         \* <<target, engagement>> the policy engine allows
          Server,             \* Server[target]: what answers there
          Hosts,              \* endpoints: their accounts and listening sockets
          Exploits            \* what searchsploit prints for a query

VARIABLES iocs,       \* in row order
          actors,     \* names, unique
          campaigns,  \* each with its actor
          ttps,       \* technique identifiers, unique
          links,      \* techniques of campaigns
          assets,     \* in row order
          twins       \* ghost: rows written for what an overlapping command wrote too

intelRecords == <<iocs, actors, campaigns, ttps, links, assets, twins>>
intelVars == <<intelRecords, caseworkVars>>

library == <<actors, campaigns, ttps, links>>

(***************************************************************************)
(* Registering indicators.                                                 *)
(***************************************************************************)

Ranks == {"low", "medium", "high"}

ASSUME ExtractsAssumption ==
  \A x \in Extracts : /\ IsFiniteSet(x.entities) /\ IsFiniteSet(x.text)
                      /\ \A c \in x.entities \cup x.text : c.confidence \in Ranks

Above(c, d) == c # d /\ (c = "high" \/ d = "low")

Candidate(type, value, confidence) ==
  [type |-> type, norm |-> Canonical[value], confidence |-> confidence]

\* One candidate for a type and value, the one of highest confidence.
Dedupe(found) ==
  SetToSeq({c \in found :
    ~ \E d \in found : d.type = c.type /\ d.norm = c.norm /\ Above(d.confidence, c.confidence)})

\* Entities come first; a value of the text may be one of theirs again.
Extracted(x) == Dedupe(x.entities) \o Dedupe(x.text)

Known(c) == {n \in DOMAIN iocs : iocs[n].type = c.type /\ iocs[n].norm = c.norm}

\* Registering the candidates of todo, one after the other.
Registering(todo, origin, links_, next) ==
  [at |-> "existed", todo |-> todo, origin |-> origin, actor |-> links_.actor,
   campaign |-> links_.campaign, fresh |-> 0, known |-> 0, rows |-> 0, next |-> next]

noLinks == [actor |-> NONE, campaign |-> NONE]

IocAdd(t, c, actor, campaign) ==
  /\ actor \in actors \cup {NONE}
  /\ campaign \in {NONE} \cup {campaigns[k].name : k \in DOMAIN campaigns}
  /\ Starts(t, Registering(<<c>>, "cli", [actor |-> actor, campaign |-> campaign], resting))
  /\ UNCHANGED <<intelRecords, caseworkRecords, socRecords>>

\* extract --job, --evidence or --text: the candidates of what was stored.
IocExtract(t, x) ==
  /\ Starts(t, Registering(Extracted(x), "extract", noLinks, resting))
  /\ UNCHANGED <<intelRecords, caseworkRecords, socRecords>>

\* What is counted as new and as known is looked up before register_ioc does.
CountExisting(p) ==
  /\ proc[p].at = "existed" /\ proc[p].todo # <<>>
  /\ Goes(p, IF Known(Head(proc[p].todo)) = {}
             THEN [proc[p] EXCEPT !.at = "find", !.fresh = @ + 1]
             ELSE [proc[p] EXCEPT !.at = "find", !.known = @ + 1])
  /\ UNCHANGED <<intelRecords, caseworkRecords, socRecords, quiet>>

FindIoc(p) ==
  /\ proc[p].at = "find"
  /\ Goes(p, [proc[p] EXCEPT
       !.at = IF Known(Head(proc[p].todo)) = {} THEN "register" ELSE "refresh"])
  /\ UNCHANGED <<intelRecords, caseworkRecords, socRecords, quiet>>

\* The next candidate, or what the command does after the last one.
Rest(p) == [proc[p] EXCEPT !.at = "existed", !.todo = Tail(@)]

\* A known indicator gets the new source and links; its confidence stays.
Refreshed(row, s) ==
  [row EXCEPT !.source = s.origin,
              !.actor = IF s.actor = NONE THEN @ ELSE s.actor,
              !.campaign = IF s.campaign = NONE THEN @ ELSE s.campaign]

RefreshIoc(p) ==
  /\ proc[p].at = "refresh"
  /\ LET n == CHOOSE n \in Known(Head(proc[p].todo)) : TRUE
     IN iocs' = [iocs EXCEPT ![n] = Refreshed(@, proc[p])]
  /\ Goes(p, Rest(p)) /\ Updates(p)
  /\ UNCHANGED <<library, assets, twins, caseworkRecords, socRecords>>

\* The INSERT raises when somebody has registered the indicator since; nothing
\* that follows in the command is done.
InsertIoc(p) ==
  /\ proc[p].at = "register" /\ Room(iocs)
  /\ LET c == Head(proc[p].todo) IN
     IF Known(c) # {} THEN Goes(p, resting) /\ UNCHANGED <<iocs, quiet>>
     ELSE /\ iocs' = Append(iocs, [type |-> c.type, norm |-> c.norm, confidence |-> c.confidence,
                                   source |-> proc[p].origin, actor |-> proc[p].actor,
                                   campaign |-> proc[p].campaign])
          /\ Goes(p, [Rest(p) EXCEPT !.rows = @ + 1]) /\ Updates(p)
  /\ UNCHANGED <<library, assets, twins, caseworkRecords, socRecords>>

\* The report of an extraction: how many were new and how many known.
Registered(p) ==
  /\ proc[p].at = "existed" /\ proc[p].todo = <<>>
  /\ shown' = IF proc[p].origin # "extract" THEN shown
              ELSE [shown EXCEPT ![p] = <<[kind |-> "extracted", fresh |-> proc[p].fresh,
                      known |-> proc[p].known, rows |-> proc[p].rows, alone |-> quiet[p]]>>]
  /\ Goes(p, proc[p].next)
  /\ UNCHANGED <<intelRecords, findingTables, evidenceTables, forensicTables, exercises,
                 socRecords, quiet>>

(***************************************************************************)
(* The library, and what is read from it.                                  *)
(***************************************************************************)

ActorAdd(t, name) ==
  /\ actors' = actors \cup {name}
  /\ Commands(t)
  /\ UNCHANGED <<iocs, campaigns, ttps, links, assets, twins, caseworkRecords, socRecords>>

\* The actor of a campaign is looked up by name first.
CampaignAdd(t, name, actor) ==
  /\ actor \in actors \cup {NONE}
  /\ \A k \in DOMAIN campaigns : campaigns[k].name # name
  /\ campaigns' = Append(campaigns, [name |-> name, actor |-> actor])
  /\ Commands(t)
  /\ UNCHANGED <<iocs, actors, ttps, links, assets, twins, caseworkRecords, socRecords>>

TtpAdd(t, technique) ==
  /\ ttps' = ttps \cup {technique}
  /\ Commands(t)
  /\ UNCHANGED <<iocs, actors, campaigns, links, assets, twins, caseworkRecords, socRecords>>

\* A link that exists is ignored; one to a row that does not raises.
LinkTtp(t, k, technique) ==
  /\ k \in DOMAIN campaigns /\ technique \in ttps
  /\ links' = links \cup {<<campaigns[k].name, technique>>}
  /\ Commands(t)
  /\ UNCHANGED <<iocs, actors, campaigns, ttps, assets, twins, caseworkRecords, socRecords>>

Shows(t, screen) ==
  /\ shown' = [shown EXCEPT ![t] = <<screen>>]
  /\ Commands(t)
  /\ UNCHANGED <<intelRecords, findingTables, evidenceTables, forensicTables, exercises,
                 socRecords>>

Correlated(value) == {n \in DOMAIN iocs : iocs[n].norm = Canonical[value]}

IocCorrelate(t, value) == Shows(t, [kind |-> "matches", iocs |-> Correlated(value)])

IocEnrich(t, n) ==
  /\ n \in DOMAIN iocs
  /\ Shows(t, [kind |-> "enriched", actor |-> iocs[n].actor, campaign |-> iocs[n].campaign,
               ttps |-> {l[2] : l \in {l \in links : l[1] = iocs[n].campaign}}])

(***************************************************************************)
(* Assets.                                                                 *)
(***************************************************************************)

AssetRows(target, engagement) ==
  {n \in DOMAIN assets : assets[n] = [target |-> target, engagement |-> engagement]}

\* The hosts and names of a tool's result, in one engagement or none.
IngestEntities(t, targets, engagement) ==
  /\ Starts(t, [at |-> "assets", todo |-> targets, engagement |-> engagement])
  /\ UNCHANGED <<intelRecords, caseworkRecords, socRecords>>

\* Nothing is left to register.
AssetDone(p) ==
  /\ proc[p].at = "assets" /\ proc[p].todo = <<>>
  /\ Goes(p, resting)
  /\ UNCHANGED <<intelRecords, caseworkRecords, socRecords, quiet>>

\* FindAsset with `=` for the engagement, which no row without one satisfies.
FindAssetEqual(p) ==
  /\ proc[p].at = "assets" /\ proc[p].todo # <<>>
  /\ Goes(p, IF proc[p].engagement = NONE
                \/ AssetRows(Head(proc[p].todo), proc[p].engagement) = {}
             THEN [proc[p] EXCEPT !.at = "asset"]
             ELSE [proc[p] EXCEPT !.todo = Tail(@)])
  /\ UNCHANGED <<intelRecords, caseworkRecords, socRecords, quiet>>

FindAsset(p) ==
  /\ proc[p].at = "assets" /\ proc[p].todo # <<>>
  /\ Goes(p, IF AssetRows(Head(proc[p].todo), proc[p].engagement) = {}
             THEN [proc[p] EXCEPT !.at = "asset"]
             ELSE [proc[p] EXCEPT !.todo = Tail(@)])
  /\ UNCHANGED <<intelRecords, caseworkRecords, socRecords, quiet>>

\* A second row of an engagement is refused, and raises; one of no engagement is
\* not: NULLs are distinct.
RegisterAsset(p) ==
  LET target == Head(proc[p].todo)
      there == AssetRows(target, proc[p].engagement) IN
  /\ proc[p].at = "asset" /\ Room(assets)
  /\ IF there # {} /\ proc[p].engagement # NONE
     THEN Goes(p, resting) /\ UNCHANGED <<assets, twins, quiet>>
     ELSE /\ assets' = Append(assets, [target |-> target, engagement |-> proc[p].engagement])
          /\ twins' = IF quiet[p] THEN twins ELSE twins \cup {<<target, proc[p].engagement>>}
          /\ Goes(p, [proc[p] EXCEPT !.at = "assets", !.todo = Tail(@)]) /\ Updates(p)
  /\ UNCHANGED <<library, iocs, caseworkRecords, socRecords>>

(***************************************************************************)
(* Analyses that write findings.                                           *)
(***************************************************************************)

\* A bare target is taken for HTTPS, and so is one with an HTTPS port.
TargetRef(target) ==
  [target |-> target,
   scheme |-> IF Server[target].scheme # NONE THEN Server[target].scheme
              ELSE IF Server[target].port \in {NONE, 443, 8443} THEN "https" ELSE "http"]

CheckTlsVersion(ref) ==
  IF ref.scheme = "https" /\ Server[ref.target].weak THEN {<<"tls-weak-version", High>>} ELSE {}

\* Nothing is said of a port that does not answer.
CheckHttpHeaders(ref) ==
  LET s == Server[ref.target] IN
  IF ~ s.answers THEN {}
  ELSE (IF s.hardened THEN {} ELSE {<<"http-security-headers", Medium>>})
       \cup (IF s.banner = NONE THEN {} ELSE {<<"http-server-disclosure", Low>>})
       \cup (IF s.banner = "dev" THEN {<<"dev-server-exposed", Medium>>} ELSE {})

CheckNames ==
  {"tls-weak-version", "http-security-headers", "http-server-disclosure", "dev-server-exposed"}

RunChecks(ref) == CheckTlsVersion(ref) \cup CheckHttpHeaders(ref)

\* The risk of an outcome, on a target that is private or not.
OutcomeRisk(outcome, target) ==
  CalculateRisk([severity |-> outcome[2] + 1, criticality |-> 1,
                 exploitability |-> IF outcome[2] >= High THEN 1 ELSE 0,
                 exposure |-> IF Server[target].private THEN 1 ELSE 3,
                 impact |-> IF outcome[2] >= High THEN 2 ELSE 1, confidence |-> 4, evidence |-> 2])

VulnCheck(t, target, engagement) ==
  /\ <<target, engagement>> \in Authorized
  /\ Starts(t, [at |-> "check", todo |-> SetToSeq(RunChecks(TargetRef(target))),
                target |-> target, engagement |-> engagement])
  /\ UNCHANGED <<intelRecords, caseworkRecords, socRecords>>

Duplicates(check, engagement) ==
  {f \in DOMAIN findings : findings[f].source = check /\ findings[f].engagement = engagement}

VulnDone(t) ==
  /\ proc[t].at = "check" /\ proc[t].todo = <<>>
  /\ Goes(t, resting)
  /\ UNCHANGED <<intelRecords, caseworkRecords, socRecords, quiet>>

\* A title the engagement has is skipped; with no engagement no row compares equal.
FindDuplicate(t) ==
  /\ proc[t].at = "check" /\ proc[t].todo # <<>>
  /\ Goes(t, IF /\ proc[t].engagement # NONE
                /\ Duplicates(Head(proc[t].todo)[1], proc[t].engagement) # {}
             THEN [proc[t] EXCEPT !.todo = Tail(@)] ELSE [proc[t] EXCEPT !.at = "found"])
  /\ UNCHANGED <<intelRecords, caseworkRecords, socRecords, quiet>>

RecordOutcome(t) ==
  /\ proc[t].at = "found" /\ Room(findings)
  /\ LET outcome == Head(proc[t].todo) IN
     /\ findings' = Append(findings, Finding(outcome[1], proc[t].engagement,
                                             OutcomeRisk(outcome, proc[t].target)))
     /\ twins' = IF quiet[t] THEN twins ELSE twins \cup {<<outcome[1], proc[t].engagement>>}
  /\ Goes(t, [proc[t] EXCEPT !.at = "check", !.todo = Tail(@)]) /\ Updates(t)
  /\ UNCHANGED <<iocs, library, assets, remediations, verifications, evidenceTables,
                 forensicTables, exercises, shown, socRecords>>

\* Findings written one by one, with no look at those there are.
Reporting(todo, engagement) ==
  IF todo = <<>> THEN resting ELSE [at |-> "report", todo |-> todo, engagement |-> engagement]

ReportFinding(t) ==
  /\ proc[t].at = "report" /\ Room(findings)
  /\ findings' = Append(findings, Finding(Head(proc[t].todo), proc[t].engagement, NONE))
  /\ Goes(t, Reporting(Tail(proc[t].todo), proc[t].engagement))
  /\ UNCHANGED <<intelRecords, remediations, verifications, evidenceTables, forensicTables,
                 exercises, shown, socRecords, quiet>>

Observations(host) ==
  (IF \E u \in host.accounts : u.uid = 0 /\ u.shell THEN {"root_equivalent_accounts"} ELSE {})
  \cup (IF \E s \in host.sockets : ~ s.owned THEN {"listening_socket_without_process"} ELSE {})
  \cup (IF \E s \in host.sockets : s.reach = "exposed" THEN {"exposed_listening"} ELSE {})

EndpointCheck(t, host) ==
  /\ Starts(t, Reporting(SetToSeq(Observations(host)), NONE))
  /\ UNCHANGED <<intelRecords, caseworkRecords, socRecords>>

\* An entry of the exploit database is no check.
ASSUME ExploitsAssumption ==
  \A matches \in Exploits :
    IsFiniteSet(matches) /\ \A m \in matches : m.edb \notin CheckNames

\* exploit map: a finding for each verified match.
ExploitMap(t, matches, engagement) ==
  /\ Starts(t, Reporting(SetToSeq({m.edb : m \in {m \in matches : m.verified}}), engagement))
  /\ UNCHANGED <<intelRecords, caseworkRecords, socRecords>>

\* A sample becomes evidence first, then its three hashes indicators, then, if
\* asked for, a finding.
MalwareAnalyze(t, digests, finding) ==
  /\ AddEvidence(t, NONE,
       Registering(digests, "malware", noLinks,
                   Reporting(IF finding THEN <<"ksec.malware">> ELSE <<>>, NONE)))
  /\ UNCHANGED <<intelRecords, findingTables, custody, cut, forensicTables, exercises, shown,
                 socRecords>>

(***************************************************************************)
(* The specification.                                                      *)
(***************************************************************************)

IntelInit ==
  /\ iocs = <<>> /\ actors = {} /\ campaigns = <<>> /\ ttps = {} /\ links = {}
  /\ assets = <<>> /\ twins = {}

Candidates == {Candidate("IP", v, c) : v \in Values, c \in Ranks}

IocStep(t) ==
  \/ \E c \in Candidates, actor \in Actors \cup {NONE}, campaign \in Campaigns \cup {NONE} :
       IocAdd(t, c, actor, campaign)
  \/ \E x \in Extracts : IocExtract(t, x)
  \/ CountExisting(t) \/ FindIoc(t) \/ RefreshIoc(t) \/ InsertIoc(t) \/ Registered(t)

LibraryStep(t) ==
  \/ \E name \in Actors : ActorAdd(t, name)
  \/ \E name \in Campaigns, actor \in Actors \cup {NONE} : CampaignAdd(t, name, actor)
  \/ \E technique \in Ttps :
       TtpAdd(t, technique) \/ \E k \in DOMAIN campaigns : LinkTtp(t, k, technique)
  \/ \E value \in Values : IocCorrelate(t, value)
  \/ \E n \in DOMAIN iocs : IocEnrich(t, n)

AssetStep(t) ==
  \/ \E targets \in {<<v>> : v \in Values} \cup {<<v, w>> : v \in Values, w \in Values},
        g \in Engagements : IngestEntities(t, targets, g)
  \/ FindAsset(t) \/ RegisterAsset(t) \/ AssetDone(t)

AnalysisStep(t) ==
  \/ \E target \in DOMAIN Server, g \in Engagements : VulnCheck(t, target, g)
  \/ FindDuplicate(t) \/ RecordOutcome(t) \/ VulnDone(t) \/ ReportFinding(t)
  \/ \E host \in Hosts : EndpointCheck(t, host)
  \/ \E matches \in Exploits, g \in Engagements : ExploitMap(t, matches, g)
  \/ \E v \in Values, finding \in BOOLEAN :
       MalwareAnalyze(t, <<Candidate("HASH", v, "high")>>, finding)

IntelNext ==
  \/ CaseworkNext /\ UNCHANGED intelRecords
  \/ \E t \in Terminals : IocStep(t) \/ LibraryStep(t) \/ AssetStep(t) \/ AnalysisStep(t)

IntelSpec == SocInit /\ CaseworkInit /\ IntelInit /\ [][IntelNext]_intelVars

(***************************************************************************)
(* Properties.                                                             *)
(***************************************************************************)

IntelTypeOK ==
  /\ \A n \in DOMAIN iocs : /\ iocs[n].confidence \in Ranks
                           /\ iocs[n].actor \in actors \cup {NONE}
                           /\ \A m \in DOMAIN iocs : Known(iocs[m]) = {m}
  /\ \A k \in DOMAIN campaigns : campaigns[k].actor \in actors \cup {NONE}
  /\ \A n \in DOMAIN assets : assets[n].engagement \in Engagements

\* An asset of one engagement, or of none, is registered once, and a check of an
\* engagement reports what it finds once; a second row takes two commands that
\* overlapped.  The report of an extraction that ran alone counts as new the
\* rows it has inserted, however often the text repeats the entities.
TwinsNeedOverlap ==
  /\ \A n \in DOMAIN assets :
       <<assets[n].target, assets[n].engagement>> \notin twins =>
         AssetRows(assets[n].target, assets[n].engagement) = {n}
  /\ \A f \in DOMAIN findings :
       LET key == <<findings[f].source, findings[f].engagement>> IN
       findings[f].source \in CheckNames /\ key[2] # NONE /\ key \notin twins
         => Duplicates(key[1], key[2]) = {f}
  /\ \A t \in Terminals : \A k \in DOMAIN shown[t] :
       shown[t][k].kind = "extracted" /\ shown[t][k].alone => shown[t][k].fresh = shown[t][k].rows
=================================================================================
