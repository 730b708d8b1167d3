------------------------------ MODULE MCSecurity ------------------------------
(***************************************************************************)
(* A small instance of Reporting, and so of ThreatIntel, Casework and      *)
(* SocPipeline, which it extends.  The topic of a behaviour, fixed in the  *)
(* initial state, is the family of steps it takes; the state spaces of the *)
(* topics add up instead of multiplying.                                   *)
(***************************************************************************)
EXTENDS Reporting, TLC

CONSTANTS feeder, ta, tb, l1, l2, l3, scan, flood, ip1, pat,
          g1, v1, v2, apt, op1, t1, shop, lab, b1, b2

VARIABLE topic

MCProcs == {feeder, ta, tb}
MCLines == {l1, l2, l3}

Line(form, id, digest, type, guess, sev, level, ip, text) ==
  [form |-> form, id |-> id, digest |-> digest, type |-> type, guess |-> guess,
   sev |-> sev, level |-> level, ip |-> ip, text |-> text]

\* A syslog line, an audit record with no type, and a JSON record above the gate.
MCContent ==
  (l1 :> Line("syslog", NONE, l1, NONE, scan, NONE, 1, NONE, ip1))
  @@ (l2 :> Line("audit", NONE, l2, NONE, scan, NONE, 2, NONE, ip1))
  @@ (l3 :> Line("json", l3, l1, NONE, scan, 3, NONE, ip1, NONE))

MCFlags == {[type |-> scan], <<>>}

MCRuleNames == {scan, flood}
MCRuleDef ==
  (scan :> [type |-> scan, op |-> "contains", value |-> pat, sev |-> 2, boost |-> 4,
            opens |-> TRUE, count |-> NONE])
  @@ (flood :> [type |-> NONE, op |-> "eq", value |-> ip1, sev |-> 3, boost |-> 0,
                opens |-> FALSE, count |-> 2])
MCNameRank == (scan :> 2) @@ (flood :> 1)
MCFoundIn == pat :> {ip1}
MCAsset == ip1 :> 8
MCIoc == ip1 :> 0

MCEngagements == {g1, NONE}
MCRiskInputs == {[severity |-> 5, criticality |-> 4, exploitability |-> 3, exposure |-> 3,
                  impact |-> 4, confidence |-> 3, evidence |-> 0]}
MCTimes == {[wall |-> 1, zone |-> 0], [wall |-> 2, zone |-> 2]}
MCBlocks == {b1, b2}

MCValues == {v1, v2}
MCCanonical == v1 :> v1 @@ v2 :> v1
MCExtracts == {[entities |-> {Candidate("IP", v1, "high")},
                text |-> {Candidate("IP", v1, "low"), Candidate("URL", v1, "medium")}]}
MCAuthorized == {<<shop, g1>>, <<lab, NONE>>}
MCServer ==
  (shop :> [scheme |-> NONE, port |-> NONE, weak |-> TRUE, answers |-> TRUE, hardened |-> TRUE,
            banner |-> "dev", private |-> FALSE])
  @@ (lab :> [scheme |-> NONE, port |-> 80, weak |-> TRUE, answers |-> TRUE, hardened |-> FALSE,
              banner |-> NONE, private |-> TRUE])
MCHosts == {[accounts |-> {[uid |-> 0, shell |-> TRUE]},
             sockets |-> {[owned |-> FALSE, reach |-> "loopback"]}]}
MCExploits == {{[edb |-> "edb1", verified |-> TRUE], [edb |-> "edb2", verified |-> FALSE]}}

mcVars == <<reportVars, topic>>

socTopics == {"feed", "burst", "alerts", "cases"}
caseworkTopics == {"findings", "evidence", "forensics", "exercises"}
intelTopics == {"iocs", "library", "assets", "analyses"}
outwardTopics == {"reports", "exports"}

Alert == [event |-> 1, rule |-> NONE, sev |-> 3, status |-> "open", case |-> 0,
          acknowledged |-> FALSE, resolved |-> FALSE]

Stocked == topic \in caseworkTopics \cup outwardTopics \cup {"alerts", "cases"}

\* The tables each topic starts from: states the program reaches.
MCInit ==
  /\ topic \in socTopics \cup caseworkTopics \cup intelTopics \cup outwardTopics
  /\ file = <<>> /\ offset = 0 /\ missed = {}
  /\ pending = IF topic = "feed" THEN <<l3, l1>> ELSE IF topic = "burst" THEN <<l1, l2>> ELSE <<>>
  /\ events = IF Stocked THEN <<[Normalize(ParseJson([MCContent[l3] EXCEPT !.type = scan]))
                                   EXCEPT !.fresh = FALSE]>> ELSE <<>>
  /\ alerts = IF Stocked THEN <<Alert>> ELSE <<>>
  /\ cases = IF Stocked THEN <<[NewCase(0) EXCEPT !.log = <<"open">>]>> ELSE <<>>
  /\ rules \in IF topic = "burst" THEN {[r \in RuleNames |-> "on"]}
               ELSE IF topic \in intelTopics \cup outwardTopics THEN {[r \in RuleNames |-> "none"]}
               ELSE [RuleNames -> {"none", "on"}]
  /\ Stocked => \A r \in RuleNames : rules[r] = "none"
  /\ proc = [p \in Procs |-> resting]
  /\ quiet = [p \in Procs |-> TRUE]
  /\ work = [p \in Procs |-> IF p = tb THEN 1 ELSE MaxWork]
  /\ excused = {}
  /\ burst = [r \in RuleNames |-> [fired |-> 0, clean |-> TRUE]]
  /\ findings = IF topic \in {"findings", "exercises"} THEN <<Finding("cli", g1, NONE)>>
                ELSE IF topic \in outwardTopics
                THEN <<Finding("cli", g1, Medium), Finding("cli", NONE, High)>> ELSE <<>>
  /\ remediations = IF topic \in {"findings", "exports"}
                       THEN <<[finding |-> 1, status |-> "open"]>> ELSE <<>>
  /\ verifications = <<>>
  /\ evidence = IF topic = "exports" THEN <<[engagement |-> g1, altered |-> FALSE]>> ELSE <<>>
  /\ custody = IF topic = "exports" THEN <<[evidence |-> 1, state |-> "captured"]>> ELSE <<>>
  /\ cut = {}
  /\ artifacts = IF topic = "forensics"
                 THEN <<[case |-> 1, evidence |-> 0, time |-> [wall |-> 1, zone |-> 0],
                         details |-> {}]>> ELSE <<>>
  /\ timeline = <<>>
  /\ exercises = IF topic = "exercises" THEN <<Exercise(NONE)>> ELSE <<>>
  /\ shown = [t \in Procs |-> <<>>]
  /\ IntelInit /\ ReportingInit

Faults(p) == Raised(p) \/ Killed(p)

SocTopics ==
  \/ topic = "feed" /\ (FileStep \/ FeederStep \/ Pipeline(feeder) \/ Faults(feeder))
  \/ topic = "burst" /\ \/ WindowSlides
                        \/ \E p \in {ta, tb} : Pipeline(p) \/ Faults(p)
                        \/ \E l \in Lines, flags \in Flags :
                             SocIngest(ta, l, flags) \/ SocIngest(tb, l, flags)
                        \/ RuleStep(tb)
  \/ topic = "alerts" /\ \E t \in Terminals : AlertStep(t) \/ Faults(t)
  \/ topic = "cases" /\ \E t \in Terminals : CaseStep(t) \/ Faults(t)

CaseworkTopics ==
  \/ topic = "findings" /\ \E t \in Terminals : FindingStep(t)
  \/ topic = "evidence" /\ \/ \E e \in DOMAIN evidence : Alter(e)
                           \/ \E t \in Terminals : EvidenceStep(t)
  \/ topic = "forensics" /\ \E t \in Terminals : ForensicStep(t)
  \/ topic = "exercises" /\ \E t \in Terminals : ExerciseStep(t)
  \/ topic \in caseworkTopics /\ \E t \in Terminals : Interrupted(t)

IntelTopics ==
  \/ topic = "iocs" /\ \E t \in Terminals : IocStep(t)
  \/ topic = "library" /\ \E t \in {ta} : LibraryStep(t) \/ IocStep(t)
  \/ topic = "assets" /\ \E t \in Terminals : AssetStep(t)
  \/ topic = "analyses" /\ \E t \in Terminals :
       \/ AnalysisStep(t) \/ (RecordCapture(t) /\ UNCHANGED intelRecords)
       \/ CountExisting(t) \/ FindIoc(t) \/ RefreshIoc(t) \/ InsertIoc(t) \/ Registered(t)

\* A report or an export at one terminal, and one command at the other that
\* changes the tables it reads.
OutwardTopics ==
  \/ topic = "reports" /\ ReportStep(ta)
  \/ topic = "exports" /\ ExportStep(ta)
  \/ /\ topic = "reports"
     /\ FindingCreate(tb, g1, NONE) \/ EvidenceAdd(tb, g1) \/ RecordCapture(tb)
     /\ UNCHANGED <<intelRecords, reports>>
  \/ /\ topic = "exports"
     /\ \/ EvidenceAdd(tb, NONE) \/ EvidenceVerify(tb, 1) \/ RecordCapture(tb)
        \/ RecordVerified(tb) \/ FindingVerify(tb, 1, "verified") \/ UpdateRemediation(tb)
        \/ VerifyFinding(tb)
     /\ UNCHANGED <<intelRecords, reports>>
  \/ /\ topic \in outwardTopics
     /\ CaseClose(tb, 1) \/ RecordEvent(tb) \/ (proc[tb].at = "log" /\ Killed(tb))
     /\ UNCHANGED <<caseworkRecords, intelRecords, reports>>
  \/ /\ topic \in outwardTopics
     /\ \E t \in Terminals : Interrupted(t)
     /\ UNCHANGED <<intelRecords, reports>>

MCNext ==
  /\ \/ SocTopics /\ UNCHANGED <<caseworkRecords, intelRecords, reports>>
     \/ CaseworkTopics /\ UNCHANGED <<intelRecords, reports>>
     \/ IntelTopics /\ UNCHANGED reports
     \/ OutwardTopics
  /\ UNCHANGED topic

MCSpec == MCInit /\ [][MCNext]_mcVars
=============================================================================
