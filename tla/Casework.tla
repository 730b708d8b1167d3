-------------------------------- MODULE Casework --------------------------------
(***************************************************************************)
(* Findings and their remediation, evidence and its custody, forensic      *)
(* artifacts and timelines, and purple-team exercises (findings, risk,     *)
(* evidence, dfir, purple, and their commands), beside the alerts and the  *)
(* cases of SocPipeline, which they count and refer to.                    *)
(***************************************************************************)
EXTENDS SocPipeline, SequencesExt

CONSTANTS Engagements,  \* engagements a record may belong to, NONE among them
          RiskInputs,   \* factors `finding create --risk` is given
          Times,        \* event times: the wall clock written and its zone
          Blocks,       \* hash blocks of collected files
          MaxRows       \* bound on the rows of a table

ASSUME EngagementsAssumption == NONE \in Engagements
ASSUME TimesAssumption == \A at \in Times : at.wall \in Nat

VARIABLES findings,       \* in row order
          remediations,   \* each of one finding
          verifications,  \* each of one remediation
          evidence, custody,
          artifacts, timeline,
          exercises,      \* a deleted one keeps its number, with status "gone"
          cut,            \* ghost: evidence whose capture was killed or overtaken
          shown           \* what a terminal has last put on its screen

caseworkRecords == <<findings, remediations, verifications, evidence, custody,
                     artifacts, timeline, exercises, cut, shown>>
caseworkVars == <<caseworkRecords, socVars>>

findingTables == <<findings, remediations, verifications>>
evidenceTables == <<evidence, custody, cut>>
forensicTables == <<artifacts, timeline>>

Room(table) == Len(table) < MaxRows

\* The members of S in an order, a set of pairs: the rows of a query, by ORDER BY.
Ordered(S, order) ==
  CHOOSE list \in [1..Cardinality(S) -> S] :
    /\ \A x \in S : \E k \in DOMAIN list : list[k] = x
    /\ \A j, k \in DOMAIN list : j < k => <<list[j], list[k]>> \in order

\* Row numbers, the oldest row first.
Listed(S) == Ordered(S, {pair \in S \X S : pair[1] <= pair[2]})

(***************************************************************************)
(* Risk: a weighted sum in 240ths of a point, rounded to hundredths before *)
(* the level is read off.                                                  *)
(***************************************************************************)

RiskLevel(hundredths) ==
  CASE hundredths >= 900 -> Critical [] hundredths >= 700 -> High
    [] hundredths >= 400 -> Medium [] hundredths >= 200 -> Low [] OTHER -> Info

CalculateRisk(r) ==
  LET base == 9 * (r.severity - 1) + 6 * (r.criticality - 1) + 8 * r.exploitability
              + 9 * (r.exposure - 1) + 8 * (r.impact - 1)
      score == 5 * base * r.confidence + 96 * r.evidence
  IN RiskLevel(((IF score > 2400 THEN 2400 ELSE score) * 5 + 6) \div 12)

(***************************************************************************)
(* Findings.                                                               *)
(***************************************************************************)

FindingStatuses ==
  {"open", "confirmed", "false_positive", "accepted_risk", "remediated", "verified"}

Finding(source, engagement, level) ==
  [status |-> "open", source |-> source, engagement |-> engagement, level |-> level]

FindingCreate(t, engagement, risk) ==
  /\ Room(findings)
  /\ findings' = Append(findings, Finding("cli", engagement,
                          IF risk = NONE THEN NONE ELSE CalculateRisk(risk)))
  /\ Commands(t)
  /\ UNCHANGED <<remediations, verifications, evidenceTables, forensicTables, exercises,
                 shown, socRecords>>

\* Any status replaces any other.
SetFindingStatus(f, status) == findings' = [findings EXCEPT ![f].status = status]

FindingUpdate(t, f, status) ==
  /\ f \in DOMAIN findings
  /\ SetFindingStatus(f, status)
  /\ Commands(t)
  /\ UNCHANGED <<remediations, verifications, evidenceTables, forensicTables, exercises,
                 shown, socRecords>>

FindingRemediate(t, f) ==
  /\ f \in DOMAIN findings /\ Room(remediations)
  /\ remediations' = Append(remediations, [finding |-> f, status |-> "open"])
  /\ Commands(t)
  /\ UNCHANGED <<findings, verifications, evidenceTables, forensicTables, exercises,
                 shown, socRecords>>

\* FindingVerify whose record comes after the statuses.
FindingVerifyLate(t, r, result) ==
  /\ r \in DOMAIN remediations /\ Room(verifications)
  /\ remediations' = [remediations EXCEPT
       ![r].status = IF result = "verified" THEN "verified" ELSE @]
  /\ Starts(t, [at |-> "recorded", r |-> r, result |-> "inconclusive"])
  /\ UNCHANGED <<findings, verifications, evidenceTables, forensicTables, exercises, shown,
                 socRecords>>

\* The verification is recorded first, by itself ...
FindingVerify(t, r, result) ==
  /\ r \in DOMAIN remediations /\ Room(verifications)
  /\ verifications' = Append(verifications, [remediation |-> r, result |-> result])
  /\ Starts(t, [at |-> "recorded", r |-> r, result |-> result])
  /\ UNCHANGED <<findings, remediations, evidenceTables, forensicTables, exercises, shown,
                 socRecords>>

\* ... then a verdict moves the remediation, and an inconclusive one nothing ...
UpdateRemediation(t) ==
  /\ proc[t].at = "recorded"
  /\ LET r == proc[t].r IN
     CASE proc[t].result = "verified" ->
            /\ remediations' = [remediations EXCEPT ![r].status = "verified"]
            /\ Goes(t, [at |-> "verdict", f |-> remediations[r].finding])
       [] proc[t].result = "failed" ->
            /\ remediations' = [remediations EXCEPT ![r].status = "in_progress"]
            /\ Goes(t, resting)
       [] OTHER -> Goes(t, resting) /\ UNCHANGED remediations
  /\ UNCHANGED <<findings, verifications, evidenceTables, forensicTables, exercises, shown,
                 socRecords, quiet>>

\* ... and a good one the finding, last.
VerifyFinding(t) ==
  /\ proc[t].at = "verdict"
  /\ SetFindingStatus(proc[t].f, "verified")
  /\ Goes(t, resting)
  /\ UNCHANGED <<remediations, verifications, evidenceTables, forensicTables, exercises,
                 shown, socRecords, quiet>>

\* The list of remediations is read with their statuses, then the records of
\* each, one query at a time.
FindingRemediations(t, f) ==
  LET rows == Listed({r \in DOMAIN remediations : remediations[r].finding = f}) IN
  /\ f \in DOMAIN findings
  /\ Starts(t, [at |-> "records", todo |-> rows, done |-> <<>>,
                status |-> [r \in DOMAIN remediations |-> remediations[r].status]])
  /\ UNCHANGED <<findingTables, evidenceTables, forensicTables, exercises, shown, socRecords>>

ReadVerifications(t) ==
  /\ proc[t].at = "records"
  /\ IF proc[t].todo = <<>>
     THEN shown' = [shown EXCEPT ![t] = proc[t].done] /\ Goes(t, resting)
     ELSE LET r == Head(proc[t].todo)
              row == [kind |-> "remediation", status |-> proc[t].status[r],
                      records |-> {verifications[v].result : v \in
                        {v \in DOMAIN verifications : verifications[v].remediation = r}}]
          IN /\ Goes(t, [proc[t] EXCEPT !.todo = Tail(@), !.done = Append(@, row)])
             /\ UNCHANGED shown
  /\ UNCHANGED <<findingTables, evidenceTables, forensicTables, exercises, socRecords, quiet>>

(***************************************************************************)
(* Evidence.  The row comes first, the record of its capture after it.     *)
(***************************************************************************)

\* Evidence e whose capture process p has still to record.
Capturing(p) == IF proc[p].at = "capture" THEN proc[p].e ELSE 0

AddEvidence(t, engagement, next) ==
  /\ Room(evidence)
  /\ evidence' = Append(evidence, [engagement |-> engagement, altered |-> FALSE])
  /\ Starts(t, [at |-> "capture", e |-> Len(evidence) + 1, next |-> next])

RecordCapture(p) ==
  /\ proc[p].at = "capture"
  /\ custody' = Append(custody, [evidence |-> proc[p].e, state |-> "captured"])
  /\ Goes(p, proc[p].next)
  /\ UNCHANGED <<findingTables, evidence, cut, forensicTables, exercises, shown, socRecords,
                 quiet>>

EvidenceAdd(t, engagement) ==
  /\ AddEvidence(t, engagement, resting)
  /\ UNCHANGED <<findingTables, custody, cut, forensicTables, exercises, shown, socRecords>>

\* verify hashes the content it has read, and records what it found afterwards.
EvidenceVerify(t, e) ==
  /\ e \in DOMAIN evidence /\ Room(custody)
  /\ Starts(t, [at |-> "verified", e |-> e,
                state |-> IF evidence[e].altered THEN "integrity_failure" ELSE "verified"])
  /\ UNCHANGED <<findingTables, evidenceTables, forensicTables, exercises, shown, socRecords>>

RecordVerified(t) ==
  /\ proc[t].at = "verified"
  /\ custody' = Append(custody, [evidence |-> proc[t].e, state |-> proc[t].state])
  /\ cut' = cut \cup ({Capturing(p) : p \in Procs} \cap {proc[t].e})
  /\ Goes(t, resting)
  /\ UNCHANGED <<findingTables, evidence, forensicTables, exercises, shown, socRecords, quiet>>

CustodyLog(e) ==
  LET rows == Listed({k \in DOMAIN custody : custody[k].evidence = e})
  IN [k \in DOMAIN rows |-> custody[rows[k]]]

\* Somebody changes the stored content behind the program's back.
Alter(e) ==
  /\ e \in DOMAIN evidence /\ ~ evidence[e].altered
  /\ evidence' = [evidence EXCEPT ![e].altered = TRUE]
  /\ UNCHANGED <<findingTables, custody, cut, forensicTables, exercises, shown, socVars>>

(***************************************************************************)
(* Forensics.                                                              *)
(***************************************************************************)

ArtifactAdd(t, c, e, at) ==
  /\ c \in DOMAIN cases /\ e \in {0} \cup DOMAIN evidence /\ Room(artifacts)
  /\ artifacts' = Append(artifacts, [case |-> c, evidence |-> e, time |-> at, details |-> {}])
  /\ Commands(t)
  /\ UNCHANGED <<findingTables, evidenceTables, timeline, exercises, shown, socRecords>>

EventAdd(t, c, a, at) ==
  /\ c \in DOMAIN cases /\ a \in {0} \cup DOMAIN artifacts /\ Room(timeline)
  /\ timeline' = Append(timeline, [case |-> c, artifact |-> a, time |-> at])
  /\ Commands(t)
  /\ UNCHANGED <<findingTables, evidenceTables, artifacts, exercises, shown, socRecords>>

\* hash_artifact reads the details, hashes a file of any length ...
ArtifactHash(t, a, block) ==
  /\ a \in DOMAIN artifacts
  /\ Starts(t, [at |-> "hash", a |-> a, details |-> artifacts[a].details \cup {block}])
  /\ UNCHANGED <<findingTables, evidenceTables, forensicTables, exercises, shown, socRecords>>

\* RecordHash that writes its own block only.
RecordHashAlone(t) ==
  /\ proc[t].at = "hash"
  /\ artifacts' = [artifacts EXCEPT ![proc[t].a].details = proc[t].details \ @]
  /\ Goes(t, resting) /\ Updates(t)
  /\ UNCHANGED <<findingTables, evidenceTables, timeline, exercises, shown, socRecords>>

\* ... and writes back the details it has read, with its block at the end.
RecordHash(t) ==
  /\ proc[t].at = "hash"
  /\ artifacts' = [artifacts EXCEPT ![proc[t].a].details = proc[t].details]
  /\ Goes(t, resting) /\ Updates(t)
  /\ UNCHANGED <<findingTables, evidenceTables, timeline, exercises, shown, socRecords>>

\* The chronology reads the artifacts of the case, then its events, and names
\* the artifact of each event; it sorts by the text of the times, and has an
\* artifact before the events of the same time.
Chronology(rows) ==
  Ordered(rows, {pair \in rows \X rows :
    LET x == pair[1] y == pair[2] IN
    \/ x.time.wall < y.time.wall
    \/ x.time.wall = y.time.wall /\ (x.kind = "artifact" \/ y.kind = "event")})

DfirExport(t, c) ==
  LET rows == {[kind |-> "artifact", ref |-> a, name |-> a, time |-> artifacts[a].time] :
                 a \in {a \in DOMAIN artifacts : artifacts[a].case = c}} IN
  /\ c \in DOMAIN cases
  /\ Starts(t, [at |-> "export", case |-> c, rows |-> rows])
  /\ UNCHANGED <<findingTables, evidenceTables, forensicTables, exercises, shown, socRecords>>

ExportEvents(t) ==
  LET rows == {[kind |-> "event", ref |-> n, name |-> timeline[n].artifact,
                time |-> timeline[n].time] :
                 n \in {n \in DOMAIN timeline : timeline[n].case = proc[t].case}} IN
  /\ proc[t].at = "export"
  /\ shown' = [shown EXCEPT ![t] = Chronology(proc[t].rows \cup rows)]
  /\ Goes(t, resting)
  /\ UNCHANGED <<findingTables, evidenceTables, forensicTables, exercises, socRecords, quiet>>

(***************************************************************************)
(* Purple-team exercises.                                                  *)
(***************************************************************************)

Exercise(engagement) ==
  [status |-> "planned", engagement |-> engagement, red |-> 0, blue |-> 0, fired |-> 0]

ExerciseNew(t, engagement) ==
  /\ Room(exercises)
  /\ exercises' = Append(exercises, Exercise(engagement))
  /\ Commands(t)
  /\ UNCHANGED <<findingTables, evidenceTables, forensicTables, shown, socRecords>>

Startable == {"planned", "cancelled"}

\* start reads the status and writes the new one in a statement of its own.
ExerciseStart(t, x) ==
  /\ x \in DOMAIN exercises /\ exercises[x].status \in Startable
  /\ Starts(t, [at |-> "run", x |-> x])
  /\ UNCHANGED <<findingTables, evidenceTables, forensicTables, exercises, shown, socRecords>>

SetRunning(t) ==
  /\ proc[t].at = "run"
  /\ exercises' = [exercises EXCEPT
       ![proc[t].x].status = IF @ = "gone" THEN "gone" ELSE "running"]
  /\ Goes(t, resting) /\ Updates(t)
  /\ UNCHANGED <<findingTables, evidenceTables, forensicTables, shown, socRecords>>

\* complete counts the findings, the alerts and the alerts of a rule, one query
\* each, whatever the status unless it is completed already.  The two counts of
\* alerts are one step: no property tells them apart.
ExerciseComplete(t, x) ==
  /\ x \in DOMAIN exercises /\ exercises[x].status \notin {"completed", "gone"}
  /\ Starts(t, [at |-> "red", x |-> x, engagement |-> exercises[x].engagement])
  /\ UNCHANGED <<findingTables, evidenceTables, forensicTables, exercises, shown, socRecords>>

CountRed(t) ==
  /\ proc[t].at = "red"
  /\ Goes(t, [at |-> "blue", x |-> proc[t].x,
              red |-> Cardinality({f \in DOMAIN findings :
                proc[t].engagement \in {NONE, findings[f].engagement}})])
  /\ UNCHANGED <<findingTables, evidenceTables, forensicTables, exercises, shown, socRecords,
                 quiet>>

CountBlue(t) ==
  /\ proc[t].at = "blue"
  /\ Goes(t, [at |-> "complete", x |-> proc[t].x, red |-> proc[t].red,
              blue |-> Cardinality({a \in DOMAIN alerts : alerts[a].status # "closed"}),
              fired |-> Cardinality({a \in DOMAIN alerts : alerts[a].rule # NONE})])
  /\ UNCHANGED <<findingTables, evidenceTables, forensicTables, exercises, shown, socRecords,
                 quiet>>

SetCompleted(t) ==
  /\ proc[t].at = "complete"
  /\ LET p == proc[t] IN
     exercises' = [exercises EXCEPT ![p.x] =
       IF @.status = "gone" THEN @
       ELSE [@ EXCEPT !.status = "completed", !.red = p.red, !.blue = p.blue, !.fired = p.fired]]
  /\ Goes(t, resting) /\ Updates(t)
  /\ UNCHANGED <<findingTables, evidenceTables, forensicTables, shown, socRecords>>

ExerciseDelete(t, x) ==
  /\ x \in DOMAIN exercises /\ exercises[x].status # "gone"
  /\ exercises' = [exercises EXCEPT ![x].status = "gone"]
  /\ Commands(t)
  /\ UNCHANGED <<findingTables, evidenceTables, forensicTables, shown, socRecords>>

\* Coverage in percent of the findings, and the verdict on it.
Verdict(x) ==
  LET coverage == IF exercises[x].red = 0 THEN 0
                  ELSE (exercises[x].fired * 100) \div exercises[x].red
  IN CASE coverage >= 60 -> "good" [] coverage >= 25 -> "partial" [] OTHER -> "gap"

ExerciseShow(t, x) ==
  /\ x \in DOMAIN exercises /\ exercises[x].status = "completed"
  /\ shown' = [shown EXCEPT ![t] = <<[kind |-> "exercise", verdict |-> Verdict(x)]>>]
  /\ Commands(t)
  /\ UNCHANGED <<findingTables, evidenceTables, forensicTables, exercises, socRecords>>

(***************************************************************************)
(* The specification.                                                      *)
(***************************************************************************)

\* Ctrl-C, a closed terminal, or an exception between two statements.
Interrupted(t) ==
  /\ proc[t].at \notin SocStages /\ Ends(t)
  /\ cut' = cut \cup ({Capturing(t)} \ {0})
  /\ UNCHANGED <<findingTables, evidence, custody, forensicTables, exercises, shown, socRecords>>

CaseworkInit ==
  /\ findings = <<>> /\ remediations = <<>> /\ verifications = <<>>
  /\ evidence = <<>> /\ custody = <<>> /\ cut = {}
  /\ artifacts = <<>> /\ timeline = <<>> /\ exercises = <<>>
  /\ shown = [t \in Procs |-> <<>>]

FindingStep(t) ==
  \/ \E g \in Engagements, risk \in RiskInputs \cup {NONE} : FindingCreate(t, g, risk)
  \/ \E f \in DOMAIN findings :
       \/ \E status \in FindingStatuses : FindingUpdate(t, f, status)
       \/ FindingRemediate(t, f) \/ FindingRemediations(t, f)
  \/ \E r \in DOMAIN remediations, result \in {"verified", "failed", "inconclusive"} :
       FindingVerify(t, r, result)
  \/ UpdateRemediation(t) \/ VerifyFinding(t) \/ ReadVerifications(t)

EvidenceStep(t) ==
  \/ \E g \in Engagements : EvidenceAdd(t, g)
  \/ \E e \in DOMAIN evidence : EvidenceVerify(t, e)
  \/ RecordCapture(t) \/ RecordVerified(t)

ForensicStep(t) ==
  \/ \E c \in DOMAIN cases, at \in Times :
       \/ \E e \in 0..Len(evidence) : ArtifactAdd(t, c, e, at)
       \/ \E a \in 0..Len(artifacts) : EventAdd(t, c, a, at)
  \/ \E a \in DOMAIN artifacts, block \in Blocks : ArtifactHash(t, a, block)
  \/ \E c \in DOMAIN cases : DfirExport(t, c)
  \/ RecordHash(t) \/ ExportEvents(t)

ExerciseStep(t) ==
  \/ \E g \in Engagements : ExerciseNew(t, g)
  \/ \E x \in DOMAIN exercises :
       ExerciseStart(t, x) \/ ExerciseComplete(t, x) \/ ExerciseDelete(t, x) \/ ExerciseShow(t, x)
  \/ SetRunning(t) \/ CountRed(t) \/ CountBlue(t) \/ SetCompleted(t)

CaseworkNext ==
  \/ SocNext /\ UNCHANGED caseworkRecords
  \/ \E e \in DOMAIN evidence : Alter(e)
  \/ \E t \in Terminals :
       FindingStep(t) \/ EvidenceStep(t) \/ ForensicStep(t) \/ ExerciseStep(t) \/ Interrupted(t)

CaseworkSpec == SocInit /\ CaseworkInit /\ [][CaseworkNext]_caseworkVars

(***************************************************************************)
(* Properties.                                                             *)
(***************************************************************************)

CaseworkTypeOK ==
  /\ \A f \in DOMAIN findings : /\ findings[f].status \in FindingStatuses
                               /\ findings[f].engagement \in Engagements
                               /\ findings[f].level \in Info..Critical \cup {NONE}
  /\ \A r \in DOMAIN remediations : remediations[r].finding \in DOMAIN findings
  /\ \A v \in DOMAIN verifications : verifications[v].remediation \in DOMAIN remediations
  /\ \A k \in DOMAIN custody : custody[k].evidence \in DOMAIN evidence
  /\ \A n \in DOMAIN timeline : timeline[n].artifact \in {0} \cup DOMAIN artifacts
  /\ \A x \in DOMAIN exercises : exercises[x].status \in {"planned", "running", "completed", "gone"}
  /\ cut \subseteq DOMAIN evidence

\* What a status claims has a record: a remediation is verified, in the table
\* and on every screen, only if a verification of it that says so is there too;
\* the custody of a piece of evidence begins with its capture, in the table and
\* in every export, unless the capture was killed, overtaken or still under way;
\* and an exported case has in its timeline the status it is exported with.
StatusesAreBacked ==
  /\ \A r \in DOMAIN remediations : remediations[r].status = "verified" =>
       \E v \in DOMAIN verifications :
         verifications[v] = [remediation |-> r, result |-> "verified"]
  /\ \A t \in Terminals : \A k \in DOMAIN shown[t] :
       shown[t][k].kind = "remediation" /\ shown[t][k].status = "verified"
         => "verified" \in shown[t][k].records
  /\ \A e \in DOMAIN evidence :
       e \notin cut /\ (\A p \in Procs : Capturing(p) # e) =>
         CustodyLog(e) # <<>> /\ CustodyLog(e)[1].state = "captured"
  /\ \A t \in Terminals : \A k \in DOMAIN shown[t] :
       LET row == shown[t][k] IN
       /\ row.kind = "custody" /\ ~ row.early =>
            row.chain # <<>> /\ row.chain[1] = "captured"
       /\ row.kind = "case" /\ ~ row.early => \E n \in DOMAIN row.log : row.log[n] = row.status

\* A completed exercise stays completed and a recorded hash stays recorded; only
\* a command that overlapped another one takes them back.
ResultsLostOnlyByOverlap ==
  [][/\ \A x \in DOMAIN exercises :
          exercises[x].status = "completed" /\ exercises'[x].status = "running"
            => \E t \in Terminals : proc[t].at = "run" /\ proc[t].x = x /\ ~ quiet[t]
     /\ \A a \in DOMAIN artifacts :
          ~ artifacts[a].details \subseteq artifacts'[a].details
            => \E t \in Terminals : proc[t].at = "hash" /\ proc[t].a = a /\ ~ quiet[t]
    ]_caseworkVars

\* What an analyst has done (stamps of alerts, hashes, exercises) is lost only
\* to a command that overlapped another one.
WorkLostOnlyByOverlap == StampsLostOnlyByOverlap /\ ResultsLostOnlyByOverlap
=================================================================================
