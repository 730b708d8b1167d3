----------------------------- MODULE SocPipeline -----------------------------
(***************************************************************************)
(* The SOC: log lines are parsed and normalised into events, an event is   *)
(* stored once and runs through correlation and the detection rules, and   *)
(* what matches becomes an alert and perhaps a case (soc, siem, cases,     *)
(* cli/soc.py, cli/siem.py and the case commands of cli/data.py).          *)
(*                                                                         *)
(* A process is a terminal or the feeder that watches a log file.  A step  *)
(* is one statement of the database: between two statements of an ingest   *)
(* another process may write, and the process may be killed.               *)
(***************************************************************************)
EXTENDS Desk, FiniteSetsExt

CONSTANTS Feeder,             \* the process that watches a log file
          Lines, Content,    \* Content[l]: what a log line holds
          Flags,             \* what `soc ingest` can be given besides its JSON
          RuleNames, RuleDef, NameRank, \* the rules `rule add` is asked for
          FoundIn,           \* FoundIn[v]: the field values pattern v occurs in
          Asset, Ioc,        \* what is known of an entity: criticality, score
          MaxCases, MaxAlerts, MaxFile   \* bounds

ASSUME BoundsAssumption ==
  MaxCases \in Nat /\ MaxAlerts \in Nat /\ MaxFile \in Nat /\ MaxWork \in Nat
ASSUME FeederAssumption == Feeder \in Procs
ASSUME RulesAssumption ==
  /\ DOMAIN RuleDef = RuleNames /\ DOMAIN NameRank = RuleNames
  /\ \A r \in RuleNames : RuleDef[r].count # NONE => RuleDef[r].count \in Int

VARIABLES file,      \* the chunks of the watched file: a line is written in two
          pending,   \* lines the writer of the file has still to write
          offset,    \* chunks the feeder has read
          events,    \* stored events, in row order
          rules,     \* "on", "off" or "none" for each rule
          alerts,    \* stored alerts, in row order
          cases,     \* stored cases, each with its timeline
          excused,   \* ghost: events whose ingest was killed or raised
          missed,    \* ghost: lines torn by a read, rotated away, or refused
          burst      \* ghost: firings since the count was last below threshold

socRecords == <<file, pending, offset, events, rules, alerts, cases, excused,
                missed, burst>>
socVars == <<socRecords, deskVars>>

stores == <<events, rules, alerts, cases>>
feed == <<file, pending, offset, missed>>
ghosts == <<excused, burst>>

Terminals == Procs \ {Feeder}

(***************************************************************************)
(* Parsing and normalising.                                                *)
(***************************************************************************)

Info == 0
Low == 1
Medium == 2
High == 3
Critical == 4

\* A raw event before it is normalised; a field that is not there is NONE.
Raw(id, type, sev, ip, text, source) ==
  [id |-> id, type |-> type, sev |-> sev, ip |-> ip, text |-> text, source |-> source]

ParseJson(c) ==
  Raw(IF c.id = NONE THEN c.digest ELSE c.id, c.type, c.sev, c.ip, c.text, "feed")

\* The type and the severity of a syslog line are guessed from its words.
ParseSyslog(c) == Raw(c.digest, c.guess, c.level, NONE, c.text, "feed")

ParseKeyValue(c) ==
  Raw(IF c.id = NONE THEN c.digest ELSE c.id, IF c.type = NONE THEN c.guess ELSE c.type,
      IF c.sev = NONE THEN c.level ELSE c.sev, NONE, c.text, "feed")

\* A line of key=value pairs without type= is read as syslog, and so is a piece
\* of a JSON record; a blank line and a lone timestamp are no record.
ParseLine(c) ==
  CASE c.form = "audit" -> ParseKeyValue(c)
    [] c.form = "json" -> ParseJson(c)
    [] c.form = "blank" -> NONE
    [] OTHER -> ParseSyslog(c)

\* A label that is not on the scale becomes medium.
NormSeverity(label) == IF label \in Info..Critical THEN label ELSE Medium

\* An event needs an identifier and a type; its address falls back on the first
\* one found in its text.
Normalizable(raw) == raw.id # NONE /\ raw.type # NONE

Normalize(raw) ==
  [eid |-> raw.id, type |-> raw.type, sev |-> NormSeverity(raw.sev),
   ip |-> IF raw.ip = NONE THEN raw.text ELSE raw.ip,
   source |-> IF raw.source = NONE THEN "unknown" ELSE raw.source, fresh |-> TRUE]

\* The flags of `soc ingest` fill the fields the JSON payload does not have.
FillFlags(raw, flags) ==
  [k \in DOMAIN raw |-> IF raw[k] = NONE /\ k \in DOMAIN flags THEN flags[k] ELSE raw[k]]

(***************************************************************************)
(* Rules and scores.                                                       *)
(***************************************************************************)

Windowed(r) == RuleDef[r].count # NONE

\* RuleStore.validate: windows count at least two events and take fewer operators.
ValidRule(r) ==
  Windowed(r) => RuleDef[r].count >= 2 /\ RuleDef[r].op \in {"eq", "contains", "min_severity"}

\* The filter of a rule, on one event or in the WHERE clause of a windowed rule.
Filter(r, e) ==
  LET d == RuleDef[r] IN
  /\ d.type \in {NONE, e.type}
  /\ CASE d.op = "min_severity" -> e.sev >= d.value
       [] d.op = "eq" -> e.ip = d.value
       [] d.op = "ne" -> e.ip # d.value
       [] OTHER -> e.ip \in FoundIn[d.value]

RuleMatches(r, e) == ~ Windowed(r) /\ Filter(r, e)

Enabled(windowed) == {r \in RuleNames : rules[r] = "on" /\ (Windowed(r) <=> windowed)}

\* Rows inside the window of rule r that pass its filter.
Counted(r) == {n \in DOMAIN events : events[n].fresh /\ Filter(r, events[n])}

\* Fresh rows with the address of row n, itself excluded.
Related(n) ==
  {m \in DOMAIN events : m # n /\ events[m].fresh /\ events[m].ip # NONE
                         /\ events[m].ip = events[n].ip}

\* In quarters of a point: 0..40.
SeverityBase(sev) ==
  CASE sev = Info -> 4 [] sev = Low -> 8 [] sev = Medium -> 16 [] sev = High -> 28
    [] OTHER -> 36

VolumeScore(n) ==
  IF n >= 10 THEN 8 ELSE IF n >= 5 THEN 6 ELSE IF n >= 3 THEN 4 ELSE IF n >= 1 THEN 2 ELSE 0

RiskScore(e, related, sources, matched) ==
  LET known == IF e.ip = NONE THEN 0 ELSE Asset[e.ip] + Ioc[e.ip]
      boost == MapThenSumSet(LAMBDA r : RuleDef[r].boost, matched)
      total == SeverityBase(e.sev) + known + VolumeScore(related)
               + (IF sources > 4 THEN 4 ELSE sources) + boost
  IN IF total > 40 THEN 40 ELSE total

FinalSeverity(e, matched, risk) ==
  LET ranks == {e.sev} \cup {RuleDef[r].sev : r \in matched}
      top == CHOOSE x \in ranks : \A y \in ranks : y <= x
  IN IF risk >= 36 THEN Critical ELSE IF risk >= 28 /\ top < High THEN High ELSE top

Gate(e) == e.sev >= High

\* The rules are listed by name, those without a window first.
FirstRule(matched) ==
  LET plain == {r \in matched : ~ Windowed(r)}
      listed == IF plain # {} THEN plain ELSE matched
  IN CHOOSE r \in listed : \A q \in listed : NameRank[r] <= NameRank[q]

CaseOpenMinRisk == 28

OpensCase(matched, risk) ==
  IF matched = {} THEN risk >= CaseOpenMinRisk ELSE RuleDef[FirstRule(matched)].opens

(***************************************************************************)
(* The processes.                                                          *)
(***************************************************************************)

\* The stages of a process that is at one of the commands of this module.
SocStages == {"reading", "lookup", "insert", "correlate", "match", "windowed", "total",
              "before", "case", "timeline", "alert", "stamp", "link", "log"}

\* Where a process goes when a record or a command is done with: the feeder to
\* the next line, a terminal to rest.
After(p) == IF p = Feeder THEN [at |-> "reading"] ELSE resting

\* The row process p has stored and is still working on.
RowOf(p) == IF "n" \in DOMAIN proc[p] THEN proc[p].n ELSE 0
InProgress(n) == \E p \in Procs : RowOf(p) = n

\* Ghost: a burst is counted cleanly while ingests do not overlap, die, or run
\* into a change of the rules or of the window; a new burst starts below the
\* threshold.
Recount(r, clean) ==
  IF Windowed(r) /\ Cardinality(Counted(r)') < RuleDef[r].count
  THEN [fired |-> 0, clean |-> clean]
  ELSE [burst[r] EXCEPT !.clean = @ /\ clean]

(***************************************************************************)
(* Case rows.  A case is written and then its timeline; `split` is a ghost *)
(* that says its statuses and their timeline entries were not written in   *)
(* the same order, or that one of the two was never written.               *)
(***************************************************************************)

NewCase(n) == [for |-> n, status |-> "open", log |-> <<>>, split |-> FALSE]

Logged(rows, c, entry) == [rows EXCEPT ![c].log = Append(@, entry)]

CaseStatuses == {"open", "closed"}

\* The case whose status process p has still to write into the timeline.
LogOf(p) ==
  CASE proc[p].at = "log" -> IF proc[p].entry \in CaseStatuses THEN proc[p].case ELSE 0
    [] proc[p].at = "timeline" -> proc[p].alert.case
    [] OTHER -> 0

Logging(c) == \E p \in Procs : LogOf(p) = c

(***************************************************************************)
(* One event through the pipeline.                                         *)
(***************************************************************************)

\* An event that cannot be normalised raises; the feeder counts the error.
Accepted(p, raw) ==
  IF Normalizable(raw) THEN [at |-> "lookup", ev |-> Normalize(raw)] ELSE After(p)

SocIngest(p, l, flags) ==
  /\ Starts(p, Accepted(p, FillFlags(ParseJson(Content[l]), flags)))
  /\ UNCHANGED <<stores, feed, ghosts>>

\* A stored event_id is a duplicate: nothing more is done for it.
Lookup(p) ==
  /\ proc[p].at = "lookup"
  /\ Goes(p, IF \E n \in DOMAIN events : events[n].eid = proc[p].ev.eid THEN After(p)
             ELSE [proc[p] EXCEPT !.at = "insert"])
  /\ UNCHANGED <<stores, feed, ghosts, quiet>>

\* InsertEvent without the uniqueness of event_id.
InsertEventAgain(p) ==
  /\ proc[p].at = "insert"
  /\ events' = Append(events, proc[p].ev)
  /\ Goes(p, [at |-> "correlate", n |-> Len(events) + 1])
  /\ burst' = [r \in RuleNames |-> Recount(r, \A q \in Procs : RowOf(q) = 0)]
  /\ UNCHANGED <<rules, alerts, cases, feed, excused, quiet>>

\* The INSERT raises when another process has stored the event since.
InsertEvent(p) ==
  /\ proc[p].at = "insert"
  /\ IF \E n \in DOMAIN events : events[n].eid = proc[p].ev.eid
     THEN Goes(p, After(p)) /\ UNCHANGED <<events, burst>>
     ELSE /\ events' = Append(events, proc[p].ev)
          /\ Goes(p, [at |-> "correlate", n |-> Len(events) + 1])
          /\ burst' = [r \in RuleNames |-> Recount(r, \A q \in Procs : RowOf(q) = 0)]
  /\ UNCHANGED <<rules, alerts, cases, feed, excused, quiet>>

Correlate(p) ==
  /\ proc[p].at = "correlate"
  /\ Goes(p, [at |-> "match", n |-> proc[p].n, related |-> Cardinality(Related(proc[p].n)),
              sources |-> Cardinality({events[m].source : m \in Related(proc[p].n)})])
  /\ UNCHANGED <<stores, feed, ghosts, quiet>>

\* The rules without a window, then the list of those with one.
MatchRules(p) ==
  /\ proc[p].at = "match"
  /\ LET e == events[proc[p].n] IN
     Goes(p, [at |-> "windowed", n |-> proc[p].n, related |-> proc[p].related,
              sources |-> proc[p].sources,
              matched |-> {r \in Enabled(FALSE) : RuleMatches(r, e)}])
  /\ UNCHANGED <<stores, feed, ghosts, quiet>>

ListWindowed(p) ==
  /\ proc[p].at = "windowed"
  /\ Goes(p, [at |-> "total", n |-> proc[p].n, related |-> proc[p].related,
              sources |-> proc[p].sources, matched |-> proc[p].matched,
              todo |-> Enabled(TRUE)])
  /\ UNCHANGED <<stores, feed, ghosts, quiet>>

\* evaluate_windowed counts the window ...
CountTotal(p, r) ==
  /\ proc[p].at = "total" /\ r \in proc[p].todo
  /\ Goes(p, IF Cardinality(Counted(r)) < RuleDef[r].count
             THEN [proc[p] EXCEPT !.todo = @ \ {r}]
             ELSE [at |-> "before", n |-> proc[p].n, related |-> proc[p].related,
                   sources |-> proc[p].sources, matched |-> proc[p].matched,
                   todo |-> proc[p].todo, rule |-> r])
  /\ UNCHANGED <<stores, feed, ghosts, quiet>>

\* CountBefore that does not ask for the crossing.
CountBeforeAlways(p) ==
  /\ proc[p].at = "before"
  /\ LET r == proc[p].rule IN
     /\ burst' = [burst EXCEPT ![r].fired = @ + 1]
     /\ Goes(p, [at |-> "total", n |-> proc[p].n, related |-> proc[p].related,
                 sources |-> proc[p].sources, todo |-> proc[p].todo \ {r},
                 matched |-> proc[p].matched \cup {r}])
  /\ UNCHANGED <<stores, feed, excused, quiet>>

\* ... and then the window without this event: the rule fires on the event that
\* takes the count over the threshold.
CountBefore(p) ==
  /\ proc[p].at = "before"
  /\ LET r == proc[p].rule
         fires == Cardinality(Counted(r) \ {proc[p].n}) < RuleDef[r].count
     IN /\ burst' = [burst EXCEPT ![r].fired = IF fires THEN @ + 1 ELSE @]
        /\ Goes(p, [at |-> "total", n |-> proc[p].n, related |-> proc[p].related,
                    sources |-> proc[p].sources, todo |-> proc[p].todo \ {r},
                    matched |-> IF fires THEN proc[p].matched \cup {r}
                                ELSE proc[p].matched])
  /\ UNCHANGED <<stores, feed, excused, quiet>>

\* Score and severity, and whether there is an alert and a case at all.
Decide(p) ==
  /\ proc[p].at = "total" /\ proc[p].todo = {}
  /\ LET e == events[proc[p].n]
         matched == proc[p].matched
         risk == RiskScore(e, proc[p].related, proc[p].sources, matched)
         alert == [event |-> proc[p].n, rule |-> IF matched = {} THEN NONE ELSE FirstRule(matched),
                   sev |-> FinalSeverity(e, matched, risk), status |-> "open", case |-> 0,
                   acknowledged |-> FALSE, resolved |-> FALSE]
     IN Goes(p, IF matched = {} /\ ~ Gate(e) THEN After(p)
                ELSE [at |-> IF OpensCase(matched, risk) THEN "case" ELSE "alert",
                      n |-> proc[p].n, alert |-> alert])
  /\ UNCHANGED <<stores, feed, ghosts, quiet>>

\* The case comes first, with its timeline in a statement of its own ...
OpenCase(p) ==
  /\ proc[p].at = "case" /\ Len(cases) < MaxCases
  /\ cases' = Append(cases, NewCase(proc[p].n))
  /\ Goes(p, [proc[p] EXCEPT !.at = "timeline", !.alert.case = Len(cases) + 1])
  /\ UNCHANGED <<events, rules, alerts, feed, ghosts, quiet>>

LogOpened(p) ==
  /\ proc[p].at = "timeline"
  /\ cases' = Logged(cases, proc[p].alert.case, "open")
  /\ Goes(p, [proc[p] EXCEPT !.at = "alert"])
  /\ UNCHANGED <<events, rules, alerts, feed, ghosts, quiet>>

\* ... and the alert last: it raises when its rule has been deleted since.
CreateAlert(p) ==
  /\ proc[p].at = "alert" /\ Len(alerts) < MaxAlerts
  /\ LET alert == proc[p].alert IN
     IF alert.rule # NONE /\ rules[alert.rule] = "none"
     THEN excused' = excused \cup {proc[p].n} /\ UNCHANGED alerts
     ELSE alerts' = Append(alerts, alert) /\ UNCHANGED excused
  /\ Goes(p, After(p))
  /\ UNCHANGED <<events, rules, cases, feed, burst, quiet>>

\* A statement that fails, or the end of the process: what the ingest had still
\* to do is not done.  The feeder goes on with the next line.
Broken(p) ==
  /\ excused' = IF RowOf(p) = 0 THEN excused ELSE excused \cup {RowOf(p)}
  /\ burst' = [r \in RuleNames |-> [burst[r] EXCEPT !.clean = @ /\ RowOf(p) = 0]]
  /\ cases' = IF LogOf(p) = 0 THEN cases ELSE [cases EXCEPT ![LogOf(p)].split = TRUE]
  /\ quiet' = [quiet EXCEPT ![p] = TRUE]
  /\ UNCHANGED <<events, rules, alerts, file, pending>>

Raised(p) ==
  /\ proc[p].at \in SocStages \ {"reading"}
  /\ Broken(p)
  /\ Goes(p, After(p))
  /\ missed' = IF "line" \in DOMAIN proc[p] THEN missed \cup {proc[p].line} ELSE missed
  /\ UNCHANGED offset

Killed(p) ==
  /\ proc[p].at \in SocStages \/ (p = Feeder /\ offset > 0)
  /\ Broken(p)
  /\ Goes(p, resting)
  /\ offset' = IF p = Feeder THEN 0 ELSE offset
  /\ UNCHANGED missed

\* A stored event leaves the windows, the oldest one first.
WindowSlides ==
  /\ \E n \in DOMAIN events :
       /\ events[n].fresh /\ \A m \in 1..(n - 1) : ~ events[m].fresh
       /\ events' = [events EXCEPT ![n].fresh = FALSE]
  /\ burst' = [r \in RuleNames |-> Recount(r, \A q \in Procs : RowOf(q) = 0)]
  /\ UNCHANGED <<rules, alerts, cases, feed, proc, quiet, work, excused>>

(***************************************************************************)
(* Rules.                                                                  *)
(***************************************************************************)

SetRule(r, state) ==
  /\ rules' = [rules EXCEPT ![r] = state]
  /\ burst' = [burst EXCEPT ![r].clean = FALSE]
  /\ UNCHANGED <<events, alerts, cases, feed, excused>>

RuleAdd(t, r) == Commands(t) /\ ValidRule(r) /\ rules[r] = "none" /\ SetRule(r, "on")

RuleToggle(t, r, state) == Commands(t) /\ rules[r] # "none" /\ SetRule(r, state)

RuleDelete(t, r) == Commands(t) /\ rules[r] # "none" /\ SetRule(r, "none")

(***************************************************************************)
(* Alerts: any status can be set from any status.                          *)
(***************************************************************************)

\* set_status reads the row ...
AlertAction(t, a, status, c) ==
  /\ a \in DOMAIN alerts /\ (c # 0 => status = "resolved")
  /\ Starts(t, [at |-> "stamp", a |-> a, status |-> status, case |-> c,
                acknowledged |-> alerts[a].acknowledged, resolved |-> alerts[a].resolved])
  /\ UNCHANGED <<stores, feed, ghosts>>

\* ... and writes the status with both stamps, kept from what it has read.
SetStatus(t) ==
  /\ proc[t].at = "stamp"
  /\ LET p == proc[t] IN
     /\ alerts' = [alerts EXCEPT
          ![p.a].status = p.status,
          ![p.a].acknowledged = p.acknowledged \/ p.status = "acknowledged",
          ![p.a].resolved = p.resolved \/ p.status \in {"resolved", "closed"}]
     /\ Goes(t, IF p.case = 0 THEN resting ELSE [at |-> "link", a |-> p.a, case |-> p.case])
  /\ Updates(t)
  /\ UNCHANGED <<events, rules, cases, feed, ghosts>>

\* LinkCase with no foreign key on the case.
LinkCaseUnchecked(t) ==
  /\ proc[t].at = "link"
  /\ alerts' = [alerts EXCEPT ![proc[t].a].case = proc[t].case]
  /\ Goes(t, resting)
  /\ Updates(t)
  /\ UNCHANGED <<events, rules, cases, feed, ghosts>>

\* resolve --case links afterwards; the UPDATE raises for a case that is not there.
LinkCase(t) ==
  /\ proc[t].at = "link"
  /\ alerts' = IF proc[t].case \in DOMAIN cases
               THEN [alerts EXCEPT ![proc[t].a].case = proc[t].case] ELSE alerts
  /\ Goes(t, resting)
  /\ Updates(t)
  /\ UNCHANGED <<events, rules, cases, feed, ghosts>>

(***************************************************************************)
(* Cases: the row first, then the timeline.                                *)
(***************************************************************************)

Log(c, entry) == [at |-> "log", case |-> c, entry |-> entry]

CaseCreate(t) ==
  /\ Len(cases) < MaxCases
  /\ cases' = Append(cases, NewCase(0))
  /\ Starts(t, Log(Len(cases) + 1, "open"))
  /\ UNCHANGED <<events, rules, alerts, feed, ghosts>>

\* close and reopen write the status whatever it was.
SetCaseStatus(t, c, status) ==
  /\ c \in DOMAIN cases
  /\ cases' = [cases EXCEPT ![c].status = status, ![c].split = @ \/ Logging(c)]
  /\ Starts(t, Log(c, status))
  /\ UNCHANGED <<events, rules, alerts, feed, ghosts>>

CaseClose(t, c) == SetCaseStatus(t, c, "closed")
CaseReopen(t, c) == SetCaseStatus(t, c, "open")

\* A note or a linked finding is inserted and leaves the status alone.
CaseNoteAdd(t, c) ==
  /\ c \in DOMAIN cases
  /\ Starts(t, Log(c, "note"))
  /\ UNCHANGED <<stores, feed, ghosts>>

CaseAddFinding(t, c) ==
  /\ c \in DOMAIN cases
  /\ Starts(t, Log(c, "finding"))
  /\ UNCHANGED <<stores, feed, ghosts>>

\* RecordEvent that forgets what a command changed.
RecordNote(t) ==
  /\ proc[t].at = "log"
  /\ cases' = Logged(cases, proc[t].case, "note")
  /\ Goes(t, resting)
  /\ UNCHANGED <<events, rules, alerts, feed, ghosts, quiet>>

RecordEvent(t) ==
  /\ proc[t].at = "log"
  /\ cases' = Logged(cases, proc[t].case, proc[t].entry)
  /\ Goes(t, resting)
  /\ UNCHANGED <<events, rules, alerts, feed, ghosts, quiet>>

(***************************************************************************)
(* The watched file and the feeder.                                        *)
(***************************************************************************)

\* The writer of the file writes a line at once, or in two pieces.  A line
\* written where the feeder believes it has read already may be skipped.
Grow(chunks) ==
  /\ Len(file) + Len(chunks) <= MaxFile
  /\ file' = file \o chunks
  /\ UNCHANGED <<stores, ghosts, proc, quiet, work, offset>>

AppendLine ==
  /\ pending # <<>> /\ (file # <<>> => file[Len(file)][2] = 2)
  /\ LET l == Head(pending) IN
     \/ Grow(<<<<l, 1>>, <<l, 2>>>>) /\ pending' = Tail(pending)
        /\ missed' = IF Len(file) < offset THEN missed \cup {l} ELSE missed
     \/ Grow(<<<<l, 1>>>>) /\ UNCHANGED pending
        /\ missed' = IF Len(file) < offset THEN missed \cup {l} ELSE missed

AppendRest ==
  /\ file # <<>> /\ file[Len(file)][2] = 1
  /\ Grow(<<<<file[Len(file)][1], 2>>>>)
  /\ pending' = Tail(pending)
  /\ missed' = IF Len(file) < offset THEN missed \cup {file[Len(file)][1]} ELSE missed

Rotate ==
  /\ file # <<>> /\ file[Len(file)][2] = 2
  /\ file' = <<>>
  /\ missed' = missed \cup {file[i][1] : i \in (offset + 1)..Len(file)}
  /\ UNCHANGED <<stores, ghosts, proc, quiet, work, offset, pending>>

\* Poll that starts at the end of the file.
PollFromEnd ==
  /\ proc[Feeder].at = "idle"
  /\ offset' = IF Len(file) < offset THEN 0 ELSE IF offset = 0 THEN Len(file) ELSE offset
  /\ Goes(Feeder, [at |-> "reading"])
  /\ UNCHANGED <<stores, ghosts, quiet, file, pending, missed>>

\* `siem watch` starts at offset 0; every poll looks at the size first, and only
\* a file shorter than the offset is taken for a new one.
Poll ==
  /\ proc[Feeder].at = "idle"
  /\ offset' = IF Len(file) < offset THEN 0 ELSE offset
  /\ Goes(Feeder, [at |-> "reading"])
  /\ UNCHANGED <<stores, ghosts, quiet, file, pending, missed>>

\* The record at the offset: a whole line, or the piece of one that is there.
NextRecord ==
  LET chunk == file[offset + 1] IN
  IF chunk[2] = 1 /\ offset + 2 <= Len(file) THEN [line |-> chunk[1], size |-> 2]
  ELSE [line |-> chunk[1], size |-> 1, piece |-> chunk[2]]

Piece(l, k) ==
  [Content[l] EXCEPT !.form = "syslog", !.digest = <<l, k>>, !.guess = "unknown", !.level = NONE]

\* feed_line parses a record and gives it to the pipeline.
FeedLine ==
  /\ proc[Feeder].at = "reading" /\ offset < Len(file)
  /\ LET rec == NextRecord
         whole == rec.size = 2
         raw == ParseLine(IF whole THEN Content[rec.line] ELSE Piece(rec.line, rec.piece))
         fed == raw # NONE /\ Normalizable(raw)
     IN /\ offset' = offset + rec.size
        /\ missed' = IF whole /\ fed THEN missed ELSE missed \cup {rec.line}
        /\ Goes(Feeder, IF fed THEN [at |-> "lookup", ev |-> Normalize(raw), line |-> rec.line]
                        ELSE [at |-> "reading"])
  /\ UNCHANGED <<stores, ghosts, quiet, file, pending>>

EndOfFile ==
  /\ proc[Feeder].at = "reading" /\ offset >= Len(file)
  /\ Goes(Feeder, resting)
  /\ UNCHANGED <<stores, ghosts, quiet, feed>>

(***************************************************************************)
(* The specification.                                                      *)
(***************************************************************************)

SocInit ==
  /\ file = <<>> /\ offset = 0 /\ missed = {}
  /\ pending \in Seq(Lines)
  /\ events = <<>> /\ alerts = <<>> /\ cases = <<>>
  /\ rules \in [RuleNames -> {"on", "off", "none"}]
  /\ \A r \in RuleNames : rules[r] # "none" => ValidRule(r)
  /\ DeskInit
  /\ excused = {}
  /\ burst = [r \in RuleNames |-> [fired |-> 0, clean |-> TRUE]]

Pipeline(p) ==
  \/ Lookup(p) \/ InsertEvent(p) \/ Correlate(p) \/ MatchRules(p) \/ ListWindowed(p)
  \/ \E r \in RuleNames : CountTotal(p, r)
  \/ CountBefore(p) \/ Decide(p) \/ OpenCase(p) \/ LogOpened(p) \/ CreateAlert(p)

RuleStep(t) ==
  \E r \in RuleNames :
    \/ RuleAdd(t, r)
    \/ RuleToggle(t, r, "on") \/ RuleToggle(t, r, "off")
    \/ RuleDelete(t, r)

AlertStep(t) ==
  \/ \E a \in DOMAIN alerts, c \in 0..MaxCases :
       \/ AlertAction(t, a, "acknowledged", c)
       \/ AlertAction(t, a, "resolved", c)
       \/ AlertAction(t, a, "closed", c)
  \/ SetStatus(t) \/ LinkCase(t)

CaseStep(t) ==
  \/ CaseCreate(t)
  \/ \E c \in DOMAIN cases :
       CaseClose(t, c) \/ CaseReopen(t, c) \/ CaseNoteAdd(t, c) \/ CaseAddFinding(t, c)
  \/ RecordEvent(t)

FileStep == AppendLine \/ AppendRest \/ Rotate

FeederStep == Poll \/ FeedLine \/ EndOfFile

SocNext ==
  \/ FileStep \/ FeederStep \/ WindowSlides
  \/ \E p \in Procs : Pipeline(p) \/ Raised(p) \/ Killed(p)
  \/ \E t \in Terminals :
       \/ \E l \in Lines, flags \in Flags : SocIngest(t, l, flags)
       \/ RuleStep(t) \/ AlertStep(t) \/ CaseStep(t)

SocSpec == SocInit /\ [][SocNext]_socVars

(***************************************************************************)
(* Properties.                                                             *)
(***************************************************************************)

SocTypeOK ==
  /\ file \in Seq(Lines \X {1, 2}) /\ offset \in 0..MaxFile /\ missed \subseteq Lines
  /\ \A n \in DOMAIN events : events[n].sev \in Info..Critical /\ events[n].fresh \in BOOLEAN
  /\ rules \in [RuleNames -> {"on", "off", "none"}]
  /\ \A a \in DOMAIN alerts : /\ alerts[a].event \in DOMAIN events
                             /\ alerts[a].case \in {0} \cup DOMAIN cases
                             /\ alerts[a].status \in {"open", "acknowledged", "resolved", "closed"}
  /\ \A c \in DOMAIN cases : cases[c].status \in CaseStatuses
  /\ excused \subseteq DOMAIN events
  /\ work \in [Procs -> 0..MaxWork]

Alerts(id) == {a \in DOMAIN alerts : events[alerts[a].event].eid = id}
AutoCases(id) == {c \in DOMAIN cases : cases[c].for # 0 /\ events[cases[c].for].eid = id}

\* However often an event is sent and whoever sends it, it raises one alert at
\* most and opens one case at most; one above the severity gate has its alert,
\* and a case that was opened for an event has an alert too, unless the ingest
\* is under way, raised, or was killed.
EventsAlertOnce ==
  \A n \in DOMAIN events :
    LET id == events[n].eid IN
    /\ Cardinality(Alerts(id)) <= 1 /\ Cardinality(AutoCases(id)) <= 1
    /\ n \notin excused /\ ~ InProgress(n) /\ (Gate(events[n]) \/ AutoCases(id) # {})
         => Alerts(id) # {}

\* A windowed rule fires once for a burst: when the count has reached the
\* threshold it has fired, and once only, as long as no two ingests overlapped,
\* none was cut short, and neither the rule nor the window changed under one.
BurstFiresOnce ==
  \A r \in RuleNames :
    /\ Windowed(r) /\ rules[r] = "on" /\ burst[r].clean
    /\ \A p \in Procs : RowOf(p) = 0
    /\ Cardinality(Counted(r)) >= RuleDef[r].count
    => burst[r].fired = 1

\* What the feeder has read past is stored: a line is lost only when it is read
\* half-written, rotated away or appended behind the offset, or refused.
FedLinesStored ==
  \A i \in 1..offset :
    i <= Len(file) /\ "line" \notin DOMAIN proc[Feeder] =>
      \/ file[i][1] \in missed
      \/ \E n \in DOMAIN events : events[n].eid = ParseLine(Content[file[i][1]]).id

\* The times of an acknowledgement and of a resolution are set once; only a
\* command that overlapped another one takes them away.
StampsLostOnlyByOverlap ==
  [][\A a \in DOMAIN alerts :
       \/ alerts[a].acknowledged /\ ~ alerts'[a].acknowledged
       \/ alerts[a].resolved /\ ~ alerts'[a].resolved
       => \E t \in Terminals : proc[t].at = "stamp" /\ proc[t].a = a /\ ~ quiet[t]]_socVars

\* Entry k of a timeline is the last one that tells a status.
LastTold(log, k) ==
  log[k] \in CaseStatuses /\ \A j \in DOMAIN log : j > k => log[j] \notin CaseStatuses

\* The last status in the timeline of a case is the status of the case, unless
\* two commands on it overlapped or one was cut short.
TimelineTellsStatus ==
  \A c \in DOMAIN cases :
    ~ cases[c].split /\ ~ Logging(c) =>
      \E k \in DOMAIN cases[c].log :
        LastTold(cases[c].log, k) /\ cases[c].log[k] = cases[c].status
=============================================================================
