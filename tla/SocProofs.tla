------------------------------- MODULE SocProofs -------------------------------
(***************************************************************************)
(* Theorems about SocPipeline, for any terminals, lines, rules and bounds. *)
(*                                                                         *)
(* The first half says of each step what it writes and to which stage its  *)
(* process goes (CountSteps, TellSteps, StampSteps, ...), and proves the   *)
(* types from it.  Each property then has its own invariant, and each      *)
(* invariant a lemma that says which moves it does not notice; only the    *)
(* steps that do write what it is about are looked at one by one.          *)
(***************************************************************************)
EXTENDS SocPipeline, Tables, FiniteSetTheorems, TLAPS

-----------------------------------------------------------------------------
(***************************************************************************)
(* Types: the rows of the tables, and what a process carries.              *)
(***************************************************************************)

RowStages == {"correlate", "match", "windowed", "total", "before", "case", "timeline", "alert"}

IsEvent(e) ==
  /\ DOMAIN e = {"eid", "type", "sev", "ip", "source", "fresh"}
  /\ e.sev \in Info..Critical /\ e.fresh \in BOOLEAN

IsAlert(a) ==
  /\ DOMAIN a = {"event", "rule", "sev", "status", "case", "acknowledged", "resolved"}
  /\ a.event \in DOMAIN events /\ a.case \in {0} \cup DOMAIN cases
  /\ a.status \in {"open", "acknowledged", "resolved", "closed"}
  /\ a.acknowledged \in BOOLEAN /\ a.resolved \in BOOLEAN

IsCase(c) ==
  /\ DOMAIN c = {"for", "status", "log", "split"}
  /\ c.for \in {0} \cup DOMAIN events
  /\ c.status \in CaseStatuses /\ Rows(c.log) /\ c.split \in BOOLEAN

\* The stage s of process p, given by what the later statements use of it.
ShapeOf(p, s) ==
  /\ "at" \in DOMAIN s
  /\ s.at = "idle" => s = resting
  /\ s.at = "reading" => s = [at |-> "reading"] /\ p = Feeder
  /\ s.at \in {"lookup", "insert"} =>
       /\ DOMAIN s = {"at", "ev"} \cup (IF p = Feeder THEN {"line"} ELSE {})
       /\ IsEvent(s.ev) /\ s.ev.fresh
       /\ p = Feeder => s.line \in Lines
  /\ s.at \notin {"lookup", "insert"} => "line" \notin DOMAIN s
  /\ "n" \in DOMAIN s <=> s.at \in RowStages
  /\ s.at \in RowStages => s.n \in DOMAIN events
  /\ s.at \in {"total", "before"} => "todo" \in DOMAIN s /\ s.todo \subseteq RuleNames
  /\ s.at = "before" => s.rule \in s.todo
  /\ s.at \in {"case", "timeline", "alert"} =>
       /\ DOMAIN s = {"at", "n", "alert"}
       /\ IsAlert(s.alert) /\ s.alert.event = s.n
  /\ s.at = "timeline" => s.alert.case \in DOMAIN cases
  /\ s.at = "log" => s.case \in DOMAIN cases
  /\ s.at \in {"stamp", "link"} => s.a \in DOMAIN alerts
  /\ s.at = "stamp" => /\ s.acknowledged \in BOOLEAN /\ s.resolved \in BOOLEAN
                       /\ s.status \in {"acknowledged", "resolved", "closed"}
  /\ p = Feeder => s.at \in {"idle", "reading", "lookup", "insert"} \cup RowStages

\* A line written in two pieces has them side by side; the second is still to
\* come only at the end of the file.
FileOK ==
  /\ file \in Seq(Lines \X {1, 2}) /\ pending \in Seq(Lines)
  /\ offset \in 0..MaxFile /\ Len(file) <= MaxFile /\ missed \subseteq Lines
  /\ \A i \in 1..(Len(file) - 1) : file[i][2] = 1 => file[i + 1] = <<file[i][1], 2>>
  /\ file # <<>> /\ file[Len(file)][2] = 1 => pending # <<>>

EventsOK == Rows(events) /\ \A n \in DOMAIN events : IsEvent(events[n])

AlertsOK == Rows(alerts) /\ \A a \in DOMAIN alerts : IsAlert(alerts[a])

CasesOK == Rows(cases) /\ \A c \in DOMAIN cases : IsCase(cases[c])

RulesOK ==
  /\ rules \in [RuleNames -> {"on", "off", "none"}]
  /\ burst \in [RuleNames -> [fired : Nat, clean : BOOLEAN]]
  /\ excused \subseteq DOMAIN events

DeskOK ==
  /\ proc = [p \in Procs |-> proc[p]]
  /\ quiet \in [Procs -> BOOLEAN] /\ work \in [Procs -> 0..MaxWork]

Shapes == \A p \in Procs : ShapeOf(p, proc[p])

SocTyped == FileOK /\ EventsOK /\ AlertsOK /\ CasesOK /\ RulesOK /\ DeskOK /\ Shapes

\* The tables keep their rows, in number.
Growing ==
  /\ DOMAIN events \subseteq DOMAIN events'
  /\ DOMAIN alerts \subseteq DOMAIN alerts'
  /\ DOMAIN cases \subseteq DOMAIN cases'

\* A stage keeps its shape while the tables grow.
LEMMA ShapeGrows ==
  ASSUME Growing, NEW p, NEW s, ShapeOf(p, s)
  PROVE  ShapeOf(p, s)'
  BY DEF Growing, ShapeOf, IsAlert, IsEvent, resting

\* One process moves to stage s, which has the right shape.
LEMMA ShapesMove ==
  ASSUME SocTyped, Growing, NEW p \in Procs, NEW s, proc' = [proc EXCEPT ![p] = s],
         ShapeOf(p, s)'
  PROVE  Shapes' /\ proc' = [q \in Procs |-> proc'[q]]
  <1>1. proc' = [q \in Procs |-> IF q = p THEN s ELSE proc[q]]
    BY DEF SocTyped, DeskOK
  <1>2. ASSUME NEW q \in Procs
        PROVE  ShapeOf(q, proc[q])'
    <2>1. PICK r : r = proc'[q]
      OBVIOUS
    <2>2. ShapeOf(q, r)'
      <3>1. CASE q = p
        BY <1>1, <2>1, <3>1
      <3>2. CASE q # p
        <4>1. ShapeOf(q, r)
          BY <1>1, <2>1, <3>2 DEF SocTyped, Shapes
        <4>2. QED
          BY <4>1, ShapeGrows
      <3>3. QED
        BY <3>1, <3>2
    <2>3. QED
      BY <2>1, <2>2 DEF ShapeOf, IsAlert
  <1>3. QED
    BY <1>1, <1>2 DEF Shapes

\* A process takes a step that writes nothing.
LEMMA TypedMove ==
  ASSUME SocTyped, NEW p \in Procs, NEW s, UNCHANGED socRecords, ShapeOf(p, s),
         (Goes(p, s) /\ UNCHANGED quiet) \/ Starts(p, s)
  PROVE  SocTyped'
  <1>1. Growing
    BY DEF Growing, socRecords
  <1>2. proc' = [proc EXCEPT ![p] = s]
    BY DEF Goes, Starts
  <1>3. ShapeOf(p, s)'
    BY <1>1, ShapeGrows
  <1>4. Shapes' /\ proc' = [q \in Procs |-> proc'[q]]
    BY <1>1, <1>2, <1>3, ShapesMove
  <1>5. DeskOK'
    <2>1. quiet' \in [Procs -> BOOLEAN]
      BY DEF SocTyped, DeskOK, Goes, Starts
    <2>2. work' \in [Procs -> 0..MaxWork]
      BY BoundsAssumption DEF SocTyped, DeskOK, Goes, Starts
    <2>3. QED
      BY <1>4, <2>1, <2>2 DEF DeskOK
  <1>6. FileOK' /\ EventsOK' /\ AlertsOK' /\ CasesOK' /\ RulesOK'
    <2>1. FileOK'
      BY DEF SocTyped, socRecords, FileOK
    <2>2. EventsOK'
      BY DEF SocTyped, socRecords, EventsOK, IsEvent, Rows
    <2>3. AlertsOK'
      BY DEF SocTyped, socRecords, AlertsOK, IsAlert, Rows
    <2>4. CasesOK'
      BY DEF SocTyped, socRecords, CasesOK, IsCase
    <2>5. RulesOK'
      BY DEF SocTyped, socRecords, RulesOK
    <2>6. QED
      BY <2>1, <2>2, <2>3, <2>4, <2>5
  <1>7. QED
    BY <1>4, <1>5, <1>6 DEF SocTyped

\* A command is over: its process rests, the feeder reads on.
LEMMA AfterShape ==
  ASSUME NEW p \in Procs
  PROVE  ShapeOf(p, After(p)) /\ ShapeOf(p, resting)
  BY DEF ShapeOf, After, resting, RowStages

LEMMA NormalizedEvent ==
  ASSUME NEW raw
  PROVE  IsEvent(Normalize(raw)) /\ Normalize(raw).fresh /\ Normalize(raw).eid = raw.id
  <1>1. NormSeverity(raw.sev) \in Info..Critical
    BY DEF NormSeverity, Info, Critical, Medium
  <1>2. QED
    BY <1>1 DEF Normalize, IsEvent

\* The steps of an ingest that read, and the commands that read before they
\* write: each leads to a stage of the right shape.
LEMMA ReadingSteps ==
  ASSUME SocTyped, NEW p \in Procs
  PROVE  /\ \A l \in Lines, flags \in Flags :
              p # Feeder /\ SocIngest(p, l, flags) =>
                \E s : /\ Starts(p, s) /\ UNCHANGED socRecords /\ ShapeOf(p, s)
                       /\ s.at \in {"lookup", "idle"}
         /\ Lookup(p) =>
              \E s : /\ Goes(p, s) /\ UNCHANGED <<socRecords, quiet>> /\ ShapeOf(p, s)
                     /\ \/ /\ s = After(p)
                           /\ \E n \in DOMAIN events : events[n].eid = proc[p].ev.eid
                        \/ /\ s.at = "insert" /\ s.ev = proc[p].ev
                           /\ p = Feeder => s.line = proc[p].line
  <1>1. ASSUME NEW l \in Lines, NEW flags \in Flags, p # Feeder, SocIngest(p, l, flags)
        PROVE  \E s : /\ Starts(p, s) /\ UNCHANGED socRecords /\ ShapeOf(p, s)
                      /\ s.at \in {"lookup", "idle"}
    <2>1. PICK raw : raw = FillFlags(ParseJson(Content[l]), flags)
      OBVIOUS
    <2>2. PICK s : s = Accepted(p, raw)
      OBVIOUS
    <2>3. Starts(p, s) /\ UNCHANGED socRecords
      BY <1>1, <2>1, <2>2 DEF SocIngest, stores, feed, ghosts, socRecords
    <2>4. ShapeOf(p, s) /\ s.at \in {"lookup", "idle"}
      <3>1. CASE Normalizable(raw)
        <4>1. s = [at |-> "lookup", ev |-> Normalize(raw)]
          BY <2>2, <3>1 DEF Accepted
        <4>2. QED
          BY <1>1, <4>1, NormalizedEvent DEF ShapeOf, RowStages
      <3>2. CASE ~ Normalizable(raw)
        BY <1>1, <2>2, <3>2, AfterShape DEF Accepted, After, resting
      <3>3. QED
        BY <3>1, <3>2
    <2>5. QED
      BY <2>3, <2>4
  <1>2. ASSUME Lookup(p)
        PROVE  \E s : /\ Goes(p, s) /\ UNCHANGED <<socRecords, quiet>> /\ ShapeOf(p, s)
                      /\ \/ /\ s = After(p)
                            /\ \E n \in DOMAIN events : events[n].eid = proc[p].ev.eid
                         \/ /\ s.at = "insert" /\ s.ev = proc[p].ev
                            /\ p = Feeder => s.line = proc[p].line
    <2>1. UNCHANGED <<socRecords, quiet>> /\ proc[p].at = "lookup"
      BY <1>2 DEF Lookup, stores, feed, ghosts, socRecords
    <2>2. CASE \E n \in DOMAIN events : events[n].eid = proc[p].ev.eid
      BY <1>2, <2>1, <2>2, AfterShape DEF Lookup
    <2>3. CASE ~ \E n \in DOMAIN events : events[n].eid = proc[p].ev.eid
      <3>1. PICK s : s = [proc[p] EXCEPT !.at = "insert"]
        OBVIOUS
      <3>2. Goes(p, s)
        BY <1>2, <2>3, <3>1 DEF Lookup
      <3>3. ShapeOf(p, proc[p])
        BY DEF SocTyped, Shapes
      <3>4. s.at = "insert" /\ s.ev = proc[p].ev /\ (p = Feeder => s.line = proc[p].line)
        BY <2>1, <3>1, <3>3 DEF ShapeOf
      <3>5. ShapeOf(p, s)
        BY <2>1, <3>1, <3>3, <3>4 DEF ShapeOf, RowStages
      <3>6. QED
        BY <2>1, <3>2, <3>4, <3>5
    <2>4. QED
      BY <2>2, <2>3
  <1>3. QED
    BY <1>1, <1>2

\* A step of process p that writes nothing leads to stage s.
Reaches(p, s) == Goes(p, s) /\ UNCHANGED <<socRecords, quiet>> /\ ShapeOf(p, s)

\* The steps of an ingest between the row and the case.
LEMMA WorkingSteps ==
  ASSUME SocTyped, NEW p \in Procs
  PROVE  /\ Correlate(p) =>
              /\ proc[p].at = "correlate"
              /\ \E s : Reaches(p, s) /\ s.at = "match" /\ s.n = proc[p].n
         /\ MatchRules(p) =>
              /\ proc[p].at = "match"
              /\ \E s : Reaches(p, s) /\ s.at = "windowed" /\ s.n = proc[p].n
         /\ ListWindowed(p) =>
              /\ proc[p].at = "windowed"
              /\ \E s : /\ Reaches(p, s) /\ s.at = "total" /\ s.n = proc[p].n
                        /\ s.todo = Enabled(TRUE)
  <1>1. ShapeOf(p, proc[p])
    BY DEF SocTyped, Shapes
  <1>2. ASSUME Correlate(p)
        PROVE  /\ proc[p].at = "correlate"
               /\ \E s : Reaches(p, s) /\ s.at = "match" /\ s.n = proc[p].n
    <2>1. PICK x, y : Goes(p, [at |-> "match", n |-> proc[p].n, related |-> x, sources |-> y])
      BY <1>2 DEF Correlate
    <2>2. PICK s : s = [at |-> "match", n |-> proc[p].n, related |-> x, sources |-> y]
      OBVIOUS
    <2>3. proc[p].at = "correlate" /\ UNCHANGED <<socRecords, quiet>>
      BY <1>2 DEF Correlate, stores, feed, ghosts, socRecords
    <2>4. ShapeOf(p, s)
      BY <1>1, <2>2, <2>3 DEF ShapeOf, RowStages
    <2>5. QED
      BY <2>1, <2>2, <2>3, <2>4 DEF Reaches
  <1>3. ASSUME MatchRules(p)
        PROVE  /\ proc[p].at = "match"
               /\ \E s : Reaches(p, s) /\ s.at = "windowed" /\ s.n = proc[p].n
    <2>1. PICK x, y, z : Goes(p, [at |-> "windowed", n |-> proc[p].n, related |-> x,
                                  sources |-> y, matched |-> z])
      BY <1>3 DEF MatchRules
    <2>2. PICK s : s = [at |-> "windowed", n |-> proc[p].n, related |-> x,
                        sources |-> y, matched |-> z]
      OBVIOUS
    <2>3. proc[p].at = "match" /\ UNCHANGED <<socRecords, quiet>>
      BY <1>3 DEF MatchRules, stores, feed, ghosts, socRecords
    <2>4. ShapeOf(p, s)
      BY <1>1, <2>2, <2>3 DEF ShapeOf, RowStages
    <2>5. QED
      BY <2>1, <2>2, <2>3, <2>4 DEF Reaches
  <1>4. ASSUME ListWindowed(p)
        PROVE  /\ proc[p].at = "windowed"
               /\ \E s : /\ Reaches(p, s) /\ s.at = "total" /\ s.n = proc[p].n
                         /\ s.todo = Enabled(TRUE)
    <2>1. PICK x, y, z, w : /\ w = Enabled(TRUE)
                            /\ Goes(p, [at |-> "total", n |-> proc[p].n, related |-> x,
                                        sources |-> y, matched |-> z, todo |-> w])
      BY <1>4 DEF ListWindowed
    <2>2. PICK s : s = [at |-> "total", n |-> proc[p].n, related |-> x,
                        sources |-> y, matched |-> z, todo |-> w]
      OBVIOUS
    <2>3. proc[p].at = "windowed" /\ UNCHANGED <<socRecords, quiet>>
      BY <1>4 DEF ListWindowed, stores, feed, ghosts, socRecords
    <2>4. w \subseteq RuleNames
      BY <2>1 DEF Enabled
    <2>5. ShapeOf(p, s)
      BY <1>1, <2>2, <2>3, <2>4 DEF ShapeOf, RowStages
    <2>6. s.at = "total" /\ s.n = proc[p].n /\ s.todo = Enabled(TRUE)
      BY <2>1, <2>2
    <2>7. Goes(p, s)
      BY <2>1, <2>2
    <2>8. QED
      BY <2>3, <2>5, <2>6, <2>7 DEF Reaches
  <1>5. QED
    BY <1>2, <1>3, <1>4

\* The count of a window, and the decision.
LEMMA DecidingSteps ==
  ASSUME SocTyped, NEW p \in Procs
  PROVE  /\ \A r \in RuleNames : CountTotal(p, r) =>
              /\ proc[p].at = "total" /\ r \in proc[p].todo
              /\ \E s : /\ Reaches(p, s) /\ s.n = proc[p].n
                        /\ \/ /\ Cardinality(Counted(r)) < RuleDef[r].count
                              /\ s.at = "total" /\ s.todo = proc[p].todo \ {r}
                           \/ /\ ~ (Cardinality(Counted(r)) < RuleDef[r].count)
                              /\ s.at = "before" /\ s.rule = r /\ s.todo = proc[p].todo
         /\ Decide(p) =>
              /\ proc[p].at = "total" /\ proc[p].todo = {}
              /\ \E s : /\ Reaches(p, s)
                        /\ \/ s = After(p) /\ ~ Gate(events[proc[p].n])
                           \/ s.at \in {"case", "alert"} /\ s.n = proc[p].n
  <1>1. ShapeOf(p, proc[p])
    BY DEF SocTyped, Shapes
  <1>2. ASSUME NEW r \in RuleNames, CountTotal(p, r)
        PROVE  /\ proc[p].at = "total" /\ r \in proc[p].todo
               /\ \E s : /\ Reaches(p, s) /\ s.n = proc[p].n
                         /\ \/ /\ Cardinality(Counted(r)) < RuleDef[r].count
                               /\ s.at = "total" /\ s.todo = proc[p].todo \ {r}
                            \/ /\ ~ (Cardinality(Counted(r)) < RuleDef[r].count)
                               /\ s.at = "before" /\ s.rule = r /\ s.todo = proc[p].todo
    <2>1. /\ proc[p].at = "total" /\ r \in proc[p].todo
          /\ UNCHANGED <<socRecords, quiet>>
      BY <1>2 DEF CountTotal, stores, feed, ghosts, socRecords
    <2>2. CASE Cardinality(Counted(r)) < RuleDef[r].count
      <3>1. PICK s : s = [proc[p] EXCEPT !.todo = @ \ {r}]
        OBVIOUS
      <3>2. Goes(p, s)
        BY <1>2, <2>2, <3>1 DEF CountTotal
      <3>3. s.at = "total" /\ s.n = proc[p].n /\ s.todo = proc[p].todo \ {r}
        BY <1>1, <2>1, <3>1 DEF ShapeOf, RowStages
      <3>4. ShapeOf(p, s)
        BY <1>1, <2>1, <3>1, <3>3 DEF ShapeOf, RowStages
      <3>5. QED
        BY <2>1, <2>2, <3>2, <3>3, <3>4 DEF Reaches
    <2>3. CASE ~ (Cardinality(Counted(r)) < RuleDef[r].count)
      <3>1. PICK s : s = [at |-> "before", n |-> proc[p].n, related |-> proc[p].related,
                          sources |-> proc[p].sources, matched |-> proc[p].matched,
                          todo |-> proc[p].todo, rule |-> r]
        OBVIOUS
      <3>2. Goes(p, s)
        BY <1>2, <2>3, <3>1 DEF CountTotal
      <3>3. /\ s.at = "before" /\ s.n = proc[p].n /\ s.todo = proc[p].todo /\ s.rule = r
            /\ DOMAIN s = {"at", "n", "related", "sources", "matched", "todo", "rule"}
        BY <3>1
      <3>4. ShapeOf(p, s)
        BY <1>1, <2>1, <3>3 DEF ShapeOf, RowStages
      <3>5. QED
        BY <2>1, <2>3, <3>2, <3>3, <3>4 DEF Reaches
    <2>4. QED
      BY <2>1, <2>2, <2>3
  <1>3. ASSUME Decide(p)
        PROVE  /\ proc[p].at = "total" /\ proc[p].todo = {}
               /\ \E s : /\ Reaches(p, s)
                         /\ \/ s = After(p) /\ ~ Gate(events[proc[p].n])
                            \/ s.at \in {"case", "alert"} /\ s.n = proc[p].n
    <2> DEFINE e == events[proc[p].n]
               matched == proc[p].matched
               risk == RiskScore(e, proc[p].related, proc[p].sources, matched)
               alert == [event |-> proc[p].n,
                         rule |-> IF matched = {} THEN NONE ELSE FirstRule(matched),
                         sev |-> FinalSeverity(e, matched, risk), status |-> "open",
                         case |-> 0, acknowledged |-> FALSE, resolved |-> FALSE]
               next == [at |-> IF OpensCase(matched, risk) THEN "case" ELSE "alert",
                        n |-> proc[p].n, alert |-> alert]
    <2>1. /\ proc[p].at = "total" /\ proc[p].todo = {}
          /\ UNCHANGED <<socRecords, quiet>>
      BY <1>3 DEF Decide, stores, feed, ghosts, socRecords
    <2>2. Goes(p, IF matched = {} /\ ~ Gate(e) THEN After(p) ELSE next)
      BY <1>3 DEF Decide
    <2>3. IsAlert(alert) /\ alert.event = proc[p].n
      BY <1>1, <2>1 DEF ShapeOf, IsAlert, RowStages
    <2> HIDE DEF alert
    <2>4. PICK s : s = next
      OBVIOUS
    <2>5. /\ s.at \in {"case", "alert"} /\ s.n = proc[p].n /\ s.alert = alert
          /\ DOMAIN s = {"at", "n", "alert"}
      BY <2>4
    <2>6. ShapeOf(p, s)
      BY <1>1, <2>1, <2>3, <2>5 DEF ShapeOf, RowStages
    <2> HIDE DEF next
    <2>7. CASE matched = {} /\ ~ Gate(e)
      BY <2>1, <2>2, <2>7, AfterShape DEF Reaches
    <2>8. CASE ~ (matched = {} /\ ~ Gate(e))
      BY <2>1, <2>2, <2>4, <2>5, <2>6, <2>8 DEF Reaches
    <2>9. QED
      BY <2>1, <2>7, <2>8
  <1>4. QED
    BY <1>2, <1>3

\* The commands that read before they write, and the feeder at the end of the file.
LEMMA CommandSteps ==
  ASSUME SocTyped, NEW t \in Terminals
  PROVE  /\ \A a \in DOMAIN alerts, c \in 0..MaxCases,
               status \in {"acknowledged", "resolved", "closed"} :
              AlertAction(t, a, status, c) =>
                \E s : /\ Starts(t, s) /\ UNCHANGED socRecords /\ ShapeOf(t, s)
                       /\ s.at = "stamp" /\ s.a = a
                       /\ s.acknowledged = alerts[a].acknowledged
                       /\ s.resolved = alerts[a].resolved
         /\ \A c \in DOMAIN cases :
              CaseNoteAdd(t, c) \/ CaseAddFinding(t, c) =>
                \E s : /\ Starts(t, s) /\ UNCHANGED socRecords /\ ShapeOf(t, s)
                       /\ s.at = "log" /\ s.entry \notin CaseStatuses
  <1>1. t \in Procs /\ t # Feeder
    BY DEF Terminals
  <1>2. ASSUME NEW a \in DOMAIN alerts, NEW c \in 0..MaxCases,
               NEW status \in {"acknowledged", "resolved", "closed"},
               AlertAction(t, a, status, c)
        PROVE  \E s : /\ Starts(t, s) /\ UNCHANGED socRecords /\ ShapeOf(t, s)
                      /\ s.at = "stamp" /\ s.a = a
                      /\ s.acknowledged = alerts[a].acknowledged
                      /\ s.resolved = alerts[a].resolved
    <2>1. PICK s : s = [at |-> "stamp", a |-> a, status |-> status, case |-> c,
                        acknowledged |-> alerts[a].acknowledged,
                        resolved |-> alerts[a].resolved]
      OBVIOUS
    <2>2. Starts(t, s) /\ UNCHANGED socRecords
      BY <1>2, <2>1 DEF AlertAction, stores, feed, ghosts, socRecords
    <2>3. alerts[a].acknowledged \in BOOLEAN /\ alerts[a].resolved \in BOOLEAN
      BY DEF SocTyped, AlertsOK, IsAlert
    <2>4. ShapeOf(t, s)
      BY <1>1, <2>1, <2>3 DEF ShapeOf, RowStages
    <2>5. QED
      BY <2>1, <2>2, <2>4
  <1>3. ASSUME NEW c \in DOMAIN cases, CaseNoteAdd(t, c) \/ CaseAddFinding(t, c)
        PROVE  \E s : /\ Starts(t, s) /\ UNCHANGED socRecords /\ ShapeOf(t, s)
                      /\ s.at = "log" /\ s.entry \notin CaseStatuses
    <2>1. PICK entry \in {"note", "finding"} : Starts(t, Log(c, entry))
      BY <1>3 DEF CaseNoteAdd, CaseAddFinding
    <2>2. PICK s : s = Log(c, entry)
      OBVIOUS
    <2>3. UNCHANGED socRecords
      BY <1>3 DEF CaseNoteAdd, CaseAddFinding, stores, feed, ghosts, socRecords
    <2>4. s.at = "log" /\ s.case = c /\ s.entry = entry /\ DOMAIN s = {"at", "case", "entry"}
      BY <2>2 DEF Log
    <2>5. ShapeOf(t, s)
      BY <1>1, <2>4 DEF ShapeOf, RowStages
    <2>6. QED
      BY <2>1, <2>2, <2>3, <2>4, <2>5 DEF CaseStatuses
  <1>4. QED
    BY <1>2, <1>3

-----------------------------------------------------------------------------
(***************************************************************************)
(* The steps that write keep the types.                                    *)
(***************************************************************************)

\* A table that is not written keeps its type.
LEMMA TablesKeep ==
  ASSUME SocTyped, Growing
  PROVE  /\ UNCHANGED <<file, pending, offset, missed>> => FileOK'
         /\ UNCHANGED events => EventsOK'
         /\ UNCHANGED alerts => AlertsOK'
         /\ UNCHANGED cases => CasesOK'
         /\ UNCHANGED <<rules, burst, excused>> => RulesOK'
  <1>1. UNCHANGED <<file, pending, offset, missed>> => FileOK'
    BY DEF SocTyped, FileOK
  <1>2. UNCHANGED events => EventsOK'
    BY DEF SocTyped, EventsOK, IsEvent
  <1>3. UNCHANGED alerts => AlertsOK'
    BY DEF SocTyped, AlertsOK, IsAlert, Growing
  <1>4. UNCHANGED cases => CasesOK'
    BY DEF SocTyped, CasesOK, IsCase, Growing
  <1>5. UNCHANGED <<rules, burst, excused>> => RulesOK'
    BY DEF SocTyped, RulesOK, Growing
  <1>6. QED
    BY <1>1, <1>2, <1>3, <1>4, <1>5

LEMMA DeskKeeps ==
  ASSUME SocTyped, Growing, NEW p \in Procs, NEW s, ShapeOf(p, s)',
         \/ Goes(p, s) /\ (UNCHANGED quiet \/ Updates(p) \/ quiet' = [quiet EXCEPT ![p] = TRUE])
         \/ Starts(p, s)
  PROVE  DeskOK' /\ Shapes'
  <1>1. proc' = [proc EXCEPT ![p] = s]
    BY DEF Goes, Starts
  <1>2. Shapes' /\ proc' = [q \in Procs |-> proc'[q]]
    BY <1>1, ShapesMove
  <1>3. quiet' \in [Procs -> BOOLEAN]
    BY DEF SocTyped, DeskOK, Goes, Starts, Updates
  <1>4. work' \in [Procs -> 0..MaxWork]
    BY BoundsAssumption DEF SocTyped, DeskOK, Goes, Starts
  <1>5. QED
    BY <1>2, <1>3, <1>4 DEF DeskOK

LEMMA RecountType ==
  ASSUME RulesOK, NEW r \in RuleNames, NEW clean \in BOOLEAN
  PROVE  Recount(r, clean) \in [fired : Nat, clean : BOOLEAN]
  <1>1. burst[r] \in [fired : Nat, clean : BOOLEAN]
    BY DEF RulesOK
  <1>2. [burst[r] EXCEPT !.clean = @ /\ clean] \in [fired : Nat, clean : BOOLEAN]
    BY <1>1
  <1>3. QED
    BY <1>2 DEF Recount

\* The row of an event and the count of the windows it falls in are written
\* together; a duplicate changes nothing.
Inserts(p) ==
  /\ \A n \in DOMAIN events : events[n].eid # proc[p].ev.eid
  /\ events' = Append(events, proc[p].ev)
  /\ Goes(p, [at |-> "correlate", n |-> Len(events) + 1])
  /\ burst' = [r \in RuleNames |-> Recount(r, \A q \in Procs : RowOf(q) = 0)]
  /\ UNCHANGED <<rules, alerts, cases, file, pending, offset, missed, excused, quiet>>

LEMMA InsertSteps ==
  ASSUME NEW p \in Procs, InsertEvent(p)
  PROVE  /\ proc[p].at = "insert"
         /\ \/ /\ \E n \in DOMAIN events : events[n].eid = proc[p].ev.eid
               /\ Goes(p, After(p)) /\ UNCHANGED <<socRecords, quiet>>
            \/ Inserts(p)
  BY DEF InsertEvent, Inserts, feed, socRecords

LEMMA TypedInsert ==
  ASSUME SocTyped, NEW p \in Procs, InsertEvent(p)
  PROVE  SocTyped'
  <1>1. ShapeOf(p, proc[p]) /\ proc[p].at = "insert"
    BY InsertSteps DEF SocTyped, Shapes
  <1>2. CASE Goes(p, After(p)) /\ UNCHANGED <<socRecords, quiet>>
    <2>1. PICK s : s = After(p)
      OBVIOUS
    <2>2. QED
      BY <1>2, <2>1, AfterShape, TypedMove
  <1>3. CASE Inserts(p)
    <2> USE <1>3
    <2>1. IsEvent(proc[p].ev) /\ Rows(events)
      BY <1>1 DEF ShapeOf, SocTyped, EventsOK
    <2>2. /\ Rows(events') /\ Len(events) \in Nat /\ DOMAIN events = 1..Len(events)
          /\ DOMAIN events' = 1..(Len(events) + 1)
          /\ \A n \in DOMAIN events : events'[n] = events[n]
          /\ events'[Len(events) + 1] = proc[p].ev
      BY <2>1, AppendRow DEF Inserts
    <2>3. Growing
      BY <2>2 DEF Growing, Inserts
    <2>4. EventsOK'
      BY <2>1, <2>2 DEF EventsOK, SocTyped, IsEvent
    <2>5. FileOK' /\ AlertsOK' /\ CasesOK'
      BY <2>3, TablesKeep DEF Inserts
    <2>6. RulesOK'
      <3>1. \A r \in RuleNames : burst'[r] \in [fired : Nat, clean : BOOLEAN]
        BY RecountType DEF Inserts, SocTyped
      <3>2. burst' \in [RuleNames -> [fired : Nat, clean : BOOLEAN]]
        BY <3>1 DEF Inserts
      <3>3. QED
        BY <2>3, <3>2 DEF RulesOK, Inserts, Growing, SocTyped
    <2>7. PICK s : s = [at |-> "correlate", n |-> Len(events) + 1]
      OBVIOUS
    <2>8. ShapeOf(p, s)'
      BY <2>2, <2>7 DEF ShapeOf, RowStages
    <2>9. DeskOK' /\ Shapes'
      BY <2>3, <2>7, <2>8, DeskKeeps DEF Inserts
    <2>10. QED
      BY <2>4, <2>5, <2>6, <2>9 DEF SocTyped
  <1>4. QED
    BY <1>2, <1>3, InsertSteps

\* The count without the row: the rule fires or not, and is done with.
Counts(p, s) ==
  LET r == proc[p].rule IN
  /\ proc[p].at = "before" /\ r \in proc[p].todo
  /\ Goes(p, s) /\ ShapeOf(p, s)
  /\ s.at = "total" /\ s.n = proc[p].n /\ s.todo = proc[p].todo \ {r}
  /\ \A q \in RuleNames :
       /\ burst'[q].clean = burst[q].clean
       /\ burst'[q].fired = IF q = r /\ Cardinality(Counted(r) \ {proc[p].n}) < RuleDef[r].count
                            THEN burst[q].fired + 1 ELSE burst[q].fired
  /\ burst' \in [RuleNames -> [fired : Nat, clean : BOOLEAN]]
  /\ UNCHANGED <<stores, feed, excused, quiet>>

LEMMA CountSteps ==
  ASSUME SocTyped, NEW p \in Procs, CountBefore(p)
  PROVE  \E s : Counts(p, s)
  <1> DEFINE r == proc[p].rule
             fires == Cardinality(Counted(r) \ {proc[p].n}) < RuleDef[r].count
             x == IF fires THEN burst[r].fired + 1 ELSE burst[r].fired
  <1>1. ShapeOf(p, proc[p]) /\ proc[p].at = "before"
    BY DEF SocTyped, Shapes, CountBefore
  <1>2. r \in RuleNames /\ r \in proc[p].todo
    BY <1>1 DEF ShapeOf
  <1>3. PICK m : Goes(p, [at |-> "total", n |-> proc[p].n, related |-> proc[p].related,
                          sources |-> proc[p].sources, todo |-> proc[p].todo \ {r},
                          matched |-> m])
    BY DEF CountBefore
  <1>4. PICK s : s = [at |-> "total", n |-> proc[p].n, related |-> proc[p].related,
                      sources |-> proc[p].sources, todo |-> proc[p].todo \ {r}, matched |-> m]
    OBVIOUS
  <1>5. /\ s.at = "total" /\ s.n = proc[p].n /\ s.todo = proc[p].todo \ {r}
        /\ DOMAIN s = {"at", "n", "related", "sources", "todo", "matched"}
    BY <1>4
  <1>6. ShapeOf(p, s)
    BY <1>1, <1>5 DEF ShapeOf, RowStages
  <1>7. burst' = [burst EXCEPT ![r].fired = x] /\ UNCHANGED <<stores, feed, excused, quiet>>
    BY DEF CountBefore
  <1>8. burst[r] \in [fired : Nat, clean : BOOLEAN] /\ x \in Nat
    BY <1>2 DEF SocTyped, RulesOK
  <1> DEFINE row == [burst[r] EXCEPT !.fired = x]
  <1>9. row \in [fired : Nat, clean : BOOLEAN] /\ row.fired = x /\ row.clean = burst[r].clean
    <2> HIDE DEF x
    <2>1. QED
      BY <1>8
  <1>10. burst' = [burst EXCEPT ![r] = row]
    BY <1>7
  <1> HIDE DEF row
  <1>11. /\ burst' \in [RuleNames -> [fired : Nat, clean : BOOLEAN]]
         /\ \A q \in RuleNames : burst'[q] = IF q = r THEN row ELSE burst[q]
    BY <1>2, <1>9, <1>10 DEF SocTyped, RulesOK
  <1>12. \A q \in RuleNames :
           /\ burst'[q].clean = burst[q].clean
           /\ burst'[q].fired = IF q = r /\ fires THEN burst[q].fired + 1 ELSE burst[q].fired
    <2> HIDE DEF fires
    <2>1. QED
      BY <1>9, <1>11 DEF x
  <1>13. Goes(p, s)
    BY <1>3, <1>4
  <1>14. QED
    BY <1>1, <1>2, <1>5, <1>6, <1>7, <1>11, <1>12, <1>13 DEF Counts

LEMMA TypedCount ==
  ASSUME SocTyped, NEW p \in Procs, CountBefore(p)
  PROVE  SocTyped'
  <1>1. PICK s : Counts(p, s)
    BY CountSteps
  <1>2. Growing
    BY <1>1 DEF Counts, Growing, stores
  <1>3. FileOK' /\ EventsOK' /\ AlertsOK' /\ CasesOK'
    BY <1>1, <1>2, TablesKeep DEF Counts, stores, feed
  <1>4. RulesOK'
    BY <1>1, <1>2 DEF Counts, SocTyped, RulesOK, stores, Growing
  <1>5. ShapeOf(p, s)'
    BY <1>1, <1>2, ShapeGrows DEF Counts
  <1>6. DeskOK' /\ Shapes'
    BY <1>1, <1>2, <1>5, DeskKeeps DEF Counts
  <1>7. QED
    BY <1>3, <1>4, <1>6 DEF SocTyped

\* One row of the cases is appended or written.
LEMMA CaseRows ==
  ASSUME SocTyped, NEW x, UNCHANGED events,
         DOMAIN x = {"for", "status", "log", "split"}, x.for \in {0} \cup DOMAIN events,
         x.status \in CaseStatuses, Rows(x.log), x.split \in BOOLEAN
  PROVE  /\ cases' = Append(cases, x) =>
              /\ CasesOK' /\ Len(cases) \in Nat
              /\ DOMAIN cases = 1..Len(cases) /\ DOMAIN cases' = 1..(Len(cases) + 1)
              /\ \A c \in DOMAIN cases : cases'[c] = cases[c]
              /\ cases'[Len(cases) + 1] = x
         /\ \A d \in DOMAIN cases : cases' = [cases EXCEPT ![d] = x] =>
              /\ CasesOK' /\ DOMAIN cases' = DOMAIN cases
              /\ \A c \in DOMAIN cases : cases'[c] = IF c = d THEN x ELSE cases[c]
  <1>1. Rows(cases) /\ \A c \in DOMAIN cases : IsCase(cases[c])
    BY DEF SocTyped, CasesOK
  <1>2. ASSUME cases' = Append(cases, x)
        PROVE  /\ CasesOK' /\ Len(cases) \in Nat
               /\ DOMAIN cases = 1..Len(cases) /\ DOMAIN cases' = 1..(Len(cases) + 1)
               /\ \A c \in DOMAIN cases : cases'[c] = cases[c]
               /\ cases'[Len(cases) + 1] = x
    <2>1. /\ Rows(cases') /\ Len(cases) \in Nat /\ DOMAIN cases = 1..Len(cases)
          /\ DOMAIN cases' = 1..(Len(cases) + 1)
          /\ \A c \in DOMAIN cases : cases'[c] = cases[c]
          /\ cases'[Len(cases) + 1] = x
      BY <1>1, <1>2, AppendRow
    <2>2. CasesOK'
      BY <1>1, <2>1 DEF CasesOK, IsCase
    <2>3. QED
      BY <2>1, <2>2
  <1>3. ASSUME NEW d \in DOMAIN cases, cases' = [cases EXCEPT ![d] = x]
        PROVE  /\ CasesOK' /\ DOMAIN cases' = DOMAIN cases
               /\ \A c \in DOMAIN cases : cases'[c] = IF c = d THEN x ELSE cases[c]
    <2>1. /\ Rows(cases') /\ DOMAIN cases' = DOMAIN cases
          /\ \A c \in DOMAIN cases : cases'[c] = IF c = d THEN x ELSE cases[c]
      BY <1>1, <1>3, UpdateRow
    <2>2. CasesOK'
      BY <1>1, <2>1 DEF CasesOK, IsCase
    <2>3. QED
      BY <2>1, <2>2
  <1>4. QED
    BY <1>2, <1>3

\* What a timeline entry makes of a row.
LEMMA LoggedRow ==
  ASSUME SocTyped, NEW c \in DOMAIN cases, NEW entry, UNCHANGED events,
         cases' = Logged(cases, c, entry)
  PROVE  /\ CasesOK' /\ DOMAIN cases' = DOMAIN cases
         /\ \A d \in DOMAIN cases \ {c} : cases'[d] = cases[d]
         /\ cases'[c].for = cases[c].for /\ cases'[c].status = cases[c].status
         /\ cases'[c].split = cases[c].split
         /\ cases'[c].log = Append(cases[c].log, entry)
  <1> DEFINE x == [cases[c] EXCEPT !.log = Append(cases[c].log, entry)]
  <1>1. IsCase(cases[c])
    BY DEF SocTyped, CasesOK
  <1>2. Rows(Append(cases[c].log, entry))
    BY <1>1, AppendRow DEF IsCase
  <1>3. PICK l : l = Append(cases[c].log, entry)
    OBVIOUS
  <1>4. x = [cases[c] EXCEPT !.log = l]
    BY <1>3
  <1>5. /\ DOMAIN x = {"for", "status", "log", "split"} /\ x.for = cases[c].for
        /\ x.status = cases[c].status /\ x.split = cases[c].split /\ x.log = l
    BY <1>1, <1>4 DEF IsCase
  <1>6. cases' = [cases EXCEPT ![c] = x]
    BY DEF Logged
  <1> HIDE DEF x
  <1>7. PICK y : y = x
    OBVIOUS
  <1>8. /\ CasesOK' /\ DOMAIN cases' = DOMAIN cases
        /\ \A d \in DOMAIN cases : cases'[d] = IF d = c THEN y ELSE cases[d]
    BY <1>1, <1>2, <1>3, <1>5, <1>6, <1>7, CaseRows DEF IsCase
  <1>9. QED
    BY <1>3, <1>5, <1>7, <1>8

\* A case is opened for a row; the alert that is carried names it.
Opens(p, s) ==
  /\ proc[p].at = "case" /\ s.at = "timeline" /\ s.n = proc[p].n
  /\ s.alert.case = Len(cases) + 1
  /\ cases' = Append(cases, NewCase(proc[p].n))
  /\ Goes(p, s) /\ ShapeOf(p, s)'
  /\ UNCHANGED <<events, rules, alerts, feed, ghosts, quiet>>

LEMMA NewCaseRow ==
  ASSUME NEW n
  PROVE  /\ DOMAIN NewCase(n) = {"for", "status", "log", "split"}
         /\ NewCase(n).for = n /\ NewCase(n).status = "open" /\ NewCase(n).log = <<>>
         /\ NewCase(n).split = FALSE /\ Rows(<<>>)
  <1>1. Rows(<<>>)
    BY EmptySeq DEF Rows
  <1>2. QED
    BY <1>1 DEF NewCase

LEMMA OpenSteps ==
  ASSUME SocTyped, NEW p \in Procs, OpenCase(p)
  PROVE  /\ CasesOK' /\ Len(cases) \in Nat
         /\ DOMAIN cases = 1..Len(cases) /\ DOMAIN cases' = 1..(Len(cases) + 1)
         /\ \A c \in DOMAIN cases : cases'[c] = cases[c]
         /\ cases'[Len(cases) + 1] = NewCase(proc[p].n)
         /\ \E s : Opens(p, s)
  <1>1. ShapeOf(p, proc[p]) /\ proc[p].at = "case"
    BY DEF SocTyped, Shapes, OpenCase
  <1>2. PICK x : x = NewCase(proc[p].n)
    OBVIOUS
  <1>3. /\ DOMAIN x = {"for", "status", "log", "split"} /\ x.for \in {0} \cup DOMAIN events
        /\ x.status \in CaseStatuses /\ Rows(x.log) /\ x.split \in BOOLEAN
    BY <1>1, <1>2, NewCaseRow DEF ShapeOf, RowStages, CaseStatuses
  <1>4. cases' = Append(cases, x) /\ UNCHANGED events
    BY <1>2 DEF OpenCase
  <1>5. /\ CasesOK' /\ Len(cases) \in Nat
        /\ DOMAIN cases = 1..Len(cases) /\ DOMAIN cases' = 1..(Len(cases) + 1)
        /\ \A c \in DOMAIN cases : cases'[c] = cases[c]
        /\ cases'[Len(cases) + 1] = x
    BY <1>3, <1>4, CaseRows
  <1> DEFINE al == [proc[p].alert EXCEPT !.case = Len(cases) + 1]
  <1>6. PICK a : a = al
    OBVIOUS
  <1>7. PICK s : s = [[proc[p] EXCEPT !.at = "timeline"] EXCEPT !.alert = a]
    OBVIOUS
  <1>8. Goes(p, s)
    BY <1>6, <1>7 DEF OpenCase
  <1>9. /\ DOMAIN s = {"at", "n", "alert"} /\ s.at = "timeline" /\ s.n = proc[p].n
        /\ s.alert = a
    <2>1. PICK m : m = [proc[p] EXCEPT !.at = "timeline"]
      OBVIOUS
    <2>2. DOMAIN m = {"at", "n", "alert"} /\ m.at = "timeline" /\ m.n = proc[p].n
      BY <1>1, <2>1 DEF ShapeOf
    <2>3. s = [m EXCEPT !.alert = a]
      BY <1>7, <2>1
    <2>4. QED
      BY <2>2, <2>3
  <1>10. /\ IsAlert(proc[p].alert) /\ proc[p].alert.event = proc[p].n
         /\ proc[p].n \in DOMAIN events
    BY <1>1 DEF ShapeOf, RowStages
  <1>11. /\ DOMAIN a = DOMAIN proc[p].alert /\ a.case = Len(cases) + 1
         /\ a.event = proc[p].n /\ a.status = proc[p].alert.status
         /\ a.acknowledged = proc[p].alert.acknowledged /\ a.resolved = proc[p].alert.resolved
    BY <1>6, <1>10 DEF IsAlert
  <1>12. IsAlert(a)'
    BY <1>4, <1>5, <1>10, <1>11 DEF IsAlert
  <1>13. ShapeOf(p, s)'
    BY <1>1, <1>4, <1>5, <1>9, <1>10, <1>11, <1>12 DEF ShapeOf, RowStages
  <1>14. Opens(p, s)
    BY <1>1, <1>8, <1>9, <1>11, <1>13 DEF Opens, OpenCase
  <1>15. QED
    BY <1>2, <1>5, <1>14

LEMMA TypedOpen ==
  ASSUME SocTyped, NEW p \in Procs, OpenCase(p)
  PROVE  SocTyped'
  <1>1. PICK s : Opens(p, s)
    BY OpenSteps
  <1>2. Growing
    BY <1>1, OpenSteps DEF Growing, Opens
  <1>3. FileOK' /\ EventsOK' /\ AlertsOK' /\ RulesOK'
    BY <1>1, <1>2, TablesKeep DEF Opens, feed, ghosts
  <1>4. DeskOK' /\ Shapes'
    BY <1>1, <1>2, DeskKeeps DEF Opens
  <1>5. QED
    BY <1>3, <1>4, OpenSteps DEF SocTyped

\* The timeline entry of an opened case; the alert is next.
Tells(p, s) ==
  /\ proc[p].at = "timeline" /\ s.at = "alert" /\ s.n = proc[p].n
  /\ proc[p].alert.case \in DOMAIN cases
  /\ cases' = Logged(cases, proc[p].alert.case, "open")
  /\ Goes(p, s) /\ ShapeOf(p, s)
  /\ UNCHANGED <<events, rules, alerts, feed, ghosts, quiet>>

LEMMA TellSteps ==
  ASSUME SocTyped, NEW p \in Procs, LogOpened(p)
  PROVE  \E s : Tells(p, s)
  <1>1. ShapeOf(p, proc[p]) /\ proc[p].at = "timeline"
    BY DEF SocTyped, Shapes, LogOpened
  <1>2. PICK s : s = [proc[p] EXCEPT !.at = "alert"]
    OBVIOUS
  <1>3. /\ DOMAIN s = {"at", "n", "alert"} /\ s.at = "alert" /\ s.n = proc[p].n
        /\ s.alert = proc[p].alert
    BY <1>1, <1>2 DEF ShapeOf
  <1>4. ShapeOf(p, s)
    BY <1>1, <1>3 DEF ShapeOf, RowStages
  <1>5. proc[p].alert.case \in DOMAIN cases
    BY <1>1 DEF ShapeOf
  <1>6. QED
    BY <1>1, <1>2, <1>3, <1>4, <1>5 DEF LogOpened, Tells

LEMMA TypedTell ==
  ASSUME SocTyped, NEW p \in Procs, LogOpened(p)
  PROVE  SocTyped'
  <1>1. PICK s : Tells(p, s)
    BY TellSteps
  <1>2. PICK c : c = proc[p].alert.case
    OBVIOUS
  <1>3. CasesOK' /\ DOMAIN cases' = DOMAIN cases
    BY <1>1, <1>2, LoggedRow DEF Tells
  <1>4. Growing
    BY <1>1, <1>3 DEF Growing, Tells
  <1>5. FileOK' /\ EventsOK' /\ AlertsOK' /\ RulesOK'
    BY <1>1, <1>4, TablesKeep DEF Tells, feed, ghosts
  <1>6. ShapeOf(p, s)'
    BY <1>1, <1>4, ShapeGrows DEF Tells
  <1>7. DeskOK' /\ Shapes'
    BY <1>1, <1>4, <1>6, DeskKeeps DEF Tells
  <1>8. QED
    BY <1>3, <1>5, <1>7 DEF SocTyped

\* The alert is stored, or its rule is gone and the ingest raises.
Alerted(p) ==
  /\ proc[p].at = "alert" /\ Goes(p, After(p))
  /\ \/ excused' = excused \cup {proc[p].n} /\ UNCHANGED alerts
     \/ alerts' = Append(alerts, proc[p].alert) /\ UNCHANGED excused
  /\ UNCHANGED <<events, rules, cases, feed, burst, quiet>>

LEMMA AlertSteps ==
  ASSUME NEW p \in Procs, CreateAlert(p)
  PROVE  Alerted(p)
  BY DEF CreateAlert, Alerted

LEMMA AppendedAlert ==
  ASSUME SocTyped, NEW p \in Procs, proc[p].at = "alert",
         alerts' = Append(alerts, proc[p].alert), UNCHANGED <<events, cases>>
  PROVE  /\ AlertsOK' /\ Len(alerts) \in Nat
         /\ DOMAIN alerts = 1..Len(alerts) /\ DOMAIN alerts' = 1..(Len(alerts) + 1)
         /\ \A a \in DOMAIN alerts : alerts'[a] = alerts[a]
         /\ alerts'[Len(alerts) + 1] = proc[p].alert
  <1>1. ShapeOf(p, proc[p]) /\ Rows(alerts) /\ \A a \in DOMAIN alerts : IsAlert(alerts[a])
    BY DEF SocTyped, Shapes, AlertsOK
  <1>2. IsAlert(proc[p].alert)
    BY <1>1 DEF ShapeOf
  <1>3. /\ Rows(alerts') /\ Len(alerts) \in Nat
        /\ DOMAIN alerts = 1..Len(alerts) /\ DOMAIN alerts' = 1..(Len(alerts) + 1)
        /\ \A a \in DOMAIN alerts : alerts'[a] = alerts[a]
        /\ alerts'[Len(alerts) + 1] = proc[p].alert
    BY <1>1, AppendRow
  <1>4. AlertsOK'
    BY <1>1, <1>2, <1>3 DEF AlertsOK, IsAlert
  <1>5. QED
    BY <1>3, <1>4

LEMMA TypedAlert ==
  ASSUME SocTyped, NEW p \in Procs, CreateAlert(p)
  PROVE  SocTyped'
  <1>1. Alerted(p) /\ ShapeOf(p, proc[p])
    BY AlertSteps DEF SocTyped, Shapes
  <1>2. Growing /\ AlertsOK'
    <2>1. CASE UNCHANGED alerts
      <3>1. Growing
        BY <1>1, <2>1 DEF Growing, Alerted
      <3>2. QED
        BY <2>1, <3>1, TablesKeep
    <2>2. CASE alerts' = Append(alerts, proc[p].alert)
      BY <1>1, <2>2, AppendedAlert DEF Growing, Alerted
    <2>3. QED
      BY <1>1, <2>1, <2>2 DEF Alerted
  <1>3. FileOK' /\ EventsOK' /\ CasesOK'
    BY <1>1, <1>2, TablesKeep DEF Alerted, feed
  <1>4. RulesOK'
    BY <1>1 DEF Alerted, SocTyped, RulesOK, ShapeOf, RowStages
  <1>5. PICK s : s = After(p)
    OBVIOUS
  <1>6. ShapeOf(p, s)'
    BY <1>2, <1>5, AfterShape, ShapeGrows
  <1>7. DeskOK' /\ Shapes'
    BY <1>1, <1>2, <1>5, <1>6, DeskKeeps DEF Alerted
  <1>8. QED
    BY <1>2, <1>3, <1>4, <1>7 DEF SocTyped

\* A process is cut short.
Fails(p) ==
  /\ Broken(p)
  /\ \/ Goes(p, After(p)) /\ UNCHANGED offset
     \/ Goes(p, resting) /\ offset' = (IF p = Feeder THEN 0 ELSE offset)
  /\ missed' \subseteq missed \cup Lines /\ missed \subseteq missed'

\* What a failure writes: the ghosts of the row, of the bursts and of the case.
LEMMA BrokenWrites ==
  ASSUME SocTyped, NEW p \in Procs, Broken(p)
  PROVE  /\ RowOf(p) \in {0} \cup DOMAIN events /\ LogOf(p) \in {0} \cup DOMAIN cases
         /\ excused' = IF RowOf(p) = 0 THEN excused ELSE excused \cup {RowOf(p)}
         /\ burst' \in [RuleNames -> [fired : Nat, clean : BOOLEAN]]
         /\ \A r \in RuleNames : /\ burst'[r].fired = burst[r].fired
                                 /\ burst'[r].clean = (burst[r].clean /\ RowOf(p) = 0)
         /\ CasesOK' /\ DOMAIN cases' = DOMAIN cases
         /\ \A c \in DOMAIN cases :
              /\ cases'[c].for = cases[c].for /\ cases'[c].status = cases[c].status
              /\ cases'[c].log = cases[c].log
              /\ cases'[c].split = (cases[c].split \/ c = LogOf(p))
  <1>1. ShapeOf(p, proc[p])
    BY DEF SocTyped, Shapes
  <1>2. RowOf(p) \in {0} \cup DOMAIN events
    BY <1>1 DEF ShapeOf, RowOf
  <1>3. LogOf(p) \in {0} \cup DOMAIN cases
    BY <1>1 DEF ShapeOf, LogOf
  <1>4. PICK c : c = LogOf(p)
    OBVIOUS
  <1>5. excused' = IF RowOf(p) = 0 THEN excused ELSE excused \cup {RowOf(p)}
    BY DEF Broken
  <1>6. /\ burst' \in [RuleNames -> [fired : Nat, clean : BOOLEAN]]
        /\ \A r \in RuleNames : /\ burst'[r].fired = burst[r].fired
                                /\ burst'[r].clean = (burst[r].clean /\ RowOf(p) = 0)
    <2>1. PICK none : none = (RowOf(p) = 0) /\ none \in BOOLEAN
      OBVIOUS
    <2>2. burst' = [r \in RuleNames |-> [burst[r] EXCEPT !.clean = @ /\ none]]
      BY <2>1 DEF Broken
    <2>3. ASSUME NEW r \in RuleNames
          PROVE  /\ burst'[r] \in [fired : Nat, clean : BOOLEAN]
                 /\ burst'[r].fired = burst[r].fired
                 /\ burst'[r].clean = (burst[r].clean /\ none)
      BY <2>1, <2>2 DEF SocTyped, RulesOK
    <2>4. QED
      BY <2>1, <2>2, <2>3
  <1>7. Rows(cases) /\ \A d \in DOMAIN cases : IsCase(cases[d])
    BY DEF SocTyped, CasesOK
  <1>8. CASE c = 0
    <2>1. UNCHANGED <<cases, events>>
      BY <1>4, <1>8 DEF Broken
    <2>2. 0 \notin DOMAIN cases
      BY <1>7 DEF Rows
    <2>3. CasesOK'
      BY <1>7, <2>1 DEF CasesOK, IsCase
    <2>4. \A d \in DOMAIN cases : cases[d].split \in BOOLEAN
      BY <1>7 DEF IsCase
    <2>5. QED
      BY <1>2, <1>3, <1>4, <1>5, <1>6, <1>8, <2>1, <2>2, <2>3, <2>4
  <1>9. CASE c # 0
    <2>1. PICK x : x = [cases[c] EXCEPT !.split = TRUE]
      OBVIOUS
    <2>2. c \in DOMAIN cases /\ UNCHANGED events /\ IsCase(cases[c])
      BY <1>3, <1>4, <1>7, <1>9 DEF Broken
    <2>3. cases' = [cases EXCEPT ![c] = x]
      BY <1>4, <1>9, <2>1 DEF Broken
    <2>4. /\ DOMAIN x = {"for", "status", "log", "split"} /\ x.for = cases[c].for
          /\ x.status = cases[c].status /\ x.log = cases[c].log /\ x.split = TRUE
      BY <2>1, <2>2 DEF IsCase
    <2>5. /\ CasesOK' /\ DOMAIN cases' = DOMAIN cases
          /\ \A d \in DOMAIN cases : cases'[d] = IF d = c THEN x ELSE cases[d]
      BY <2>2, <2>3, <2>4, CaseRows DEF IsCase
    <2>6. \A d \in DOMAIN cases : cases[d].split \in BOOLEAN
      BY <1>7 DEF IsCase
    <2>7. \A d \in DOMAIN cases :
              /\ cases'[d].for = cases[d].for /\ cases'[d].status = cases[d].status
              /\ cases'[d].log = cases[d].log
              /\ cases'[d].split = (cases[d].split \/ d = c)
      BY <2>4, <2>5, <2>6
    <2>8. QED
      BY <1>2, <1>3, <1>4, <1>5, <1>6, <2>5, <2>7
  <1>10. QED
    BY <1>8, <1>9

LEMMA FailSteps ==
  ASSUME SocTyped, NEW p \in Procs
  PROVE  /\ Raised(p) => /\ Fails(p) /\ Goes(p, After(p)) /\ UNCHANGED offset
                         /\ proc[p].at \in SocStages \ {"reading"}
                         /\ "line" \in DOMAIN proc[p] => missed' = missed \cup {proc[p].line}
                         /\ "line" \notin DOMAIN proc[p] => missed' = missed
         /\ Killed(p) => /\ Fails(p) /\ Goes(p, resting) /\ UNCHANGED missed
                         /\ offset' = (IF p = Feeder THEN 0 ELSE offset)
                         /\ proc[p].at \in SocStages \/ p = Feeder
  <1>1. ShapeOf(p, proc[p])
    BY DEF SocTyped, Shapes
  <1>2. "line" \in DOMAIN proc[p] => proc[p].line \in Lines
    BY <1>1 DEF ShapeOf
  <1>3. QED
    BY <1>2 DEF Raised, Killed, Fails

LEMMA TypedFail ==
  ASSUME SocTyped, NEW p \in Procs, Fails(p)
  PROVE  SocTyped'
  <1>1. Growing
    BY BrokenWrites DEF Fails, Broken, Growing
  <1>2. EventsOK' /\ AlertsOK' /\ CasesOK'
    BY <1>1, TablesKeep, BrokenWrites DEF Fails, Broken
  <1>3. RulesOK'
    BY BrokenWrites DEF Fails, Broken, SocTyped, RulesOK
  <1>4. FileOK'
    BY BoundsAssumption DEF Fails, Broken, SocTyped, FileOK
  <1>5. PICK s : s \in {After(p), resting} /\ Goes(p, s)
    BY DEF Fails
  <1>6. ShapeOf(p, s)'
    BY <1>1, <1>5, AfterShape, ShapeGrows
  <1>7. DeskOK' /\ Shapes'
    BY <1>1, <1>5, <1>6, DeskKeeps DEF Fails, Broken
  <1>8. QED
    BY <1>2, <1>3, <1>4, <1>7 DEF SocTyped

\* A row leaves the windows.
LEMMA SlideWrites ==
  ASSUME SocTyped, WindowSlides
  PROVE  /\ EventsOK' /\ DOMAIN events' = DOMAIN events
         /\ \A n \in DOMAIN events : /\ events'[n].eid = events[n].eid
                                     /\ events'[n].type = events[n].type
                                     /\ events'[n].sev = events[n].sev
                                     /\ events'[n].ip = events[n].ip
                                     /\ events'[n].fresh => events[n].fresh
         /\ burst' = [r \in RuleNames |-> Recount(r, \A q \in Procs : RowOf(q) = 0)]
         /\ UNCHANGED <<rules, alerts, cases, feed, proc, quiet, work, excused>>
  <1>1. PICK n \in DOMAIN events : events' = [events EXCEPT ![n].fresh = FALSE]
    BY DEF WindowSlides
  <1>2. Rows(events) /\ \A m \in DOMAIN events : IsEvent(events[m])
    BY DEF SocTyped, EventsOK
  <1>3. PICK x : x = [events[n] EXCEPT !.fresh = FALSE]
    OBVIOUS
  <1>4. /\ DOMAIN x = DOMAIN events[n] /\ x.eid = events[n].eid /\ x.type = events[n].type
        /\ x.sev = events[n].sev /\ x.ip = events[n].ip /\ x.fresh = FALSE
    BY <1>2, <1>3 DEF IsEvent
  <1>5. events' = [events EXCEPT ![n] = x]
    BY <1>1, <1>3
  <1>6. /\ Rows(events') /\ DOMAIN events' = DOMAIN events
        /\ \A m \in DOMAIN events : events'[m] = IF m = n THEN x ELSE events[m]
    BY <1>2, <1>5, UpdateRow
  <1>7. EventsOK'
    BY <1>2, <1>4, <1>6 DEF EventsOK, IsEvent
  <1>8. QED
    BY <1>4, <1>6, <1>7 DEF WindowSlides

LEMMA TypedSlide ==
  ASSUME SocTyped, WindowSlides
  PROVE  SocTyped'
  <1>1. Growing
    BY SlideWrites DEF Growing
  <1>2. FileOK' /\ AlertsOK' /\ CasesOK'
    BY <1>1, TablesKeep, SlideWrites DEF feed
  <1>3. RulesOK'
    <2>1. \A r \in RuleNames : burst'[r] \in [fired : Nat, clean : BOOLEAN]
      BY RecountType, SlideWrites DEF SocTyped
    <2>2. burst' \in [RuleNames -> [fired : Nat, clean : BOOLEAN]]
      BY <2>1, SlideWrites
    <2>3. QED
      BY <2>2, SlideWrites DEF RulesOK, SocTyped
  <1>4. DeskOK'
    BY SlideWrites DEF SocTyped, DeskOK
  <1>5. Shapes'
    <2>1. ASSUME NEW q \in Procs
          PROVE  ShapeOf(q, proc[q])'
      <3>1. PICK s : s = proc[q]
        OBVIOUS
      <3>2. ShapeOf(q, s)'
        BY <1>1, <3>1, ShapeGrows DEF SocTyped, Shapes
      <3>3. QED
        BY <3>1, <3>2, SlideWrites DEF ShapeOf, IsAlert
    <2>2. QED
      BY <2>1 DEF Shapes
  <1>6. QED
    BY <1>2, <1>3, <1>4, <1>5, SlideWrites DEF SocTyped

\* A rule is added, switched or deleted; its burst is no longer clean.
RuleSet(t, r) ==
  /\ Commands(t) /\ rules' \in [RuleNames -> {"on", "off", "none"}]
  /\ burst' \in [RuleNames -> [fired : Nat, clean : BOOLEAN]]
  /\ \A q \in RuleNames \ {r} : rules'[q] = rules[q] /\ burst'[q] = burst[q]
  /\ burst'[r].clean = FALSE
  /\ rules'[r] # "none" => rules[r] # "none" \/ ValidRule(r)
  /\ UNCHANGED <<events, alerts, cases, feed, excused>>

LEMMA RuleSteps ==
  ASSUME SocTyped, NEW t \in Procs, RuleStep(t)
  PROVE  \E r \in RuleNames : RuleSet(t, r)
  <1>1. PICK r \in RuleNames, state \in {"on", "off", "none"} :
          /\ Commands(t) /\ SetRule(r, state)
          /\ state # "none" => rules[r] # "none" \/ ValidRule(r)
    BY DEF RuleStep, RuleAdd, RuleToggle, RuleDelete
  <1>2. PICK x : x = [burst[r] EXCEPT !.clean = FALSE]
    OBVIOUS
  <1>3. x \in [fired : Nat, clean : BOOLEAN] /\ x.clean = FALSE
    BY <1>2 DEF SocTyped, RulesOK
  <1>4. burst' = [burst EXCEPT ![r] = x] /\ rules' = [rules EXCEPT ![r] = state]
    BY <1>1, <1>2 DEF SetRule
  <1>5. RuleSet(t, r)
    BY <1>1, <1>3, <1>4 DEF RuleSet, SetRule, SocTyped, RulesOK
  <1>6. QED
    BY <1>5

LEMMA TypedRule ==
  ASSUME SocTyped, NEW t \in Procs, NEW r \in RuleNames, RuleSet(t, r)
  PROVE  SocTyped'
  <1>1. Growing
    BY DEF RuleSet, Growing
  <1>2. FileOK' /\ EventsOK' /\ AlertsOK' /\ CasesOK'
    BY <1>1, TablesKeep DEF RuleSet, feed
  <1>3. RulesOK'
    BY DEF RuleSet, RulesOK, SocTyped
  <1>4. PICK s : s = resting
    OBVIOUS
  <1>5. ShapeOf(t, s)'
    BY <1>1, <1>4, AfterShape, ShapeGrows
  <1>6. DeskOK' /\ Shapes'
    BY <1>1, <1>4, <1>5, DeskKeeps DEF RuleSet, Commands
  <1>7. QED
    BY <1>2, <1>3, <1>6 DEF SocTyped

\* One row of the alerts is written: its event stays.
AlertWritten(a, x) ==
  /\ DOMAIN alerts' = DOMAIN alerts /\ AlertsOK'
  /\ \A b \in DOMAIN alerts : alerts'[b] = IF b = a THEN x ELSE alerts[b]
  /\ x.event = alerts[a].event

LEMMA AlertRow ==
  ASSUME SocTyped, NEW a \in DOMAIN alerts, NEW x, UNCHANGED <<events, cases>>,
         IsAlert(x), x.event = alerts[a].event, alerts' = [alerts EXCEPT ![a] = x]
  PROVE  AlertWritten(a, x)
  <1>1. Rows(alerts) /\ \A b \in DOMAIN alerts : IsAlert(alerts[b])
    BY DEF SocTyped, AlertsOK
  <1>2. /\ Rows(alerts') /\ DOMAIN alerts' = DOMAIN alerts
        /\ \A b \in DOMAIN alerts : alerts'[b] = IF b = a THEN x ELSE alerts[b]
    BY <1>1, UpdateRow
  <1>3. AlertsOK'
    BY <1>1, <1>2 DEF AlertsOK, IsAlert
  <1>4. QED
    BY <1>2, <1>3 DEF AlertWritten

\* The status is written with the stamps that were read before.
LEMMA StampSteps ==
  ASSUME SocTyped, NEW t \in Terminals, SetStatus(t)
  PROVE  /\ proc[t].at = "stamp" /\ proc[t].a \in DOMAIN alerts /\ Updates(t)
         /\ \E x : /\ AlertWritten(proc[t].a, x)
                   /\ proc[t].acknowledged => x.acknowledged
                   /\ proc[t].resolved => x.resolved
         /\ \E s : Goes(t, s) /\ ShapeOf(t, s) /\ s.at \in {"idle", "link"}
         /\ UNCHANGED <<events, rules, cases, feed, ghosts>>
  <1> DEFINE g == proc[t]
  <1>1. /\ proc[t].at = "stamp" /\ Updates(t) /\ UNCHANGED <<events, rules, cases, feed, ghosts>>
        /\ t \in Procs /\ t # Feeder
    BY DEF SetStatus, Terminals
  <1>2. ShapeOf(t, proc[t])
    BY <1>1 DEF SocTyped, Shapes
  <1>3. /\ g.a \in DOMAIN alerts /\ g.acknowledged \in BOOLEAN /\ g.resolved \in BOOLEAN
        /\ g.status \in {"acknowledged", "resolved", "closed"}
    BY <1>1, <1>2 DEF ShapeOf
  <1>4. PICK ack, res : /\ ack = (g.acknowledged \/ g.status = "acknowledged")
                        /\ res = (g.resolved \/ g.status \in {"resolved", "closed"})
    OBVIOUS
  <1>5. PICK x0 : x0 = [alerts[g.a] EXCEPT !.status = g.status]
    OBVIOUS
  <1>6. PICK x1 : x1 = [x0 EXCEPT !.acknowledged = ack]
    OBVIOUS
  <1>7. PICK x : x = [x1 EXCEPT !.resolved = res]
    OBVIOUS
  <1>8. IsAlert(alerts[g.a])
    BY <1>3 DEF SocTyped, AlertsOK
  <1>9. /\ DOMAIN x0 = DOMAIN alerts[g.a] /\ x0.event = alerts[g.a].event
        /\ x0.case = alerts[g.a].case /\ x0.status = g.status
    BY <1>5, <1>8 DEF IsAlert
  <1>10. /\ DOMAIN x1 = DOMAIN alerts[g.a] /\ x1.event = alerts[g.a].event
         /\ x1.case = alerts[g.a].case /\ x1.status = g.status /\ x1.acknowledged = ack
    BY <1>6, <1>8, <1>9 DEF IsAlert
  <1>11. /\ DOMAIN x = DOMAIN alerts[g.a] /\ x.event = alerts[g.a].event
         /\ x.case = alerts[g.a].case /\ x.status = g.status /\ x.acknowledged = ack
         /\ x.resolved = res
    BY <1>7, <1>8, <1>10 DEF IsAlert
  <1>12. IsAlert(x)
    BY <1>3, <1>4, <1>8, <1>11 DEF IsAlert
  <1>13. alerts' = [alerts EXCEPT ![g.a] =
                      [[[alerts[g.a] EXCEPT !.status = g.status] EXCEPT !.acknowledged = ack]
                         EXCEPT !.resolved = res]]
    BY <1>4, <1>8 DEF SetStatus
  <1>14. alerts' = [alerts EXCEPT ![g.a] = x]
    BY <1>5, <1>6, <1>7, <1>13
  <1>15. AlertWritten(g.a, x)
    BY <1>1, <1>3, <1>11, <1>12, <1>14, AlertRow
  <1>16. \E s : Goes(t, s) /\ ShapeOf(t, s) /\ s.at \in {"idle", "link"}
    <2>1. PICK s : s = IF g.case = 0 THEN resting ELSE [at |-> "link", a |-> g.a, case |-> g.case]
      OBVIOUS
    <2>2. Goes(t, s)
      BY <2>1 DEF SetStatus
    <2>3. ShapeOf(t, s)
      BY <1>1, <1>3, <2>1 DEF ShapeOf, resting, RowStages
    <2>4. s.at \in {"idle", "link"}
      BY <2>1 DEF resting
    <2>5. QED
      BY <2>2, <2>3, <2>4
  <1>17. QED
    BY <1>1, <1>3, <1>4, <1>11, <1>15, <1>16

\* The link to a case is written; nothing else of the row.
LEMMA LinkSteps ==
  ASSUME SocTyped, NEW t \in Terminals, LinkCase(t)
  PROVE  /\ proc[t].at = "link" /\ proc[t].a \in DOMAIN alerts /\ Updates(t)
         /\ \E x : /\ AlertWritten(proc[t].a, x)
                   /\ x.acknowledged = alerts[proc[t].a].acknowledged
                   /\ x.resolved = alerts[proc[t].a].resolved
         /\ Goes(t, resting)
         /\ UNCHANGED <<events, rules, cases, feed, ghosts>>
  <1> DEFINE g == proc[t]
  <1>1. /\ proc[t].at = "link" /\ Updates(t) /\ UNCHANGED <<events, rules, cases, feed, ghosts>>
        /\ t \in Procs /\ Goes(t, resting)
    BY DEF LinkCase, Terminals
  <1>2. g.a \in DOMAIN alerts
    BY <1>1 DEF ShapeOf, SocTyped, Shapes
  <1>3. IsAlert(alerts[g.a])
    BY <1>2 DEF SocTyped, AlertsOK
  <1>4. CASE g.case \in DOMAIN cases
    <2>1. PICK x : x = [alerts[g.a] EXCEPT !.case = g.case]
      OBVIOUS
    <2>2. /\ DOMAIN x = DOMAIN alerts[g.a] /\ x.event = alerts[g.a].event
          /\ x.case = g.case /\ x.status = alerts[g.a].status
          /\ x.acknowledged = alerts[g.a].acknowledged /\ x.resolved = alerts[g.a].resolved
      BY <1>3, <2>1 DEF IsAlert
    <2>3. IsAlert(x)
      BY <1>3, <1>4, <2>2 DEF IsAlert
    <2>4. alerts' = [alerts EXCEPT ![g.a] = x]
      BY <1>4, <2>1 DEF LinkCase
    <2>5. AlertWritten(g.a, x)
      BY <1>1, <1>2, <2>2, <2>3, <2>4, AlertRow
    <2>6. QED
      BY <1>1, <1>2, <2>2, <2>5
  <1>5. CASE g.case \notin DOMAIN cases
    <2>1. alerts' = alerts
      BY <1>5 DEF LinkCase
    <2>2. PICK x : x = alerts[g.a]
      OBVIOUS
    <2>3. AlertsOK'
      BY <1>1, <2>1 DEF SocTyped, AlertsOK, IsAlert
    <2>4. AlertWritten(g.a, x)
      BY <1>2, <2>1, <2>2, <2>3 DEF AlertWritten
    <2>5. QED
      BY <1>1, <1>2, <2>2, <2>4
  <1>6. QED
    BY <1>4, <1>5

LEMMA TypedStamp ==
  ASSUME SocTyped, NEW t \in Terminals, SetStatus(t) \/ LinkCase(t)
  PROVE  SocTyped'
  <1>1. t \in Procs
    BY DEF Terminals
  <1>2. PICK s : Goes(t, s) /\ ShapeOf(t, s)
    BY <1>1, StampSteps, LinkSteps, AfterShape
  <1>3. /\ Updates(t) /\ UNCHANGED <<events, rules, cases, feed, ghosts>>
        /\ \E x : AlertWritten(proc[t].a, x)
    BY StampSteps, LinkSteps
  <1>4. Growing /\ AlertsOK'
    BY <1>3 DEF Growing, AlertWritten
  <1>5. FileOK' /\ EventsOK' /\ CasesOK' /\ RulesOK'
    BY <1>3, <1>4, TablesKeep DEF feed, ghosts
  <1>6. ShapeOf(t, s)'
    BY <1>2, <1>4, ShapeGrows
  <1>7. DeskOK' /\ Shapes'
    BY <1>1, <1>2, <1>3, <1>4, <1>6, DeskKeeps
  <1>8. QED
    BY <1>4, <1>5, <1>7 DEF SocTyped

\* A case is created, or its status is written: the timeline comes next.
Writes(t, c, status) ==
  /\ Starts(t, Log(c, status)) /\ status \in CaseStatuses
  /\ c \in DOMAIN cases' /\ CasesOK' /\ DOMAIN cases \subseteq DOMAIN cases'
  /\ DOMAIN cases' \subseteq DOMAIN cases \cup {c}
  /\ \A d \in DOMAIN cases \ {c} : cases'[d] = cases[d]
  /\ cases'[c].status = status
  /\ c \in DOMAIN cases => /\ cases'[c].for = cases[c].for /\ cases'[c].log = cases[c].log
                           /\ cases'[c].split = (cases[c].split \/ Logging(c))
  /\ c \notin DOMAIN cases => cases'[c] = NewCase(0)
  /\ UNCHANGED <<events, rules, alerts, feed, ghosts>>

LEMMA WriteSteps ==
  ASSUME SocTyped, NEW t \in Terminals
  PROVE  /\ CaseCreate(t) => \E c : Writes(t, c, "open") /\ c \notin DOMAIN cases
         /\ \A c \in DOMAIN cases : CaseClose(t, c) => Writes(t, c, "closed")
         /\ \A c \in DOMAIN cases : CaseReopen(t, c) => Writes(t, c, "open")
  <1>1. Rows(cases) /\ \A c \in DOMAIN cases : IsCase(cases[c])
    BY DEF SocTyped, CasesOK
  <1>2. ASSUME CaseCreate(t)
        PROVE  \E c : Writes(t, c, "open") /\ c \notin DOMAIN cases
    <2>1. PICK x : x = NewCase(0)
      OBVIOUS
    <2>2. /\ cases' = Append(cases, x) /\ Starts(t, Log(Len(cases) + 1, "open"))
          /\ UNCHANGED <<events, rules, alerts, feed, ghosts>>
      BY <1>2, <2>1 DEF CaseCreate
    <2>3. /\ DOMAIN x = {"for", "status", "log", "split"} /\ x.for \in {0} \cup DOMAIN events
          /\ x.status \in CaseStatuses /\ Rows(x.log) /\ x.split \in BOOLEAN
          /\ x.status = "open"
      BY <2>1, NewCaseRow DEF CaseStatuses
    <2>4. /\ CasesOK' /\ Len(cases) \in Nat
          /\ DOMAIN cases = 1..Len(cases) /\ DOMAIN cases' = 1..(Len(cases) + 1)
          /\ \A c \in DOMAIN cases : cases'[c] = cases[c]
          /\ cases'[Len(cases) + 1] = x
      BY <2>2, <2>3, CaseRows
    <2>5. PICK c : c = Len(cases) + 1
      OBVIOUS
    <2>6. c \in DOMAIN cases' /\ c \notin DOMAIN cases /\ cases'[c] = x
          /\ DOMAIN cases \subseteq DOMAIN cases' /\ DOMAIN cases' \subseteq DOMAIN cases \cup {c}
      BY <2>4, <2>5
    <2>7. Writes(t, c, "open")
      BY <2>1, <2>2, <2>3, <2>4, <2>5, <2>6 DEF Writes, CaseStatuses
    <2>8. QED
      BY <2>6, <2>7
  <1>3. ASSUME NEW c \in DOMAIN cases, NEW status \in CaseStatuses,
               SetCaseStatus(t, c, status)
        PROVE  Writes(t, c, status)
    <2>1. PICK told : told = Logging(c) /\ told \in BOOLEAN
      BY DEF Logging
    <2>2. PICK x0 : x0 = [cases[c] EXCEPT !.status = status]
      OBVIOUS
    <2>3. PICK x : x = [x0 EXCEPT !.split = @ \/ told]
      OBVIOUS
    <2>4. DOMAIN x0 = DOMAIN cases[c] /\ x0.for = cases[c].for /\ x0.log = cases[c].log
          /\ x0.status = status /\ x0.split = cases[c].split
      BY <1>1, <2>2 DEF IsCase
    <2>5. DOMAIN x = DOMAIN cases[c] /\ x.for = cases[c].for /\ x.log = cases[c].log
          /\ x.status = status /\ x.split = (cases[c].split \/ told)
      BY <1>1, <2>3, <2>4 DEF IsCase
    <2>6. cases' = [cases EXCEPT ![c] = [[cases[c] EXCEPT !.status = status]
                                           EXCEPT !.split = @ \/ told]]
      BY <1>1, <1>3, <2>1 DEF SetCaseStatus
    <2>7. cases' = [cases EXCEPT ![c] = x] /\ UNCHANGED <<events, rules, alerts, feed, ghosts>>
          /\ Starts(t, Log(c, status))
      BY <1>3, <2>2, <2>3, <2>6 DEF SetCaseStatus
    <2>8. /\ DOMAIN x = {"for", "status", "log", "split"} /\ x.for \in {0} \cup DOMAIN events
          /\ x.status \in CaseStatuses /\ Rows(x.log) /\ x.split \in BOOLEAN
      BY <1>1, <2>1, <2>5 DEF IsCase
    <2>9. /\ CasesOK' /\ DOMAIN cases' = DOMAIN cases
          /\ \A d \in DOMAIN cases : cases'[d] = IF d = c THEN x ELSE cases[d]
      BY <2>7, <2>8, CaseRows
    <2>10. QED
      BY <2>1, <2>5, <2>7, <2>9 DEF Writes
  <1>4. QED
    BY <1>2, <1>3 DEF CaseClose, CaseReopen, CaseStatuses

LEMMA TypedWrite ==
  ASSUME SocTyped, NEW t \in Terminals, NEW c, NEW status, Writes(t, c, status)
  PROVE  SocTyped'
  <1>1. t \in Procs /\ t # Feeder
    BY DEF Terminals
  <1>2. Growing /\ CasesOK'
    BY DEF Writes, Growing
  <1>3. FileOK' /\ EventsOK' /\ AlertsOK' /\ RulesOK'
    BY <1>2, TablesKeep DEF Writes, feed, ghosts
  <1>4. PICK s : s = Log(c, status)
    OBVIOUS
  <1>5. s.at = "log" /\ s.case = c /\ DOMAIN s = {"at", "case", "entry"}
    BY <1>4 DEF Log
  <1>6. ShapeOf(t, s)'
    BY <1>1, <1>5 DEF ShapeOf, Writes, RowStages
  <1>7. DeskOK' /\ Shapes'
    BY <1>1, <1>2, <1>4, <1>6, DeskKeeps DEF Writes
  <1>8. QED
    BY <1>2, <1>3, <1>7 DEF SocTyped

\* The timeline entry of a command.
LEMMA RecordSteps ==
  ASSUME SocTyped, NEW t \in Terminals, RecordEvent(t)
  PROVE  /\ proc[t].at = "log" /\ proc[t].case \in DOMAIN cases
         /\ cases' = Logged(cases, proc[t].case, proc[t].entry)
         /\ Goes(t, resting)
         /\ UNCHANGED <<events, rules, alerts, feed, ghosts, quiet>>
  BY DEF RecordEvent, ShapeOf, SocTyped, Shapes, Terminals

LEMMA TypedRecord ==
  ASSUME SocTyped, NEW t \in Terminals, RecordEvent(t)
  PROVE  SocTyped'
  <1>1. t \in Procs
    BY DEF Terminals
  <1>2. PICK c, entry : c = proc[t].case /\ entry = proc[t].entry
    OBVIOUS
  <1>3. CasesOK' /\ DOMAIN cases' = DOMAIN cases
    BY <1>2, RecordSteps, LoggedRow
  <1>4. Growing
    BY <1>3, RecordSteps DEF Growing
  <1>5. FileOK' /\ EventsOK' /\ AlertsOK' /\ RulesOK'
    BY <1>4, TablesKeep, RecordSteps DEF feed, ghosts
  <1>6. PICK s : s = resting
    OBVIOUS
  <1>7. ShapeOf(t, s)'
    BY <1>1, <1>4, <1>6, AfterShape, ShapeGrows
  <1>8. DeskOK' /\ Shapes'
    BY <1>1, <1>4, <1>6, <1>7, RecordSteps, DeskKeeps
  <1>9. QED
    BY <1>3, <1>5, <1>8 DEF SocTyped

\* The file grows by one piece or two; what is appended behind the offset may be
\* skipped, and is counted as missed.
Appended ==
  LET k == Len(file) IN
  /\ Len(file') \in {k + 1, k + 2} /\ Len(file') <= MaxFile
  /\ \A i \in 1..k : file'[i] = file[i]
  /\ \E l \in Lines :
       /\ \A i \in (k + 1)..Len(file') : file'[i][1] = l
       /\ missed' = IF k < offset THEN missed \cup {l} ELSE missed
  /\ UNCHANGED <<stores, ghosts, proc, quiet, work, offset>>

LEMMA AppendSteps ==
  ASSUME FileOK, AppendLine \/ AppendRest
  PROVE  Appended /\ FileOK'
  <1> DEFINE k == Len(file)
  <1>1. k \in Nat /\ file \in Seq(Lines \X {1, 2}) /\ pending \in Seq(Lines)
    BY DEF FileOK
  <1>2. ASSUME AppendLine
        PROVE  Appended /\ FileOK'
    <2> DEFINE l == Head(pending)
    <2>1. pending # <<>> /\ (file # <<>> => file[k][2] = 2) /\ l \in Lines
      BY <1>1, <1>2 DEF AppendLine
    <2>2. CASE Grow(<<<<l, 1>>, <<l, 2>>>>) /\ pending' = Tail(pending)
      <3>1. /\ Len(file) + 2 <= MaxFile /\ file' = file \o <<<<l, 1>>, <<l, 2>>>>
            /\ UNCHANGED <<stores, ghosts, proc, quiet, work, offset>>
        BY <2>2 DEF Grow
      <3>2. missed' = IF k < offset THEN missed \cup {l} ELSE missed
        BY <1>2, <2>2 DEF AppendLine
      <3>3. <<<<l, 1>>, <<l, 2>>>> \in Seq(Lines \X {1, 2})
        BY <2>1
      <3>4. /\ file' \in Seq(Lines \X {1, 2}) /\ Len(file') = k + 2
            /\ \A i \in 1..k : file'[i] = file[i]
            /\ file'[k + 1] = <<l, 1>> /\ file'[k + 2] = <<l, 2>>
        BY <1>1, <3>1, <3>3, ConcatProperties
      <3>5. Appended
        <4>1. \A i \in (k + 1)..Len(file') : file'[i][1] = l
          BY <1>1, <3>4
        <4>2. Len(file') \in {k + 1, k + 2} /\ Len(file') <= MaxFile
          BY <3>1, <3>4
        <4> HIDE DEF l
        <4>3. QED
          BY <2>1, <3>1, <3>2, <3>4, <4>1, <4>2 DEF Appended
      <3>6. pending' \in Seq(Lines)
        BY <1>1, <2>1, <2>2
      <3>7. file'[Len(file')][2] = 2
        BY <3>4
      <3>8. \A i \in 1..(Len(file') - 1) : file'[i][2] = 1 => file'[i + 1] = <<file'[i][1], 2>>
        <4>1. ASSUME NEW i \in 1..(k + 1), file'[i][2] = 1
              PROVE  file'[i + 1] = <<file'[i][1], 2>>
          <5>1. CASE i = k + 1
            BY <1>1, <3>4, <5>1
          <5>2. i # k
            <6>1. CASE i = k
              <7>1. k # 0 /\ file # <<>> /\ file'[k] = file[k]
                BY <1>1, <3>4, <6>1
              <7>2. QED
                BY <2>1, <4>1, <6>1, <7>1
            <6>2. QED
              BY <6>1
          <5>3. CASE i \in 1..(k - 1)
            <6>1. file'[i] = file[i] /\ file'[i + 1] = file[i + 1]
              BY <1>1, <3>4, <5>3
            <6>2. file[i][2] = 1 => file[i + 1] = <<file[i][1], 2>>
              BY <5>3 DEF FileOK
            <6>3. QED
              BY <4>1, <6>1, <6>2
          <5>4. QED
            BY <1>1, <5>1, <5>2, <5>3
        <4>2. QED
          BY <1>1, <3>4, <4>1
      <3>9. missed' \subseteq Lines
        BY <2>1, <3>2 DEF FileOK
      <3>10. offset' \in 0..MaxFile /\ Len(file') <= MaxFile
        BY <3>1, <3>4 DEF FileOK
      <3>11. file' \in Seq(Lines \X {1, 2})
        BY <3>4
      <3>12. QED
        BY <3>5, <3>6, <3>7, <3>8, <3>9, <3>10, <3>11 DEF FileOK
    <2>3. CASE Grow(<<<<l, 1>>>>) /\ UNCHANGED pending
      <3>1. /\ Len(file) + 1 <= MaxFile /\ file' = file \o <<<<l, 1>>>>
            /\ UNCHANGED <<stores, ghosts, proc, quiet, work, offset>>
        BY <2>3 DEF Grow
      <3>2. missed' = IF k < offset THEN missed \cup {l} ELSE missed
        BY <1>2, <2>3 DEF AppendLine
      <3>3. <<<<l, 1>>>> \in Seq(Lines \X {1, 2})
        BY <2>1
      <3>4. /\ file' \in Seq(Lines \X {1, 2}) /\ Len(file') = k + 1
            /\ \A i \in 1..k : file'[i] = file[i]
            /\ file'[k + 1] = <<l, 1>>
        BY <1>1, <3>1, <3>3, ConcatProperties
      <3>5. Appended
        <4>1. \A i \in (k + 1)..Len(file') : file'[i][1] = l
          BY <1>1, <3>4
        <4>2. Len(file') \in {k + 1, k + 2} /\ Len(file') <= MaxFile
          BY <3>1, <3>4
        <4> HIDE DEF l
        <4>3. QED
          BY <2>1, <3>1, <3>2, <3>4, <4>1, <4>2 DEF Appended
      <3>6. \A i \in 1..(Len(file') - 1) : file'[i][2] = 1 => file'[i + 1] = <<file'[i][1], 2>>
        <4>1. ASSUME NEW i \in 1..k, file'[i][2] = 1
              PROVE  file'[i + 1] = <<file'[i][1], 2>>
          <5>1. CASE i = k
            BY <1>1, <2>1, <3>4, <4>1, <5>1
          <5>2. CASE i \in 1..(k - 1)
            BY <1>1, <3>4, <4>1, <5>2 DEF FileOK
          <5>3. QED
            BY <1>1, <5>1, <5>2
        <4>2. QED
          BY <1>1, <3>4, <4>1
      <3>7. QED
        BY <1>1, <2>1, <2>3, <3>1, <3>2, <3>4, <3>5, <3>6 DEF FileOK
    <2>4. QED
      BY <1>2, <2>2, <2>3 DEF AppendLine
  <1>3. ASSUME AppendRest
        PROVE  Appended /\ FileOK'
    <2> DEFINE l == file[k][1]
    <2>1. file # <<>> /\ file[k][2] = 1 /\ k \in 1..k /\ file[k] \in Lines \X {1, 2}
      BY <1>1, <1>3 DEF AppendRest
    <2>2. l \in Lines
      BY <2>1
    <2>3. /\ Len(file) + 1 <= MaxFile /\ file' = file \o <<<<l, 2>>>>
          /\ UNCHANGED <<stores, ghosts, proc, quiet, work, offset>>
          /\ pending' = Tail(pending)
          /\ missed' = IF k < offset THEN missed \cup {l} ELSE missed
      BY <1>3 DEF AppendRest, Grow
    <2>4. <<<<l, 2>>>> \in Seq(Lines \X {1, 2})
      BY <2>2
    <2>5. /\ file' \in Seq(Lines \X {1, 2}) /\ Len(file') = k + 1
          /\ \A i \in 1..k : file'[i] = file[i]
          /\ file'[k + 1] = <<l, 2>>
      BY <1>1, <2>3, <2>4, ConcatProperties
    <2>6. Appended
      <3>1. \A i \in (k + 1)..Len(file') : file'[i][1] = l
        BY <1>1, <2>5
      <3>2. Len(file') \in {k + 1, k + 2} /\ Len(file') <= MaxFile
        BY <2>3, <2>5
      <3> HIDE DEF l
      <3>3. QED
        BY <2>2, <2>3, <2>5, <3>1, <3>2 DEF Appended
    <2>7. pending' \in Seq(Lines)
      BY <1>1, <2>1, <2>3 DEF FileOK
    <2>8. \A i \in 1..(Len(file') - 1) : file'[i][2] = 1 => file'[i + 1] = <<file'[i][1], 2>>
      <3>1. ASSUME NEW i \in 1..k, file'[i][2] = 1
            PROVE  file'[i + 1] = <<file'[i][1], 2>>
        <4>1. CASE i = k
          BY <1>1, <2>1, <2>5, <4>1
        <4>2. CASE i \in 1..(k - 1)
          BY <1>1, <2>5, <3>1, <4>2 DEF FileOK
        <4>3. QED
          BY <1>1, <4>1, <4>2
      <3>2. QED
        BY <1>1, <2>5, <3>1
    <2>9. QED
      BY <1>1, <2>2, <2>3, <2>5, <2>6, <2>7, <2>8 DEF FileOK
  <1>4. QED
    BY <1>2, <1>3

LEMMA RotateSteps ==
  ASSUME FileOK, Rotate
  PROVE  FileOK'
  <1>1. file' = <<>> /\ UNCHANGED <<offset, pending>>
    BY DEF Rotate
  <1>2. {file[i][1] : i \in (offset + 1)..Len(file)} \subseteq Lines
    BY DEF FileOK
  <1>3. missed' \subseteq Lines
    BY <1>2 DEF Rotate, FileOK
  <1>4. QED
    BY <1>1, <1>3, BoundsAssumption DEF FileOK

\* The line at the offset is read: it is missed, or carried to the pipeline.
Feeds(s) ==
  /\ proc[Feeder].at = "reading" /\ offset < Len(file)
  /\ offset' \in {offset + 1, offset + 2} /\ offset' <= Len(file)
  /\ Goes(Feeder, s) /\ ShapeOf(Feeder, s) /\ s.at \in {"lookup", "reading"}
  /\ \E l \in Lines :
       /\ \A i \in (offset + 1)..offset' : file[i][1] = l
       /\ missed' \in {missed, missed \cup {l}}
       /\ \/ l \in missed'
          \/ s.at = "lookup" /\ s.line = l /\ s.ev.eid = ParseLine(Content[l]).id
  /\ UNCHANGED <<stores, ghosts, quiet, file, pending>>

LEMMA FeedSteps ==
  ASSUME FileOK, FeedLine
  PROVE  \E s : Feeds(s)
  <1> DEFINE chunk == file[offset + 1]
             l == chunk[1]
             two == chunk[2] = 1 /\ offset + 2 <= Len(file)
             size == IF two THEN 2 ELSE 1
             raw == ParseLine(IF two THEN Content[l] ELSE Piece(l, chunk[2]))
             fed == raw # NONE /\ Normalizable(raw)
  <1>1. /\ proc[Feeder].at = "reading" /\ offset < Len(file)
        /\ offset \in Nat /\ Len(file) \in Nat /\ file \in Seq(Lines \X {1, 2})
        /\ UNCHANGED <<stores, ghosts, quiet, file, pending>>
    BY DEF FileOK, FeedLine
  <1>2. chunk \in Lines \X {1, 2} /\ l \in Lines
    BY <1>1
  <1>3. /\ NextRecord.line = l /\ NextRecord.size = size
        /\ ~ two => NextRecord.piece = chunk[2]
        /\ NextRecord.size = 2 <=> two
    BY DEF NextRecord
  <1>4. /\ offset' = offset + size
        /\ missed' = IF two /\ fed THEN missed ELSE missed \cup {l}
        /\ Goes(Feeder, IF fed THEN [at |-> "lookup", ev |-> Normalize(raw), line |-> l]
                        ELSE [at |-> "reading"])
    BY <1>3 DEF FeedLine
  <1>5. \A i \in (offset + 1)..(offset + size) : file[i][1] = l
    <2>1. two => file[offset + 2] = <<l, 2>>
      <3>1. ASSUME two
            PROVE  file[(offset + 1) + 1] = <<file[offset + 1][1], 2>>
        BY <1>1, <3>1 DEF FileOK
      <3>2. QED
        BY <1>1, <3>1
    <2>2. QED
      BY <1>1, <2>1
  <1>6. Feeder \in Procs
    BY FeederAssumption
  <1>7. offset' \in {offset + 1, offset + 2} /\ offset' <= Len(file)
    BY <1>1, <1>4
  <1>8. CASE fed
    <2>1. PICK s : s = [at |-> "lookup", ev |-> Normalize(raw), line |-> l]
      OBVIOUS
    <2>2. IsEvent(Normalize(raw)) /\ Normalize(raw).fresh /\ Normalize(raw).eid = raw.id
      BY NormalizedEvent
    <2>3. /\ DOMAIN s = {"at", "ev", "line"} /\ s.at = "lookup" /\ s.line = l
          /\ s.ev = Normalize(raw)
      BY <2>1
    <2>4. ShapeOf(Feeder, s)
      BY <1>2, <2>2, <2>3 DEF ShapeOf, RowStages
    <2>5. two => s.ev.eid = ParseLine(Content[l]).id
      BY <2>2, <2>3
    <2>6. Goes(Feeder, s)
      BY <1>4, <1>8, <2>1
    <2>7. l \in missed' \/ s.ev.eid = ParseLine(Content[l]).id
      BY <1>4, <2>5
    <2>8. missed' \in {missed, missed \cup {l}}
      BY <1>4
    <2>9. QED
      BY <1>1, <1>2, <1>4, <1>5, <1>7, <2>3, <2>4, <2>6, <2>7, <2>8 DEF Feeds
  <1>9. CASE ~ fed
    <2>1. PICK s : s = [at |-> "reading"]
      OBVIOUS
    <2>2. ShapeOf(Feeder, s)
      BY <2>1 DEF ShapeOf, RowStages
    <2>3. Goes(Feeder, s) /\ missed' = missed \cup {l}
      BY <1>4, <1>9, <2>1
    <2>4. s.at = "reading"
      BY <2>1
    <2>5. QED
      BY <1>1, <1>2, <1>4, <1>5, <1>7, <2>2, <2>3, <2>4 DEF Feeds
  <1>10. QED
    BY <1>8, <1>9

LEMMA TypedFeed ==
  ASSUME SocTyped, FileStep \/ FeederStep
  PROVE  SocTyped'
  <1>1. UNCHANGED <<stores, ghosts, quiet>>
    BY DEF FileStep, FeederStep, AppendLine, AppendRest, Grow, Rotate, Poll, FeedLine,
           EndOfFile
  <1>2. Growing
    BY <1>1 DEF Growing, stores
  <1>3. EventsOK' /\ AlertsOK' /\ CasesOK' /\ RulesOK'
    BY <1>1, <1>2, TablesKeep DEF stores, ghosts
  <1>4. FileOK'
    <2>1. ASSUME FeedLine
          PROVE  FileOK'
      <3>1. PICK s : Feeds(s)
        BY <2>1, FeedSteps DEF SocTyped
      <3>2. UNCHANGED <<file, pending>> /\ offset' \in 0..MaxFile /\ missed' \subseteq Lines
        BY <3>1, BoundsAssumption DEF Feeds, SocTyped, FileOK
      <3>3. QED
        BY <3>2 DEF SocTyped, FileOK
    <2>2. ASSUME Poll \/ EndOfFile
          PROVE  FileOK'
      BY <2>2, BoundsAssumption DEF Poll, EndOfFile, feed, SocTyped, FileOK
    <2>3. QED
      BY <2>1, <2>2, AppendSteps, RotateSteps DEF FileStep, FeederStep, SocTyped
  <1>5. DeskOK' /\ Shapes'
    <2>1. ASSUME NEW s, Goes(Feeder, s), ShapeOf(Feeder, s)
          PROVE  DeskOK' /\ Shapes'
      <3>1. ShapeOf(Feeder, s)'
        BY <1>2, <2>1, ShapeGrows
      <3>2. QED
        BY <1>1, <1>2, <2>1, <3>1, FeederAssumption, DeskKeeps
    <2>2. CASE FileStep
      <3>1. UNCHANGED <<proc, quiet, work>>
        BY <2>2, AppendSteps DEF FileStep, Rotate, Appended, SocTyped
      <3>2. DeskOK'
        BY <3>1 DEF SocTyped, DeskOK
      <3>3. ASSUME NEW q \in Procs
            PROVE  ShapeOf(q, proc[q])'
        <4>1. PICK s : s = proc[q]
          OBVIOUS
        <4>2. ShapeOf(q, s)'
          BY <1>2, <4>1, ShapeGrows DEF SocTyped, Shapes
        <4>3. QED
          BY <3>1, <4>1, <4>2 DEF ShapeOf, IsAlert
      <3>4. QED
        BY <3>2, <3>3 DEF Shapes
    <2>3. CASE FeedLine
      BY <2>1, <2>3, FeedSteps DEF Feeds, SocTyped
    <2>4. CASE Poll \/ EndOfFile
      <3>1. PICK s : s \in {[at |-> "reading"], resting} /\ Goes(Feeder, s)
        BY <2>4 DEF Poll, EndOfFile
      <3>2. ShapeOf(Feeder, s)
        BY <3>1, FeederAssumption, AfterShape DEF After
      <3>3. QED
        BY <2>1, <3>1, <3>2
    <2>5. QED
      BY <2>2, <2>3, <2>4 DEF FeederStep
  <1>6. QED
    BY <1>3, <1>4, <1>5 DEF SocTyped

\* The steps of a process by what they write.
Pipes(p) ==
  \/ Lookup(p) \/ InsertEvent(p) \/ Correlate(p) \/ MatchRules(p) \/ ListWindowed(p)
  \/ \E r \in RuleNames : CountTotal(p, r)
  \/ CountBefore(p) \/ Decide(p) \/ OpenCase(p) \/ LogOpened(p) \/ CreateAlert(p)

\* A command that reads: it starts, and writes nothing yet.
Begins(t) ==
  \/ \E l \in Lines, flags \in Flags : SocIngest(t, l, flags)
  \/ \E a \in DOMAIN alerts, c \in 0..MaxCases,
       status \in {"acknowledged", "resolved", "closed"} : AlertAction(t, a, status, c)
  \/ \E c \in DOMAIN cases : CaseNoteAdd(t, c) \/ CaseAddFinding(t, c)

LEMMA Kinds ==
  ASSUME SocTyped, SocNext
  PROVE  \/ FileStep \/ FeederStep \/ WindowSlides
         \/ \E p \in Procs : \/ Pipes(p)
                             \/ Fails(p) /\ (Raised(p) \/ Killed(p))
         \/ \E t \in Terminals :
              \/ Begins(t) \/ SetStatus(t) \/ LinkCase(t) \/ RecordEvent(t)
              \/ \E r \in RuleNames : RuleSet(t, r)
              \/ \E c, status : Writes(t, c, status)
  <1>1. Terminals \subseteq Procs
    BY DEF Terminals
  <1>2. CASE FileStep \/ FeederStep \/ WindowSlides
    BY <1>2
  <1>3. ASSUME NEW p \in Procs, Pipeline(p) \/ Raised(p) \/ Killed(p)
        PROVE  \/ Pipes(p)
               \/ Fails(p) /\ (Raised(p) \/ Killed(p))
    BY <1>3, FailSteps DEF Pipeline, Pipes
  <1>4. ASSUME NEW t \in Terminals, NEW l \in Lines, NEW flags \in Flags,
               SocIngest(t, l, flags)
        PROVE  Begins(t)
    BY <1>4 DEF Begins
  <1>5. ASSUME NEW t \in Terminals, AlertStep(t)
        PROVE  Begins(t) \/ SetStatus(t) \/ LinkCase(t)
    BY <1>5 DEF AlertStep, Begins
  <1>6. ASSUME NEW t \in Terminals, CaseStep(t)
        PROVE  Begins(t) \/ RecordEvent(t) \/ \E c, status : Writes(t, c, status)
    BY <1>6, WriteSteps DEF CaseStep, Begins
  <1>7. ASSUME NEW t \in Terminals, RuleStep(t)
        PROVE  \E r \in RuleNames : RuleSet(t, r)
    BY <1>1, <1>7, RuleSteps
  <1>8. QED
    BY <1>2, <1>3, <1>4, <1>5, <1>6, <1>7 DEF SocNext

\* What a command that reads carries.
LEMMA BeginSteps ==
  ASSUME SocTyped, NEW t \in Terminals, Begins(t)
  PROVE  \E s : /\ Starts(t, s) /\ UNCHANGED socRecords /\ ShapeOf(t, s)
                /\ s.at \in {"idle", "lookup", "stamp", "log"}
                /\ s.at = "log" => s.entry \notin CaseStatuses
                /\ s.at = "stamp" => /\ s.acknowledged = alerts[s.a].acknowledged
                                     /\ s.resolved = alerts[s.a].resolved
  <1>1. t \in Procs /\ t # Feeder
    BY DEF Terminals
  <1>2. QED
    BY <1>1, ReadingSteps, CommandSteps DEF Begins

LEMMA TypedPipe ==
  ASSUME SocTyped, NEW p \in Procs, Pipes(p)
  PROVE  SocTyped'
  <1>1. ASSUME NEW s, Reaches(p, s)
        PROVE  SocTyped'
    BY <1>1, TypedMove DEF Reaches
  <1>2. CASE Lookup(p)
    BY <1>1, <1>2, ReadingSteps DEF Reaches
  <1>3. CASE Correlate(p) \/ MatchRules(p) \/ ListWindowed(p)
    BY <1>1, <1>3, WorkingSteps
  <1>4. CASE (\E r \in RuleNames : CountTotal(p, r)) \/ Decide(p)
    BY <1>1, <1>4, DecidingSteps
  <1>5. QED
    BY <1>2, <1>3, <1>4, TypedInsert, TypedCount, TypedOpen, TypedTell, TypedAlert DEF Pipes

LEMMA TypedNext ==
  ASSUME SocTyped, [SocNext]_socVars
  PROVE  SocTyped'
  <1>1. Terminals \subseteq Procs
    BY DEF Terminals
  <1>2. CASE UNCHANGED socVars
    <2>1. UNCHANGED <<socRecords, proc, quiet, work>>
      BY <1>2 DEF socVars, deskVars
    <2>2. Growing
      BY <2>1 DEF Growing, socRecords
    <2>3. FileOK' /\ EventsOK' /\ AlertsOK' /\ CasesOK' /\ RulesOK'
      BY <2>1, <2>2, TablesKeep DEF socRecords
    <2>4. DeskOK'
      BY <2>1 DEF SocTyped, DeskOK
    <2>5. Shapes'
      BY <2>1 DEF SocTyped, Shapes, ShapeOf, IsAlert, IsEvent, socRecords
    <2>6. QED
      BY <2>3, <2>4, <2>5 DEF SocTyped
  <1>3. CASE SocNext
    <2>1. ASSUME NEW t \in Terminals, Begins(t)
          PROVE  SocTyped'
      BY <1>1, <2>1, BeginSteps, TypedMove
    <2>2. ASSUME NEW t \in Terminals, NEW r \in RuleNames, RuleSet(t, r)
          PROVE  SocTyped'
      BY <1>1, <2>2, TypedRule
    <2>3. QED
      BY <1>3, <2>1, <2>2, Kinds, TypedFeed, TypedSlide, TypedPipe, TypedFail, TypedStamp,
         TypedRecord, TypedWrite
  <1>4. QED
    BY <1>2, <1>3

LEMMA TypedInit ==
  ASSUME SocInit
  PROVE  SocTyped
  <1>1. FileOK
    BY BoundsAssumption DEF SocInit, FileOK
  <1>2. EventsOK /\ AlertsOK /\ CasesOK
    <2>1. Rows(<<>>) /\ DOMAIN <<>> = {}
      BY EmptySeq DEF Rows
    <2>2. events = <<>> /\ alerts = <<>> /\ cases = <<>>
      BY DEF SocInit
    <2>3. QED
      BY <2>1, <2>2 DEF EventsOK, AlertsOK, CasesOK
  <1>3. RulesOK
    BY DEF SocInit, RulesOK
  <1>4. DeskOK
    BY BoundsAssumption DEF SocInit, DeskInit, DeskOK
  <1>5. Shapes
    BY DEF SocInit, DeskInit, Shapes, ShapeOf, resting, RowStages
  <1>6. QED
    BY <1>1, <1>2, <1>3, <1>4, <1>5 DEF SocTyped

\* The tables and the ghosts have their types in every state.
THEOREM SocTypesCorrect == SocSpec => []SocTypeOK
  <1>1. SocTyped => SocTypeOK
    BY DEF SocTyped, SocTypeOK, FileOK, EventsOK, AlertsOK, CasesOK, RulesOK, DeskOK, IsEvent,
           IsAlert, IsCase
  <1>2. QED
    BY <1>1, TypedInit, TypedNext, PTL DEF SocSpec

\* A step of another component: a terminal that is at none of the commands of
\* this module moves on, and the tables of this module stay.
Beside(t, s) ==
  /\ UNCHANGED socRecords
  /\ proc' = [proc EXCEPT ![t] = s] /\ ShapeOf(t, s)
  /\ proc[t].at \notin SocStages /\ s.at \notin SocStages
  /\ work' \in [Procs -> 0..MaxWork] /\ quiet' \in [Procs -> BOOLEAN]
  /\ \A q \in Procs \ {t} : proc[q] # resting /\ quiet'[q] => quiet[q]

LEMMA TypedBeside ==
  ASSUME SocTyped, NEW t \in Terminals, NEW s, Beside(t, s)
  PROVE  SocTyped'
  <1>1. Growing /\ t \in Procs
    BY DEF Beside, Growing, socRecords, Terminals
  <1>2. ShapeOf(t, s)'
    BY <1>1, ShapeGrows DEF Beside
  <1>3. Shapes' /\ proc' = [q \in Procs |-> proc'[q]]
    BY <1>1, <1>2, ShapesMove DEF Beside
  <1>4. FileOK' /\ EventsOK' /\ AlertsOK' /\ CasesOK' /\ RulesOK'
    BY <1>1, TablesKeep DEF Beside, socRecords
  <1>5. QED
    BY <1>3, <1>4 DEF SocTyped, DeskOK, Beside

\* What one move does to the rows and the timelines that processes work on.
LEMMA OneMoves ==
  ASSUME SocTyped, NEW p \in Procs, NEW s, proc' = [proc EXCEPT ![p] = s]
  PROVE  /\ proc'[p] = s /\ \A q \in Procs \ {p} : proc'[q] = proc[q]
         /\ RowOf(p)' = IF "n" \in DOMAIN s THEN s.n ELSE 0
         /\ \A q \in Procs \ {p} : RowOf(q)' = RowOf(q) /\ LogOf(q)' = LogOf(q)
  BY DEF SocTyped, DeskOK, RowOf, LogOf

\* The rows that are worked on are in the table, and tables number from 1.
LEMMA RowOfShape ==
  ASSUME SocTyped
  PROVE  /\ 0 \notin DOMAIN events /\ 0 \notin DOMAIN cases /\ 0 \notin DOMAIN alerts
         /\ \A p \in Procs : /\ RowOf(p) = IF proc[p].at \in RowStages THEN proc[p].n ELSE 0
                             /\ RowOf(p) \in {0} \cup DOMAIN events
                             /\ RowOf(p) # 0 <=> proc[p].at \in RowStages
                             /\ LogOf(p) \in {0} \cup DOMAIN cases
  <1>1. 0 \notin DOMAIN events /\ 0 \notin DOMAIN cases /\ 0 \notin DOMAIN alerts
    BY DEF SocTyped, EventsOK, CasesOK, AlertsOK, Rows
  <1>2. ASSUME NEW p \in Procs
        PROVE  /\ RowOf(p) = IF proc[p].at \in RowStages THEN proc[p].n ELSE 0
               /\ RowOf(p) \in {0} \cup DOMAIN events
               /\ RowOf(p) # 0 <=> proc[p].at \in RowStages
               /\ LogOf(p) \in {0} \cup DOMAIN cases
    BY <1>1 DEF SocTyped, Shapes, ShapeOf, RowOf, LogOf
  <1>3. QED
    BY <1>1, <1>2

-----------------------------------------------------------------------------
(***************************************************************************)
(* One alert and one case for an event.                                    *)
(***************************************************************************)

Finishing == {"timeline", "alert"}

\* An event has one row, a row one process, one alert and one case.
OneEach ==
  /\ \A m, n \in DOMAIN events : events[m].eid = events[n].eid => m = n
  /\ \A p, q \in Procs : RowOf(p) # 0 /\ RowOf(p) = RowOf(q) => p = q
  /\ \A a, b \in DOMAIN alerts : alerts[a].event = alerts[b].event => a = b
  /\ \A c, d \in DOMAIN cases : cases[c].for # 0 /\ cases[c].for = cases[d].for => c = d

\* The row a process works on has no alert yet, and no case before its stage
\* says so.
NotYet ==
  \A p \in Procs : RowOf(p) # 0 =>
    /\ \A a \in DOMAIN alerts : alerts[a].event # RowOf(p)
    /\ proc[p].at \notin Finishing => \A c \in DOMAIN cases : cases[c].for # RowOf(p)

\* A row whose ingest has ended by itself has the alert it calls for.
Served ==
  \A n \in DOMAIN events :
    n \notin excused /\ ~ InProgress(n)
      /\ (Gate(events[n]) \/ \E c \in DOMAIN cases : cases[c].for = n)
      => \E a \in DOMAIN alerts : alerts[a].event = n

AlertInv == OneEach /\ NotYet /\ Served

\* A process keeps its row, or gives it up: excused, or with nothing to serve.
GivesUp(p) ==
  \/ /\ RowOf(p)' = RowOf(p)
     /\ RowOf(p) # 0 /\ proc[p].at \in Finishing => proc'[p].at \in Finishing
  \/ RowOf(p)' = 0 /\ RowOf(p) \in excused' \cup {0}
  \/ RowOf(p)' = 0 /\ proc[p].at \notin Finishing /\ ~ Gate(events[RowOf(p)])

\* A step that stores no event, no alert, and no case for an event.
NothingStored ==
  /\ DOMAIN events' = DOMAIN events
  /\ \A n \in DOMAIN events : events'[n].eid = events[n].eid /\ events'[n].sev = events[n].sev
  /\ DOMAIN alerts' = DOMAIN alerts
  /\ \A a \in DOMAIN alerts : alerts'[a].event = alerts[a].event
  /\ DOMAIN cases \subseteq DOMAIN cases'
  /\ \A c \in DOMAIN cases' : cases'[c].for = IF c \in DOMAIN cases THEN cases[c].for ELSE 0
  /\ excused \subseteq excused'

LEMMA AlertFrame ==
  ASSUME SocTyped, AlertInv, NothingStored, \A p \in Procs : GivesUp(p)
  PROVE  AlertInv'
  <1>1. OneEach'
    <2>1. \A m, n \in DOMAIN events' : events'[m].eid = events'[n].eid => m = n
      BY DEF AlertInv, OneEach, NothingStored
    <2>2. \A p, q \in Procs : RowOf(p)' # 0 /\ RowOf(p)' = RowOf(q)' => p = q
      BY DEF AlertInv, OneEach, GivesUp
    <2>3. \A a, b \in DOMAIN alerts' : alerts'[a].event = alerts'[b].event => a = b
      BY DEF AlertInv, OneEach, NothingStored
    <2>4. \A c, d \in DOMAIN cases' :
            cases'[c].for # 0 /\ cases'[c].for = cases'[d].for => c = d
      BY DEF AlertInv, OneEach, NothingStored
    <2>5. QED
      BY <2>1, <2>2, <2>3, <2>4 DEF OneEach
  <1>2. NotYet'
    <2>1. ASSUME NEW p \in Procs, RowOf(p)' # 0
          PROVE  /\ \A a \in DOMAIN alerts' : alerts'[a].event # RowOf(p)'
                 /\ proc'[p].at \notin Finishing =>
                      \A c \in DOMAIN cases' : cases'[c].for # RowOf(p)'
      <3>1. /\ RowOf(p)' = RowOf(p) /\ RowOf(p) # 0
            /\ proc[p].at \in Finishing => proc'[p].at \in Finishing
        BY <2>1 DEF GivesUp
      <3>2. QED
        BY <3>1 DEF AlertInv, NotYet, NothingStored
    <2>2. QED
      BY <2>1 DEF NotYet
  <1>3. Served'
    <2>1. ASSUME NEW n \in DOMAIN events, n \notin excused', \A p \in Procs : RowOf(p)' # n,
                 Gate(events'[n]) \/ \E c \in DOMAIN cases' : cases'[c].for = n
          PROVE  \E a \in DOMAIN alerts' : alerts'[a].event = n
      <3>1. n # 0
        BY RowOfShape
      <3>2. Gate(events[n]) \/ \E c \in DOMAIN cases : cases[c].for = n
        BY <2>1, <3>1 DEF NothingStored, Gate
      <3>3. ~ InProgress(n)
        <4>1. ASSUME NEW p \in Procs, RowOf(p) = n
              PROVE  FALSE
          <5>1. proc[p].at \notin Finishing /\ ~ Gate(events[n])
            BY <2>1, <3>1, <4>1 DEF GivesUp
          <5>2. \A c \in DOMAIN cases : cases[c].for # n
            BY <3>1, <4>1, <5>1 DEF AlertInv, NotYet
          <5>3. QED
            BY <3>2, <5>1, <5>2
        <4>2. QED
          BY <4>1 DEF InProgress
      <3>4. n \notin excused
        BY <2>1 DEF NothingStored
      <3>5. \E a \in DOMAIN alerts : alerts[a].event = n
        BY <3>2, <3>3, <3>4 DEF AlertInv, Served
      <3>6. QED
        BY <3>5 DEF NothingStored
    <2>2. DOMAIN events' = DOMAIN events
      BY DEF NothingStored
    <2>3. QED
      BY <2>1, <2>2 DEF Served, InProgress
  <1>4. QED
    BY <1>1, <1>2, <1>3 DEF AlertInv

\* Nothing is stored when these tables are left alone.
LEMMA TablesAlone ==
  ASSUME UNCHANGED <<events, alerts, cases, excused>>
  PROVE  NothingStored
  BY DEF NothingStored

\* One process moves; it alone may give up its row.
LEMMA AlertMove ==
  ASSUME SocTyped, AlertInv, NothingStored, NEW p \in Procs, NEW s,
         proc' = [proc EXCEPT ![p] = s], GivesUp(p)
  PROVE  AlertInv'
  <1>1. ASSUME NEW q \in Procs \ {p}
        PROVE  GivesUp(q)
    BY OneMoves DEF GivesUp
  <1>2. \A q \in Procs : GivesUp(q)
    BY <1>1
  <1>3. QED
    BY <1>2, AlertFrame

\* A move between stages of the same row, or between stages of none.
LEMMA SameRow ==
  ASSUME SocTyped, NEW p \in Procs, NEW s, proc' = [proc EXCEPT ![p] = s],
         ShapeOf(p, s) \/ ShapeOf(p, s)',
         \/ proc[p].at \in RowStages \ Finishing /\ s.at \in RowStages /\ s.n = proc[p].n
         \/ proc[p].at \in Finishing /\ s.at \in Finishing /\ s.n = proc[p].n
         \/ proc[p].at \notin RowStages /\ s.at \notin RowStages
  PROVE  GivesUp(p)
  <1>1. /\ proc'[p] = s
        /\ RowOf(p)' = IF s.at \in RowStages THEN s.n ELSE 0
    BY OneMoves DEF ShapeOf
  <1>2. RowOf(p) = IF proc[p].at \in RowStages THEN proc[p].n ELSE 0
    BY RowOfShape
  <1>3. QED
    BY <1>1, <1>2 DEF GivesUp, Finishing, RowStages

\* A step that only moves a process.
LEMMA AlertRead ==
  ASSUME SocTyped, AlertInv, NEW p \in Procs, NEW s, proc' = [proc EXCEPT ![p] = s],
         ShapeOf(p, s), UNCHANGED <<events, alerts, cases, excused>>,
         \/ proc[p].at \in RowStages \ Finishing /\ s.at \in RowStages /\ s.n = proc[p].n
         \/ proc[p].at \notin RowStages /\ s.at \notin RowStages
  PROVE  AlertInv'
  BY TablesAlone, SameRow, AlertMove

\* The row of a new event: nothing refers to it yet.
LEMMA AlertInsert ==
  ASSUME SocTyped, AlertInv, NEW p \in Procs, proc[p].at = "insert", Inserts(p)
  PROVE  AlertInv'
  <1> DEFINE k == Len(events) + 1
  <1>1. /\ Len(events) \in Nat /\ DOMAIN events = 1..Len(events)
        /\ DOMAIN events' = 1..(Len(events) + 1)
        /\ \A n \in DOMAIN events : events'[n] = events[n]
        /\ events'[Len(events) + 1] = proc[p].ev
    BY AppendRow DEF Inserts, SocTyped, EventsOK
  <1>2. k \notin DOMAIN events /\ k # 0 /\ DOMAIN events' = DOMAIN events \cup {k}
        /\ events'[k] = proc[p].ev
    BY <1>1
  <1> HIDE DEF k
  <1>3. RowOf(p)' = k /\ \A q \in Procs \ {p} : RowOf(q)' = RowOf(q) /\ proc'[q] = proc[q]
    <2>1. PICK s : s = [at |-> "correlate", n |-> Len(events) + 1]
      OBVIOUS
    <2>2. proc' = [proc EXCEPT ![p] = s]
      BY <2>1 DEF Inserts, Goes
    <2>3. "n" \in DOMAIN s /\ s.n = k
      BY <2>1 DEF k
    <2>4. QED
      BY <2>2, <2>3, OneMoves
  <1>4. \A q \in Procs : RowOf(q) # k
    BY <1>2, RowOfShape
  <1>5. RowOf(p) = 0
    BY RowOfShape DEF RowStages
  <1>6. UNCHANGED <<alerts, cases, excused>>
    BY DEF Inserts
  <1>7. \A a \in DOMAIN alerts : alerts[a].event # k
    BY <1>2 DEF SocTyped, AlertsOK, IsAlert
  <1>8. \A c \in DOMAIN cases : cases[c].for # k
    BY <1>2 DEF SocTyped, CasesOK, IsCase
  <1>9. OneEach'
    <2>1. \A m, n \in DOMAIN events' : events'[m].eid = events'[n].eid => m = n
      BY <1>1, <1>2 DEF AlertInv, OneEach, Inserts
    <2>2. \A q, r \in Procs : RowOf(q)' # 0 /\ RowOf(q)' = RowOf(r)' => q = r
      BY <1>3, <1>4 DEF AlertInv, OneEach
    <2>3. QED
      BY <2>1, <2>2, <1>6 DEF AlertInv, OneEach
  <1>10. NotYet'
    BY <1>3, <1>6, <1>7, <1>8 DEF AlertInv, NotYet
  <1>11. Served'
    <2>1. ASSUME NEW n \in DOMAIN events', n \notin excused', \A q \in Procs : RowOf(q)' # n,
                 Gate(events'[n]) \/ \E c \in DOMAIN cases' : cases'[c].for = n
          PROVE  \E a \in DOMAIN alerts' : alerts'[a].event = n
      <3>1. n \in DOMAIN events /\ events'[n] = events[n]
        BY <1>1, <1>2, <1>3, <2>1
      <3>2. ~ InProgress(n)
        BY <1>3, <1>5, <2>1, <3>1, RowOfShape DEF InProgress
      <3>3. QED
        BY <1>6, <2>1, <3>1, <3>2 DEF AlertInv, Served
    <2>2. QED
      BY <2>1 DEF Served, InProgress
  <1>12. QED
    BY <1>9, <1>10, <1>11 DEF AlertInv

\* A case is opened for a row that has none.
LEMMA AlertOpen ==
  ASSUME SocTyped, AlertInv, NEW p \in Procs, OpenCase(p)
  PROVE  AlertInv'
  <1> DEFINE k == Len(cases) + 1
             r == proc[p].n
  <1>1. /\ DOMAIN cases' = DOMAIN cases \cup {k} /\ k \notin DOMAIN cases
        /\ \A c \in DOMAIN cases : cases'[c] = cases[c]
        /\ cases'[k].for = r
    <2>1. /\ Len(cases) \in Nat
          /\ DOMAIN cases = 1..Len(cases) /\ DOMAIN cases' = 1..(Len(cases) + 1)
          /\ \A c \in DOMAIN cases : cases'[c] = cases[c]
          /\ cases'[Len(cases) + 1] = NewCase(proc[p].n)
      BY OpenSteps
    <2>2. NewCase(proc[p].n).for = proc[p].n
      BY NewCaseRow
    <2>3. QED
      BY <2>1, <2>2
  <1>2. PICK s : Opens(p, s)
    BY OpenSteps
  <1>3. UNCHANGED <<events, alerts, excused>> /\ proc[p].at = "case" /\ s.at = "timeline"
        /\ proc' = [proc EXCEPT ![p] = s] /\ s.n = r
    BY <1>2 DEF Opens, Goes, ghosts
  <1>4. RowOf(p) = r /\ r # 0
    BY <1>3, RowOfShape DEF RowStages
  <1>5. /\ proc'[p] = s /\ RowOf(p)' = r
        /\ \A q \in Procs \ {p} : RowOf(q)' = RowOf(q) /\ proc'[q] = proc[q]
    <2>1. "n" \in DOMAIN s
      BY <1>2, <1>3 DEF Opens, ShapeOf, RowStages
    <2>2. QED
      BY <1>3, <2>1, OneMoves
  <1>6. \A q \in Procs : RowOf(q)' = RowOf(q)
    BY <1>4, <1>5
  <1>7. \A c \in DOMAIN cases : cases[c].for # r
    BY <1>3, <1>4 DEF AlertInv, NotYet, Finishing
  <1>8. \A q \in Procs \ {p} : RowOf(q) # r
    BY <1>4 DEF AlertInv, OneEach
  <1> HIDE DEF k, r
  <1>9. OneEach'
    <2>1. \A c, d \in DOMAIN cases' :
            cases'[c].for # 0 /\ cases'[c].for = cases'[d].for => c = d
      BY <1>1, <1>7 DEF AlertInv, OneEach
    <2>2. \A q, o \in Procs : RowOf(q)' # 0 /\ RowOf(q)' = RowOf(o)' => q = o
      BY <1>6 DEF AlertInv, OneEach
    <2>3. QED
      BY <1>3, <2>1, <2>2 DEF AlertInv, OneEach
  <1>10. NotYet'
    <2>1. ASSUME NEW q \in Procs, RowOf(q)' # 0
          PROVE  \A a \in DOMAIN alerts' : alerts'[a].event # RowOf(q)'
      BY <1>3, <1>6, <2>1 DEF AlertInv, NotYet
    <2>2. ASSUME NEW q \in Procs, RowOf(q)' # 0, proc'[q].at \notin Finishing
          PROVE  \A c \in DOMAIN cases' : cases'[c].for # RowOf(q)'
      <3>1. q # p
        BY <1>3, <1>5, <2>2 DEF Finishing
      <3>2. \A c \in DOMAIN cases : cases[c].for # RowOf(q)
        BY <1>5, <2>2, <3>1 DEF AlertInv, NotYet
      <3>3. QED
        BY <1>1, <1>5, <1>8, <3>1, <3>2
    <2>3. QED
      BY <2>1, <2>2 DEF NotYet
  <1>11. Served'
    <2>1. ASSUME NEW n \in DOMAIN events, n \notin excused, ~ InProgress(n),
                 Gate(events[n]) \/ \E c \in DOMAIN cases' : cases'[c].for = n
          PROVE  \E a \in DOMAIN alerts : alerts[a].event = n
      <3>1. n # r
        BY <1>4, <2>1 DEF InProgress
      <3>2. Gate(events[n]) \/ \E c \in DOMAIN cases : cases[c].for = n
        BY <1>1, <2>1, <3>1
      <3>3. QED
        BY <2>1, <3>2 DEF AlertInv, Served
    <2>2. \A n : InProgress(n)' <=> InProgress(n)
      BY <1>6 DEF InProgress
    <2>3. QED
      BY <1>3, <2>1, <2>2 DEF Served
  <1>12. QED
    BY <1>9, <1>10, <1>11 DEF AlertInv

\* The alert of a row that has none: the row is served.
LEMMA AlertStored ==
  ASSUME SocTyped, AlertInv, NEW p \in Procs, CreateAlert(p)
  PROVE  AlertInv'
  <1> DEFINE r == proc[p].n
  <1>1. /\ proc[p].at = "alert" /\ Goes(p, After(p)) /\ UNCHANGED <<events, cases>>
        /\ \/ excused' = excused \cup {r} /\ UNCHANGED alerts
           \/ alerts' = Append(alerts, proc[p].alert) /\ UNCHANGED excused
    BY AlertSteps DEF Alerted
  <1>2. PICK s : s = After(p)
    OBVIOUS
  <1>3. proc' = [proc EXCEPT ![p] = s] /\ "n" \notin DOMAIN s
    BY <1>1, <1>2 DEF Goes, After, resting
  <1>4. RowOf(p)' = 0 /\ \A q \in Procs \ {p} : RowOf(q)' = RowOf(q) /\ proc'[q] = proc[q]
    BY <1>3, OneMoves
  <1>5. RowOf(p) = r /\ r # 0
    BY <1>1, RowOfShape DEF RowStages
  <1>6. CASE excused' = excused \cup {r} /\ UNCHANGED alerts
    <2>1. NothingStored
      BY <1>1, <1>6 DEF NothingStored
    <2>2. GivesUp(p)
      BY <1>4, <1>5, <1>6 DEF GivesUp
    <2>3. QED
      BY <1>3, <2>1, <2>2, AlertMove
  <1>7. CASE alerts' = Append(alerts, proc[p].alert) /\ UNCHANGED excused
    <2>1. proc[p].alert.event = r
      BY <1>1 DEF SocTyped, Shapes, ShapeOf
    <2> DEFINE k == Len(alerts) + 1
    <2>2. /\ DOMAIN alerts' = DOMAIN alerts \cup {k} /\ k \notin DOMAIN alerts
          /\ \A a \in DOMAIN alerts : alerts'[a] = alerts[a]
          /\ alerts'[k].event = r
      BY <1>1, <1>7, <2>1, AppendedAlert
    <2> HIDE DEF k, r
    <2>3. \A a \in DOMAIN alerts : alerts[a].event # r
      BY <1>5 DEF AlertInv, NotYet
    <2>4. \A q \in Procs \ {p} : RowOf(q) # r
      BY <1>5 DEF AlertInv, OneEach
    <2>5. OneEach'
      <3>1. \A a, b \in DOMAIN alerts' : alerts'[a].event = alerts'[b].event => a = b
        BY <2>2, <2>3 DEF AlertInv, OneEach
      <3>2. \A q, o \in Procs : RowOf(q)' # 0 /\ RowOf(q)' = RowOf(o)' => q = o
        BY <1>4 DEF AlertInv, OneEach
      <3>3. QED
        BY <1>1, <3>1, <3>2 DEF AlertInv, OneEach
    <2>6. NotYet'
      <3>1. ASSUME NEW q \in Procs, RowOf(q)' # 0
            PROVE  /\ \A a \in DOMAIN alerts' : alerts'[a].event # RowOf(q)'
                   /\ proc'[q].at \notin Finishing =>
                        \A c \in DOMAIN cases' : cases'[c].for # RowOf(q)'
        <4>1. q # p /\ RowOf(q)' = RowOf(q) /\ proc'[q] = proc[q]
          BY <1>4, <3>1
        <4>2. QED
          BY <1>1, <2>2, <2>4, <3>1, <4>1 DEF AlertInv, NotYet
      <3>2. QED
        BY <3>1 DEF NotYet
    <2>7. Served'
      <3>1. ASSUME NEW n \in DOMAIN events, n \notin excused, \A q \in Procs : RowOf(q)' # n,
                   Gate(events[n]) \/ \E c \in DOMAIN cases : cases[c].for = n
            PROVE  \E a \in DOMAIN alerts' : alerts'[a].event = n
        <4>1. CASE n = r
          BY <2>2, <4>1
        <4>2. CASE n # r
          <5>1. ~ InProgress(n)
            BY <1>4, <1>5, <3>1, <4>2 DEF InProgress
          <5>2. \E a \in DOMAIN alerts : alerts[a].event = n
            BY <3>1, <5>1 DEF AlertInv, Served
          <5>3. QED
            BY <2>2, <5>2
        <4>3. QED
          BY <4>1, <4>2
      <3>2. QED
        BY <1>1, <1>7, <3>1 DEF Served, InProgress
    <2>8. QED
      BY <2>5, <2>6, <2>7 DEF AlertInv
  <1>8. QED
    BY <1>1, <1>6, <1>7

LEMMA AlertPipe ==
  ASSUME SocTyped, AlertInv, NEW p \in Procs, Pipes(p)
  PROVE  AlertInv'
  <1>1. ASSUME NEW s, Reaches(p, s),
               \/ proc[p].at \in RowStages \ Finishing /\ s.at \in RowStages /\ s.n = proc[p].n
               \/ proc[p].at \notin RowStages /\ s.at \notin RowStages
        PROVE  AlertInv'
    BY <1>1, AlertRead DEF Reaches, Goes, socRecords
  <1>2. CASE Lookup(p)
    <2>1. proc[p].at = "lookup"
      BY <1>2 DEF Lookup
    <2>2. PICK s : Goes(p, s) /\ UNCHANGED <<socRecords, quiet>> /\ ShapeOf(p, s)
                   /\ (s = After(p) \/ s.at = "insert")
      BY <1>2, ReadingSteps
    <2>3. s.at \notin RowStages /\ proc[p].at \notin RowStages
      BY <2>1, <2>2 DEF After, resting, RowStages
    <2>4. QED
      BY <1>1, <2>2, <2>3 DEF Reaches
  <1>3. CASE Correlate(p) \/ MatchRules(p) \/ ListWindowed(p)
    BY <1>1, <1>3, WorkingSteps DEF RowStages, Finishing
  <1>4. CASE \E r \in RuleNames : CountTotal(p, r)
    <2>1. PICK s : /\ proc[p].at = "total" /\ Reaches(p, s) /\ s.n = proc[p].n
                   /\ s.at \in {"total", "before"}
      BY <1>4, DecidingSteps
    <2>2. QED
      BY <1>1, <2>1 DEF RowStages, Finishing
  <1>5. CASE Decide(p)
    <2>1. PICK s : /\ proc[p].at = "total" /\ Reaches(p, s)
                   /\ \/ s = After(p) /\ ~ Gate(events[proc[p].n])
                      \/ s.at \in {"case", "alert"} /\ s.n = proc[p].n
      BY <1>5, DecidingSteps
    <2>2. CASE s.at \in {"case", "alert"} /\ s.n = proc[p].n
      BY <1>1, <2>1, <2>2 DEF RowStages, Finishing
    <2>3. CASE s = After(p) /\ ~ Gate(events[proc[p].n])
      <3>1. proc' = [proc EXCEPT ![p] = s] /\ UNCHANGED <<events, alerts, cases, excused>>
        BY <2>1 DEF Reaches, Goes, socRecords
      <3>2. "n" \notin DOMAIN s
        BY <2>3 DEF After, resting
      <3>3. RowOf(p)' = 0
        BY <3>1, <3>2, OneMoves
      <3>4. RowOf(p) = proc[p].n
        BY <2>1, RowOfShape DEF RowStages
      <3>5. GivesUp(p)
        BY <2>1, <2>3, <3>3, <3>4 DEF GivesUp, Finishing
      <3>6. QED
        BY <3>1, <3>5, TablesAlone, AlertMove
    <2>4. QED
      BY <2>1, <2>2, <2>3
  <1>6. CASE InsertEvent(p)
    <2>1. CASE Inserts(p)
      BY <1>6, <2>1, InsertSteps, AlertInsert
    <2>2. CASE Goes(p, After(p)) /\ UNCHANGED <<socRecords, quiet>>
      <3>1. PICK s : s = After(p)
        OBVIOUS
      <3>2. Reaches(p, s)
        BY <2>2, <3>1, AfterShape DEF Reaches
      <3>3. s.at \notin RowStages /\ proc[p].at \notin RowStages
        BY <1>6, <3>1, InsertSteps DEF After, resting, RowStages
      <3>4. QED
        BY <1>1, <3>2, <3>3
    <2>3. QED
      BY <1>6, <2>1, <2>2, InsertSteps
  <1>7. CASE CountBefore(p)
    <2>1. PICK s : Counts(p, s)
      BY <1>7, CountSteps
    <2>2. QED
      BY <2>1, AlertRead DEF Counts, Goes, stores, RowStages, Finishing
  <1>8. CASE LogOpened(p)
    <2>1. PICK s : Tells(p, s)
      BY <1>8, TellSteps
    <2>2. /\ DOMAIN cases' = DOMAIN cases
          /\ \A c \in DOMAIN cases : cases'[c].for = cases[c].for
      BY <2>1, LoggedRow DEF Tells
    <2>3. NothingStored
      BY <2>1, <2>2 DEF NothingStored, Tells, ghosts
    <2>4. GivesUp(p)
      BY <2>1, SameRow DEF Tells, Goes, Finishing
    <2>5. QED
      BY <2>1, <2>3, <2>4, AlertMove DEF Tells, Goes
  <1>9. QED
    BY <1>2, <1>3, <1>4, <1>5, <1>6, <1>7, <1>8, AlertOpen, AlertStored DEF Pipes

\* A process that is cut short leaves its row excused.
LEMMA AlertFail ==
  ASSUME SocTyped, AlertInv, NEW p \in Procs, Fails(p)
  PROVE  AlertInv'
  <1>1. Broken(p)
    BY DEF Fails
  <1>2. NothingStored
    <2>1. UNCHANGED <<events, alerts>>
      BY <1>1 DEF Broken
    <2>2. QED
      BY <1>1, <2>1, BrokenWrites DEF NothingStored
  <1>3. PICK s : Goes(p, s) /\ (s = After(p) \/ s = resting)
    BY DEF Fails
  <1>4. proc' = [proc EXCEPT ![p] = s] /\ "n" \notin DOMAIN s
    BY <1>3 DEF Goes, After, resting
  <1>5. RowOf(p)' = 0
    BY <1>4, OneMoves
  <1>6. GivesUp(p)
    BY <1>1, <1>5 DEF GivesUp, Broken
  <1>7. QED
    BY <1>2, <1>4, <1>6, AlertMove

\* The commands: none stores an event or an alert, or a case for an event.
LEMMA AlertCommand ==
  ASSUME SocTyped, AlertInv, NEW t \in Terminals
  PROVE  /\ Begins(t) \/ SetStatus(t) \/ LinkCase(t) \/ RecordEvent(t) => AlertInv'
         /\ \A r \in RuleNames : RuleSet(t, r) => AlertInv'
         /\ \A c, status : Writes(t, c, status) => AlertInv'
  <1>1. t \in Procs
    BY DEF Terminals
  <1>2. ASSUME NothingStored, NEW s, proc' = [proc EXCEPT ![t] = s],
               ShapeOf(t, s) \/ ShapeOf(t, s)',
               proc[t].at \notin RowStages, s.at \notin RowStages
        PROVE  AlertInv'
    BY <1>1, <1>2, SameRow, AlertMove
  <1>3. resting.at \notin RowStages /\ ShapeOf(t, resting)
    BY <1>1, AfterShape DEF resting, RowStages
  <1>4. ASSUME Begins(t)
        PROVE  AlertInv'
    <2>1. PICK s : /\ Starts(t, s) /\ UNCHANGED socRecords /\ ShapeOf(t, s)
                   /\ s.at \in {"idle", "lookup", "stamp", "log"}
      BY <1>4, BeginSteps
    <2>2. proc' = [proc EXCEPT ![t] = s] /\ proc[t] = resting /\ s.at \notin RowStages
      BY <2>1 DEF Starts, RowStages
    <2>3. NothingStored
      BY <2>1, TablesAlone DEF socRecords
    <2>4. QED
      BY <1>2, <1>3, <2>1, <2>2, <2>3
  <1>5. ASSUME SetStatus(t) \/ LinkCase(t)
        PROVE  AlertInv'
    <2>1. PICK s : Goes(t, s) /\ ShapeOf(t, s) /\ s.at \in {"idle", "link"}
      <3>1. CASE SetStatus(t)
        BY <3>1, StampSteps
      <3>2. CASE LinkCase(t)
        <4>1. PICK s : s = resting
          OBVIOUS
        <4>2. Goes(t, s) /\ ShapeOf(t, s) /\ s.at \in {"idle", "link"}
          BY <1>3, <3>2, <4>1, LinkSteps DEF resting
        <4>3. QED
          BY <4>2
      <3>3. QED
        BY <1>5, <3>1, <3>2
    <2>2. /\ proc[t].at \in {"stamp", "link"} /\ UNCHANGED <<events, cases, excused>>
          /\ DOMAIN alerts' = DOMAIN alerts
          /\ \A a \in DOMAIN alerts : alerts'[a].event = alerts[a].event
      BY <1>5, StampSteps, LinkSteps DEF AlertWritten, ghosts
    <2>3. NothingStored
      BY <2>2 DEF NothingStored
    <2>4. proc' = [proc EXCEPT ![t] = s]
      BY <2>1 DEF Goes
    <2>5. QED
      BY <1>2, <2>1, <2>2, <2>3, <2>4 DEF RowStages
  <1>6. ASSUME RecordEvent(t)
        PROVE  AlertInv'
    <2>1. /\ proc[t].at = "log" /\ proc[t].case \in DOMAIN cases
          /\ cases' = Logged(cases, proc[t].case, proc[t].entry)
          /\ Goes(t, resting) /\ UNCHANGED <<events, alerts, excused>>
      BY <1>6, RecordSteps DEF ghosts
    <2>2. /\ DOMAIN cases' = DOMAIN cases
          /\ \A c \in DOMAIN cases : cases'[c].for = cases[c].for
      BY <2>1, LoggedRow
    <2>3. NothingStored
      BY <2>1, <2>2 DEF NothingStored
    <2>4. PICK s : s = resting
      OBVIOUS
    <2>5. QED
      BY <1>2, <1>3, <2>1, <2>3, <2>4 DEF Goes, RowStages
  <1>7. ASSUME NEW r \in RuleNames, RuleSet(t, r)
        PROVE  AlertInv'
    <2>1. Starts(t, resting) /\ UNCHANGED <<events, alerts, cases, excused>>
      BY <1>7 DEF RuleSet, Commands
    <2>2. PICK s : s = resting
      OBVIOUS
    <2>3. QED
      BY <1>2, <1>3, <2>1, <2>2, TablesAlone DEF Starts
  <1>8. ASSUME NEW c, NEW status, Writes(t, c, status)
        PROVE  AlertInv'
    <2>1. PICK s : s = Log(c, status)
      OBVIOUS
    <2>2. proc[t] = resting /\ proc' = [proc EXCEPT ![t] = s] /\ s.at \notin RowStages
      BY <1>8, <2>1 DEF Writes, Starts, Log, RowStages
    <2>3. ShapeOf(t, s)'
      <3>1. ShapeOf(t, proc[t])'
        BY <1>1, <1>8, TypedWrite DEF SocTyped, Shapes
      <3>2. proc'[t] = s
        BY <1>1, <2>2, OneMoves
      <3>3. QED
        BY <3>1, <3>2
    <2>4. NothingStored
      BY <1>8, NewCaseRow DEF NothingStored, Writes, ghosts
    <2>5. QED
      BY <1>2, <1>3, <2>2, <2>3, <2>4
  <1>9. QED
    BY <1>4, <1>5, <1>6, <1>7, <1>8

\* The feeder and the writer of its file write none of the tables.
LEMMA FeederMoves ==
  ASSUME SocTyped
  PROVE  /\ FileStep => UNCHANGED <<stores, ghosts, proc, quiet, work>>
         /\ FeederStep =>
              \E s : /\ Goes(Feeder, s) /\ ShapeOf(Feeder, s)
                     /\ s.at \in {"idle", "reading", "lookup"}
                     /\ proc[Feeder].at \in {"idle", "reading"}
                     /\ UNCHANGED <<stores, ghosts, quiet>>
  <1>1. Feeder \in Procs
    BY FeederAssumption
  <1>2. ASSUME FileStep
        PROVE  UNCHANGED <<stores, ghosts, proc, quiet, work>>
    BY <1>2 DEF FileStep, AppendLine, AppendRest, Rotate, Grow
  <1>3. ASSUME FeederStep
        PROVE  \E s : /\ Goes(Feeder, s) /\ ShapeOf(Feeder, s)
                      /\ s.at \in {"idle", "reading", "lookup"}
                      /\ proc[Feeder].at \in {"idle", "reading"}
                      /\ UNCHANGED <<stores, ghosts, quiet>>
    <2>1. CASE Poll
      <3>1. PICK s : s = [at |-> "reading"]
        OBVIOUS
      <3>2. ShapeOf(Feeder, s)
        BY <3>1 DEF ShapeOf, RowStages
      <3>3. QED
        BY <2>1, <3>1, <3>2 DEF Poll
    <2>2. CASE FeedLine
      <3>1. PICK s : Feeds(s)
        BY <2>2, FeedSteps DEF SocTyped
      <3>2. QED
        BY <3>1 DEF Feeds
    <2>3. CASE EndOfFile
      <3>1. PICK s : s = resting
        OBVIOUS
      <3>2. ShapeOf(Feeder, s) /\ s.at = "idle"
        BY <1>1, <3>1, AfterShape DEF resting
      <3>3. QED
        BY <2>3, <3>1, <3>2 DEF EndOfFile
    <2>4. QED
      BY <1>3, <2>1, <2>2, <2>3 DEF FeederStep
  <1>4. QED
    BY <1>2, <1>3

\* The steps that write no table of the alerts.
LEMMA AlertElse ==
  ASSUME SocTyped, AlertInv
  PROVE  /\ FileStep \/ FeederStep \/ WindowSlides \/ UNCHANGED socVars => AlertInv'
         /\ \A t \in Terminals : \A s : Beside(t, s) => AlertInv'
  <1>1. ASSUME NothingStored, UNCHANGED proc
        PROVE  AlertInv'
    BY <1>1, AlertFrame DEF GivesUp, RowOf
  <1>2. CASE FileStep
    BY <1>1, <1>2, FeederMoves, TablesAlone DEF stores, ghosts
  <1>3. CASE FeederStep
    <2>1. PICK s : /\ Goes(Feeder, s) /\ ShapeOf(Feeder, s)
                   /\ s.at \in {"idle", "reading", "lookup"}
                   /\ proc[Feeder].at \in {"idle", "reading"}
                   /\ UNCHANGED <<stores, ghosts, quiet>>
      BY <1>3, FeederMoves
    <2>2. QED
      BY <2>1, FeederAssumption, AlertRead DEF Goes, stores, ghosts, RowStages
  <1>4. CASE WindowSlides
    <2>1. NothingStored
      BY <1>4, SlideWrites DEF NothingStored
    <2>2. QED
      BY <1>1, <1>4, <2>1, SlideWrites
  <1>5. CASE UNCHANGED socVars
    BY <1>1, <1>5, TablesAlone DEF socVars, socRecords, deskVars
  <1>6. ASSUME NEW t \in Terminals, NEW s, Beside(t, s)
        PROVE  AlertInv'
    <2>1. t \in Procs /\ s.at \notin RowStages /\ proc[t].at \notin RowStages
      BY <1>6 DEF Beside, Terminals, SocStages, RowStages
    <2>2. QED
      BY <1>6, <2>1, AlertRead DEF Beside, socRecords
  <1>7. QED
    BY <1>2, <1>3, <1>4, <1>5, <1>6

LEMMA AlertNext ==
  ASSUME SocTyped, AlertInv, [SocNext]_socVars
  PROVE  AlertInv'
  <1>1. CASE UNCHANGED socVars
    BY <1>1, AlertElse
  <1>2. CASE SocNext
    BY <1>2, Kinds, AlertPipe, AlertFail, AlertCommand, AlertElse
  <1>3. QED
    BY <1>1, <1>2

LEMMA AlertInit ==
  ASSUME SocInit
  PROVE  AlertInv
  <1>1. events = <<>> /\ alerts = <<>> /\ cases = <<>> /\ DOMAIN <<>> = {}
    BY EmptySeq DEF SocInit
  <1>2. \A p \in Procs : RowOf(p) = 0
    BY DEF SocInit, DeskInit, RowOf, resting
  <1>3. QED
    BY <1>1, <1>2 DEF AlertInv, OneEach, NotYet, Served

\* A set with no two elements has one at most.
LEMMA AtMostOne ==
  ASSUME NEW S, \A x, y \in S : x = y
  PROVE  Cardinality(S) <= 1
  <1>1. CASE S = {}
    BY <1>1, FS_EmptySet
  <1>2. CASE S # {}
    <2>1. PICK x : S = {x}
      BY <1>2
    <2>2. QED
      BY <2>1, FS_Singleton
  <1>3. QED
    BY <1>1, <1>2

\* One alert and one case at most for an event, and the alert that is called for
\* unless the ingest was cut short.
LEMMA AlertInvSuffices ==
  ASSUME SocTyped, AlertInv
  PROVE  EventsAlertOnce
  <1>1. ASSUME NEW n \in DOMAIN events
        PROVE  LET id == events[n].eid IN
               /\ Cardinality(Alerts(id)) <= 1 /\ Cardinality(AutoCases(id)) <= 1
               /\ n \notin excused /\ ~ InProgress(n) /\ (Gate(events[n]) \/ AutoCases(id) # {})
                    => Alerts(id) # {}
    <2> DEFINE id == events[n].eid
    <2>1. \A a \in DOMAIN alerts : alerts[a].event \in DOMAIN events
      BY DEF SocTyped, AlertsOK, IsAlert
    <2>2. \A c \in DOMAIN cases : cases[c].for # 0 => cases[c].for \in DOMAIN events
      BY DEF SocTyped, CasesOK, IsCase
    <2>3. \A a \in DOMAIN alerts : a \in Alerts(id) <=> alerts[a].event = n
      BY <2>1 DEF Alerts, AlertInv, OneEach
    <2>4. \A c \in DOMAIN cases : c \in AutoCases(id) <=> cases[c].for = n
      BY <2>2, RowOfShape DEF AutoCases, AlertInv, OneEach
    <2>5. Alerts(id) \subseteq DOMAIN alerts /\ AutoCases(id) \subseteq DOMAIN cases
      BY DEF Alerts, AutoCases
    <2> HIDE DEF id
    <2>6. Cardinality(Alerts(id)) <= 1
      BY <2>3, <2>5, AtMostOne DEF AlertInv, OneEach
    <2>7. Cardinality(AutoCases(id)) <= 1
      <3>1. n # 0
        BY RowOfShape
      <3>2. QED
        BY <2>4, <2>5, <3>1, AtMostOne DEF AlertInv, OneEach
    <2>8. n \notin excused /\ ~ InProgress(n) /\ (Gate(events[n]) \/ AutoCases(id) # {})
            => Alerts(id) # {}
      BY <2>3, <2>4, <2>5 DEF AlertInv, Served
    <2>9. QED
      BY <2>6, <2>7, <2>8 DEF id
  <1>2. QED
    BY <1>1 DEF EventsAlertOnce

\* However often an event is sent, whoever sends it and wherever an ingest is cut
\* short, an event has one alert and one case at most, and one above the gate has
\* its alert once its ingest has ended by itself.
THEOREM AlertsOnce == SocSpec => []EventsAlertOnce
  <1>1. SocInit => SocTyped /\ AlertInv
    BY TypedInit, AlertInit
  <1>2. SocTyped /\ AlertInv /\ [SocNext]_socVars => SocTyped' /\ AlertInv'
    BY TypedNext, AlertNext
  <1>3. SocTyped /\ AlertInv => EventsAlertOnce
    BY AlertInvSuffices
  <1>4. QED
    BY <1>1, <1>2, <1>3, PTL DEF SocSpec

-----------------------------------------------------------------------------
(***************************************************************************)
(* The stamps of an alert.                                                 *)
(***************************************************************************)

\* A quiet command carries the stamps as they are, or more.
StampInv ==
  \A t \in Terminals : proc[t].at = "stamp" /\ quiet[t] =>
    /\ alerts[proc[t].a].acknowledged => proc[t].acknowledged
    /\ alerts[proc[t].a].resolved => proc[t].resolved

StampsKept ==
  \A a \in DOMAIN alerts : /\ alerts'[a].acknowledged = alerts[a].acknowledged
                           /\ alerts'[a].resolved = alerts[a].resolved

\* Process p goes to stage s; a process that is disturbed stays disturbed.
Moves(p, s) ==
  /\ proc' = [proc EXCEPT ![p] = s]
  /\ \A q \in Procs \ {p} : proc[q] # resting /\ quiet'[q] => quiet[q]

\* What process p reads when it comes to a stamp.
Reads(s) ==
  s.at = "stamp" => /\ s.acknowledged = alerts[s.a].acknowledged
                    /\ s.resolved = alerts[s.a].resolved
                    /\ s.a \in DOMAIN alerts

LEMMA MovesOne ==
  ASSUME SocTyped, NEW p \in Procs, NEW s,
         \/ Goes(p, s) /\ (UNCHANGED quiet \/ Updates(p) \/ quiet' = [quiet EXCEPT ![p] = TRUE])
         \/ Starts(p, s)
  PROVE  Moves(p, s)
  <1>1. \A q \in Procs \ {p} : proc[q] # resting /\ quiet'[q] => quiet[q]
    BY DEF SocTyped, DeskOK, Goes, Starts, Updates
  <1>2. QED
    BY <1>1 DEF Moves, Goes, Starts

\* But for the write of a status no step touches a stamp.
LEMMA StampCases ==
  ASSUME SocTyped, [SocNext]_socVars
  PROVE  \/ \E t \in Terminals : SetStatus(t)
         \/ StampsKept /\ UNCHANGED <<proc, quiet>>
         \/ StampsKept /\ \E p \in Procs : \E s : Moves(p, s) /\ Reads(s)
  <1>1. UNCHANGED alerts => StampsKept
    BY DEF StampsKept
  <1>2. CASE UNCHANGED socVars \/ FileStep \/ WindowSlides
    <2>1. UNCHANGED <<alerts, proc, quiet>>
      BY <1>2, FeederMoves, SlideWrites DEF socVars, socRecords, deskVars, stores
    <2>2. QED
      BY <1>1, <2>1
  <1>3. ASSUME NEW p \in Procs, NEW s, StampsKept, s.at # "stamp",
               \/ /\ Goes(p, s)
                  /\ UNCHANGED quiet \/ Updates(p) \/ quiet' = [quiet EXCEPT ![p] = TRUE]
               \/ Starts(p, s)
        PROVE  \E q \in Procs : \E r : Moves(q, r) /\ Reads(r)
    BY <1>3, MovesOne DEF Reads
  <1>4. CASE FeederStep
    <2>1. PICK s : Goes(Feeder, s) /\ s.at # "stamp" /\ UNCHANGED <<alerts, quiet>>
      BY <1>4, FeederMoves DEF stores
    <2>2. QED
      BY <1>1, <1>3, <2>1, FeederAssumption
  <1>5. ASSUME NEW p \in Procs, Pipes(p)
        PROVE  StampsKept /\ \E q \in Procs : \E r : Moves(q, r) /\ Reads(r)
    <2>1. ASSUME NEW s, Goes(p, s), UNCHANGED <<alerts, quiet>>, s.at # "stamp"
          PROVE  StampsKept /\ \E q \in Procs : \E r : Moves(q, r) /\ Reads(r)
      BY <1>1, <1>3, <2>1
    <2>2. After(p).at # "stamp"
      BY DEF After, resting
    <2>3. CASE Lookup(p)
      BY <2>1, <2>2, <2>3, ReadingSteps DEF socRecords
    <2>4. CASE Correlate(p) \/ MatchRules(p) \/ ListWindowed(p)
      BY <2>1, <2>4, WorkingSteps DEF Reaches, socRecords
    <2>5. CASE (\E r \in RuleNames : CountTotal(p, r)) \/ Decide(p)
      BY <2>1, <2>2, <2>5, DecidingSteps DEF Reaches, socRecords
    <2>6. CASE InsertEvent(p)
      <3>1. PICK s : s = After(p)
        OBVIOUS
      <3>2. PICK r : r = [at |-> "correlate", n |-> Len(events) + 1]
        OBVIOUS
      <3>3. \/ Goes(p, s) /\ UNCHANGED <<alerts, quiet>>
            \/ Goes(p, r) /\ UNCHANGED <<alerts, quiet>>
        BY <2>6, <3>1, <3>2, InsertSteps DEF Inserts, socRecords
      <3>4. r.at # "stamp" /\ s.at # "stamp"
        BY <2>2, <3>1, <3>2
      <3>5. QED
        BY <2>1, <3>3, <3>4
    <2>7. CASE CountBefore(p)
      BY <2>1, <2>7, CountSteps DEF Counts, stores
    <2>8. CASE OpenCase(p)
      BY <2>1, <2>8, OpenSteps DEF Opens
    <2>9. CASE LogOpened(p)
      BY <2>1, <2>9, TellSteps DEF Tells
    <2>10. CASE CreateAlert(p)
      <3>1. Alerted(p)
        BY <2>10, AlertSteps
      <3>2. StampsKept
        <4>1. CASE UNCHANGED alerts
          BY <1>1, <4>1
        <4>2. CASE alerts' = Append(alerts, proc[p].alert)
          BY <3>1, <4>2, AppendedAlert DEF Alerted, StampsKept
        <4>3. QED
          BY <3>1, <4>1, <4>2 DEF Alerted
      <3>3. PICK s : s = After(p)
        OBVIOUS
      <3>4. Goes(p, s) /\ UNCHANGED quiet /\ s.at # "stamp"
        BY <2>2, <3>1, <3>3 DEF Alerted
      <3>5. QED
        BY <1>3, <3>2, <3>4
    <2>11. QED
      BY <1>5, <2>3, <2>4, <2>5, <2>6, <2>7, <2>8, <2>9, <2>10 DEF Pipes
  <1>6. ASSUME NEW p \in Procs, Fails(p)
        PROVE  StampsKept /\ \E q \in Procs : \E r : Moves(q, r) /\ Reads(r)
    <2>1. PICK s : Goes(p, s) /\ (s = After(p) \/ s = resting)
      BY <1>6 DEF Fails
    <2>2. s.at # "stamp"
      BY <2>1 DEF After, resting
    <2>3. UNCHANGED alerts /\ quiet' = [quiet EXCEPT ![p] = TRUE]
      BY <1>6 DEF Fails, Broken
    <2>4. QED
      BY <1>1, <1>3, <2>1, <2>2, <2>3
  <1>7. ASSUME NEW t \in Terminals, ~ SetStatus(t),
               \/ Begins(t) \/ SetStatus(t) \/ LinkCase(t) \/ RecordEvent(t)
               \/ \E r \in RuleNames : RuleSet(t, r)
               \/ \E c, status : Writes(t, c, status)
        PROVE  StampsKept /\ \E q \in Procs : \E r : Moves(q, r) /\ Reads(r)
    <2>1. t \in Procs
      BY DEF Terminals
    <2>2. PICK o : o = resting
      OBVIOUS
    <2>3. o.at # "stamp"
      BY <2>2 DEF resting
    <2>4. CASE Begins(t)
      <3>1. PICK s : /\ Starts(t, s) /\ UNCHANGED socRecords /\ ShapeOf(t, s)
                     /\ s.at = "stamp" => /\ s.acknowledged = alerts[s.a].acknowledged
                                          /\ s.resolved = alerts[s.a].resolved
        BY <2>4, BeginSteps
      <3>2. Reads(s)
        BY <3>1 DEF Reads, ShapeOf
      <3>3. QED
        BY <1>1, <2>1, <3>1, <3>2, MovesOne DEF socRecords
    <2>5. CASE LinkCase(t)
      <3>1. StampsKept
        BY <2>5, LinkSteps DEF AlertWritten, StampsKept
      <3>2. Goes(t, o) /\ Updates(t)
        BY <2>2, <2>5, LinkSteps
      <3>3. QED
        BY <1>3, <2>1, <2>3, <3>1, <3>2
    <2>6. CASE RecordEvent(t)
      BY <1>1, <1>3, <2>1, <2>2, <2>3, <2>6, RecordSteps
    <2>7. CASE \E r \in RuleNames : RuleSet(t, r)
      BY <1>1, <1>3, <2>1, <2>2, <2>3, <2>7 DEF RuleSet, Commands
    <2>8. CASE \E c, status : Writes(t, c, status)
      <3>1. PICK c, status : Writes(t, c, status)
        BY <2>8
      <3>2. PICK s : s = Log(c, status)
        OBVIOUS
      <3>3. s.at # "stamp" /\ Starts(t, s) /\ UNCHANGED alerts
        BY <3>1, <3>2 DEF Writes, Log
      <3>4. QED
        BY <1>1, <1>3, <2>1, <3>3
    <2>9. QED
      BY <1>7, <2>4, <2>5, <2>6, <2>7, <2>8
  <1>8. QED
    BY <1>2, <1>4, <1>5, <1>6, <1>7, <1>1, Kinds

\* One process moves and the stamps stay.
LEMMA StampMoves ==
  ASSUME SocTyped, StampInv, StampsKept, NEW p \in Procs, NEW s, Moves(p, s), Reads(s)
  PROVE  StampInv'
  <1>1. ASSUME NEW t \in Terminals, proc'[t].at = "stamp", quiet'[t]
        PROVE  /\ alerts'[proc'[t].a].acknowledged => proc'[t].acknowledged
               /\ alerts'[proc'[t].a].resolved => proc'[t].resolved
    <2>1. CASE t = p
      <3>1. proc'[t] = s
        BY <2>1, OneMoves DEF Moves
      <3>2. QED
        BY <1>1, <3>1 DEF Reads, StampsKept
    <2>2. CASE t # p
      <3>1. t \in Procs \ {p} /\ proc'[t] = proc[t]
        BY <2>2, OneMoves DEF Moves, Terminals
      <3>2. quiet[t]
        BY <1>1, <3>1 DEF Moves, resting
      <3>3. proc[t].a \in DOMAIN alerts
        BY <1>1, <3>1 DEF SocTyped, Shapes, ShapeOf
      <3>4. QED
        BY <1>1, <3>1, <3>2, <3>3 DEF StampInv, StampsKept
    <2>3. QED
      BY <2>1, <2>2
  <1>2. QED
    BY <1>1 DEF StampInv

LEMMA StampNext ==
  ASSUME SocTyped, StampInv, [SocNext]_socVars
  PROVE  StampInv'
  <1>1. ASSUME NEW t \in Terminals, SetStatus(t)
        PROVE  StampInv'
    <2>1. PICK s : Goes(t, s) /\ s.at \in {"idle", "link"}
      BY <1>1, StampSteps
    <2>2. \A q \in Terminals \ {t} : proc'[q] = proc[q] /\ (proc[q] # resting => ~ quiet'[q])
      <3>1. Updates(t)
        BY <1>1, StampSteps
      <3>2. QED
        BY <2>1, <3>1, OneMoves DEF Goes, Updates, Terminals
    <2>3. proc'[t] = s
      BY <2>1, OneMoves DEF Goes, Terminals
    <2>4. QED
      BY <2>1, <2>2, <2>3 DEF StampInv, resting
  <1>2. ASSUME StampsKept, UNCHANGED <<proc, quiet>>
        PROVE  StampInv'
    <2>1. \A t \in Terminals : proc[t].at = "stamp" => proc[t].a \in DOMAIN alerts
      BY DEF SocTyped, Shapes, ShapeOf, Terminals
    <2>2. QED
      BY <1>2, <2>1 DEF StampInv, StampsKept
  <1>3. QED
    BY <1>1, <1>2, StampCases, StampMoves

\* The steps of other components leave the alerts alone.
LEMMA StampBeside ==
  ASSUME SocTyped, StampInv, NEW t \in Terminals, NEW s, Beside(t, s)
  PROVE  StampInv' /\ StampsKept
  <1>1. StampsKept
    BY DEF Beside, socRecords, StampsKept
  <1>2. Moves(t, s) /\ Reads(s) /\ t \in Procs
    BY DEF Beside, Moves, Reads, SocStages, Terminals
  <1>3. QED
    BY <1>1, <1>2, StampMoves

\* A stamp that is taken away was not there when the command read the row.
LEMMA StampLoss ==
  ASSUME SocTyped, StampInv, [SocNext]_socVars, NEW a \in DOMAIN alerts,
         \/ alerts[a].acknowledged /\ ~ alerts'[a].acknowledged
         \/ alerts[a].resolved /\ ~ alerts'[a].resolved
  PROVE  \E t \in Terminals : proc[t].at = "stamp" /\ proc[t].a = a /\ ~ quiet[t]
  <1>1. ~ StampsKept
    BY DEF StampsKept
  <1>2. PICK t \in Terminals : SetStatus(t)
    BY <1>1, StampCases
  <1>3. PICK x : /\ AlertWritten(proc[t].a, x)
                 /\ proc[t].acknowledged => x.acknowledged
                 /\ proc[t].resolved => x.resolved
    BY <1>2, StampSteps
  <1>4. a = proc[t].a /\ alerts'[a] = x
    BY <1>3 DEF AlertWritten
  <1>5. proc[t].at = "stamp"
    BY <1>2, StampSteps
  <1>6. ~ quiet[t]
    BY <1>3, <1>4, <1>5 DEF StampInv
  <1>7. QED
    BY <1>4, <1>5, <1>6

\* The times an alert was acknowledged and resolved are taken away only by a
\* command that another one has overlapped.
THEOREM StampsLastUnlessOverlapped == SocSpec => StampsLostOnlyByOverlap
  <1> DEFINE Lost(a) == \/ alerts[a].acknowledged /\ ~ alerts'[a].acknowledged
                        \/ alerts[a].resolved /\ ~ alerts'[a].resolved
             Overlapped(a) == \E t \in Terminals :
                                proc[t].at = "stamp" /\ proc[t].a = a /\ ~ quiet[t]
  <1>1. SocInit => SocTyped /\ StampInv
    BY TypedInit DEF SocInit, DeskInit, StampInv, Terminals, resting
  <1>2. SocTyped /\ StampInv /\ [SocNext]_socVars => SocTyped' /\ StampInv'
    BY TypedNext, StampNext
  <1>3. SocTyped /\ StampInv /\ [SocNext]_socVars
          => [\A a \in DOMAIN alerts : Lost(a) => Overlapped(a)]_socVars
    BY StampLoss
  <1>4. QED
    BY <1>1, <1>2, <1>3, PTL DEF SocSpec, StampsLostOnlyByOverlap

-----------------------------------------------------------------------------
(***************************************************************************)
(* The lines of the watched file.                                          *)
(***************************************************************************)

Stored(l) == \E n \in DOMAIN events : events[n].eid = ParseLine(Content[l]).id

Carried(l) == /\ "line" \in DOMAIN proc[Feeder] /\ proc[Feeder].line = l
              /\ proc[Feeder].ev.eid = ParseLine(Content[l]).id

\* A line that was read is missed, on its way, or stored.
FedInv ==
  \A i \in 1..offset :
    i <= Len(file) => file[i][1] \in missed \/ Carried(file[i][1]) \/ Stored(file[i][1])

\* A step that reads no line: what was on its way stays so, is stored or missed.
FedKept ==
  /\ \A i \in 1..offset' :
       i <= Len(file') => i \in 1..offset /\ i <= Len(file) /\ file'[i] = file[i]
  /\ missed \subseteq missed'
  /\ \A l : Stored(l) => Stored(l)'
  /\ \A l : Carried(l) => l \in missed' \/ Carried(l)' \/ Stored(l)'

LEMMA FedFrame ==
  ASSUME FedInv, FedKept
  PROVE  FedInv'
  <1>1. ASSUME NEW i \in 1..offset', i <= Len(file')
        PROVE  file'[i][1] \in missed' \/ Carried(file[i][1])' \/ Stored(file[i][1])'
    <2>1. i \in 1..offset /\ i <= Len(file) /\ file'[i] = file[i]
      BY <1>1 DEF FedKept
    <2>2. PICK l : l = file[i][1]
      OBVIOUS
    <2>3. l \in missed \/ Carried(l) \/ Stored(l)
      BY <2>1, <2>2 DEF FedInv
    <2>4. l \in missed' \/ Carried(l)' \/ Stored(l)'
      BY <2>3 DEF FedKept
    <2>5. file'[i][1] = l
      BY <2>1, <2>2
    <2>6. QED
      BY <2>4, <2>5 DEF Carried, Stored
  <1>2. QED
    BY <1>1 DEF FedInv

\* A step of a process that leaves the file, the offset and the events alone.
LEMMA FedMove ==
  ASSUME SocTyped, FedInv, NEW p \in Procs, NEW s, proc' = [proc EXCEPT ![p] = s],
         UNCHANGED <<file, events>>, offset' = offset, missed \subseteq missed',
         p = Feeder => proc[p].at \notin {"lookup", "insert"}
  PROVE  FedInv'
  <1>1. \A l : Stored(l) => Stored(l)'
    BY DEF Stored
  <1>2. \A l : Carried(l) => Carried(l)'
    <2>1. CASE p = Feeder
      BY <2>1 DEF Carried, SocTyped, Shapes, ShapeOf
    <2>2. CASE p # Feeder
      <3>1. proc'[Feeder] = proc[Feeder]
        BY <2>2, OneMoves, FeederAssumption
      <3>2. QED
        BY <3>1 DEF Carried
    <2>3. QED
      BY <2>1, <2>2
  <1>3. QED
    BY <1>1, <1>2, FedFrame DEF FedKept

\* Nothing of it is touched.
LEMMA FedAlone ==
  ASSUME FedInv, UNCHANGED <<file, offset, missed, proc>>, \A l : Stored(l) => Stored(l)'
  PROVE  FedInv'
  <1>1. \A l : Carried(l) => Carried(l)'
    BY DEF Carried
  <1>2. QED
    BY <1>1, FedFrame DEF FedKept

LEMMA FedFile ==
  ASSUME SocTyped, FedInv
  PROVE  /\ FileStep => FedInv'
         /\ FeederStep => FedInv'
         /\ WindowSlides \/ UNCHANGED socVars => FedInv'
  <1>1. Feeder \in Procs /\ offset \in Nat /\ Len(file) \in Nat
    BY FeederAssumption, BoundsAssumption DEF SocTyped, FileOK
  <1>2. ASSUME Appended
        PROVE  FedInv'
    <2>1. PICK l \in Lines :
            /\ \A i \in (Len(file) + 1)..Len(file') : file'[i][1] = l
            /\ missed' = IF Len(file) < offset THEN missed \cup {l} ELSE missed
      BY <1>2 DEF Appended
    <2>2. /\ Len(file') \in {Len(file) + 1, Len(file) + 2}
          /\ \A i \in 1..Len(file) : file'[i] = file[i]
          /\ UNCHANGED <<events, proc, offset>>
      BY <1>2 DEF Appended, stores
    <2>3. ASSUME NEW i \in 1..offset', i <= Len(file')
          PROVE  file'[i][1] \in missed' \/ Carried(file[i][1])' \/ Stored(file[i][1])'
      <3>1. CASE i <= Len(file)
        <4>1. file'[i] = file[i] /\ i \in 1..offset
          BY <1>1, <2>2, <2>3, <3>1
        <4>2. PICK m : m = file[i][1]
          OBVIOUS
        <4>3. m \in missed \/ Carried(m) \/ Stored(m)
          BY <3>1, <4>1, <4>2 DEF FedInv
        <4>4. m \in missed' \/ Carried(m)' \/ Stored(m)'
          BY <2>1, <2>2, <4>3 DEF Carried, Stored
        <4>5. QED
          BY <4>1, <4>2, <4>4 DEF Carried, Stored
      <3>2. CASE ~ (i <= Len(file))
        <4>1. file'[i][1] = l
          BY <1>1, <2>1, <2>2, <2>3, <3>2
        <4>2. l \in missed'
          BY <1>1, <2>1, <2>2, <2>3, <3>2
        <4>3. QED
          BY <4>1, <4>2
      <3>3. QED
        BY <3>1, <3>2
    <2>4. QED
      BY <2>3 DEF FedInv
  <1>3. ASSUME Rotate
        PROVE  FedInv'
    <2>1. file' = <<>> /\ offset' \in Nat
      BY <1>1, <1>3 DEF Rotate
    <2>2. Len(file') = 0
      BY <2>1
    <2>3. QED
      BY <2>1, <2>2 DEF FedInv
  <1>4. FileStep => FedInv'
    BY <1>2, <1>3, AppendSteps DEF FileStep, SocTyped
  <1>5. ASSUME Poll
        PROVE  FedInv'
    <2>1. /\ offset' = (IF Len(file) < offset THEN 0 ELSE offset)
          /\ proc' = [proc EXCEPT ![Feeder] = [at |-> "reading"]]
          /\ proc[Feeder].at = "idle"
          /\ UNCHANGED <<file, missed, events>>
      BY <1>5 DEF Poll, Goes, stores
    <2>2. \A l : ~ Carried(l)
      BY <1>1, <2>1 DEF Carried, SocTyped, Shapes, ShapeOf
    <2>3. \A l : Stored(l) => Stored(l)'
      BY <2>1 DEF Stored
    <2>4. QED
      BY <1>1, <2>1, <2>2, <2>3, FedFrame DEF FedKept
  <1>6. ASSUME FeedLine
        PROVE  FedInv'
    <2>1. PICK s : Feeds(s)
      BY <1>6, FeedSteps DEF SocTyped
    <2>2. PICK l \in Lines :
            /\ \A i \in (offset + 1)..offset' : file[i][1] = l
            /\ missed' \in {missed, missed \cup {l}}
            /\ \/ l \in missed'
               \/ s.at = "lookup" /\ s.line = l /\ s.ev.eid = ParseLine(Content[l]).id
      BY <2>1 DEF Feeds
    <2>3. \A m : ~ Carried(m)
      BY <1>1, <2>1 DEF Feeds, Carried, SocTyped, Shapes, ShapeOf
    <2>4. proc'[Feeder] = s /\ ShapeOf(Feeder, s)
      BY <1>1, <2>1, OneMoves DEF Feeds, Goes
    <2>5. l \in missed' \/ Carried(l)'
      BY <2>2, <2>4 DEF Carried, ShapeOf
    <2>6. UNCHANGED <<file, events>> /\ offset' \in {offset + 1, offset + 2}
      BY <2>1 DEF Feeds, stores
    <2>7. ASSUME NEW i \in 1..offset', i <= Len(file')
          PROVE  file'[i][1] \in missed' \/ Carried(file[i][1])' \/ Stored(file[i][1])'
      <3>1. PICK m : m = file[i][1]
        OBVIOUS
      <3>2. CASE i <= offset
        <4>1. m \in missed \/ Stored(m)
          BY <1>1, <2>3, <2>6, <2>7, <3>1, <3>2 DEF FedInv
        <4>2. m \in missed' \/ Stored(m)'
          BY <2>2, <2>6, <4>1 DEF Stored
        <4>3. QED
          BY <2>6, <3>1, <4>2 DEF Stored
      <3>3. CASE ~ (i <= offset)
        <4>1. m = l
          BY <1>1, <2>2, <2>6, <2>7, <3>1, <3>3
        <4>2. QED
          BY <2>5, <2>6, <3>1, <4>1 DEF Carried
      <3>4. QED
        BY <3>2, <3>3
    <2>8. QED
      BY <2>7 DEF FedInv
  <1>7. ASSUME EndOfFile
        PROVE  FedInv'
    <2>1. PICK s : s = resting
      OBVIOUS
    <2>2. QED
      BY <1>1, <1>7, <2>1, FedMove DEF EndOfFile, Goes, feed, stores
  <1>8. FeederStep => FedInv'
    BY <1>5, <1>6, <1>7 DEF FeederStep
  <1>9. CASE WindowSlides
    <2>1. \A l : Stored(l) => Stored(l)'
      BY <1>9, SlideWrites DEF Stored
    <2>2. QED
      BY <1>9, <2>1, SlideWrites, FedAlone DEF feed
  <1>10. CASE UNCHANGED socVars
    BY <1>10, FedAlone DEF socVars, socRecords, deskVars, Stored
  <1>11. QED
    BY <1>4, <1>8, <1>9, <1>10

\* The pipeline: a line that is carried is stored, or found to be.
LEMMA FedPipe ==
  ASSUME SocTyped, FedInv, NEW p \in Procs, Pipes(p)
  PROVE  FedInv'
  <1>1. ASSUME NEW s, Goes(p, s), UNCHANGED <<file, events, offset, missed>>,
               p = Feeder => proc[p].at \notin {"lookup", "insert"}
        PROVE  FedInv'
    BY <1>1, FedMove DEF Goes
  <1>2. PICK d : d = After(p)
    OBVIOUS
  \* The feeder carries a line no longer: it is stored.
  <1>3. ASSUME NEW s, Goes(p, s), UNCHANGED <<file, offset, missed>>,
               \A l : Stored(l) => Stored(l)',
               \A l : p = Feeder /\ Carried(l) => Stored(l)'
        PROVE  FedInv'
    <2>1. \A l : Carried(l) => Carried(l)' \/ Stored(l)'
      <3>1. CASE p = Feeder
        BY <1>3, <3>1
      <3>2. CASE p # Feeder
        <4>1. proc'[Feeder] = proc[Feeder]
          BY <1>3, <3>2, OneMoves, FeederAssumption DEF Goes
        <4>2. QED
          BY <4>1 DEF Carried
      <3>3. QED
        BY <3>1, <3>2
    <2>2. QED
      BY <1>3, <2>1, FedFrame DEF FedKept
  <1>4. CASE Lookup(p)
    <2>1. proc[p].at = "lookup"
      BY <1>4 DEF Lookup
    <2>2. PICK s : /\ Goes(p, s) /\ UNCHANGED <<socRecords, quiet>> /\ ShapeOf(p, s)
                   /\ \/ /\ s = After(p)
                         /\ \E n \in DOMAIN events : events[n].eid = proc[p].ev.eid
                      \/ /\ s.at = "insert" /\ s.ev = proc[p].ev
                         /\ p = Feeder => s.line = proc[p].line
      BY <1>4, ReadingSteps
    <2>3. UNCHANGED <<file, offset, missed, events>> /\ \A l : Stored(l) => Stored(l)'
      BY <2>2 DEF socRecords, Stored
    <2>4. CASE \E n \in DOMAIN events : events[n].eid = proc[p].ev.eid
      BY <1>3, <2>2, <2>3, <2>4 DEF Carried, Stored
    <2>5. CASE s.at = "insert" /\ s.ev = proc[p].ev /\ (p = Feeder => s.line = proc[p].line)
      <3>1. CASE p = Feeder
        <4>1. proc'[Feeder] = s
          BY <2>2, <3>1, OneMoves DEF Goes
        <4>2. \A l : Carried(l) => Carried(l)'
          BY <2>2, <2>5, <3>1, <4>1 DEF Carried, ShapeOf
        <4>3. QED
          BY <2>3, <4>2, FedFrame DEF FedKept
      <3>2. CASE p # Feeder
        BY <1>1, <2>2, <2>3, <3>2
      <3>3. QED
        BY <3>1, <3>2
    <2>6. QED
      BY <2>2, <2>4, <2>5
  <1>5. CASE InsertEvent(p)
    <2>1. CASE Goes(p, d) /\ UNCHANGED socRecords
               /\ \E n \in DOMAIN events : events[n].eid = proc[p].ev.eid
      BY <1>3, <2>1 DEF Carried, Stored, socRecords
    <2>2. CASE Inserts(p)
      <3>1. /\ Len(events) \in Nat /\ DOMAIN events = 1..Len(events)
            /\ DOMAIN events' = 1..(Len(events) + 1)
            /\ \A n \in DOMAIN events : events'[n] = events[n]
            /\ events'[Len(events) + 1] = proc[p].ev
        BY <2>2, AppendRow DEF Inserts, SocTyped, EventsOK
      <3>2. \A l : Stored(l) => Stored(l)'
        BY <3>1 DEF Stored
      <3>3. \A l : p = Feeder /\ Carried(l) => Stored(l)'
        <4>1. Len(events) + 1 \in DOMAIN events'
          BY <3>1
        <4>2. QED
          BY <3>1, <4>1 DEF Carried, Stored
      <3>4. PICK s : s = [at |-> "correlate", n |-> Len(events) + 1]
        OBVIOUS
      <3>5. QED
        BY <1>3, <2>2, <3>2, <3>3, <3>4 DEF Inserts
    <2>3. QED
      BY <1>2, <1>5, <2>1, <2>2, InsertSteps
  <1>6. CASE Correlate(p) \/ MatchRules(p) \/ ListWindowed(p)
    BY <1>1, <1>6, WorkingSteps DEF Reaches, socRecords
  <1>7. CASE (\E r \in RuleNames : CountTotal(p, r)) \/ Decide(p)
    BY <1>1, <1>7, DecidingSteps DEF Reaches, socRecords
  <1>8. CASE CountBefore(p)
    BY <1>1, <1>8, CountSteps DEF Counts, stores, feed
  <1>9. CASE OpenCase(p)
    BY <1>1, <1>9, OpenSteps DEF Opens, feed
  <1>10. CASE LogOpened(p)
    BY <1>1, <1>10, TellSteps DEF Tells, feed
  <1>11. CASE CreateAlert(p)
    BY <1>1, <1>2, <1>11, AlertSteps DEF Alerted, feed
  <1>12. QED
    BY <1>4, <1>5, <1>6, <1>7, <1>8, <1>9, <1>10, <1>11 DEF Pipes

\* A process is cut short: the line it carries is refused, or the feeder starts
\* again at the beginning of the file.
LEMMA FedFail ==
  ASSUME SocTyped, FedInv, NEW p \in Procs, Raised(p) \/ Killed(p)
  PROVE  FedInv'
  <1>1. UNCHANGED <<events, file>> /\ \A l : Stored(l) => Stored(l)'
    BY DEF Raised, Killed, Broken, Stored
  <1>2. PICK s : Goes(p, s)
    BY DEF Raised, Killed
  <1>3. p # Feeder => proc'[Feeder] = proc[Feeder]
    BY <1>2, OneMoves, FeederAssumption DEF Goes
  <1>4. CASE Raised(p)
    <2>1. /\ UNCHANGED offset
          /\ missed' = IF "line" \in DOMAIN proc[p] THEN missed \cup {proc[p].line} ELSE missed
      BY <1>4 DEF Raised
    <2>2. \A l : Carried(l) => l \in missed' \/ Carried(l)'
      BY <1>3, <2>1 DEF Carried
    <2>3. QED
      BY <1>1, <2>1, <2>2, FedFrame DEF FedKept
  <1>5. CASE Killed(p) /\ p # Feeder
    <2>1. UNCHANGED <<offset, missed>>
      BY <1>5 DEF Killed
    <2>2. \A l : Carried(l) => Carried(l)'
      BY <1>3, <1>5 DEF Carried
    <2>3. QED
      BY <1>1, <2>1, <2>2, FedFrame DEF FedKept
  <1>6. CASE Killed(p) /\ p = Feeder
    <2>1. offset' = 0
      BY <1>6 DEF Killed
    <2>2. QED
      BY <2>1 DEF FedInv
  <1>7. QED
    BY <1>4, <1>5, <1>6

\* The commands store no event.
LEMMA FedCommand ==
  ASSUME SocTyped, FedInv, NEW t \in Terminals
  PROVE  /\ Begins(t) \/ SetStatus(t) \/ LinkCase(t) \/ RecordEvent(t) => FedInv'
         /\ \A r \in RuleNames : RuleSet(t, r) => FedInv'
         /\ \A c, status : Writes(t, c, status) => FedInv'
         /\ \A s : Beside(t, s) => FedInv'
  <1>1. t \in Procs /\ t # Feeder
    BY DEF Terminals
  <1>2. ASSUME NEW s, proc' = [proc EXCEPT ![t] = s], UNCHANGED <<file, events, offset, missed>>
        PROVE  FedInv'
    BY <1>1, <1>2, FedMove
  <1>3. PICK o : o = resting
    OBVIOUS
  <1>4. ASSUME Begins(t)
        PROVE  FedInv'
    BY <1>2, <1>4, BeginSteps DEF Starts, socRecords
  <1>5. ASSUME SetStatus(t)
        PROVE  FedInv'
    BY <1>2, <1>5, StampSteps DEF Goes, feed
  <1>6. ASSUME LinkCase(t)
        PROVE  FedInv'
    BY <1>2, <1>3, <1>6, LinkSteps DEF Goes, feed
  <1>7. ASSUME RecordEvent(t)
        PROVE  FedInv'
    BY <1>2, <1>3, <1>7, RecordSteps DEF Goes, feed
  <1>8. ASSUME NEW r \in RuleNames, RuleSet(t, r)
        PROVE  FedInv'
    BY <1>2, <1>3, <1>8 DEF RuleSet, Commands, Starts, feed
  <1>9. ASSUME NEW c, NEW status, Writes(t, c, status)
        PROVE  FedInv'
    <2>1. PICK s : s = Log(c, status)
      OBVIOUS
    <2>2. QED
      BY <1>2, <1>9, <2>1 DEF Writes, Starts, feed
  <1>10. ASSUME NEW s, Beside(t, s)
         PROVE  FedInv'
    BY <1>2, <1>10 DEF Beside, socRecords
  <1>11. QED
    BY <1>4, <1>5, <1>6, <1>7, <1>8, <1>9, <1>10

LEMMA FedNext ==
  ASSUME SocTyped, FedInv, [SocNext]_socVars
  PROVE  FedInv'
  <1>1. CASE UNCHANGED socVars
    BY <1>1, FedFile
  <1>2. CASE SocNext
    BY <1>2, Kinds, FedFile, FedPipe, FedFail, FedCommand
  <1>3. QED
    BY <1>1, <1>2

\* What the feeder has read past is stored, or counted as missed.
THEOREM FedLinesAreStored == SocSpec => []FedLinesStored
  <1>1. SocInit => SocTyped /\ FedInv
    BY TypedInit DEF SocInit, FedInv
  <1>2. SocTyped /\ FedInv /\ [SocNext]_socVars => SocTyped' /\ FedInv'
    BY TypedNext, FedNext
  <1>3. FedInv => FedLinesStored
    BY DEF FedInv, FedLinesStored, Carried, Stored
  <1>4. QED
    BY <1>1, <1>2, <1>3, PTL DEF SocSpec

-----------------------------------------------------------------------------
(***************************************************************************)
(* The timeline of a case.                                                 *)
(***************************************************************************)

\* The status that process p is about to tell.
ToldBy(p) == IF proc[p].at = "log" THEN proc[p].entry ELSE "open"

\* A case that is not split has one process at most telling its status, the
\* status it has; when there is none its timeline tells it.
TimelineInv ==
  \A c \in DOMAIN cases : ~ cases[c].split =>
    /\ \A p \in Procs : LogOf(p) = c => ToldBy(p) = cases[c].status
    /\ \A p, q \in Procs : LogOf(p) = c /\ LogOf(q) = c => p = q
    /\ ~ Logging(c) => \E k \in DOMAIN cases[c].log :
                         LastTold(cases[c].log, k) /\ cases[c].log[k] = cases[c].status

\* What one move does to the timeline a process is at.
LEMMA StageLog ==
  ASSUME SocTyped, NEW p \in Procs, NEW s, proc' = [proc EXCEPT ![p] = s]
  PROVE  /\ s.at \notin {"log", "timeline"} => LogOf(p)' = 0
         /\ s.at = "timeline" => LogOf(p)' = s.alert.case
         /\ s.at = "log" => LogOf(p)' = IF s.entry \in CaseStatuses THEN s.case ELSE 0
         /\ ToldBy(p)' = IF s.at = "log" THEN s.entry ELSE "open"
         /\ \A q \in Procs \ {p} : LogOf(q)' = LogOf(q) /\ ToldBy(q)' = ToldBy(q)
  <1>1. proc'[p] = s /\ \A q \in Procs \ {p} : proc'[q] = proc[q] /\ LogOf(q)' = LogOf(q)
    BY OneMoves
  <1>2. QED
    BY <1>1 DEF LogOf, ToldBy

\* The last status of a timeline that gets one more entry.
LEMMA LastToldAppend ==
  ASSUME NEW log, Rows(log), NEW x
  PROVE  /\ x \in CaseStatuses =>
              \E k \in DOMAIN Append(log, x) : LastTold(Append(log, x), k) /\ Append(log, x)[k] = x
         /\ x \notin CaseStatuses =>
              \A k \in DOMAIN log :
                LastTold(log, k) => /\ k \in DOMAIN Append(log, x) /\ LastTold(Append(log, x), k)
                                    /\ Append(log, x)[k] = log[k]
  <1>1. PICK new : new = Append(log, x)
    OBVIOUS
  <1>2. /\ Len(log) \in Nat /\ DOMAIN log = 1..Len(log)
        /\ DOMAIN new = 1..(Len(log) + 1)
        /\ \A i \in DOMAIN log : new[i] = log[i]
        /\ new[Len(log) + 1] = x
    BY <1>1, AppendRow
  <1>3. ASSUME x \in CaseStatuses
        PROVE  \E k \in DOMAIN new : LastTold(new, k) /\ new[k] = x
    <2>1. Len(log) + 1 \in DOMAIN new /\ \A j \in DOMAIN new : ~ (j > Len(log) + 1)
      BY <1>2
    <2>2. QED
      BY <1>2, <1>3, <2>1 DEF LastTold
  <1>4. ASSUME x \notin CaseStatuses, NEW k \in DOMAIN log, LastTold(log, k)
        PROVE  k \in DOMAIN new /\ LastTold(new, k) /\ new[k] = log[k]
    <2>1. k \in DOMAIN new /\ new[k] = log[k]
      BY <1>2
    <2>2. ASSUME NEW j \in DOMAIN new, j > k
          PROVE  new[j] \notin CaseStatuses
      <3>1. CASE j \in DOMAIN log
        BY <1>2, <1>4, <2>2, <3>1 DEF LastTold
      <3>2. CASE j \notin DOMAIN log
        BY <1>2, <1>4, <3>2
      <3>3. QED
        BY <3>1, <3>2
    <2>3. QED
      BY <1>4, <2>1, <2>2 DEF LastTold
  <1>5. QED
    BY <1>1, <1>3, <1>4

\* The row of a case after process p has moved: left alone, told, noted, or taken
\* up by p alone.
LeftAlone(p, c) ==
  /\ c \in DOMAIN cases /\ cases'[c].log = cases[c].log /\ cases'[c].status = cases[c].status
  /\ LogOf(p) # c /\ LogOf(p)' # c

Told(p, c) ==
  /\ c \in DOMAIN cases /\ cases'[c].log = Append(cases[c].log, ToldBy(p))
  /\ cases'[c].status = cases[c].status
  /\ LogOf(p) = c /\ LogOf(p)' # c

Noted(p, c, x) ==
  /\ c \in DOMAIN cases /\ cases'[c].log = Append(cases[c].log, x) /\ x \notin CaseStatuses
  /\ cases'[c].status = cases[c].status
  /\ LogOf(p) # c /\ LogOf(p)' # c

TakenUp(p, c) ==
  /\ LogOf(p)' = c /\ ToldBy(p)' = cases'[c].status
  /\ \A q \in Procs \ {p} : LogOf(q) # c

TimeRow(p, c) ==
  \/ c \in DOMAIN cases /\ ~ cases[c].split /\ LeftAlone(p, c)
  \/ c \in DOMAIN cases /\ ~ cases[c].split /\ Told(p, c)
  \/ c \in DOMAIN cases /\ ~ cases[c].split /\ \E x : Noted(p, c, x)
  \/ TakenUp(p, c)

LEMMA TimeMove ==
  ASSUME SocTyped, TimelineInv, NEW p \in Procs, NEW s, proc' = [proc EXCEPT ![p] = s],
         \A c \in DOMAIN cases' : ~ cases'[c].split => TimeRow(p, c)
  PROVE  TimelineInv'
  <1>1. \A q \in Procs \ {p} : LogOf(q)' = LogOf(q) /\ ToldBy(q)' = ToldBy(q)
    BY StageLog
  <1>2. ASSUME NEW c \in DOMAIN cases', ~ cases'[c].split
        PROVE  /\ \A q \in Procs : LogOf(q)' = c => ToldBy(q)' = cases'[c].status
               /\ \A q, r \in Procs : LogOf(q)' = c /\ LogOf(r)' = c => q = r
               /\ (\A q \in Procs : LogOf(q)' # c) =>
                    \E k \in DOMAIN cases'[c].log :
                      LastTold(cases'[c].log, k) /\ cases'[c].log[k] = cases'[c].status
    <2>1. CASE TakenUp(p, c)
      BY <1>1, <2>1 DEF TakenUp
    <2>2. ASSUME c \in DOMAIN cases, ~ cases[c].split
          PROVE  /\ \A q \in Procs : LogOf(q) = c => ToldBy(q) = cases[c].status
                 /\ \A q, r \in Procs : LogOf(q) = c /\ LogOf(r) = c => q = r
                 /\ ~ Logging(c) => \E k \in DOMAIN cases[c].log :
                         LastTold(cases[c].log, k) /\ cases[c].log[k] = cases[c].status
                 /\ Rows(cases[c].log) /\ cases[c].status \in CaseStatuses
      BY <2>2 DEF TimelineInv, SocTyped, CasesOK, IsCase
    <2>3. CASE c \in DOMAIN cases /\ ~ cases[c].split /\ LeftAlone(p, c)
      BY <1>1, <2>2, <2>3 DEF LeftAlone, Logging
    <2>4. CASE c \in DOMAIN cases /\ ~ cases[c].split /\ Told(p, c)
      <3>1. ToldBy(p) = cases[c].status /\ \A q \in Procs : LogOf(q)' # c
        BY <1>1, <2>2, <2>4 DEF Told
      <3>2. PICK x : x = ToldBy(p)
        OBVIOUS
      <3>3. \E k \in DOMAIN Append(cases[c].log, x) :
              LastTold(Append(cases[c].log, x), k) /\ Append(cases[c].log, x)[k] = x
        BY <2>2, <2>4, <3>1, <3>2, LastToldAppend
      <3>4. QED
        BY <2>4, <3>1, <3>2, <3>3 DEF Told
    <2>5. CASE c \in DOMAIN cases /\ ~ cases[c].split /\ \E x : Noted(p, c, x)
      <3>1. PICK x : Noted(p, c, x)
        BY <2>5
      <3>2. \A k \in DOMAIN cases[c].log :
              LastTold(cases[c].log, k) =>
                /\ k \in DOMAIN cases'[c].log /\ LastTold(cases'[c].log, k)
                /\ cases'[c].log[k] = cases[c].log[k]
        BY <2>2, <2>5, <3>1, LastToldAppend DEF Noted
      <3>3. \A q \in Procs : LogOf(q)' = c <=> LogOf(q) = c
        BY <1>1, <3>1 DEF Noted
      <3>4. \A q \in Procs : LogOf(q)' = c => ToldBy(q)' = ToldBy(q)
        BY <1>1, <3>1 DEF Noted
      <3>5. cases'[c].status = cases[c].status
        BY <3>1 DEF Noted
      <3>6. ASSUME \A q \in Procs : LogOf(q)' # c
            PROVE  \E k \in DOMAIN cases'[c].log :
                     LastTold(cases'[c].log, k) /\ cases'[c].log[k] = cases'[c].status
        <4>1. ~ Logging(c)
          BY <3>3, <3>6 DEF Logging
        <4>2. PICK k \in DOMAIN cases[c].log :
                LastTold(cases[c].log, k) /\ cases[c].log[k] = cases[c].status
          BY <2>2, <2>5, <4>1
        <4>3. QED
          BY <3>2, <3>5, <4>2
      <3>7. QED
        BY <2>2, <2>5, <3>3, <3>4, <3>5, <3>6
    <2>6. QED
      BY <1>2, <2>1, <2>3, <2>4, <2>5 DEF TimeRow
  <1>3. QED
    BY <1>2 DEF TimelineInv, Logging

\* A move between stages that tell nothing.
LEMMA TimeStill ==
  ASSUME SocTyped, TimelineInv, NEW p \in Procs, NEW s, proc' = [proc EXCEPT ![p] = s],
         UNCHANGED cases,
         proc[p].at \notin {"log", "timeline"} \/ LogOf(p) = 0,
         s.at \notin {"log", "timeline"} \/ (s.at = "log" /\ s.entry \notin CaseStatuses)
  PROVE  TimelineInv'
  <1>1. LogOf(p) = 0
    BY DEF LogOf
  <1>2. LogOf(p)' = 0
    BY StageLog
  <1>3. 0 \notin DOMAIN cases
    BY RowOfShape
  <1>4. QED
    BY <1>1, <1>2, <1>3, TimeMove DEF TimeRow, LeftAlone

LEMMA TimeOpen ==
  ASSUME SocTyped, TimelineInv, NEW p \in Procs, OpenCase(p)
  PROVE  TimelineInv'
  <1>1. PICK s : Opens(p, s)
    BY OpenSteps
  <1>2. proc' = [proc EXCEPT ![p] = s] /\ LogOf(p)' = Len(cases) + 1 /\ ToldBy(p)' = "open"
    BY <1>1, StageLog DEF Opens, Goes
  <1>3. LogOf(p) = 0
    BY <1>1 DEF Opens, LogOf
  <1>4. /\ Len(cases) \in Nat
        /\ DOMAIN cases = 1..Len(cases) /\ DOMAIN cases' = 1..(Len(cases) + 1)
        /\ \A c \in DOMAIN cases : cases'[c] = cases[c]
        /\ cases'[Len(cases) + 1] = NewCase(proc[p].n)
    BY OpenSteps
  <1>5. ASSUME NEW c \in DOMAIN cases', ~ cases'[c].split
        PROVE  TimeRow(p, c)
    <2>1. CASE c \in DOMAIN cases
      BY <1>2, <1>3, <1>4, <1>5, <2>1 DEF TimeRow, LeftAlone
    <2>2. CASE c \notin DOMAIN cases
      <3>1. c = Len(cases) + 1 /\ c # 0
        BY <1>4, <2>2
      <3>2. cases'[c].status = "open"
        BY <1>4, <3>1, NewCaseRow
      <3>3. \A q \in Procs : LogOf(q) # c
        BY <2>2, <3>1, RowOfShape
      <3>4. QED
        BY <1>2, <3>1, <3>2, <3>3 DEF TimeRow, TakenUp
    <2>3. QED
      BY <2>1, <2>2
  <1>6. QED
    BY <1>2, <1>5, TimeMove

\* A timeline entry is written: it tells the status, or it is a note.
LEMMA TimeEntry ==
  ASSUME SocTyped, TimelineInv, NEW p \in Procs, NEW s, proc' = [proc EXCEPT ![p] = s],
         s.at \notin {"log", "timeline"}, UNCHANGED events,
         NEW c \in DOMAIN cases, NEW entry, cases' = Logged(cases, c, entry),
         \/ LogOf(p) = c /\ ToldBy(p) = entry
         \/ LogOf(p) = 0 /\ entry \notin CaseStatuses
  PROVE  TimelineInv'
  <1>1. LogOf(p)' = 0 /\ 0 \notin DOMAIN cases
    BY StageLog, RowOfShape
  <1>2. /\ DOMAIN cases' = DOMAIN cases
        /\ \A d \in DOMAIN cases \ {c} : cases'[d] = cases[d]
        /\ cases'[c].status = cases[c].status /\ cases'[c].split = cases[c].split
        /\ cases'[c].log = Append(cases[c].log, entry)
    BY LoggedRow
  <1>3. ASSUME NEW d \in DOMAIN cases', ~ cases'[d].split
        PROVE  TimeRow(p, d)
    <2>1. CASE d # c
      BY <1>1, <1>2, <1>3, <2>1 DEF TimeRow, LeftAlone
    <2>2. CASE d = c /\ LogOf(p) = c /\ ToldBy(p) = entry
      BY <1>1, <1>2, <1>3, <2>2 DEF TimeRow, Told
    <2>3. CASE d = c /\ LogOf(p) = 0 /\ entry \notin CaseStatuses
      BY <1>1, <1>2, <1>3, <2>3 DEF TimeRow, Noted
    <2>4. QED
      BY <2>1, <2>2, <2>3
  <1>4. QED
    BY <1>3, TimeMove

LEMMA TimePipe ==
  ASSUME SocTyped, TimelineInv, NEW p \in Procs, Pipes(p)
  PROVE  TimelineInv'
  <1>1. ASSUME NEW s, Goes(p, s), UNCHANGED cases, proc[p].at \notin {"log", "timeline"},
               s.at \notin {"log", "timeline"}
        PROVE  TimelineInv'
    BY <1>1, TimeStill DEF Goes
  <1>2. PICK d : d = After(p)
    OBVIOUS
  <1>3. d.at \notin {"log", "timeline"}
    BY <1>2 DEF After, resting
  <1>4. CASE Lookup(p)
    <2>1. proc[p].at = "lookup"
      BY <1>4 DEF Lookup
    <2>2. QED
      BY <1>1, <1>2, <1>3, <1>4, <2>1, ReadingSteps DEF socRecords
  <1>5. CASE InsertEvent(p)
    <2>1. PICK s : s = [at |-> "correlate", n |-> Len(events) + 1]
      OBVIOUS
    <2>2. proc[p].at = "insert" /\ UNCHANGED cases /\ (Goes(p, d) \/ Goes(p, s))
      BY <1>2, <1>5, <2>1, InsertSteps DEF Inserts, socRecords
    <2>3. QED
      BY <1>1, <1>3, <2>1, <2>2
  <1>6. CASE Correlate(p) \/ MatchRules(p) \/ ListWindowed(p)
    BY <1>1, <1>6, WorkingSteps DEF Reaches, socRecords
  <1>7. CASE (\E r \in RuleNames : CountTotal(p, r)) \/ Decide(p)
    BY <1>1, <1>2, <1>3, <1>7, DecidingSteps DEF Reaches, socRecords
  <1>8. CASE CountBefore(p)
    BY <1>1, <1>8, CountSteps DEF Counts, stores
  <1>9. CASE LogOpened(p)
    <2>1. PICK s : Tells(p, s)
      BY <1>9, TellSteps
    <2>2. PICK c \in DOMAIN cases : c = proc[p].alert.case
      BY <2>1 DEF Tells
    <2>3. LogOf(p) = c /\ ToldBy(p) = "open"
      BY <2>1, <2>2 DEF Tells, LogOf, ToldBy
    <2>4. QED
      BY <2>1, <2>2, <2>3, TimeEntry DEF Tells, Goes
  <1>10. CASE CreateAlert(p)
    BY <1>1, <1>2, <1>3, <1>10, AlertSteps DEF Alerted
  <1>11. QED
    BY <1>4, <1>5, <1>6, <1>7, <1>8, <1>9, <1>10, TimeOpen DEF Pipes

\* What was to be told is not: the case is split.
LEMMA TimeFail ==
  ASSUME SocTyped, TimelineInv, NEW p \in Procs, Fails(p)
  PROVE  TimelineInv'
  <1>1. PICK s : Goes(p, s) /\ (s = After(p) \/ s = resting)
    BY DEF Fails
  <1>2. proc' = [proc EXCEPT ![p] = s] /\ LogOf(p)' = 0 /\ 0 \notin DOMAIN cases
    <2>1. s.at \notin {"log", "timeline"}
      BY <1>1 DEF After, resting
    <2>2. QED
      BY <1>1, <2>1, StageLog, RowOfShape DEF Goes
  <1>3. Broken(p)
    BY DEF Fails
  <1>4. \A c \in DOMAIN cases' : ~ cases'[c].split => TimeRow(p, c)
    BY <1>2, <1>3, BrokenWrites DEF TimeRow, LeftAlone
  <1>5. QED
    BY <1>2, <1>4, TimeMove

\* A command writes a status: it takes the case up, or finds another one at it.
LEMMA TimeWrite ==
  ASSUME SocTyped, TimelineInv, NEW t \in Terminals, NEW c, NEW status, Writes(t, c, status)
  PROVE  TimelineInv'
  <1>1. PICK s : s = Log(c, status)
    OBVIOUS
  <1>2. t \in Procs /\ proc[t] = resting /\ proc' = [proc EXCEPT ![t] = s]
    BY <1>1 DEF Writes, Starts, Terminals
  <1>3. LogOf(t) = 0
    BY <1>2 DEF LogOf, resting
  <1>4. LogOf(t)' = c /\ ToldBy(t)' = status
    <2>1. s.at = "log" /\ s.entry = status /\ s.case = c
      BY <1>1 DEF Log
    <2>2. status \in CaseStatuses
      BY DEF Writes
    <2>3. QED
      BY <1>2, <2>1, <2>2, StageLog
  <1>5. /\ c \in DOMAIN cases' /\ DOMAIN cases' \subseteq DOMAIN cases \cup {c}
        /\ \A d \in DOMAIN cases \ {c} : cases'[d] = cases[d]
        /\ cases'[c].status = status
        /\ c \in DOMAIN cases => cases'[c].split = (cases[c].split \/ Logging(c))
    BY DEF Writes
  <1>6. ASSUME NEW d \in DOMAIN cases', ~ cases'[d].split
        PROVE  TimeRow(t, d)
    <2>1. CASE d # c
      <3>1. d \in DOMAIN cases /\ d # 0
        BY <1>5, <2>1, RowOfShape
      <3>2. QED
        BY <1>3, <1>4, <1>5, <1>6, <2>1, <3>1 DEF TimeRow, LeftAlone
    <2>2. CASE d = c /\ c \in DOMAIN cases
      BY <1>4, <1>5, <1>6, <2>2 DEF TimeRow, TakenUp, Logging
    <2>3. CASE d = c /\ c \notin DOMAIN cases
      <3>1. c # 0
        <4>1. SocTyped'
          BY <1>2, TypedWrite
        <4>2. 0 \notin DOMAIN cases'
          BY <4>1 DEF SocTyped, CasesOK, Rows
        <4>3. QED
          BY <1>5, <4>2
      <3>2. \A q \in Procs : LogOf(q) # c
        BY <2>3, <3>1, RowOfShape
      <3>3. QED
        BY <1>4, <1>5, <2>3, <3>2 DEF TimeRow, TakenUp
    <2>4. QED
      BY <2>1, <2>2, <2>3
  <1>7. QED
    BY <1>2, <1>6, TimeMove

LEMMA TimeCommand ==
  ASSUME SocTyped, TimelineInv, NEW t \in Terminals
  PROVE  /\ Begins(t) \/ SetStatus(t) \/ LinkCase(t) \/ RecordEvent(t) => TimelineInv'
         /\ \A r \in RuleNames : RuleSet(t, r) => TimelineInv'
  <1>1. t \in Procs
    BY DEF Terminals
  <1>2. PICK o : o = resting
    OBVIOUS
  <1>3. o.at = "idle"
    BY <1>2 DEF resting
  <1>4. ASSUME Begins(t)
        PROVE  TimelineInv'
    <2>1. PICK s : /\ Starts(t, s) /\ UNCHANGED socRecords
                   /\ s.at \in {"idle", "lookup", "stamp", "log"}
                   /\ s.at = "log" => s.entry \notin CaseStatuses
      BY <1>4, BeginSteps
    <2>2. proc[t].at = "idle" /\ proc' = [proc EXCEPT ![t] = s] /\ UNCHANGED cases
      BY <2>1 DEF Starts, resting, socRecords
    <2>3. QED
      BY <1>1, <2>1, <2>2, TimeStill
  <1>5. ASSUME SetStatus(t)
        PROVE  TimelineInv'
    <2>1. PICK s : Goes(t, s) /\ s.at \in {"idle", "link"}
      BY <1>5, StampSteps
    <2>2. QED
      BY <1>1, <1>5, <2>1, StampSteps, TimeStill DEF Goes
  <1>6. ASSUME LinkCase(t)
        PROVE  TimelineInv'
    BY <1>1, <1>2, <1>3, <1>6, LinkSteps, TimeStill DEF Goes
  <1>7. ASSUME RecordEvent(t)
        PROVE  TimelineInv'
    <2>1. /\ proc[t].at = "log" /\ proc[t].case \in DOMAIN cases
          /\ cases' = Logged(cases, proc[t].case, proc[t].entry)
          /\ proc' = [proc EXCEPT ![t] = o] /\ UNCHANGED events
      BY <1>2, <1>7, RecordSteps DEF Goes
    <2>2. \/ LogOf(t) = proc[t].case /\ ToldBy(t) = proc[t].entry
          \/ LogOf(t) = 0 /\ proc[t].entry \notin CaseStatuses
      BY <2>1 DEF LogOf, ToldBy
    <2>3. PICK c \in DOMAIN cases : c = proc[t].case
      BY <2>1
    <2>4. PICK entry : entry = proc[t].entry
      OBVIOUS
    <2>5. QED
      BY <1>1, <1>3, <2>1, <2>2, <2>3, <2>4, TimeEntry
  <1>8. ASSUME NEW r \in RuleNames, RuleSet(t, r)
        PROVE  TimelineInv'
    <2>1. proc[t].at = "idle" /\ proc' = [proc EXCEPT ![t] = o] /\ UNCHANGED cases
      BY <1>2, <1>8 DEF RuleSet, Commands, Starts, resting
    <2>2. QED
      BY <1>1, <1>3, <2>1, TimeStill
  <1>9. QED
    BY <1>4, <1>5, <1>6, <1>7, <1>8

LEMMA TimeElse ==
  ASSUME SocTyped, TimelineInv
  PROVE  /\ FileStep \/ FeederStep \/ WindowSlides \/ UNCHANGED socVars => TimelineInv'
         /\ \A t \in Terminals : \A s : Beside(t, s) => TimelineInv'
  <1>1. ASSUME UNCHANGED <<cases, proc>>
        PROVE  TimelineInv'
    BY <1>1 DEF TimelineInv, Logging, LogOf, ToldBy, LastTold
  <1>2. CASE FileStep \/ WindowSlides \/ UNCHANGED socVars
    BY <1>1, <1>2, FeederMoves, SlideWrites DEF socVars, socRecords, deskVars, stores
  <1>3. CASE FeederStep
    <2>1. PICK s : /\ Goes(Feeder, s) /\ s.at \in {"idle", "reading", "lookup"}
                   /\ proc[Feeder].at \in {"idle", "reading"}
                   /\ UNCHANGED cases
      BY <1>3, FeederMoves DEF stores
    <2>2. QED
      BY <2>1, FeederAssumption, TimeStill DEF Goes
  <1>4. ASSUME NEW t \in Terminals, NEW s, Beside(t, s)
        PROVE  TimelineInv'
    BY <1>4, TimeStill DEF Beside, socRecords, SocStages, Terminals
  <1>5. QED
    BY <1>2, <1>3, <1>4

LEMMA TimeNext ==
  ASSUME SocTyped, TimelineInv, [SocNext]_socVars
  PROVE  TimelineInv'
  <1>1. CASE UNCHANGED socVars
    BY <1>1, TimeElse
  <1>2. CASE SocNext
    BY <1>2, Kinds, TimePipe, TimeFail, TimeCommand, TimeWrite, TimeElse
  <1>3. QED
    BY <1>1, <1>2

LEMMA TimeInit ==
  ASSUME SocInit
  PROVE  TimelineInv
  <1>1. cases = <<>> /\ DOMAIN <<>> = {}
    BY EmptySeq DEF SocInit
  <1>2. QED
    BY <1>1 DEF TimelineInv

\* The last status in the timeline of a case is the status of the case, unless
\* two commands on the case overlapped or one was cut short.
THEOREM TimelinesTellStatus == SocSpec => []TimelineTellsStatus
  <1>1. SocInit => SocTyped /\ TimelineInv
    BY TypedInit, TimeInit
  <1>2. SocTyped /\ TimelineInv /\ [SocNext]_socVars => SocTyped' /\ TimelineInv'
    BY TypedNext, TimeNext
  <1>3. TimelineInv => TimelineTellsStatus
    BY DEF TimelineInv, TimelineTellsStatus
  <1>4. QED
    BY <1>1, <1>2, <1>3, PTL DEF SocSpec

-----------------------------------------------------------------------------
(***************************************************************************)
(* The bursts of a windowed rule.                                          *)
(***************************************************************************)

\* Process p has still to count the window of rule r with the row it is at.
Waits(p, r) ==
  \/ proc[p].at \in {"correlate", "match", "windowed"}
  \/ proc[p].at \in {"total", "before"} /\ r \in proc[p].todo

Waiting(r) == {RowOf(p) : p \in {q \in Procs : Waits(q, r)}}

Alone == \A p, q \in Procs : RowOf(p) # 0 /\ RowOf(q) # 0 => p = q

\* While the burst is clean one row at most is worked on, and the rule has fired
\* once or not at all, as the rows that are done with have reached the count or not.
BurstOK(r) ==
  /\ rules[r] # "none" => ValidRule(r)
  /\ Windowed(r) /\ burst[r].clean =>
       /\ Alone
       /\ \A p \in Procs : proc[p].at = "before" /\ proc[p].rule = r
            => ~ (Cardinality(Counted(r)) < RuleDef[r].count)
       /\ rules[r] = "on" =>
            burst[r].fired = IF Cardinality(Counted(r) \ Waiting(r)) < RuleDef[r].count
                             THEN 0 ELSE 1

BurstInv == \A r \in RuleNames : BurstOK(r)

\* A window has finitely many rows, a part of it no more than the whole.
LEMMA CountedFinite ==
  ASSUME SocTyped, NEW r
  PROVE  /\ IsFiniteSet(Counted(r)) /\ Counted(r) \subseteq DOMAIN events
         /\ \A S : S \subseteq Counted(r) =>
              /\ Cardinality(S) \in Nat /\ Cardinality(Counted(r)) \in Nat
              /\ Cardinality(S) <= Cardinality(Counted(r))
  <1>1. IsFiniteSet(DOMAIN events)
    <2>1. Len(events) \in Nat /\ DOMAIN events = 1..Len(events)
      BY DEF SocTyped, EventsOK, Rows
    <2>2. QED
      BY <2>1, FS_Interval
  <1>2. Counted(r) \subseteq DOMAIN events
    BY DEF Counted
  <1>3. IsFiniteSet(Counted(r))
    BY <1>1, <1>2, FS_Subset
  <1>4. QED
    BY <1>2, <1>3, FS_Subset, FS_CardinalityType

\* The window of a rule that can be on counts two events at least.
LEMMA CountType ==
  ASSUME NEW r \in RuleNames, Windowed(r)
  PROVE  RuleDef[r].count \in Int
  BY RulesAssumption DEF Windowed

\* The rows that wait are worked on; none waits when none is worked on.
LEMMA WaitingRows ==
  ASSUME SocTyped, NEW r
  PROVE  /\ \A p \in Procs : Waits(p, r) => RowOf(p) # 0
         /\ (\A p \in Procs : RowOf(p) = 0) => Waiting(r) = {}
  <1>1. \A p \in Procs : Waits(p, r) => RowOf(p) # 0
    BY RowOfShape DEF Waits, RowStages
  <1>2. QED
    BY <1>1 DEF Waiting

\* What is not written keeps the window of a rule.
LEMMA SameWindow ==
  ASSUME NEW r, UNCHANGED events
  PROVE  Counted(r)' = Counted(r)
  BY DEF Counted, Filter

\* One process moves, with its row or without: if it waits for the rule as before
\* nothing changes for it.
LEMMA BurstFrame ==
  ASSUME SocTyped, NEW r \in RuleNames, BurstOK(r), UNCHANGED <<events, rules>>,
         burst'[r] = burst[r],
         NEW p \in Procs, NEW s, proc' = [proc EXCEPT ![p] = s],
         RowOf(p)' # 0 => RowOf(p)' = RowOf(p),
         rules[r] = "on" /\ Windowed(r) => (Waits(p, r)' <=> Waits(p, r)),
         Waits(p, r) => RowOf(p)' = RowOf(p),
         s.at = "before" /\ s.rule = r => ~ (Cardinality(Counted(r)) < RuleDef[r].count)
  PROVE  BurstOK(r)'
  <1>1. proc'[p] = s /\ \A q \in Procs \ {p} : proc'[q] = proc[q] /\ RowOf(q)' = RowOf(q)
    BY OneMoves
  <1>2. Counted(r)' = Counted(r)
    BY SameWindow
  <1>3. Alone => Alone'
    BY <1>1 DEF Alone
  <1>4. rules[r] = "on" /\ Windowed(r) => Waiting(r)' = Waiting(r)
    <2>1. ASSUME rules[r] = "on", Windowed(r), NEW q \in Procs
          PROVE  Waits(q, r)' <=> Waits(q, r)
      BY <1>1, <2>1 DEF Waits
    <2>2. ASSUME NEW q \in Procs, Waits(q, r)
          PROVE  RowOf(q)' = RowOf(q)
      BY <1>1, <2>2
    <2>3. QED
      BY <2>1, <2>2 DEF Waiting
  <1>5. ASSUME Windowed(r), burst[r].clean, NEW q \in Procs,
               proc'[q].at = "before", proc'[q].rule = r
        PROVE  ~ (Cardinality(Counted(r)) < RuleDef[r].count)
    BY <1>1, <1>5 DEF BurstOK
  <1>6. QED
    BY <1>2, <1>3, <1>4, <1>5 DEF BurstOK, ValidRule, Windowed

Early == {"correlate", "match", "windowed", "total", "before"}

\* A move of a process that waits for no rule, before or after.
LEMMA BurstStill ==
  ASSUME SocTyped, BurstInv, UNCHANGED <<events, rules, burst>>,
         NEW p \in Procs, NEW s, proc' = [proc EXCEPT ![p] = s],
         proc[p].at \notin Early \/ (proc[p].at = "total" /\ proc[p].todo = {}),
         s.at \notin Early, RowOf(p)' # 0 => RowOf(p)' = RowOf(p)
  PROVE  BurstInv'
  <1>1. proc'[p] = s
    BY OneMoves
  <1>2. ASSUME NEW r \in RuleNames
        PROVE  ~ Waits(p, r) /\ ~ Waits(p, r)' /\ s.at # "before"
    BY <1>1 DEF Waits, Early
  <1>3. ASSUME NEW r \in RuleNames
        PROVE  BurstOK(r)'
    BY <1>2, BurstFrame DEF BurstInv
  <1>4. QED
    BY <1>3 DEF BurstInv

\* What one move does to the row of the process.
LEMMA RowMoves ==
  ASSUME SocTyped, NEW p \in Procs, NEW s, proc' = [proc EXCEPT ![p] = s]
  PROVE  /\ "n" \notin DOMAIN s => RowOf(p)' = 0
         /\ "n" \in DOMAIN s => RowOf(p)' = s.n
         /\ \A r : Waits(p, r)' <=> \/ s.at \in {"correlate", "match", "windowed"}
                                    \/ s.at \in {"total", "before"} /\ r \in s.todo
  BY OneMoves DEF Waits

\* The steps of an ingest before the count.
LEMMA BurstReads ==
  ASSUME SocTyped, BurstInv, NEW p \in Procs
  PROVE  /\ Correlate(p) \/ MatchRules(p) \/ ListWindowed(p) => BurstInv'
         /\ \A r \in RuleNames : CountTotal(p, r) => BurstInv'
         /\ Decide(p) => BurstInv'
  <1>1. RowOf(p) = IF proc[p].at \in RowStages THEN proc[p].n ELSE 0
    BY RowOfShape
  <1>2. ASSUME Correlate(p) \/ MatchRules(p) \/ ListWindowed(p)
        PROVE  BurstInv'
    <2>1. PICK s : /\ Reaches(p, s) /\ s.n = proc[p].n
                   /\ proc[p].at \in {"correlate", "match", "windowed"}
                   /\ \/ s.at \in {"match", "windowed"}
                      \/ s.at = "total" /\ s.todo = Enabled(TRUE)
      BY <1>2, WorkingSteps
    <2>2. /\ proc' = [proc EXCEPT ![p] = s] /\ UNCHANGED <<events, rules, burst>>
          /\ "n" \in DOMAIN s
      BY <2>1 DEF Reaches, Goes, socRecords, ShapeOf, RowStages
    <2>3. RowOf(p) = proc[p].n /\ RowOf(p)' = proc[p].n
      BY <1>1, <2>1, <2>2, RowMoves DEF RowStages
    <2>4. ASSUME NEW r \in RuleNames
          PROVE  BurstOK(r)'
      <3>1. Waits(p, r)
        BY <2>1 DEF Waits
      <3>2. rules[r] = "on" /\ Windowed(r) => Waits(p, r)'
        BY <2>1, <2>2, RowMoves DEF Enabled
      <3>3. s.at # "before" /\ burst'[r] = burst[r]
        BY <2>1, <2>2
      <3>4. QED
        BY <2>2, <2>3, <3>1, <3>2, <3>3, BurstFrame DEF BurstInv
    <2>5. QED
      BY <2>4 DEF BurstInv
  <1>3. ASSUME NEW r \in RuleNames, CountTotal(p, r)
        PROVE  BurstInv'
    <2>1. PICK s : /\ proc[p].at = "total" /\ r \in proc[p].todo
                   /\ Reaches(p, s) /\ s.n = proc[p].n
                   /\ \/ /\ Cardinality(Counted(r)) < RuleDef[r].count
                         /\ s.at = "total" /\ s.todo = proc[p].todo \ {r}
                      \/ /\ ~ (Cardinality(Counted(r)) < RuleDef[r].count)
                         /\ s.at = "before" /\ s.rule = r /\ s.todo = proc[p].todo
      BY <1>3, DecidingSteps
    <2>2. /\ proc' = [proc EXCEPT ![p] = s] /\ UNCHANGED <<events, rules, burst>>
          /\ "n" \in DOMAIN s
      BY <2>1 DEF Reaches, Goes, socRecords, ShapeOf, RowStages
    <2>3. RowOf(p) = proc[p].n /\ RowOf(p)' = proc[p].n
      BY <1>1, <2>1, <2>2, RowMoves DEF RowStages
    <2>4. ASSUME NEW q \in RuleNames, q # r \/ s.at = "before"
          PROVE  BurstOK(q)'
      <3>1. Waits(p, q)' <=> Waits(p, q)
        BY <2>1, <2>2, <2>4, RowMoves DEF Waits
      <3>2. s.at = "before" /\ s.rule = q => ~ (Cardinality(Counted(q)) < RuleDef[q].count)
        BY <2>1, <2>4
      <3>3. QED
        BY <2>2, <2>3, <3>1, <3>2, BurstFrame DEF BurstInv
    <2>5. CASE s.at = "total"
      <3>1. Cardinality(Counted(r)) < RuleDef[r].count
        BY <2>1, <2>5
      <3>2. Counted(r)' = Counted(r)
        BY <2>2, SameWindow
      <3>3. ASSUME NEW S, NEW T, S \subseteq Counted(r), T \subseteq Counted(r), Windowed(r)
            PROVE  Cardinality(S) < RuleDef[r].count /\ Cardinality(T) < RuleDef[r].count
        BY <3>1, <3>3, CountedFinite, CountType
      <3>4. Windowed(r) /\ burst[r].clean =>
              /\ Alone' /\ \A q \in Procs : ~ (proc'[q].at = "before" /\ proc'[q].rule = r)
        <4>1. ASSUME Windowed(r), burst[r].clean
              PROVE  Alone' /\ \A q \in Procs : ~ (proc'[q].at = "before" /\ proc'[q].rule = r)
          <5>1. \A q \in Procs : RowOf(q)' = RowOf(q)
            BY <2>2, <2>3, OneMoves
          <5>2. \A q \in Procs : ~ (proc[q].at = "before" /\ proc[q].rule = r)
            BY <3>1, <4>1 DEF BurstInv, BurstOK
          <5>3. Alone
            BY <4>1 DEF BurstInv, BurstOK
          <5>4. Alone'
            BY <5>1, <5>3 DEF Alone
          <5>5. proc'[p] = s /\ \A q \in Procs \ {p} : proc'[q] = proc[q]
            BY <2>2, OneMoves
          <5>6. QED
            BY <2>5, <5>2, <5>4, <5>5
        <4>2. QED
          BY <4>1
      <3>5. Windowed(r) /\ burst[r].clean /\ rules[r] = "on" =>
              /\ burst[r].fired = 0
              /\ Cardinality(Counted(r) \ Waiting(r)') < RuleDef[r].count
        BY <3>3 DEF BurstInv, BurstOK
      <3>6. BurstOK(r)'
        BY <2>2, <3>2, <3>4, <3>5 DEF BurstInv, BurstOK, ValidRule, Windowed
      <3>7. QED
        BY <2>4, <3>6 DEF BurstInv
    <2>6. QED
      BY <2>1, <2>4, <2>5 DEF BurstInv
  <1>4. ASSUME Decide(p)
        PROVE  BurstInv'
    <2>1. PICK s : /\ proc[p].at = "total" /\ proc[p].todo = {} /\ Reaches(p, s)
                   /\ \/ s = After(p)
                      \/ s.at \in {"case", "alert"} /\ s.n = proc[p].n
      BY <1>4, DecidingSteps
    <2>2. proc' = [proc EXCEPT ![p] = s] /\ UNCHANGED <<events, rules, burst>>
      BY <2>1 DEF Reaches, Goes, socRecords
    <2>3. s.at \notin Early
      BY <2>1 DEF After, resting, Early
    <2>4. RowOf(p)' # 0 => RowOf(p)' = RowOf(p)
      <3>1. CASE s = After(p)
        <4>1. "n" \notin DOMAIN s
          BY <3>1 DEF After, resting
        <4>2. QED
          BY <2>2, <4>1, RowMoves
      <3>2. CASE s.at \in {"case", "alert"} /\ s.n = proc[p].n
        <4>1. "n" \in DOMAIN s
          BY <2>1, <3>2 DEF Reaches, ShapeOf, RowStages
        <4>2. QED
          BY <1>1, <2>1, <2>2, <3>2, <4>1, RowMoves DEF RowStages
      <3>3. QED
        BY <2>1, <3>1, <3>2
    <2>5. QED
      BY <2>1, <2>2, <2>3, <2>4, BurstStill
  <1>5. QED
    BY <1>2, <1>3, <1>4

\* The rule fires, or has fired: the row that is counted is the only one.
LEMMA BurstCount ==
  ASSUME SocTyped, BurstInv, NEW p \in Procs, CountBefore(p)
  PROVE  BurstInv'
  <1>1. PICK s : Counts(p, s)
    BY CountSteps
  <1>2. PICK r : r = proc[p].rule
    OBVIOUS
  <1>3. /\ proc[p].at = "before" /\ r \in proc[p].todo
        /\ proc' = [proc EXCEPT ![p] = s] /\ ShapeOf(p, s)
        /\ s.at = "total" /\ s.n = proc[p].n /\ s.todo = proc[p].todo \ {r}
        /\ \A q \in RuleNames :
             /\ burst'[q].clean = burst[q].clean
             /\ burst'[q].fired =
                  IF q = r /\ Cardinality(Counted(r) \ {proc[p].n}) < RuleDef[r].count
                  THEN burst[q].fired + 1 ELSE burst[q].fired
        /\ burst' \in [RuleNames -> [fired : Nat, clean : BOOLEAN]]
        /\ UNCHANGED <<events, rules>>
    BY <1>1, <1>2 DEF Counts, Goes, stores
  <1>4. RowOf(p) = proc[p].n /\ RowOf(p)' = proc[p].n
    <2>1. "n" \in DOMAIN s
      BY <1>3 DEF ShapeOf, RowStages
    <2>2. QED
      BY <1>3, <2>1, RowMoves, RowOfShape DEF RowStages
  <1>5. r \in RuleNames
    BY <1>3 DEF SocTyped, Shapes, ShapeOf
  <1>6. ASSUME NEW q \in RuleNames, q # r
        PROVE  BurstOK(q)'
    <2>1. burst'[q] = burst[q]
      <3>1. burst'[q].fired = burst[q].fired /\ burst'[q].clean = burst[q].clean
        BY <1>3, <1>6
      <3>2. burst[q] \in [fired : Nat, clean : BOOLEAN]
            /\ burst'[q] \in [fired : Nat, clean : BOOLEAN]
        BY <1>3 DEF SocTyped, RulesOK
      <3>3. QED
        BY <3>1, <3>2
    <2>2. Waits(p, q)' <=> Waits(p, q)
      BY <1>3, <1>6, RowMoves DEF Waits
    <2>3. QED
      BY <1>3, <1>4, <2>1, <2>2, BurstFrame DEF BurstInv
  <1>7. BurstOK(r)'
    <2>1. Counted(r)' = Counted(r)
      BY <1>3, SameWindow
    <2>2. ASSUME Windowed(r), burst[r].clean
          PROVE  /\ Alone' /\ \A q \in Procs : proc'[q].at # "before"
                 /\ rules[r] = "on" => Waiting(r) = {proc[p].n} /\ Waiting(r)' = {}
                 /\ ~ (Cardinality(Counted(r)) < RuleDef[r].count)
      <3>1. Alone
        BY <2>2, <1>5 DEF BurstInv, BurstOK
      <3>2. \A q \in Procs : RowOf(q)' = RowOf(q)
        BY <1>3, <1>4, OneMoves
      <3>3. RowOf(p) # 0
        BY <1>3, RowOfShape DEF RowStages
      <3>4. \A q \in Procs \ {p} : RowOf(q) = 0
        BY <3>1, <3>3 DEF Alone
      <3>5. proc'[p] = s /\ \A q \in Procs \ {p} : proc'[q] = proc[q]
        BY <1>3, OneMoves
      <3>6. \A q \in Procs \ {p} : ~ Waits(q, r) /\ proc[q].at # "before"
        BY <3>4, RowOfShape, WaitingRows DEF RowStages
      <3>7. Waits(p, r) /\ ~ Waits(p, r)'
        BY <1>3, RowMoves DEF Waits
      <3>8. \A q \in Procs : ~ Waits(q, r)'
        <4>1. \A q \in Procs \ {p} : Waits(q, r)' <=> Waits(q, r)
          BY <3>5 DEF Waits
        <4>2. QED
          BY <3>6, <3>7, <4>1
      <3>9. Waiting(r) = {proc[p].n}
        BY <1>4, <3>6, <3>7 DEF Waiting
      <3>10. Waiting(r)' = {}
        BY <3>8 DEF Waiting
      <3>11. Alone'
        BY <3>1, <3>2 DEF Alone
      <3>12. \A q \in Procs : proc'[q].at # "before"
        BY <1>3, <3>5, <3>6
      <3>13. ~ (Cardinality(Counted(r)) < RuleDef[r].count)
        BY <1>2, <1>3, <1>5, <2>2 DEF BurstInv, BurstOK
      <3>14. QED
        BY <3>9, <3>10, <3>11, <3>12, <3>13
    <2>3. ASSUME Windowed(r), burst[r].clean, rules[r] = "on"
          PROVE  burst'[r].fired = 1
      <3>1. burst[r].fired = IF Cardinality(Counted(r) \ {proc[p].n}) < RuleDef[r].count
                             THEN 0 ELSE 1
        BY <1>5, <2>2, <2>3 DEF BurstInv, BurstOK
      <3>2. QED
        BY <1>3, <1>5, <3>1
    <2>4. Counted(r) \ {} = Counted(r)
      OBVIOUS
    <2>5. burst'[r].clean = burst[r].clean
      BY <1>3, <1>5
    <2>6. UNCHANGED rules /\ (rules[r] # "none" => ValidRule(r))
      BY <1>3, <1>5 DEF BurstInv, BurstOK
    <2>7. QED
      BY <2>1, <2>2, <2>3, <2>4, <2>5, <2>6 DEF BurstOK, ValidRule, Windowed
  <1>8. QED
    BY <1>6, <1>7 DEF BurstInv

\* What a recount makes of a burst.
LEMMA Recounted ==
  ASSUME SocTyped, NEW r \in RuleNames, Windowed(r), NEW clean \in BOOLEAN, NEW b,
         b = Recount(r, clean), b.clean
  PROVE  /\ clean
         /\ \/ Cardinality(Counted(r)') < RuleDef[r].count /\ b.fired = 0
            \/ /\ ~ (Cardinality(Counted(r)') < RuleDef[r].count)
               /\ b.fired = burst[r].fired /\ burst[r].clean
  <1>1. burst[r] \in [fired : Nat, clean : BOOLEAN]
    BY DEF SocTyped, RulesOK
  <1>2. CASE Cardinality(Counted(r)') < RuleDef[r].count
    BY <1>2 DEF Recount
  <1>3. CASE ~ (Cardinality(Counted(r)') < RuleDef[r].count)
    <2>1. b = [burst[r] EXCEPT !.clean = @ /\ clean]
      BY <1>3 DEF Recount
    <2>2. b.fired = burst[r].fired /\ b.clean = (burst[r].clean /\ clean)
      BY <1>1, <2>1
    <2>3. QED
      BY <1>3, <2>2
  <1>4. QED
    BY <1>2, <1>3

\* The rows are written and the bursts counted anew: what is left to show of a
\* burst that is clean, where no row was worked on before.
LEMMA BurstRecount ==
  ASSUME SocTyped, SocTyped', BurstInv, UNCHANGED rules,
         burst' = [r \in RuleNames |-> Recount(r, \A q \in Procs : RowOf(q) = 0)],
         \A r \in RuleNames : Windowed(r) /\ (\A q \in Procs : RowOf(q) = 0) =>
           /\ Alone' /\ \A q \in Procs : proc'[q].at # "before"
           /\ \/ Counted(r)' \ Waiting(r)' = Counted(r)
              \/ Waiting(r)' = {} /\ Counted(r)' \subseteq Counted(r)
  PROVE  BurstInv'
  <1>1. PICK clean \in BOOLEAN : clean = \A q \in Procs : RowOf(q) = 0
    OBVIOUS
  <1>2. ASSUME NEW r \in RuleNames, Windowed(r), burst'[r].clean
        PROVE  /\ Alone' /\ \A q \in Procs : proc'[q].at # "before"
               /\ rules[r] = "on" =>
                    burst'[r].fired =
                      IF Cardinality(Counted(r)' \ Waiting(r)') < RuleDef[r].count THEN 0 ELSE 1
    <2>1. PICK b : b = Recount(r, clean)
      OBVIOUS
    <2>2. burst'[r] = b
      BY <1>1, <2>1
    <2>3. /\ clean
          /\ \/ Cardinality(Counted(r)') < RuleDef[r].count /\ b.fired = 0
             \/ /\ ~ (Cardinality(Counted(r)') < RuleDef[r].count)
                /\ b.fired = burst[r].fired /\ burst[r].clean
      BY <1>2, <2>1, <2>2, Recounted
    <2>4. \A q \in Procs : RowOf(q) = 0
      BY <1>1, <2>3
    <2>5. Waiting(r) = {}
      BY <2>4, WaitingRows
    <2>6. /\ Alone' /\ \A q \in Procs : proc'[q].at # "before"
          /\ \/ Counted(r)' \ Waiting(r)' = Counted(r)
             \/ Waiting(r)' = {} /\ Counted(r)' \subseteq Counted(r)
      BY <1>2, <2>4
    <2>7. PICK A, B, W : A = Counted(r) /\ B = Counted(r)' /\ W = Waiting(r)'
      OBVIOUS
    <2>8. IsFiniteSet(A) /\ IsFiniteSet(B)
      <3>1. IsFiniteSet(Counted(r))
        BY CountedFinite
      <3>2. Len(events') \in Nat /\ DOMAIN events' = 1..Len(events')
        BY DEF SocTyped, EventsOK, Rows
      <3>3. IsFiniteSet(DOMAIN events')
        BY <3>2, FS_Interval
      <3>4. Counted(r)' \subseteq DOMAIN events'
        BY DEF Counted
      <3>5. IsFiniteSet(Counted(r)')
        BY <3>3, <3>4, FS_Subset
      <3>6. QED
        BY <2>7, <3>1, <3>5
    <2>9. RuleDef[r].count \in Int
      BY <1>2, CountType
    <2>10. ASSUME rules[r] = "on"
           PROVE  b.fired = IF Cardinality(B \ W) < RuleDef[r].count THEN 0 ELSE 1
      <3>1. CASE Cardinality(B) < RuleDef[r].count /\ b.fired = 0
        <4>1. Cardinality(B \ W) <= Cardinality(B) /\ Cardinality(B \ W) \in Nat
              /\ Cardinality(B) \in Nat
          BY <2>8, FS_Subset, FS_CardinalityType
        <4>2. QED
          BY <2>9, <3>1, <4>1
      <3>2. CASE ~ (Cardinality(B) < RuleDef[r].count) /\ b.fired = burst[r].fired /\ burst[r].clean
        <4>1. b.fired = IF Cardinality(A \ {}) < RuleDef[r].count THEN 0 ELSE 1
          BY <1>2, <2>5, <2>7, <2>10, <3>2 DEF BurstInv, BurstOK
        <4>2. A \ {} = A
          OBVIOUS
        <4>3. CASE B \ W = A
          BY <4>1, <4>2, <4>3
        <4>4. CASE W = {} /\ B \subseteq A
          <5>1. Cardinality(B) <= Cardinality(A) /\ Cardinality(B) \in Nat
                /\ Cardinality(A) \in Nat /\ B \ W = B
            BY <2>8, <4>4, FS_Subset, FS_CardinalityType
          <5>2. QED
            BY <2>9, <3>2, <4>1, <4>2, <5>1
        <4>5. QED
          BY <2>6, <2>7, <4>3, <4>4
      <3>3. QED
        BY <2>3, <2>7, <3>1, <3>2
    <2>11. QED
      BY <2>2, <2>6, <2>7, <2>10
  <1>3. \A r \in RuleNames : rules[r] # "none" => ValidRule(r)
    BY DEF BurstInv, BurstOK
  <1>4. QED
    BY <1>2, <1>3 DEF BurstInv, BurstOK, ValidRule, Windowed

\* The row of a new event waits for every rule.
LEMMA BurstInsert ==
  ASSUME SocTyped, BurstInv, NEW p \in Procs, proc[p].at = "insert", Inserts(p), SocTyped'
  PROVE  BurstInv'
  <1> DEFINE k == Len(events) + 1
  <1>1. /\ Len(events) \in Nat /\ DOMAIN events = 1..Len(events)
        /\ DOMAIN events' = 1..(Len(events) + 1)
        /\ \A n \in DOMAIN events : events'[n] = events[n]
    BY AppendRow DEF Inserts, SocTyped, EventsOK
  <1>2. k \notin DOMAIN events /\ k # 0 /\ DOMAIN events' = DOMAIN events \cup {k}
    BY <1>1
  <1> HIDE DEF k
  <1>3. PICK s : s = [at |-> "correlate", n |-> k]
    OBVIOUS
  <1>4. /\ proc' = [proc EXCEPT ![p] = s] /\ s.at = "correlate" /\ s.n = k
        /\ "n" \in DOMAIN s
    BY <1>3 DEF Inserts, Goes, k
  <1>5. /\ proc'[p] = s /\ RowOf(p)' = k
        /\ \A q \in Procs \ {p} : proc'[q] = proc[q] /\ RowOf(q)' = RowOf(q)
    BY <1>4, OneMoves
  <1>6. ASSUME NEW r \in RuleNames, \A q \in Procs : RowOf(q) = 0
        PROVE  /\ Alone' /\ \A q \in Procs : proc'[q].at # "before"
               /\ Counted(r)' \ Waiting(r)' = Counted(r)
    <2>1. Alone'
      BY <1>5, <1>6 DEF Alone
    <2>2. \A q \in Procs : proc[q].at # "before" /\ ~ Waits(q, r)
      BY <1>6, RowOfShape, WaitingRows DEF RowStages
    <2>3. \A q \in Procs : proc'[q].at # "before"
      BY <1>4, <1>5, <2>2
    <2>4. Waits(p, r)' /\ \A q \in Procs \ {p} : ~ Waits(q, r)'
      BY <1>4, <1>5, <2>2 DEF Waits
    <2>5. Waiting(r)' = {k}
      BY <1>5, <2>4 DEF Waiting
    <2>6. \A n : n \in Counted(r)' /\ n # k <=> n \in Counted(r)
      BY <1>1, <1>2 DEF Counted, Filter
    <2>7. Counted(r)' \ {k} = Counted(r)
      BY <2>6
    <2>8. QED
      BY <2>1, <2>3, <2>5, <2>7
  <1>7. burst' = [r \in RuleNames |-> Recount(r, \A q \in Procs : RowOf(q) = 0)]
        /\ UNCHANGED rules
    BY DEF Inserts
  <1>8. QED
    BY <1>6, <1>7, BurstRecount

\* A row leaves the windows.
LEMMA BurstSlide ==
  ASSUME SocTyped, BurstInv, WindowSlides, SocTyped'
  PROVE  BurstInv'
  <1>1. /\ DOMAIN events' = DOMAIN events
        /\ \A n \in DOMAIN events : /\ events'[n].type = events[n].type
                                    /\ events'[n].sev = events[n].sev
                                    /\ events'[n].ip = events[n].ip
                                    /\ events'[n].fresh => events[n].fresh
        /\ burst' = [r \in RuleNames |-> Recount(r, \A q \in Procs : RowOf(q) = 0)]
        /\ UNCHANGED <<rules, proc>>
    BY SlideWrites
  <1>2. ASSUME NEW r \in RuleNames, \A q \in Procs : RowOf(q) = 0
        PROVE  /\ Alone' /\ \A q \in Procs : proc'[q].at # "before"
               /\ Waiting(r)' = {} /\ Counted(r)' \subseteq Counted(r)
    <2>1. \A q \in Procs : RowOf(q)' = 0 /\ (Waits(q, r)' <=> Waits(q, r))
      BY <1>1, <1>2 DEF RowOf, Waits
    <2>2. \A q \in Procs : proc[q].at # "before" /\ ~ Waits(q, r)
      BY <1>2, RowOfShape, WaitingRows DEF RowStages
    <2>3. Waiting(r)' = {}
      BY <2>1, <2>2 DEF Waiting
    <2>4. Counted(r)' \subseteq Counted(r)
      BY <1>1 DEF Counted, Filter
    <2>5. QED
      BY <1>1, <2>1, <2>2, <2>3, <2>4 DEF Alone
  <1>3. QED
    BY <1>1, <1>2, BurstRecount

LEMMA BurstPipe ==
  ASSUME SocTyped, BurstInv, NEW p \in Procs, Pipes(p)
  PROVE  BurstInv'
  <1>1. ASSUME NEW s, Goes(p, s), UNCHANGED <<events, rules, burst>>, proc[p].at \notin Early,
               s.at \notin Early, RowOf(p)' # 0 => RowOf(p)' = RowOf(p)
        PROVE  BurstInv'
    BY <1>1, BurstStill DEF Goes
  <1>2. ASSUME NEW s, Goes(p, s), s.at \in {"idle", "reading", "lookup", "insert"},
               "n" \notin DOMAIN s, UNCHANGED <<events, rules, burst>>, proc[p].at \notin Early
        PROVE  BurstInv'
    <2>1. RowOf(p)' = 0 /\ s.at \notin Early
      BY <1>2, RowMoves DEF Goes, Early
    <2>2. QED
      BY <1>1, <1>2, <2>1
  <1>3. PICK d : d = After(p)
    OBVIOUS
  <1>4. d.at \in {"idle", "reading"} /\ "n" \notin DOMAIN d
    BY <1>3 DEF After, resting
  <1>5. RowOf(p) = IF proc[p].at \in RowStages THEN proc[p].n ELSE 0
    BY RowOfShape
  <1>6. CASE Lookup(p)
    <2>1. proc[p].at \notin Early
      BY <1>6 DEF Lookup, Early
    <2>2. PICK s : Goes(p, s) /\ UNCHANGED socRecords /\ ShapeOf(p, s) /\ (s = d \/ s.at = "insert")
      BY <1>3, <1>6, ReadingSteps
    <2>3. s.at \in {"idle", "reading", "insert"} /\ "n" \notin DOMAIN s
      BY <1>4, <2>2 DEF ShapeOf, RowStages
    <2>4. QED
      BY <1>2, <2>1, <2>2, <2>3 DEF socRecords
  <1>7. CASE InsertEvent(p)
    <2>1. proc[p].at = "insert"
      BY <1>7, InsertSteps
    <2>2. CASE Inserts(p)
      BY <1>7, <2>1, <2>2, BurstInsert, TypedInsert
    <2>3. CASE Goes(p, d) /\ UNCHANGED socRecords
      BY <1>2, <1>4, <2>1, <2>3 DEF socRecords, Early
    <2>4. QED
      BY <1>3, <1>7, <2>2, <2>3, InsertSteps
  <1>8. CASE OpenCase(p) \/ LogOpened(p)
    <2>1. PICK s : /\ Goes(p, s) /\ s.n = proc[p].n /\ proc[p].at \in {"case", "timeline"}
                   /\ s.at \in {"timeline", "alert"} /\ UNCHANGED <<events, rules, burst>>
                   /\ (ShapeOf(p, s) \/ ShapeOf(p, s)')
      BY <1>8, OpenSteps, TellSteps DEF Opens, Tells, ghosts
    <2>2. "n" \in DOMAIN s /\ s.at \notin Early /\ proc[p].at \notin Early
      BY <2>1 DEF ShapeOf, RowStages, Early
    <2>3. RowOf(p)' = RowOf(p)
      BY <1>5, <2>1, <2>2, RowMoves DEF Goes, RowStages
    <2>4. QED
      BY <1>1, <2>1, <2>2, <2>3
  <1>9. CASE CreateAlert(p)
    <2>1. proc[p].at \notin Early /\ Goes(p, d) /\ UNCHANGED <<events, rules, burst>>
      BY <1>3, <1>9, AlertSteps DEF Alerted, Early
    <2>2. QED
      BY <1>2, <1>4, <2>1
  <1>10. QED
    BY <1>6, <1>7, <1>8, <1>9, BurstReads, BurstCount DEF Pipes

\* A process that is cut short with a row spoils the bursts.
LEMMA BurstFail ==
  ASSUME SocTyped, BurstInv, NEW p \in Procs, Fails(p)
  PROVE  BurstInv'
  <1>1. PICK s : Goes(p, s) /\ (s = After(p) \/ s = resting)
    BY DEF Fails
  <1>2. proc' = [proc EXCEPT ![p] = s] /\ RowOf(p)' = 0 /\ s.at \notin Early
    <2>1. s.at \in {"idle", "reading"} /\ "n" \notin DOMAIN s
      BY <1>1 DEF After, resting
    <2>2. QED
      BY <1>1, <2>1, RowMoves DEF Goes, Early
  <1>3. Broken(p) /\ UNCHANGED <<events, rules>>
    BY DEF Fails, Broken
  <1>4. /\ burst' \in [RuleNames -> [fired : Nat, clean : BOOLEAN]]
        /\ \A r \in RuleNames : /\ burst'[r].fired = burst[r].fired
                                /\ burst'[r].clean = (burst[r].clean /\ RowOf(p) = 0)
    BY <1>3, BrokenWrites
  <1>5. CASE RowOf(p) = 0
    <2>1. burst' = burst
      <3>1. \A r \in RuleNames : burst'[r] = burst[r]
        <4>1. ASSUME NEW r \in RuleNames
              PROVE  burst'[r] = burst[r]
          <5>1. burst'[r] \in [fired : Nat, clean : BOOLEAN]
                /\ burst[r] \in [fired : Nat, clean : BOOLEAN]
            BY <1>4 DEF SocTyped, RulesOK
          <5>2. burst'[r].fired = burst[r].fired /\ burst'[r].clean = burst[r].clean
            BY <1>4, <1>5, <5>1
          <5>3. QED
            BY <5>1, <5>2
        <4>2. QED
          BY <4>1
      <3>2. QED
        BY <1>4, <3>1 DEF SocTyped, RulesOK
    <2>2. proc[p].at \notin Early
      BY <1>5, RowOfShape DEF Early, RowStages
    <2>3. QED
      BY <1>2, <1>3, <2>1, <2>2, BurstStill
  <1>6. CASE RowOf(p) # 0
    <2>1. \A r \in RuleNames : ~ burst'[r].clean
      BY <1>4, <1>6
    <2>2. QED
      BY <1>3, <2>1 DEF BurstInv, BurstOK, ValidRule, Windowed
  <1>7. QED
    BY <1>5, <1>6

LEMMA BurstCommand ==
  ASSUME SocTyped, BurstInv, NEW t \in Terminals
  PROVE  /\ Begins(t) \/ SetStatus(t) \/ LinkCase(t) \/ RecordEvent(t) => BurstInv'
         /\ \A r \in RuleNames : RuleSet(t, r) => BurstInv'
         /\ \A c, status : Writes(t, c, status) => BurstInv'
         /\ \A s : Beside(t, s) => BurstInv'
  <1>1. t \in Procs
    BY DEF Terminals
  <1>2. PICK o : o = resting
    OBVIOUS
  <1>3. "n" \notin DOMAIN o /\ o.at \notin Early
    BY <1>2 DEF resting, Early
  <1>4. ASSUME NEW s, proc' = [proc EXCEPT ![t] = s], "n" \notin DOMAIN s, s.at \notin Early,
               proc[t].at \notin Early, UNCHANGED <<events, rules, burst>>
        PROVE  BurstInv'
    BY <1>1, <1>4, BurstStill, RowMoves
  <1>5. ASSUME NEW s, Starts(t, s)
        PROVE  proc' = [proc EXCEPT ![t] = s] /\ proc[t].at \notin Early
    BY <1>5 DEF Starts, resting, Early
  <1>6. ASSUME Begins(t)
        PROVE  BurstInv'
    <2>1. PICK s : /\ Starts(t, s) /\ UNCHANGED socRecords /\ ShapeOf(t, s)
                   /\ s.at \in {"idle", "lookup", "stamp", "log"}
      BY <1>6, BeginSteps
    <2>2. "n" \notin DOMAIN s /\ s.at \notin Early
      BY <2>1 DEF ShapeOf, RowStages, Early
    <2>3. QED
      BY <1>4, <1>5, <2>1, <2>2 DEF socRecords
  <1>7. ASSUME SetStatus(t)
        PROVE  BurstInv'
    <2>1. PICK s : Goes(t, s) /\ ShapeOf(t, s) /\ s.at \in {"idle", "link"}
      BY <1>7, StampSteps
    <2>2. proc[t].at = "stamp" /\ UNCHANGED <<events, rules, burst>>
      BY <1>7, StampSteps DEF ghosts
    <2>3. "n" \notin DOMAIN s
      BY <2>1 DEF ShapeOf, RowStages
    <2>4. QED
      BY <1>4, <2>1, <2>2, <2>3 DEF Goes, Early
  <1>8. ASSUME LinkCase(t)
        PROVE  BurstInv'
    BY <1>2, <1>3, <1>4, <1>8, LinkSteps DEF Goes, ghosts, Early
  <1>9. ASSUME RecordEvent(t)
        PROVE  BurstInv'
    BY <1>2, <1>3, <1>4, <1>9, RecordSteps DEF Goes, ghosts, Early
  <1>10. ASSUME NEW c, NEW status, Writes(t, c, status)
         PROVE  BurstInv'
    <2>1. PICK s : s = Log(c, status)
      OBVIOUS
    <2>2. "n" \notin DOMAIN s /\ s.at \notin Early
      BY <2>1 DEF Log, Early
    <2>3. Starts(t, s) /\ UNCHANGED <<events, rules, burst>>
      BY <1>10, <2>1 DEF Writes, ghosts
    <2>4. QED
      BY <1>4, <1>5, <2>2, <2>3
  <1>11. ASSUME NEW s, Beside(t, s)
         PROVE  BurstInv'
    <2>1. "n" \notin DOMAIN s /\ s.at \notin Early /\ proc[t].at \notin Early
      BY <1>11 DEF Beside, ShapeOf, SocStages, RowStages, Early
    <2>2. QED
      BY <1>4, <1>11, <2>1 DEF Beside, socRecords
  <1>12. ASSUME NEW r \in RuleNames, RuleSet(t, r)
         PROVE  BurstInv'
    <2>1. /\ Starts(t, o) /\ UNCHANGED events
          /\ \A q \in RuleNames \ {r} : rules'[q] = rules[q] /\ burst'[q] = burst[q]
          /\ burst'[r].clean = FALSE
          /\ rules'[r] # "none" => rules[r] # "none" \/ ValidRule(r)
      BY <1>2, <1>12 DEF RuleSet, Commands
    <2>2. BurstOK(r)'
      BY <2>1 DEF BurstInv, BurstOK, ValidRule, Windowed
    <2>3. \A p \in Procs : RowOf(p)' = RowOf(p) /\ (proc'[p] = proc[p] \/ p = t)
      <3>1. RowOf(t) = 0
        BY <1>1, <1>5, <2>1, RowOfShape DEF Starts, resting, RowStages
      <3>2. RowOf(t)' = 0
        BY <1>1, <1>3, <1>5, <2>1, RowMoves
      <3>3. QED
        BY <1>1, <1>5, <2>1, <3>1, <3>2, OneMoves
    <2>4. ASSUME NEW q \in RuleNames \ {r}
          PROVE  BurstOK(q)'
      <3>1. ~ Waits(t, q) /\ ~ Waits(t, q)' /\ proc'[t].at # "before"
        <4>1. proc'[t] = o
          BY <1>1, <1>5, <2>1, OneMoves
        <4>2. QED
          BY <1>3, <1>5, <2>1, <4>1 DEF Waits, Early
      <3>2. \A p \in Procs : Waits(p, q)' <=> Waits(p, q)
        BY <2>3, <3>1 DEF Waits
      <3>3. Waiting(q)' = Waiting(q)
        BY <2>3, <3>2 DEF Waiting
      <3>4. Counted(q)' = Counted(q)
        BY <2>1, SameWindow
      <3>5. Alone => Alone'
        BY <2>3 DEF Alone
      <3>6. \A p \in Procs : proc'[p].at = "before" => proc'[p] = proc[p]
        BY <2>3, <3>1
      <3>7. QED
        BY <2>1, <3>3, <3>4, <3>5, <3>6 DEF BurstInv, BurstOK, ValidRule, Windowed
    <2>5. QED
      BY <2>2, <2>4 DEF BurstInv
  <1>13. QED
    BY <1>6, <1>7, <1>8, <1>9, <1>10, <1>11, <1>12

LEMMA BurstNext ==
  ASSUME SocTyped, BurstInv, [SocNext]_socVars
  PROVE  BurstInv'
  <1>1. SocTyped'
    BY TypedNext
  <1>2. ASSUME UNCHANGED <<events, rules, burst, proc>>
        PROVE  BurstInv'
    <2>1. ASSUME NEW r \in RuleNames
          PROVE  BurstOK(r)'
      <3>1. Counted(r)' = Counted(r)
        BY <1>2, SameWindow
      <3>2. Waiting(r)' = Waiting(r) /\ (Alone => Alone')
        BY <1>2 DEF Waiting, Waits, Alone, RowOf
      <3>3. QED
        BY <1>2, <3>1, <3>2 DEF BurstInv, BurstOK, ValidRule, Windowed
    <2>2. QED
      BY <2>1 DEF BurstInv
  <1>3. CASE FileStep \/ UNCHANGED socVars
    BY <1>2, <1>3, FeederMoves DEF socVars, socRecords, deskVars, stores, ghosts
  <1>4. CASE FeederStep
    <2>1. PICK s : /\ Goes(Feeder, s) /\ ShapeOf(Feeder, s)
                   /\ s.at \in {"idle", "reading", "lookup"}
                   /\ proc[Feeder].at \in {"idle", "reading"}
                   /\ UNCHANGED <<stores, ghosts, quiet>>
      BY <1>4, FeederMoves
    <2>2. "n" \notin DOMAIN s /\ s.at \notin Early /\ proc[Feeder].at \notin Early
      BY <2>1 DEF ShapeOf, RowStages, Early
    <2>3. RowOf(Feeder)' = 0
      BY <2>1, <2>2, RowMoves, FeederAssumption DEF Goes
    <2>4. QED
      BY <2>1, <2>2, <2>3, BurstStill, FeederAssumption DEF Goes, stores, ghosts
  <1>5. CASE SocNext
    BY <1>1, <1>3, <1>4, <1>5, Kinds, BurstSlide, BurstPipe, BurstFail, BurstCommand
  <1>6. QED
    BY <1>3, <1>5

LEMMA BurstInit ==
  ASSUME SocInit
  PROVE  BurstInv
  <1>1. events = <<>> /\ DOMAIN events = {}
    BY EmptySeq DEF SocInit
  <1>2. \A p \in Procs : proc[p].at = "idle" /\ RowOf(p) = 0
    BY DEF SocInit, DeskInit, RowOf, resting
  <1>3. ASSUME NEW r \in RuleNames
        PROVE  BurstOK(r)
    <2>1. rules[r] # "none" => ValidRule(r)
      BY DEF SocInit
    <2>2. Counted(r) \ Waiting(r) = {}
      BY <1>1 DEF Counted
    <2>3. burst[r].fired = 0
      BY DEF SocInit
    <2>4. rules[r] = "on" /\ Windowed(r) => Cardinality(Counted(r) \ Waiting(r)) < RuleDef[r].count
      BY <2>1, <2>2, FS_EmptySet, CountType DEF ValidRule
    <2>5. QED
      BY <1>2, <2>1, <2>3, <2>4 DEF BurstOK, Alone
  <1>4. QED
    BY <1>3 DEF BurstInv

LEMMA BurstInvSuffices ==
  ASSUME SocTyped, BurstInv
  PROVE  BurstFiresOnce
  <1>1. ASSUME NEW r \in RuleNames, Windowed(r), rules[r] = "on", burst[r].clean,
               \A p \in Procs : RowOf(p) = 0,
               Cardinality(Counted(r)) >= RuleDef[r].count
        PROVE  burst[r].fired = 1
    <2>1. Waiting(r) = {}
      BY <1>1, WaitingRows
    <2>2. Counted(r) \ {} = Counted(r)
      OBVIOUS
    <2>3. ~ (Cardinality(Counted(r)) < RuleDef[r].count)
      <3>1. Cardinality(Counted(r)) \in Nat
        BY <1>1, CountedFinite
      <3>2. QED
        BY <1>1, <3>1, CountType
    <2>4. QED
      BY <1>1, <2>1, <2>2, <2>3 DEF BurstInv, BurstOK
  <1>2. QED
    BY <1>1 DEF BurstFiresOnce

\* A windowed rule fires once for a burst, as long as no two ingests overlap, none
\* is cut short, and neither the rule nor the window changes under one.
THEOREM BurstsFireOnce == SocSpec => []BurstFiresOnce
  <1>1. SocInit => SocTyped /\ BurstInv
    BY TypedInit, BurstInit
  <1>2. SocTyped /\ BurstInv /\ [SocNext]_socVars => SocTyped' /\ BurstInv'
    BY TypedNext, BurstNext
  <1>3. SocTyped /\ BurstInv => BurstFiresOnce
    BY BurstInvSuffices
  <1>4. QED
    BY <1>1, <1>2, <1>3, PTL DEF SocSpec
=============================================================================
