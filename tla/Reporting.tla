------------------------------- MODULE Reporting -------------------------------
(***************************************************************************)
(* Reports and exports (reporting/service.py, cli/report.py,               *)
(* cli/export.py): what a reader outside KSEC is given.  A report reads    *)
(* the findings, the assets, the evidence and the cases with one query     *)
(* each and is stored as it was rendered; an export reads a list and then  *)
(* what belongs to each row of it.  Nothing keeps the tables still between *)
(* two of these queries.  The scope rules a report quotes are those of     *)
(* AccessControl and are left out.                                         *)
(***************************************************************************)
EXTENDS ThreatIntel

VARIABLE reports  \* stored reports, in row order

reportVars == <<reports, intelVars>>

Formats == {"markdown", "html", "pdf", "docx"}
FileFormats == {"pdf", "docx"}

records == <<intelRecords, findingTables, evidenceTables, forensicTables, exercises, socRecords>>

\* The rows of a table, of one engagement or of all.
RowsOf(table, engagement) ==
  Listed({n \in DOMAIN table : engagement \in {NONE, table[n].engagement}})

FindingList(engagement) ==
  LET mine == RowsOf(findings, engagement)
  IN [k \in DOMAIN mine |-> [id |-> mine[Len(mine) + 1 - k]]
                             @@ findings[mine[Len(mine) + 1 - k]]]

EvidenceList(engagement) == RowsOf(evidence, engagement)

AssetList(engagement) == RowsOf(assets, engagement)

CaseList == [c \in DOMAIN cases |-> cases[Len(cases) + 1 - c].status]

Table(name, engagement) ==
  CASE name = "assets" -> AssetList(engagement)
    [] name = "evidence" -> EvidenceList(engagement)
    [] name = "cases" -> CaseList

(***************************************************************************)
(* Rendering.                                                              *)
(***************************************************************************)

\* How many findings there are, and the three of highest risk; what is said of
\* their severities is wording.
ExecutiveSummary(rows) ==
  LET scored == SelectSeq(rows, LAMBDA f : f.level # NONE)
      ranked == SetToSortSeq(DOMAIN scored, LAMBDA j, k :
                  scored[j].level > scored[k].level
                  \/ (scored[j].level = scored[k].level /\ j < k))
  IN IF rows = <<>> THEN <<>>
     ELSE <<Len(rows), [k \in 1..(IF Len(ranked) > 3 THEN 3 ELSE Len(ranked)) |->
                          scored[ranked[k]].id]>>

\* Only the markdown has a section on the cases, those that are not closed.
RenderMarkdown(read) ==
  [markup |-> "markdown", summary |-> ExecutiveSummary(read.findings), tables |-> read,
   open |-> SelectSeq(read.cases, LAMBDA status : status # "closed")]

RenderHtml(read) ==
  [markup |-> "html", summary |-> ExecutiveSummary(read.findings), tables |-> read,
   open |-> <<>>]

(***************************************************************************)
(* Reports.                                                                *)
(***************************************************************************)

\* create and preview make the same queries, the findings first.
Queries(t, engagement, format, then) ==
  /\ format \in Formats
  /\ Starts(t, [at |-> "tables", todo |-> <<"assets", "evidence", "cases">>, then |-> then,
                engagement |-> engagement, format |-> format,
                read |-> [findings |-> FindingList(engagement)]])
  /\ UNCHANGED <<records, reports, shown>>

ReportCreate(t, engagement, format, out) ==
  Queries(t, engagement, format, IF out THEN "file" ELSE "row")

ReportPreview(t, engagement, format) == Queries(t, engagement, format, "screen")

ReadTable(t) ==
  /\ proc[t].at = "tables" /\ proc[t].todo # <<>>
  /\ LET name == Head(proc[t].todo) IN
     Goes(t, [proc[t] EXCEPT !.todo = Tail(@),
                !.read = @ @@ [x \in {name} |-> Table(name, proc[t].engagement)]])
  /\ UNCHANGED <<records, reports, shown, quiet>>

\* render: a preview is HTML only when HTML is asked for.
Render(t) ==
  LET p == proc[t] IN
  /\ p.at = "tables" /\ p.todo = <<>> /\ p.then = "screen"
  /\ shown' = [shown EXCEPT ![t] = <<[kind |-> "preview", content |->
       IF p.format = "html" THEN RenderHtml(p.read) ELSE RenderMarkdown(p.read)]>>]
  /\ Goes(t, resting)
  /\ UNCHANGED <<records, reports, quiet>>

\* generate: a report to be exported as docx is stored as HTML.
Generate(t) ==
  LET p == proc[t] IN
  /\ p.at = "tables" /\ p.todo = <<>> /\ p.then # "screen" /\ Room(reports)
  /\ reports' = Append(reports, [engagement |-> p.engagement, format |-> p.format, content |->
       IF p.format \in {"markdown", "pdf"} THEN RenderMarkdown(p.read) ELSE RenderHtml(p.read)])
  /\ Goes(t, IF p.then = "row" THEN resting
             ELSE [at |-> "file", report |-> Len(reports) + 1, format |-> p.format])
  /\ UNCHANGED <<records, shown, quiet>>

\* The file holds the stored content, whatever its markup.
File(n, format) == <<[kind |-> "file", format |-> format, content |-> reports[n].content]>>

WriteReport(t) ==
  /\ proc[t].at = "file"
  /\ shown' = [shown EXCEPT ![t] = File(proc[t].report, proc[t].format)]
  /\ Goes(t, resting)
  /\ UNCHANGED <<records, reports, quiet>>

\* A command that only reads.
Displays(t, screen) ==
  /\ shown' = [shown EXCEPT ![t] = screen]
  /\ Commands(t)
  /\ UNCHANGED <<records, reports>>

ReportExport(t, n, format) ==
  n \in DOMAIN reports /\ format \in FileFormats /\ Displays(t, File(n, format))

ReportList(t) == Displays(t, <<[kind |-> "reports", formats |->
                   [k \in DOMAIN reports |-> reports[Len(reports) + 1 - k].format]]>>)

ReportShow(t, n) ==
  n \in DOMAIN reports /\ Displays(t, <<[kind |-> "report", content |-> reports[n].content]>>)

(***************************************************************************)
(* Exports.                                                                *)
(***************************************************************************)

\* The envelope is printed, or written to the file --out names.
WritesOut(t, list) ==
  /\ shown' = [shown EXCEPT ![t] = list]
  /\ Goes(t, resting)
  /\ UNCHANGED <<records, reports, quiet>>

Exporting(t, stage) == Starts(t, stage) /\ UNCHANGED <<records, reports, shown>>

Continues(t, stage) == Goes(t, stage) /\ UNCHANGED <<records, reports, shown, quiet>>

\* The case, then its links, notes and timeline, then all evidence and
\* indicators.  `early` tells a status whose timeline entry was still to come.
ExportCase(t, c) ==
  /\ c \in DOMAIN cases
  /\ Exporting(t, [at |-> "case export", c |-> c, status |-> cases[c].status,
                   early |-> cases[c].split \/ Logging(c)])

ExportTimeline(t) ==
  /\ proc[t].at = "case export"
  /\ Continues(t, [at |-> "case rest", status |-> proc[t].status, early |-> proc[t].early,
                   log |-> cases[proc[t].c].log])

ExportRest(t) ==
  /\ proc[t].at = "case rest"
  /\ WritesOut(t, <<[kind |-> "case", status |-> proc[t].status, early |-> proc[t].early,
                     log |-> proc[t].log, evidence |-> EvidenceList(NONE),
                     iocs |-> Len(iocs)]>>)

\* Each finding with its remediations ...
ExportFindings(t, engagement) ==
  Exporting(t, [at |-> "finding export", todo |-> FindingList(engagement), done |-> <<>>])

ExportRemediations(t) ==
  LET row == Head(proc[t].todo) IN
  /\ proc[t].at = "finding export" /\ proc[t].todo # <<>>
  /\ Continues(t, [proc[t] EXCEPT !.todo = Tail(@), !.done = Append(@,
       [kind |-> "finding", status |-> row.status,
        remediations |-> {remediations[r].status : r \in
          {r \in DOMAIN remediations : remediations[r].finding = row.id}}])])

\* ... and each piece of evidence with its chain of custody, oldest first.
\* `early` tells evidence whose capture was still to be recorded.
ExportEvidence(t, engagement) ==
  Exporting(t, [at |-> "evidence export", todo |-> EvidenceList(engagement), done |-> <<>>])

ExportCustody(t) ==
  LET e == Head(proc[t].todo) IN
  /\ proc[t].at = "evidence export" /\ proc[t].todo # <<>>
  /\ Continues(t, [proc[t] EXCEPT !.todo = Tail(@), !.done = Append(@,
       [kind |-> "custody", evidence |-> e,
        early |-> e \in cut \/ \E p \in Procs : Capturing(p) = e,
        chain |-> [k \in DOMAIN CustodyLog(e) |-> CustodyLog(e)[k].state]])])

ExportDone(t) ==
  /\ proc[t].at \in {"finding export", "evidence export"} /\ proc[t].todo = <<>>
  /\ WritesOut(t, proc[t].done)

ExportAssets(t, engagement) ==
  Displays(t, <<[kind |-> "assets", rows |-> AssetList(engagement)]>>)

(***************************************************************************)
(* The specification.                                                      *)
(***************************************************************************)

ReportingInit == reports = <<>>

ReportStep(t) ==
  \/ \E g \in Engagements, format \in Formats :
       ReportPreview(t, g, format) \/ \E out \in BOOLEAN : ReportCreate(t, g, format, out)
  \/ \E n \in DOMAIN reports :
       ReportShow(t, n) \/ \E format \in FileFormats : ReportExport(t, n, format)
  \/ ReportList(t) \/ ReadTable(t) \/ Render(t) \/ Generate(t) \/ WriteReport(t)

ExportStep(t) ==
  \/ \E g \in Engagements : ExportFindings(t, g) \/ ExportEvidence(t, g) \/ ExportAssets(t, g)
  \/ \E c \in DOMAIN cases : ExportCase(t, c)
  \/ ExportTimeline(t) \/ ExportRest(t) \/ ExportRemediations(t) \/ ExportCustody(t)
  \/ ExportDone(t)

ReportingNext ==
  \/ IntelNext /\ UNCHANGED reports
  \/ \E t \in Terminals : ReportStep(t) \/ ExportStep(t)

ReportingSpec ==
  SocInit /\ CaseworkInit /\ IntelInit /\ ReportingInit /\ [][ReportingNext]_reportVars

(***************************************************************************)
(* Properties.                                                             *)
(***************************************************************************)

\* The tables of the SOC, of the casework and of the threat intelligence have
\* their types, however the commands of all of them mix.
SecurityTypesOK == SocTypeOK /\ CaseworkTypeOK /\ IntelTypeOK
================================================================================
