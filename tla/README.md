# A TLA+ development of KSEC

KSEC is a local-first security orchestration platform: Python services over one
SQLite file.  Every `ksec` command, the API server and the dashboard is a process
of its own that bootstraps the services (`src/src/ksec/bootstrap.py`), performs an
operation and closes.  Several such processes may run at once and share nothing
but the database, which runs in autocommit mode: each SQL statement is atomic, and
almost no operation is more than one statement inside a transaction.  Inside a
process the job scheduler adds threads: a worker, one executor per job, and the
callers.  Most of what can go wrong in KSEC goes wrong between those processes and
threads, and that is what this development is about.

Paths in this file are relative to `src/`; `ksec/` stands for `src/ksec/`.

## Inventory

| component | state it keeps | hard behaviour | what makes it correct |
|---|---|---|---|
| Job scheduler and repository, `ksec/scheduler/service.py`, `ksec/jobs` | thread and process tables, cancel flags, stop flag, lock; tables `jobs`, `emergency_stop` | clients, worker, executors and other processes interleave; tools hang; processes die; unconditional UPDATEs decided on earlier reads | nobody leaves a job RUNNING or a tool alive without someone responsible; verdicts tell the truth; stops survive; the queue drains |
| Submission rate limiter, `submit`, `_rate_allowed` | sliding windows in memory | check and record are two lock regions; the clock is read before the lock | windows never forget; bounded overrun |
| Recurring schedules, `ksec/scheduler/schedules.py`, `ksec/cli/jobs.py` | table `job_schedules` | several workers; submit then stamp; a clock that moves on | bounded firing |
| Workflow engine, `ksec/workflows/engine.py` | table `workflow_runs` | waits that time out, retries, withdrawn permission, others disturbing its jobs | order, truth of the recorded run, its end |
| Workflow store, triggers, notifications, `ksec/workflows`, `ksec/notifications` | custom workflows, triggers, runs, notices | edits between resolve, policy and run; one failing trigger among several | a version names one list of steps |
| Policy, authorization, RBAC, identity, sessions, modes, API tokens, `ksec/policies`, `ksec/authorization`, ... | users, roles, sessions, tokens, engagements, scope, the configuration file | decisions read several tables one after another; read then unconditional write | what an ALLOW rests on; one active session; the last role |
| SOC pipeline and SIEM feeder, `ksec/soc`, `ksec/siem` | events, alerts, rules, offset of the followed file | half-written lines, rotation, overlapping ingests, kills | one alert per event, one firing per burst, no line lost unnoticed |
| Cases, findings, evidence, forensics, purple team, `ksec/cases`, `ksec/findings`, ... | rows with life cycles, custody chain | row and log entry are two statements; totals recomputed from earlier reads | a status has its record; work is not lost |
| Threat intelligence, assets, analyses, `ksec/threat_intel`, `ksec/assets`, `ksec/malware`, ... | indicators, actors, campaigns, assets | look up, then insert | no twin rows |
| Reports and exports, `ksec/reporting` | stored reports | one query per table, nothing holds the tables still | what is shown is backed |
| Plugins, `ksec/plugins` | a directory and a row each | kill or overlap between the two | no row without its files |
| Migrations, backups, updates, change detection, `ksec/db`, `ksec/backups`, ... | the database file and its copies | kill between two statements of a script; a restore under open processes | versions tell the schema; backups verify |
| Tool registry, installer, domain modules, `ksec/capabilities`, `ksec/installer`, `ksec/modules` | a copy of what the path holds | searches that overlap an installation | an installed tool is ready |
| Simulations, atomic tests, curriculum, compliance, `ksec/adversary`, `ksec/redteam`, ... | exercises and their steps, ledger | overlapping and killed runs | a status agrees with its steps |
| Adapters, parsers, knowledge, dashboards, start-up configuration | none or static | none | not state machines |

Interactions: command line → workflow engine → policy engine (per step) and
scheduler (per attempt) → job repository → executor thread → tool process → parser
→ correlation → assets.  The scheduler's worker also reads the schedules and
submits.  Bootstrap calls the scheduler's recovery, the migrations and the plugin
discovery.  The feeder and the SOC commands run the pipeline, which opens alerts
and cases; findings, evidence and exercises refer to those; reports read all of
them.  `PROJECT.json` lists every component with its status, and under `hazards`
each place where the code is exposed.

## Modules

| module | models | extends |
|---|---|---|
| `JobScheduler` | `scheduler/service.py`, `jobs/models.py`, recovery in `bootstrap.py` | – |
| `JobSafety` | what is stated of it | `JobScheduler` |
| `JobLifecycle` | the abstract life of a job that `JobScheduler` implements | – |
| `RateLimiter` | the windows of `submit`, `_rate_allowed`, `emergency_stop_clear` | – |
| `Schedules` | `_run_due_schedules`, `ScheduleStore`, `ksec job schedule` | – |
| `StepOrder` | `WorkflowStore._has_cycle`, `WorkflowEngine._topological_order` | – |
| `WorkflowEngine` | `WorkflowEngine.run`, `_submit_with_retry`, `_finish`, `Scheduler.wait_for` | – |
| `AccessControl` | policy gates, accounts, roles, sessions, tokens, scope, safety switches | – |
| `Desk` | what a command is: stages of statements, kills, overlap | – |
| `SocPipeline` | normalisation, intake, rules, alerts, cases, the feeder | `Desk` |
| `Casework` | findings, evidence, forensics, purple exercises | `SocPipeline` |
| `ThreatIntel` | indicators, assets, the analyses that write them | `Casework` |
| `Reporting` | reports and exports over all of these | `ThreatIntel` |
| `Console` | what a command that only reads puts on the screen | `Desk` |
| `Plugins` | plugin manager, registry of adapters | `Console` |
| `Automation` | stored workflows, triggers, notifications | `Console` |
| `Upkeep` | migrations, backups, updates, change detection | `Console` |
| `Toolbox` | tool registry, installer, domain modules | `Console` |
| `Programs` | simulations, atomic tests, curriculum, compliance | `Console` |
| `JobProofs`, `AccessProofs` | theorems, see below | `JobSafety`; `AccessControl` |
| `SubmissionProofs` | theorems, see below | `RateLimiter`, `Schedules` |
| `WorkflowProofs` | theorems, see below | `StepOrder`, `WorkflowEngine` |
| `SocProofs`, `SecurityProofs` | theorems about `SocPipeline`, and about all of `Reporting` | `SocPipeline`; `Reporting` |
| `PlatformProofs` | theorems about the five modules on `Console` | those five |
| `Tables` | lemmas about tables that the proofs share | – |
| `MC*` | constant values and initial tables for TLC | the modules they compose |

### JobScheduler

An *instance* is a process with a `Scheduler` object; it is down, recovering or up.
A *client* is a caller of the public operations inside its home instance.  An
*attempt* is one execution of `_execute` in a thread of its own, and owns at most
one *tool*, the child process.  Tools outlive a dead instance; threads are daemons
and do not.

A step is one SQL statement or one region under `Scheduler._lock`; `call[c]`,
`pc[a]` and `worker[i]` are the points between them, with the source's order.
`LockFree` guards every region.  Only `emergency_stop` keeps the lock over several
steps, so the lock is a variable (`holder`) for it alone.  `set_state` writes
whatever the present state is: `ThreadWrites` and `ClientWrites` have no guard on
`state`.  The decision was made by an earlier step (`Pause`, `Cancel`, ...), as in
the code.  The history variable `asked` records whose cancellation was requested.

Data that is abstracted: commands, options, output, timestamps (ranks), error
texts.  Exceptions that `_execute` does not catch are `SeeGarbled` and `Raises`.
The six gates between RUNNING and the launch are one action, `LaunchFails`: each of
them does the same to the state.

### RateLimiter, Schedules, StepOrder, WorkflowEngine

`RateLimiter` splits a submission where the code does: clock, check, record.
`SubmitRate` of `JobScheduler` is its nondeterministic summary.

`Schedules` has one action for the start of a pass (clock and list), one for each
`submit` and one for each `mark_run`; the commands that add or run a schedule ask
the policy first.  Cron matching is the constant `Due`.

`StepOrder` runs the loop either on names (`mode = "validate"`) or on steps
(`mode = "run"`).  `named` is the resolution of names: an unnamed step K is called
`stepK`, another step may have that name explicitly, and the last one wins.

`WorkflowEngine` follows `run()` from statement to statement.  Its jobs are those
of `JobScheduler` seen from outside: executors pick QUEUED jobs, write RUNNING and
later a verdict without looking; `Disturb` is every write by which pause, resume,
cancel and the recovery of another terminal may change the state of a job
meanwhile, without a guard because the read that justified it may be old.  This
allows more than the scheduler does (a superset is sound for safety, and `RunEnds`
needs nothing from the jobs).

### AccessControl

A *terminal* is any process or request thread.  `term[t]` is a record whose `pc` is
the next statement and whose other fields are what the terminal has read:
a role count, a session's state, the text of the configuration file, the gates a
policy decision has passed.  One action per command starts it, one action per later
statement continues it, and `Killed` ends it anywhere.  `quiet[t]` says that no
other terminal has written since `t` began; properties that hold only for commands
that did not overlap name it.  Patterns of scope rules are members of a set with the
targets each of them covers (`Covers`); deny comes before allow as in
`ScopeRuleService`.

### Desk and what stands on it

`proc[p]` is the stage of process `p`, again a record whose `at` names its next
statement.  `Starts` begins a command (and uses up one of `work`), `Goes` moves a
stage on, `Commands` is a command of one statement, `Updates` tells the commands in
progress that a row was written beside them, and actions like `Interrupted` kill.
Tables are sequences in row order (`Append` is INSERT with AUTOINCREMENT), or functions from
names where a column is UNIQUE.  Ghost variables (`excused`, `missed`, `burst`,
`cut`, `twins`, `stranded`, `bare`, `stale`) record who was killed, raised or
overtaken; they guard no action, and exist so that a property can say exactly which
losses are excused and catch all others.

`SocPipeline` cuts a line of the followed file in two chunks, so that the feeder can
read half of it; an ingest is lookup, insert, correlate, match of each rule, alert,
case, log entry.  `Casework`, `ThreatIntel` and `Reporting` are its neighbours over
the same tables and are composed with it; `shown` is what a terminal was last shown
of them.  `Console` and the five modules on it keep in `told` what a command answers.

`Upkeep` keeps database files as values: `dbs` are all files there have been, `live`
the one at the path, and each process goes on with the file it opened, as SQLite
does with a replaced file.  Migrations are lists of statements, each creating an
object, `guarded` by IF NOT EXISTS or not.

### Deliberate faults

Operators with names like `VerdictIgnoresCode`, `SlotFreeOffByOne` or
`InsertEventAgain`, each defined just before the operator it resembles, are wrong on
purpose: substituting one for its neighbour must make a property fail, and that is
how each property is shown to say something about the code.  They are used nowhere.

## Runs

| run | instance | shows |
|---|---|---|
| `MCSchedControl` | 2 instances, a client in each, 1 job, 2 attempts, 1 slot; submit, pause, resume, cancel, raising threads | responsibility for RUNNING jobs and live tools, truth of COMPLETED and CANCELLED |
| `MCSchedStop` | 1 instance booted twice, 2 jobs, 1 attempt; stop, reset, retry, death anywhere | a persisted stop is in force after any restart; a stop leaves nothing queued |
| `MCSchedCrash` | 1 instance booted twice, 2 clients, 1 job, 2 attempts | recovery is complete; a cancel is not dropped |
| `MCSchedDrain` | fair; 2 jobs of different priority, 3 attempts, 1 slot; schedules, retries, exceptions, death | jobs are settled; slots are respected; the refinement of `JobLifecycle` |
| `MCWorkflow` | fair; all graphs and namings of 3 steps in both modes; a run of 2 steps, the first with a retry | order, exactness of the validator, completeness; truth of the record, effect of a revocation, end of the run |
| `MCAccess` | 2 terminals, 2 users, 2 roles, 3 sessions; 4 submissions of 2 users with caps 2 and 1; 2 workers, 1 schedule due each minute | what an ALLOW rests on, what a switch leaves, which losses need overlap; rate overrun and firing bounded |
| `MCSecurity` | a feeder and 2 terminals, 3 lines, 2 rules (one windowed), tables of 3 rows | alerts, bursts, fed lines, timelines, backed statuses, twins, lost work |
| `MCPlatform` | 2 processes, 2 plugins (one bundled), 2 capabilities, 3 migrations with and without guards, 2 tools, 2 simulations | files and rows, versions and steps, schema and backups, tools, simulations |
| `DocStopCompletes` | 1 job, stop | refuted: an emergency stop over a RUNNING job never returns |
| `DocResume` | 1 job, pause and resume, 2 slots | refuted: resume launches the tool a second time |
| `DocRecovery` | 2 terminals, 1 job | refuted: a second terminal fails the job the first is executing |
| `DocSchedRecheck` | 1 worker, revocation | refuted: a schedule fires for a target no longer authorised |

The four larger runs compose several modules and fix in the initial state what a
behaviour is about (`topic`, `half`): the state spaces of the topics add up instead
of multiplying.  A topic holds everything that writes the same tables, so what is
cut is only the product of commands that do not meet: `scope` has the whole of
AccessControl's decisions against edits of scope, tokens, roles and switches;
`feed` has the file, the feeder and the pipeline; `burst` two terminals that ingest
into a window that slides; `reports` and `exports` read while findings, evidence and
cases are written.  `MCWorkflow` has a run over one executor with revocation and
death of the process, and one over two executors at the same time without these.

Why the bounds are enough to be interesting.  Two instances are needed for one to
recover what the other executes, two clients in one instance for two operations on
the same job, two attempts for a job to be executed again, one slot and two jobs
for a queue, two boots for a restart.  Each job identity, attempt and boot is used
once (`Jobs`, `Attempts`, `MaxBoots` bound the behaviour); `JobLeft` and
`AttemptLeft` stop a submission or a selection that would have no identity left,
so a bound never shows as a deadlock in the middle of an operation.  With
`MaxTime = 3` and `Window = 2` the rate window slides past what it first held.
Three minutes let a pass begin in one and stamp in the next with one to spare.
Three steps are the least with a cycle beside a free step and with two shared names;
what the order of steps guarantees is proved for any number.  Two terminals
are the least in which a command is overlapped; most topics give one of them two
commands, so that a later one reads what an overlapped or killed one left, and the
widest two of `MCAccess` (`sessions`, `scope`) one command each, over tables that
start in a choice of the states earlier commands leave.  Three rows are two twins and a
stranger.  `MaxWork`,
`MaxCommands`, `MaxRows` and their like bound how many commands are typed and how
many rows are stored, nothing else.

`CHECK_DEADLOCK FALSE` is set where the system may stop: when the jobs are over and
nobody can call anything any more, when the clock is at its bound, when a run is
over, when the terminals have no command left.  `MCSchedControl` checks deadlock:
its instances never die, so their workers go round for ever.  Symmetry (attempts
only) is used in runs without liveness.

## Fairness

Weak fairness is assumed of what is straight-line code or a loop with a bounded
wait: `BootStep` (recovery), `WorkerStep` (wakes at least every 0.2 s), `ThreadStep`
(polls every 0.2 s and kills at its deadline), `CallStep` (a begun operation) and
`EngineStep` (`wait_for` gives up after 300 s).  In `StepOrder` the fairness is that
of a sequential loop.  Nothing is assumed of tools, which may hang, of operators,
who need not call anything or start anything, or of other terminals.  The other
modules have no liveness property and no fairness: a command there is a straight
line of statements that a kill may end, and what must hold is what it leaves.

## Proofs

All for every value of the constants allowed by the modules' assumptions, and by
the hypotheses a theorem names.

* `JobProofs`, types: `TypeCorrect` includes that a thread or a begun call always has
  the job it writes to, and that each instance's worker is past its selection only
  with a job in hand.
* `JobProofs`, safety: `RunningBacked`, `LiveToolPolled`, `CompletedSuccess`,
  `CancelledAsked`, `Slots`.  The argument is rely and guarantee.  A first group of
  lemmas says what clients, workers, instances and threads may each do to what the
  others use (for example: a client writes only PAUSED, QUEUED, CANCELLING or
  CANCELLED, the latter only for the job of a begun cancel).  Each invariant is
  strengthened by what the program counters know (a thread past its launch has a
  tool; an outcome "exited" means a dead tool; the worker's selection leaves a slot
  free because nobody else inserts into its table), and preserved by every
  guarantee.
* `JobProofs`, operations: `CancellationSticks` (with one slot), `RecoveryCompletes`
  (with instances that do not overlap), `StopSurvives` (the same, and no reset beside
  a stop) and `StopEmptiesQueue` (one client, no scheduled submission, and no more
  jobs than a listing returns).  The hypotheses are not there for the prover: TLC
  finds `CancelSticks` false with two slots, `RecoveryLeavesNoneRunning` and
  `StopSurvivesRestart` false with two instances, the latter also with a second
  client that resets, and `StopLeavesNoneQueued` false with a second client, with
  scheduled submissions, and with a listing that is too short.
* `JobProofs`, refinement: `LifecycleImplemented`.  With one instance at a time, one
  slot and nobody who pauses, cancels or stops, each step of the scheduler maps to
  a step of `JobLifecycle` or a stutter, deaths and recoveries included.  One thread
  at most is alive (`CalmInv`, `UpInv`, `SlotInv`); a job is QUEUED until that thread
  claims it and RUNNING until the thread or a recovery settles it, so that the
  thread that launches is the first of its job.
* `SubmissionProofs!OverrunBounded`: the caps are overrun by at most the other
  submissions in progress.  The strengthening counts recorded submissions together
  with those that passed the check and have not recorded yet, and needs
  `WindowsAreComplete`: a window holds every submission that is recent enough to
  count.
* `SubmissionProofs!FiringsBounded`: a schedule fires in a minute at most once for
  each worker and each crash.  The strengthening `FiringInv` counts, beside what has
  been fired, the workers that may still fire the schedule in that minute: a worker
  may not if the pass it is in read a stamp of that minute (or is past the schedule)
  and any later pass will (the stamp is written, or about to be by this worker, or
  the minute is over, or the row is gone).  Firing takes the worker out of that set,
  and nothing but its own crash puts it back.
* `WorkflowProofs`, the order: `DependenciesAreFirst`, `FallbackNeedsCycle`,
  `CycleCheckIsExact`.  The counter of a node is the number of edges into it from
  nodes not yet popped, and a node is queued or popped exactly when its counter is
  zero.  When the queue is empty with nodes left, each of them waits for another
  one; a rank function would have a least element among them, so there is none.
  When none are left, the popped nodes are ordered, and a rank is built along the
  loop.
* `WorkflowProofs`, the run: `CompletedRuns`, `RunsInOrder`, `IngestionIsJustified`,
  `RevocationStops`.  The strengthening `RunInv` says that the outcomes are those of
  the steps before the present one and each of them has succeeded, that a job's
  COMPLETED is never written by anyone but the thread that saw it succeed, that
  threads execute submitted jobs only, and that after a revocation the run is at the
  step of the late jobs or has left it without a way into the next one.
* `AccessProofs`: `AccessTypeCorrect`, `SwitchEndsAlone`, `AllowStaysGrounded`,
  `LossesOnlyByOverlap`.  `AccessInv` gives every terminal the shape of its stage,
  and says of a terminal that nothing has overlapped (`quiet`) that what its gates
  have passed still stands in the tables: a write elsewhere ends `quiet`, so each
  gate adds one conjunct and none is taken away before the answer.
* `SocProofs`: `SocTypesCorrect`, `AlertsOnce`, `BurstsFireOnce`, `FedLinesAreStored`,
  `TimelinesTellStatus`, `StampsLastUnlessOverlapped`.  A first half says of every
  step which tables it writes and to which stage its process goes; the types follow.
  Each property then has an invariant of its own, which adds what the stages of an
  ingest owe (an event inserted and not yet matched is in the hands of one process
  or among the `excused`; a burst whose count is full fires or has fired; a line
  below the offset is stored, in hand or counted), and a lemma that says which moves
  the invariant does not notice, so that only the statements that do write its
  tables are looked at one by one.
* `PlatformProofs`, upkeep: `UpkeepTypesCorrect`, `SchemaStaysWhole`,
  `BackupsStayVerified`.  The versions of a database are those up to some number
  with all they make; a process on its way through the migrations holds the rest of
  the versions in order; a column that is there before its version is due to a
  process that is between the two on the same database, or the database is `bare`.
  A backup's row holds the hash of the file as long as nobody writes to it.
* `PlatformProofs`, automation: `AutomationTypesCorrect`, `VersionsNameSteps`.  A
  definition a process carries, or a run has recorded, is of a version the row has
  reached, and any two of one name and version agree; an edit that overlaps another
  one still adds one to the version in the statement that writes the steps.
* `PlatformProofs`, plugins: `PluginTypesCorrect`, `RowsKeepFiles`.  Rows never vanish;
  a directory goes only in an uninstallation, which then stands at `forget` or is
  counted as `stranded`; a status that a command has read is the one in the row
  unless it was overlapped.
* `PlatformProofs`, tools: `ToolboxTypesCorrect`, `InstalledStaysReady`.  What a search
  has found is what the path holds until something overlaps it, and an installation
  that succeeded owes the registry a refresh until it has written it.
* `PlatformProofs`, simulations: `ProgramsTypesCorrect`, `SimulationsTellSteps`.  A run
  follows some order of all the steps, of which what is left is known at each stage;
  while nothing overlaps it, the steps behind it have on record what it saw, so
  that at the end its verdict is about every step there is.  A simulation that has
  no steps yet belongs to the one command that made it.
* `SecurityProofs`: `SecurityTypesCorrect`, `StatusesBacked`, `TwinsOnlyByOverlap`,
  `WorkLastsUnlessOverlapped`, `SocPromisesHold`, all of `ReportingSpec`, which is
  `SocPipeline`, `Casework`, `ThreatIntel` and `Reporting` over the same tables.  Each
  family of commands (findings, evidence, artifacts, exercises, indicators, assets,
  checks, reports) has an invariant in three parts: its tables; what a process at
  one of the family's stages carries; and what it has read and may still rely on as
  long as it is quiet.  `Secure` is all of them with what `SocProofs` needs.  For
  each family there is a lemma on one move of one process, and one that says that
  whatever else happens (an insertion, a status, a kill, a step of another family)
  the family sees its tables unchanged and a process that moves `Beside` its stages.
  - `StatusesAreBacked`: a status read before its records stays backed, as records
    are only added; the verification is inserted before the status is written; and
    custody of what is not `cut` begins with the capture, which only the
    process that inserted the evidence writes.  It includes that a case read before
    its log has its status in the log (`TimelineInv` of `SocProofs`).
  - `TwinsNeedOverlap`: who is about to insert has found nothing (`AssetQuiet`,
    `CheckQuiet`), unless it was overlapped and the row goes to `twins`.
  - `WorkLostOnlyByOverlap`: a quiet command that will write a whole column read the
    column that is there (`ForensicQuiet`, `ExerciseQuiet`, `StampInv`).
  - `SocPromisesHold`: what `SocProofs` proves of the pipeline alone still holds
    beside all the other commands, which insert findings and evidence and open
    cases while it runs.
* `SecurityProofs`, lists: `HasListing`, `OrderedRows`, `ListedRows` and
  `SetToSeqRows` say that a finite set has the listing that `Ordered`, `Listed` and
  `SetToSeq` choose.
* `Tables`: what appending, changing and mapping rows does to a table, for the
  modules on `Desk`.

The theorems about `Plugins`, `Automation`, `Upkeep`, `Toolbox`, `Programs` and
`SocPipeline` are about the specification of that module.  The inductive invariants
of those modules, of `Reporting`, `AccessControl` and `JobScheduler` were also checked
by TLC, on the instance of the module's run.

Only model-checked: liveness (`JobsAreSettled`, `RunEnds`, `EveryStepIsEmitted`) and
anything about ENABLED, which the prover does not treat; and `PlatformTypesOK`, which
is the conjunction of the type invariants of the five modules on `Console`.  Each of
the five is proved of its own module.  There is no theorem about the conjunction
because `MCPlatform` adds up their state spaces by topic and is no specification of
one system: that would have to let a restore of `Upkeep` put back the tables of all
the others.  Induction over data and recursive operators are also outside the
prover's reach; no module uses them.

The constants are assumed to be what the code takes for granted: bounds are numbers;
NONE is none of the values it stands beside (`AbsenceAssumption`, `StoredAssumption`,
that of `AccessControl`); catalogues, migrations, profiles and rules are lists
(`CatalogueAssumption`, `MigrationsAssumption`, `ProfilesAssumption`,
`RulesAssumption`); a column is added by one statement of one migration
(`ColumnsAssumption`, read off `src/migrations`); an engagement may be absent
(`EngagementsAssumption`), times are numbers (`TimesAssumption`), an extraction returns
finitely many indicators with a confidence (`ExtractsAssumption`), and an exploit
mapping returns finitely many findings, whose sources are not those of the checks
(`ExploitsAssumption`).  TLC evaluates each of them on the values of the runs.

Assumptions: clocks do not go backwards; SQLite statements are atomic and do not
fail; process identifiers are not reused under a `Popen` object.

## Known divergences

Found while translating; the first four have a run and an entry in `findings`.

* `emergency_stop` calls `cancel` under the lock it takes (`DocStopCompletes`).
  Everything else that takes that lock waits with it.
* Resume queues the job again while its tool continues (`DocResume`).  The second
  thread also overwrites the first in the thread table, so more tools than
  `max_concurrent_jobs` may be alive after resumes (docs/user-guide.md:314).
* Recovery does not distinguish a dead process from another terminal
  (`DocRecovery`).
* Schedules are not revalidated when the worker fires them (`DocSchedRecheck`).

Without a run, scheduler and workflows:

* A terminal state may be overwritten (specs/07-workflow-scheduler.md:442, 464):
  `cancel` reads RUNNING, the thread writes its verdict, `cancel` writes CANCELLING,
  and nothing ends that job (specs/07:462); recovery selects RUNNING only
  (docs/user-guide.md:315).
* A job that was paused, cancelled or stopped between its selection and `_execute`
  runs all the same, since `_execute` writes RUNNING unconditionally; a client that
  passed the test of the stop flag still inserts (docs/user-guide.md:1061-1063).
* `cancel` of a PAUSED job writes CANCELLED and leaves the suspended tool to the
  deadline of its thread (specs/07:841).
* An exception other than the caught ones ends the thread and leaves the job
  RUNNING until the next start (specs/07:1062).
* `emergency_stop` looks at the newest 100 jobs (README.md:86 says every).
* Two callers may overrun a rate cap by the number in progress, which is what
  `OverrunIsBounded` bounds; and a refusal blocks the user for a whole window, even
  when the window empties earlier (docs/user-guide.md:1065).
* A schedule fires once per worker and crash in a minute rather than once
  (`FiringIsBounded`; the comment at ksec/scheduler/service.py:521).  A stamp that
  reads the clock after the minute has turned suppresses the next firing
  (ksec/scheduler/schedules.py:154).
* In a workflow run the policy is asked once per step; retries of that step are
  submitted on the old answer (specs/07:225).  `RevocationStopsRun` says how far
  this goes.
* A process that dies during a run leaves its row 'running'; nothing recovers it.
  The same holds of a simulation that is killed or raises.
* An unnamed step K and a step named `stepK` are accepted and share a name.  The
  reserved names are only `recon` and `assess`; a workflow may take the name of a
  capability, and when it is disabled the name resolves to the capability again.
* One trigger whose session cannot be opened ends the loop over the remaining ones.
* `assess --dry-run` and `workflow run --dry-run` open a session.
* Cron: the day of the week is `isoweekday()`, 1 to 7, so that a 0 never matches
  Sunday, and `*/n` takes the value modulo n from zero also for fields that start
  at one (ksec/scheduler/schedules.py:23, 37).

Access and records:

* Commands that overlap lose updates wherever a value is read in one statement and
  written in a later one: CLOSED sessions come back, the last role of a user goes, a
  switch in the configuration file is reset, an acknowledgement disappears.  The
  properties `LossesNeedOverlap` and `WorkLostOnlyByOverlap` say that nothing else
  loses them.
* A comment behind `[safety]` in the configuration file makes `mode set` write the
  table a second time.
* A repeated event in the text mode of `soc ingest` ends in a KeyError, for the
  answer to a duplicate has no 'normalized'.
* The duplicate check of the analyses compares `engagement_id = ?`: without an
  engagement the same findings are written again by every check; `exploit map` has
  no check, although it reports how many there were.
* `verify_remediation` takes a verification without evidence; its docstring says
  "with evidence".
* The confidence of an indicator is not raised when it is registered again.
* Timelines of `dfir` are sorted by the text of their times, whose zones may differ.
* A report in docx stores HTML, and an HTML report may be exported as pdf or docx
  (ksec/reporting/service.py:131, 138); the HTML has no section on cases.

The program itself:

* A migration that adds a column (011, 014) has no guard, against the comment "all
  DDL uses IF NOT EXISTS": killed between the statement and its version, it stops
  every later start (`SchemaIsWhole` names these kills).
* A restore puts back a database that does not know the backup it came from, and
  the record of the restore goes to the file that was replaced.
* A plugin cannot be installed again after its removal: the INSERT meets the old
  row, and `except sqlite3.IntegrityError` (ksec/plugins/manager.py:327) never
  matches the error that `Database.execute` raises, so that the copied directory
  stays.  `--trust` is overwritten by the manifest at the next start, and a changed
  file passes the hash check once discovery has refreshed the hash.  The adapter of
  a scaffolded plugin is never loaded (its `"module"` has no `.py`).
* `tools remove` is undone by the next tools command that searches; an installation
  that times out leaves only its "started" entry.
* A dry run of a simulation resets its status; a cancelled step counts as completed;
  a profile deleted while `exercise new` runs leaves an exercise without steps.
* `learn lesson` on a completed lesson takes the completion back.
* `grc status` is said to come from the last snapshot and always computes anew.

## Not modelled

* Failure of the database, and real time beyond ticks.
* The wording and layout of anything, the writers of PDF and DOCX, the dashboards
  and the terminal interface, which only read.
* Adapters and parsers: pure functions from a target to a command line, and from
  text to entities.  They keep no state; what they return is a small set here.
* Regular expressions of the extractor, cron matching, fnmatch patterns and scope
  patterns: constants with the sets they match.
* The UDP listener of the SIEM, which feeds a datagram as the file feeder a line.
* The audit log is modelled where a command reads it for an answer (`Programs`,
  `Toolbox`, `AccessControl`); elsewhere it is an append that decides nothing.
* Passwords and the delay after wrong ones: the outcome of a log-in is an input.
* `learning`, `grc` and `knowledge` contain mostly text; only progress, drills,
  checks and snapshots are state.

## What is left

1. `WorkflowEngine` with `AccessControl`'s gates in place of `allowed`, and an
   access decision that is atomic as the abstract specification of the policy.
2. Attachments and assignments of cases, the UDP listener.
