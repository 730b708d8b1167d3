---------------------------------- MODULE Upkeep ----------------------------------
(***************************************************************************)
(* The database file itself: the migrations a process applies when it      *)
(* starts, backups and their restoring, readiness for an update, and the   *)
(* detection of change (db/migrations.py, backups, updates, change and     *)
(* their commands).  A restore puts another file in the place of the       *)
(* database; a process that has it open goes on with the file it opened.   *)
(***************************************************************************)
EXTENDS Console, FiniteSetsExt, SequencesExt

CONSTANTS Migrations,      \* Migrations[v]: the statements of the file of version v
          OldVersion,      \* the version the databases start at
          Scopes, States,  \* what a baseline may cover, and the states it may be in
          MaxBackups, MaxScans  \* bounds

Versions == DOMAIN Migrations
ASSUME MigrationsAssumption ==
  /\ OldVersion \in Versions \cup {0}
  /\ Len(Migrations) \in Nat /\ Versions = 1..Len(Migrations)
  /\ \A v \in Versions : Len(Migrations[v]) \in Nat /\ DOMAIN Migrations[v] = 1..Len(Migrations[v])

\* A column is added by one statement of one migration.
ASSUME ColumnsAssumption ==
  \A u, v \in Versions : \A k \in DOMAIN Migrations[u], l \in DOMAIN Migrations[v] :
    ~ Migrations[u][k].guarded /\ Migrations[u][k].object = Migrations[v][l].object
      => u = v /\ k = l

VARIABLES dbs,      \* the database files, in the order they came to be
          live,     \* the one the path of the database names
          backups,  \* the backup files, each its content now and when it was copied
          bare,     \* ghost: databases a kill left between a migration and its version
          notified  \* drifts notified

upkeepRecords == <<dbs, live, backups, bare, notified>>
upkeepVars == <<upkeepRecords, consoleVars>>

(***************************************************************************)
(* A database: what its migrations have made, and the rows of this module. *)
(***************************************************************************)

Objects(v) == {Migrations[v][k].object : k \in DOMAIN Migrations[v]}

Database(v) ==
  [objects |-> UNION {Objects(u) : u \in 1..v}, versions |-> 1..v, copies |-> <<>>,
   baselines |-> <<>>, scans |-> <<>>, log |-> {},
   state |-> [s \in Scopes |-> CHOOSE x \in States : TRUE]]

\* What process p has open.
Open(p) == dbs[proc[p].on]

Changes(p, db) == dbs' = [dbs EXCEPT ![proc[p].on] = db] /\ Updates(p)

(***************************************************************************)
(* Starting: the migrations beyond the highest version that is recorded.   *)
(***************************************************************************)

CurrentVersion(db) == Max(db.versions \cup {0})

PendingMigrations(db) == {v \in Versions : v > CurrentVersion(db)}

\* The versions beyond v, in order.
Beyond(v) == [k \in 1..(Len(Migrations) - v) |-> v + k]

UpkeepStart(p, cmd) ==
  /\ Starts(p, [at |-> "migrate", on |-> live, todo |-> Beyond(CurrentVersion(dbs[live])),
                done |-> 0, cmd |-> cmd])
  /\ UNCHANGED <<upkeepRecords, told>>

Script(p) == Migrations[Head(proc[p].todo)]

\* Every statement is committed on its own.  One with IF NOT EXISTS can be run
\* again; an ALTER TABLE that adds a column cannot, and the process does not start.
RunStatement(p) ==
  /\ proc[p].at = "migrate" /\ proc[p].todo # <<>> /\ proc[p].done < Len(Script(p))
  /\ LET statement == Script(p)[proc[p].done + 1] IN
     IF statement.object \in Open(p).objects /\ ~ statement.guarded
     THEN Refuses(p) /\ UNCHANGED dbs
     ELSE /\ Changes(p, [Open(p) EXCEPT !.objects = @ \cup {statement.object}])
          /\ Goes(p, [proc[p] EXCEPT !.done = @ + 1]) /\ UNCHANGED told
  /\ UNCHANGED <<live, backups, bare, notified>>

\* A mutant of RecordVersion: the version is recorded with the last statement to come.
RecordVersionEarly(p) ==
  /\ proc[p].at = "migrate" /\ proc[p].todo # <<>> /\ proc[p].done + 1 >= Len(Script(p))
  /\ LET v == Head(proc[p].todo) IN
     IF v \in Open(p).versions THEN Refuses(p) /\ UNCHANGED dbs
     ELSE /\ Changes(p, [Open(p) EXCEPT !.versions = @ \cup {v}])
          /\ Goes(p, [proc[p] EXCEPT !.todo = Tail(@), !.done = 0]) /\ UNCHANGED told
  /\ UNCHANGED <<live, backups, bare, notified>>

\* The version follows in an INSERT of its own, which raises when another process
\* has recorded it meanwhile.
RecordVersion(p) ==
  /\ proc[p].at = "migrate" /\ proc[p].todo # <<>> /\ proc[p].done = Len(Script(p))
  /\ LET v == Head(proc[p].todo) IN
     IF v \in Open(p).versions THEN Refuses(p) /\ UNCHANGED dbs
     ELSE /\ Changes(p, [Open(p) EXCEPT !.versions = @ \cup {v}])
          /\ Goes(p, [proc[p] EXCEPT !.todo = Tail(@), !.done = 0]) /\ UNCHANGED told
  /\ UNCHANGED <<live, backups, bare, notified>>

Migrated(p) ==
  /\ proc[p].at = "migrate" /\ proc[p].todo = <<>>
  /\ Goes(p, [proc[p] EXCEPT !.at = proc[p].cmd.do])
  /\ UNCHANGED <<upkeepRecords, told, quiet>>

(***************************************************************************)
(* Backups.                                                                *)
(***************************************************************************)

At(p, command) == proc[p].at = command

\* The path of the database is copied, consistently; its row comes after.
BackupCreate(p) ==
  /\ At(p, "backup") /\ Len(backups) < MaxBackups
  /\ backups' = Append(backups, [content |-> dbs[live], copied |-> dbs[live]])
  /\ Goes(p, [proc[p] EXCEPT !.at = "hash", !.done = Len(backups) + 1])
  /\ UNCHANGED <<dbs, live, bare, notified, told, quiet>>

\* A mutant of HashCopy: the hash is taken of the database, not of its copy.
HashDatabase(p) ==
  /\ At(p, "hash")
  /\ Goes(p, [proc[p] EXCEPT !.at = "row", !.todo = <<dbs[live]>>])
  /\ UNCHANGED <<upkeepRecords, told, quiet>>

HashCopy(p) ==
  /\ At(p, "hash")
  /\ Goes(p, [proc[p] EXCEPT !.at = "row", !.todo = <<backups[proc[p].done].content>>])
  /\ UNCHANGED <<upkeepRecords, told, quiet>>

\* The row, with the path and the hash.
RecordBackup(p) ==
  /\ At(p, "row")
  /\ Changes(p, [Open(p) EXCEPT !.log = @ \cup {"backup.create"},
                   !.copies = Append(@, [file |-> proc[p].done, hash |-> Head(proc[p].todo)])])
  /\ Goes(p, resting) /\ Tells(p, [created |-> proc[p].done])
  /\ UNCHANGED <<live, backups, bare, notified>>

\* A row whose file has the hash it was recorded with; files are never removed.
Verified(copy) == backups[copy.file].content = copy.hash

Backups(db) == [k \in DOMAIN db.copies |-> db.copies[k].file]

BackupList(p) ==
  /\ At(p, "copies") /\ Tells(p, Backups(Open(p)))
  /\ Goes(p, resting) /\ UNCHANGED <<upkeepRecords, quiet>>

BackupVerify(p) ==
  LET k == proc[p].cmd.id IN
  /\ At(p, "verify")
  /\ Tells(p, [verified |-> k \in DOMAIN Open(p).copies /\ Verified(Open(p).copies[k])])
  /\ Goes(p, resting) /\ UNCHANGED <<upkeepRecords, quiet>>

\* A backup that is known and verified may be restored.
Restorable(db, k) == k \in DOMAIN db.copies /\ Verified(db.copies[k])

\* backup restore, once approved.
BackupRestore(p) ==
  LET k == proc[p].cmd.id IN
  /\ At(p, "restore")
  /\ IF proc[p].cmd.yes /\ Restorable(Open(p), k)
     THEN Goes(p, [proc[p] EXCEPT !.at = "replace", !.done = Open(p).copies[k].file])
          /\ UNCHANGED <<told, quiet>>
     ELSE Refuses(p)
  /\ UNCHANGED upkeepRecords

\* The copy takes the place of the database.  What has been written since the copy,
\* the row of the backup too, is no longer there.
ReplaceDatabase(p) ==
  /\ At(p, "replace") /\ Len(dbs) <= MaxBackups
  /\ dbs' = Append(dbs, backups[proc[p].done].content)
  /\ live' = Len(dbs) + 1
  /\ Goes(p, [proc[p] EXCEPT !.at = "audit"])
  /\ UNCHANGED <<backups, bare, notified, told, quiet>>

\* The audit entry goes to the file this process has open, the replaced one.
AuditRestore(p) ==
  /\ At(p, "audit")
  /\ Changes(p, [Open(p) EXCEPT !.log = @ \cup {"backup.restore"}])
  /\ Goes(p, resting) /\ Tells(p, [restored |-> TRUE])
  /\ UNCHANGED <<live, backups, bare, notified>>

\* Somebody writes to a backup file.
Altered(file) ==
  /\ file \in DOMAIN backups
  /\ backups' = [backups EXCEPT ![file].content.log = @ \cup {"altered"}]
  /\ UNCHANGED <<dbs, live, bare, notified, consoleVars>>

(***************************************************************************)
(* Readiness.                                                              *)
(***************************************************************************)

SchemaCheck(db) == PendingMigrations(db) = {}
RollbackCheck(db) == \E k \in DOMAIN db.copies : Verified(db.copies[k])

\* The plugins and the adapters of the built-in workflows are there and healthy, or not.
PluginsReady(p) == proc[p].cmd.yes

UpdateReport(p) ==
  [schema |-> SchemaCheck(Open(p)), rollback |-> RollbackCheck(Open(p)),
   plugins |-> PluginsReady(p)]

UpdateCheck(p) ==
  /\ At(p, "update")
  /\ Tells(p, [ready |-> \A check \in DOMAIN UpdateReport(p) : UpdateReport(p)[check]])
  /\ Goes(p, resting) /\ UNCHANGED <<upkeepRecords, quiet>>

DbVersion(p) ==
  /\ At(p, "version")
  /\ Tells(p, [version |-> CurrentVersion(Open(p)), compatible |-> PendingMigrations(Open(p)) = {}])
  /\ Goes(p, resting) /\ UNCHANGED <<upkeepRecords, quiet>>

\* What SQLite says of the file, and what is left to migrate.
DbHealth(p) ==
  /\ At(p, "health")
  /\ Tells(p, [healthy |-> "altered" \notin Open(p).log /\ PendingMigrations(Open(p)) = {}])
  /\ Goes(p, resting) /\ UNCHANGED <<upkeepRecords, quiet>>

\* db repair looks for damage, checkpoints and indexes; only when there is no
\* damage, or the user insists, is the repair recorded.
DbRepair(p) ==
  /\ At(p, "repair")
  /\ IF "altered" \in Open(p).log /\ ~ proc[p].cmd.yes
     THEN UNCHANGED dbs /\ UNCHANGED quiet
     ELSE Changes(p, [Open(p) EXCEPT !.log = @ \cup {"db.repair"}])
  /\ Tells(p, [repair |-> "altered" \in Open(p).log]) /\ Goes(p, resting)
  /\ UNCHANGED <<live, backups, bare, notified>>

(***************************************************************************)
(* Change detection.                                                       *)
(***************************************************************************)

Snapshot(db, scope) == db.state[scope]

\* The snapshot is read, then stored.
BaselineCreate(p) ==
  /\ At(p, "baseline") /\ Len(Open(p).baselines) < MaxScans
  /\ Goes(p, [proc[p] EXCEPT !.at = "store", !.todo = <<Snapshot(Open(p), proc[p].cmd.scope)>>])
  /\ UNCHANGED <<upkeepRecords, told, quiet>>

StoreBaseline(p) ==
  /\ At(p, "store")
  /\ Changes(p, [Open(p) EXCEPT !.baselines = Append(@,
       [scope |-> proc[p].cmd.scope, was |-> Head(proc[p].todo), there |-> TRUE])])
  /\ Goes(p, resting) /\ Tells(p, [baseline |-> Len(Open(p).baselines) + 1])
  /\ UNCHANGED <<live, backups, bare, notified>>

Baselines(db) == {k \in DOMAIN db.baselines : db.baselines[k].there}

BaselineList(p) ==
  /\ At(p, "baselines")
  /\ Tells(p, Baselines(Open(p)))
  /\ Goes(p, resting) /\ UNCHANGED <<upkeepRecords, quiet>>

HasBaseline(p) == proc[p].cmd.id \in Baselines(Open(p))

\* The scans of a baseline go with it.
RemoveBaseline(db, k) ==
  [db EXCEPT !.baselines[k].there = FALSE,
             !.scans = SelectSeq(@, LAMBDA s : s.baseline # k),
             !.log = @ \cup {"change.baseline.delete"}]

BaselineDelete(p) ==
  /\ At(p, "forget baseline")
  /\ IF ~ HasBaseline(p) THEN Refuses(p) /\ UNCHANGED dbs
     ELSE /\ Changes(p, RemoveBaseline(Open(p), proc[p].cmd.id))
          /\ Goes(p, resting) /\ UNCHANGED told
  /\ UNCHANGED <<live, backups, bare, notified>>

\* Everything that differs from the baseline is drift.
Diff(before, after) == {[was |-> before, is |-> after] : x \in {x \in {before} : before # after}}

\* change scan: the baseline is read, the state is read, the scan is stored.
ChangeScan(p) ==
  /\ At(p, "scan")
  /\ IF ~ HasBaseline(p) THEN Refuses(p)
     ELSE Goes(p, [proc[p] EXCEPT !.at = "diff", !.todo = <<Open(p).baselines[proc[p].cmd.id]>>])
          /\ UNCHANGED <<told, quiet>>
  /\ UNCHANGED upkeepRecords

DiffState(p) ==
  /\ At(p, "diff")
  /\ LET baseline == Head(proc[p].todo) IN
     Goes(p, [proc[p] EXCEPT !.at = "record scan",
                             !.todo = <<Diff(baseline.was, Snapshot(Open(p), baseline.scope))>>])
  /\ UNCHANGED <<upkeepRecords, told, quiet>>

\* A scan needs its baseline: one deleted meanwhile makes the INSERT raise.
RecordScan(p) ==
  /\ At(p, "record scan") /\ Len(Open(p).scans) < MaxScans
  /\ LET drift == Head(proc[p].todo) IN
     IF ~ HasBaseline(p) THEN Refuses(p) /\ UNCHANGED <<dbs, notified>>
     ELSE /\ Changes(p, [Open(p) EXCEPT
               !.scans = Append(@, [baseline |-> proc[p].cmd.id, drift |-> drift,
                                    status |-> IF drift = {} THEN "clean" ELSE "drift"])])
          /\ notified' = IF drift = {} THEN notified ELSE notified \cup {proc[p].cmd.id}
          /\ Goes(p, resting) /\ Tells(p, [drift |-> drift])
  /\ UNCHANGED <<live, backups, bare>>

Scans(db, k) == SelectSeq(db.scans, LAMBDA s : k \in {0, s.baseline})

ScanList(p) ==
  /\ At(p, "scans")
  /\ Tells(p, Scans(Open(p), proc[p].cmd.id))
  /\ Goes(p, resting) /\ UNCHANGED <<upkeepRecords, quiet>>

\* Any other command: the platform's rows change.
StateChanges(p) ==
  /\ At(p, "change")
  /\ \E x \in States : Changes(p, [Open(p) EXCEPT !.state[proc[p].cmd.scope] = x])
  /\ Goes(p, resting)
  /\ UNCHANGED <<live, backups, bare, notified, told>>

\* A kill; one in a migration that has begun leaves it begun.
UpkeepKilled(p) ==
  /\ Refuses(p)
  /\ bare' = IF At(p, "migrate") /\ proc[p].done > 0 THEN bare \cup {proc[p].on} ELSE bare
  /\ UNCHANGED <<dbs, live, backups, notified>>

(***************************************************************************)
(* The specification.                                                      *)
(***************************************************************************)

UpkeepOrders == {"backup", "copies", "verify", "restore", "update", "version", "health", "repair",
                 "baseline", "baselines", "forget baseline", "scan", "scans", "change"}

UpkeepInit ==
  /\ dbs = <<Database(OldVersion)>> /\ live = 1
  /\ backups = <<>> /\ bare = {} /\ notified = {}

MigrationStep(p) == RunStatement(p) \/ RecordVersion(p) \/ Migrated(p)
BackupStep(p) ==
  BackupCreate(p) \/ HashCopy(p) \/ RecordBackup(p) \/ BackupList(p) \/ BackupVerify(p)
RestoreStep(p) == BackupRestore(p) \/ ReplaceDatabase(p) \/ AuditRestore(p)
ReadinessStep(p) == UpdateCheck(p) \/ DbVersion(p) \/ DbHealth(p) \/ DbRepair(p)
ChangeStep(p) ==
  \/ BaselineCreate(p) \/ StoreBaseline(p) \/ BaselineList(p) \/ BaselineDelete(p)
  \/ ChangeScan(p) \/ DiffState(p) \/ RecordScan(p) \/ ScanList(p) \/ StateChanges(p)

UpkeepStep(p) ==
  \/ MigrationStep(p) \/ BackupStep(p) \/ RestoreStep(p) \/ ReadinessStep(p) \/ ChangeStep(p)
  \/ UpkeepKilled(p)

UpkeepNext ==
  \/ \E p \in Procs : UpkeepStep(p)
  \/ \E p \in Procs, do \in UpkeepOrders, id \in 0..MaxScans, yes \in BOOLEAN, scope \in Scopes :
       UpkeepStart(p, [do |-> do, id |-> id, yes |-> yes, scope |-> scope])
  \/ \E file \in DOMAIN backups : Altered(file)

UpkeepSpec == DeskInit /\ ConsoleInit /\ UpkeepInit /\ [][UpkeepNext]_upkeepVars

UpkeepTypeOK ==
  /\ live \in DOMAIN dbs
  /\ \A n \in DOMAIN dbs : dbs[n].versions \subseteq Versions
  /\ \A n \in DOMAIN dbs : \A k \in DOMAIN dbs[n].copies : dbs[n].copies[k].file \in DOMAIN backups

\* A recorded version stands for all its migration makes, and a database at rest
\* whose next migration has begun, so that no process can start on it, is one whose
\* migration was killed: neither two starts at once nor a restore leave one
\* (MigrationRunner.apply, BackupService.restore).
SchemaIsWhole ==
  \A n \in DOMAIN dbs :
    /\ \A v \in dbs[n].versions : Objects(v) \subseteq dbs[n].objects
    /\ \A v \in PendingMigrations(dbs[n]) : \A k \in DOMAIN Migrations[v] :
         Migrations[v][k].object \in dbs[n].objects /\ ~ Migrations[v][k].guarded =>
           \/ n \in bare
           \/ \E p \in Procs : proc[p].at = "migrate" /\ proc[p].on = n

\* A backup that is listed verifies, unless somebody has written to its file, whatever
\* was written to the database between its copy and its row, and whichever backups
\* were restored meanwhile (BackupService.create, verify, restore).
BackupsVerify ==
  \A k \in DOMAIN dbs[live].copies :
    Verified(dbs[live].copies[k])
      \/ "altered" \in backups[dbs[live].copies[k].file].content.log
=================================================================================
