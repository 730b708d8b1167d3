------------------------------ MODULE PlatformProofs ------------------------------
(***************************************************************************)
(* Theorems about the modules of the platform's own upkeep (Upkeep,        *)
(* Automation, Plugins, Toolbox and Programs), each for the specification  *)
(* of its module and any terminals, names and bounds.                      *)
(*                                                                         *)
(* Each part has its invariant and, before the actions, a lemma or two     *)
(* that say what a step of one process leaves to be shown: the stage it    *)
(* goes to, and what the others still find of what they have read.         *)
(***************************************************************************)
EXTENDS Upkeep, Automation, Plugins, Toolbox, Programs, Tables, WellFoundedInduction, TLAPS

-----------------------------------------------------------------------------
(***************************************************************************)
(* Upkeep: the invariant.                                                  *)
(***************************************************************************)

Newest == Len(Migrations)

Fields == {"objects", "versions", "copies", "baselines", "scans", "log", "state"}

\* Versions are recorded in order, each after all that its migration makes.
InOrderUpTo(db, m) ==
  db.versions = 1..m /\ \A v \in 1..m : Objects(v) \subseteq db.objects

IsDatabase(db) ==
  DOMAIN db = Fields /\ Rows(db.copies) /\ \E m \in 0..Newest : InOrderUpTo(db, m)

Upgraded(db) == db.versions = Versions

\* What a file of a backup is, as long as nobody writes to it.
Holds(file, hash) ==
  /\ file \in DOMAIN backups
  /\ backups[file].content = hash \/ "altered" \in backups[file].content.log

Kept(db) == \A k \in DOMAIN db.copies : Holds(db.copies[k].file, db.copies[k].hash)

FilesOK ==
  /\ Rows(dbs) /\ live \in DOMAIN dbs /\ live = Len(dbs)
  /\ \A n \in DOMAIN dbs : IsDatabase(dbs[n]) /\ (n # 1 => Upgraded(dbs[n]))

CopiesOK ==
  /\ Rows(backups)
  /\ \A f \in DOMAIN backups :
       /\ DOMAIN backups[f] = {"content", "copied"}
       /\ IsDatabase(backups[f].content) /\ Upgraded(backups[f].content)

\* The rows of the backups, in the databases and in the backups themselves.
KeptOK ==
  /\ \A n \in DOMAIN dbs : Kept(dbs[n])
  /\ \A f \in DOMAIN backups : Kept(backups[f].content)

StageFields == {"at", "on", "todo", "done", "cmd"}

\* A process that migrates has applied the first statements of the version that is
\* next for it, which another process may have recorded meanwhile.
Migrating(s) ==
  \E h \in 1..(Newest + 1) :
    /\ s.todo = Beyond(h - 1)
    /\ \A v \in 1..(h - 1) : v \in dbs[s.on].versions
    /\ s.done \in Nat
    /\ h = Newest + 1 => s.done = 0
    /\ h # Newest + 1 => /\ s.done <= Len(Migrations[h])
                       /\ \A k \in 1..s.done : Migrations[h][k].object \in dbs[s.on].objects

StageOK(s) ==
  \/ s = resting
  \/ /\ DOMAIN s = StageFields /\ s.on \in DOMAIN dbs
     /\ s.at # "idle" /\ s.cmd.do \in UpkeepOrders
     /\ s.at = "migrate" => Migrating(s)
     /\ s.at # "migrate" => Upgraded(dbs[s.on])
     /\ s.at \in {"hash", "row", "replace"} => s.done \in DOMAIN backups
     /\ s.at = "row" => Holds(s.done, Head(s.todo))

StagesOK == proc = [p \in Procs |-> proc[p]] /\ \A p \in Procs : StageOK(proc[p])

UpkeepInv == FilesOK /\ CopiesOK /\ KeptOK /\ StagesOK

\* Process p has added the column of statement k of version v to database n.
Past(p, n, v, k) ==
  /\ proc[p].at = "migrate" /\ proc[p].on = n
  /\ proc[p].todo # <<>> /\ Head(proc[p].todo) = v /\ k <= proc[p].done

\* A column of a version that is not recorded was added by a process that is about
\* to record it, or was killed.
ColumnsInv ==
  \A n \in DOMAIN dbs : \A v \in Versions \ dbs[n].versions : \A k \in DOMAIN Migrations[v] :
    Migrations[v][k].object \in dbs[n].objects /\ ~ Migrations[v][k].guarded =>
      n \in bare \/ \E p \in Procs : Past(p, n, v, k)

-----------------------------------------------------------------------------
(***************************************************************************)
(* Lemmas about versions.                                                  *)
(***************************************************************************)

\* The version of a database whose versions are recorded in order.
LEMMA CurrentIsLast ==
  ASSUME NEW db, NEW m \in 0..Newest, db.versions = 1..m
  PROVE  /\ CurrentVersion(db) = m
         /\ PendingMigrations(db) = (m + 1)..Newest
         /\ PendingMigrations(db) = Versions \ db.versions
  <1>1. Newest \in Nat /\ Versions = 1..Newest
    BY MigrationsAssumption DEF Newest
  <1> DEFINE S == db.versions \cup {0}
  <1>2. m \in S /\ \A y \in S : m >= y
    BY <1>1
  <1>3. S \subseteq Int
    BY <1>1
  <1>4. \A x \in S : (\A y \in S : x >= y) => x = m
    BY <1>2, <1>3
  <1>5. CurrentVersion(db) = m
    <2>1. CurrentVersion(db) = CHOOSE x \in S : \A y \in S : x >= y
      BY DEF CurrentVersion, Max
    <2> HIDE DEF S
    <2>2. QED
      BY <1>2, <1>4, <2>1
  <1>6. QED
    BY <1>1, <1>5 DEF PendingMigrations

\* What is left to apply, the first version of it, and what is left after that.
LEMMA BeyondSteps ==
  ASSUME NEW h \in 1..(Newest + 1)
  PROVE  /\ h = Newest + 1 <=> Beyond(h - 1) = <<>>
         /\ h # Newest + 1 => h \in Versions /\ h + 1 \in 1..(Newest + 1) /\ Head(Beyond(h - 1)) = h
                            /\ Tail(Beyond(h - 1)) = Beyond(h)
  <1>1. Newest \in Nat /\ Versions = 1..Newest
    BY MigrationsAssumption DEF Newest
  <1>2. Newest - (h - 1) \in Nat
    BY <1>1
  <1> DEFINE b == Beyond(h - 1)
  <1>3. b = [k \in 1..(Newest - (h - 1)) |-> (h - 1) + k]
    BY DEF Beyond, Newest
  <1>4. b \in Seq(Int) /\ Len(b) = Newest - (h - 1)
    BY <1>1, <1>2, <1>3
  <1>5. b = <<>> <=> Len(b) = 0
    BY <1>4
  <1>6. ASSUME h # Newest + 1
        PROVE  Head(b) = h /\ Tail(b) = Beyond(h)
    <2>1. 1 \in 1..(Newest - (h - 1)) /\ b[1] = h
      BY <1>1, <1>3, <1>6
    <2>2. Head(b) = h
      BY <1>4, <2>1
    <2>3. Len(Tail(b)) = Newest - h /\ Tail(b) \in Seq(Int)
      BY <1>1, <1>4, <1>6
    <2>4. \A k \in 1..(Newest - h) : Tail(b)[k] = b[k + 1]
      BY <1>1, <1>4, <1>6
    <2>5. \A k \in 1..(Newest - h) : b[k + 1] = h + k
      BY <1>1, <1>3
    <2>6. Tail(b) = [k \in 1..(Newest - h) |-> Tail(b)[k]]
      BY <2>3
    <2>7. QED
      BY <2>2, <2>4, <2>5, <2>6 DEF Beyond, Newest
  <1>7. QED
    BY <1>1, <1>4, <1>5, <1>6

-----------------------------------------------------------------------------
(***************************************************************************)
(* Frames: what a step that changes no schema and no backup leaves true.   *)
(***************************************************************************)

Later(d, e) ==
  /\ DOMAIN e = Fields
  /\ e.versions = d.versions /\ e.objects = d.objects /\ e.copies = d.copies

SchemasKept ==
  /\ Rows(dbs') /\ DOMAIN dbs' = DOMAIN dbs /\ Len(dbs') = Len(dbs)
  /\ \A n \in DOMAIN dbs : Later(dbs[n], dbs'[n])

\* Databases gain versions and objects, and lose none.
FilesGrow ==
  /\ DOMAIN dbs \subseteq DOMAIN dbs'
  /\ \A n \in DOMAIN dbs :
       dbs[n].versions \subseteq dbs'[n].versions /\ dbs[n].objects \subseteq dbs'[n].objects

CopiesStand ==
  /\ DOMAIN backups \subseteq DOMAIN backups'
  /\ \A f \in DOMAIN backups :
       /\ backups'[f].content = backups[f].content
            \/ "altered" \in backups'[f].content.log
       /\ "altered" \in backups[f].content.log => "altered" \in backups'[f].content.log

LEMMA HoldsStill ==
  ASSUME CopiesStand, NEW file, NEW hash, Holds(file, hash)
  PROVE  Holds(file, hash)'
  BY DEF CopiesStand, Holds

LEMMA DatabaseVersions ==
  ASSUME NEW db, IsDatabase(db)
  PROVE  /\ db.versions \subseteq Versions
         /\ PendingMigrations(db) = Versions \ db.versions
         /\ \A v \in db.versions : Objects(v) \subseteq db.objects
         /\ CurrentVersion(db) \in 0..Newest /\ InOrderUpTo(db, CurrentVersion(db))
  <1>1. PICK m \in 0..Newest : InOrderUpTo(db, m)
    BY DEF IsDatabase
  <1>2. Newest \in Nat /\ Versions = 1..Newest
    BY MigrationsAssumption DEF Newest
  <1>3. CurrentVersion(db) = m /\ PendingMigrations(db) = Versions \ db.versions
    BY <1>1, CurrentIsLast DEF InOrderUpTo
  <1>4. QED
    BY <1>1, <1>2, <1>3 DEF InOrderUpTo

LEMMA StageStays ==
  ASSUME NEW s, StageOK(s), FilesOK, FilesOK', FilesGrow, CopiesStand
  PROVE  StageOK(s)'
  <1>1. CASE s = resting
    BY <1>1 DEF StageOK
  <1>2. CASE s # resting
    <2>1. /\ DOMAIN s = StageFields /\ s.on \in DOMAIN dbs
          /\ s.at # "idle" /\ s.cmd.do \in UpkeepOrders
          /\ s.at = "migrate" => Migrating(s)
          /\ s.at # "migrate" => Upgraded(dbs[s.on])
          /\ s.at \in {"hash", "row", "replace"} => s.done \in DOMAIN backups
          /\ s.at = "row" => Holds(s.done, Head(s.todo))
      BY <1>2 DEF StageOK
    <2>2. s.on \in DOMAIN dbs'
      BY <2>1 DEF FilesGrow
    <2>3. s.at = "migrate" => Migrating(s)'
      <3>1. SUFFICES ASSUME s.at = "migrate"
                     PROVE  Migrating(s)'
        OBVIOUS
      <3>2. PICK h \in 1..(Newest + 1) :
              /\ s.todo = Beyond(h - 1)
              /\ \A v \in 1..(h - 1) : v \in dbs[s.on].versions
              /\ s.done \in Nat
              /\ h = Newest + 1 => s.done = 0
              /\ h # Newest + 1 =>
                   /\ s.done <= Len(Migrations[h])
                   /\ \A k \in 1..s.done : Migrations[h][k].object \in dbs[s.on].objects
        BY <2>1, <3>1 DEF Migrating
      <3>3. /\ \A v \in 1..(h - 1) : v \in dbs'[s.on].versions
            /\ h # Newest + 1 =>
                 \A k \in 1..s.done : Migrations[h][k].object \in dbs'[s.on].objects
        BY <2>1, <3>2 DEF FilesGrow
      <3>4. QED
        BY <3>2, <3>3 DEF Migrating
    <2>4. s.at # "migrate" => Upgraded(dbs[s.on])'
      <3>1. dbs'[s.on].versions \subseteq Versions
        <4>1. IsDatabase(dbs[s.on])'
          BY <2>2 DEF FilesOK
        <4>2. PICK m \in 0..Newest : dbs'[s.on].versions = 1..m
          BY <4>1 DEF IsDatabase, InOrderUpTo
        <4>3. QED
          BY <4>2, MigrationsAssumption DEF Newest
      <3>2. QED
        BY <2>1, <3>1 DEF Upgraded, FilesGrow
    <2>5. s.at \in {"hash", "row", "replace"} => s.done \in DOMAIN backups'
      BY <2>1 DEF CopiesStand
    <2>6. s.at = "row" => Holds(s.done, Head(s.todo))'
      <3>1. PICK file : file = s.done
        OBVIOUS
      <3>2. PICK hash : hash = Head(s.todo)
        OBVIOUS
      <3>3. s.at = "row" => Holds(file, hash)'
        BY <2>1, <3>1, <3>2, HoldsStill
      <3>4. QED
        BY <3>1, <3>2, <3>3
    <2>7. QED
      BY <2>1, <2>2, <2>3, <2>4, <2>5, <2>6 DEF StageOK
  <1>3. QED
    BY <1>1, <1>2

\* Process p moves to stage s, the others stay where they are.
Moved(p, s) == proc' = [proc EXCEPT ![p] = s]

LEMMA StagesStay ==
  ASSUME StagesOK, FilesOK, FilesOK', FilesGrow, CopiesStand,
         NEW p \in Procs, NEW s, Moved(p, s), StageOK(s)'
  PROVE  StagesOK'
  <1>1. /\ proc' = [q \in Procs |-> proc'[q]]
        /\ proc'[p] = s /\ \A q \in Procs \ {p} : proc'[q] = proc[q]
    BY DEF Moved, StagesOK
  <1>2. ASSUME NEW q \in Procs
        PROVE  StageOK(proc[q])'
    <2>1. PICK r : r = proc'[q]
      OBVIOUS
    <2>2. CASE q = p
      BY <1>1, <2>2
    <2>3. CASE q # p
      <3>1. StageOK(r)
        BY <1>1, <2>1, <2>3 DEF StagesOK
      <3>2. StageOK(r)'
        BY <3>1, StageStays
      <3>3. QED
        BY <2>1, <3>2
    <2>4. QED
      BY <2>2, <2>3
  <1>3. QED
    BY <1>1, <1>2 DEF StagesOK

\* Writing to one database.
LEMMA FileWritten ==
  ASSUME FilesOK, NEW n \in DOMAIN dbs, NEW db, dbs' = [dbs EXCEPT ![n] = db]
  PROVE  /\ Rows(dbs') /\ DOMAIN dbs' = DOMAIN dbs /\ Len(dbs') = Len(dbs)
         /\ \A m \in DOMAIN dbs : dbs'[m] = IF m = n THEN db ELSE dbs[m]
  <1>1. Rows(dbs)
    BY DEF FilesOK
  <1>2. /\ Rows(dbs') /\ DOMAIN dbs' = DOMAIN dbs
        /\ \A m \in DOMAIN dbs : dbs'[m] = IF m = n THEN db ELSE dbs[m]
    BY <1>1, UpdateRow
  <1>3. /\ Len(dbs) \in Nat /\ DOMAIN dbs = 1..Len(dbs)
        /\ Len(dbs') \in Nat /\ DOMAIN dbs' = 1..Len(dbs')
    BY <1>1, <1>2 DEF Rows
  <1>4. QED
    BY <1>2, <1>3

\* A change of other rows of one database.
LEMMA OtherRows ==
  ASSUME FilesOK, NEW n \in DOMAIN dbs, NEW db, Later(dbs[n], db),
         dbs' = [dbs EXCEPT ![n] = db]
  PROVE  SchemasKept
  <1>1. /\ Rows(dbs') /\ DOMAIN dbs' = DOMAIN dbs /\ Len(dbs') = Len(dbs)
        /\ \A m \in DOMAIN dbs : dbs'[m] = IF m = n THEN db ELSE dbs[m]
    BY FileWritten
  <1>2. \A m \in DOMAIN dbs : Later(dbs[m], dbs[m])
    BY DEF FilesOK, IsDatabase, Later
  <1>3. QED
    BY <1>1, <1>2 DEF SchemasKept

LEMMA SameFiles ==
  ASSUME FilesOK, UNCHANGED dbs
  PROVE  SchemasKept
  BY DEF FilesOK, IsDatabase, Later, SchemasKept

LEMMA LaterDatabase ==
  ASSUME NEW d, NEW e, IsDatabase(d), Later(d, e)
  PROVE  IsDatabase(e)
  BY DEF IsDatabase, Later, InOrderUpTo

\* Every step that changes no schema, no backup and not the place of the database.
LEMMA OtherStep ==
  ASSUME UpkeepInv, SchemasKept, UNCHANGED <<backups, live>>,
         NEW p \in Procs, NEW s, Moved(p, s), StageOK(s)
  PROVE  UpkeepInv'
  <1>1. FilesGrow
    BY DEF SchemasKept, Later, FilesGrow
  <1>2. CopiesStand
    BY DEF CopiesStand
  <1>3. FilesOK'
    <2>1. ASSUME NEW n \in DOMAIN dbs'
          PROVE  IsDatabase(dbs[n])' /\ (n # 1 => Upgraded(dbs[n])')
      <3>1. n \in DOMAIN dbs /\ Later(dbs[n], dbs'[n])
        BY <2>1 DEF SchemasKept
      <3>2. IsDatabase(dbs[n]) /\ (n # 1 => Upgraded(dbs[n]))
        BY <3>1 DEF UpkeepInv, FilesOK
      <3>3. IsDatabase(dbs[n])'
        BY <3>1, <3>2 DEF IsDatabase, Later, InOrderUpTo
      <3>4. QED
        BY <3>1, <3>2, <3>3 DEF Later, Upgraded
    <2>2. QED
      BY <2>1 DEF UpkeepInv, FilesOK, SchemasKept
  <1>4. CopiesOK'
    BY DEF UpkeepInv, CopiesOK, IsDatabase, InOrderUpTo, Upgraded
  <1>5. KeptOK'
    <2>1. ASSUME NEW n \in DOMAIN dbs'
          PROVE  Kept(dbs[n])'
      <3>1. n \in DOMAIN dbs /\ dbs'[n].copies = dbs[n].copies
        BY <2>1 DEF SchemasKept, Later
      <3>2. Kept(dbs[n])
        BY <3>1 DEF UpkeepInv, KeptOK
      <3>3. QED
        BY <3>1, <3>2 DEF Kept, Holds
    <2>2. \A f \in DOMAIN backups' : Kept(backups[f].content)'
      BY DEF UpkeepInv, KeptOK, Kept, Holds
    <2>3. QED
      BY <2>1, <2>2 DEF KeptOK
  <1>5a. FilesOK
    BY DEF UpkeepInv
  <1>6. StageOK(s)'
    BY <1>1, <1>2, <1>3, <1>5a, StageStays
  <1>7. StagesOK'
    BY <1>1, <1>2, <1>3, <1>5a, <1>6, StagesStay DEF UpkeepInv
  <1>8. QED
    BY <1>3, <1>4, <1>5, <1>7 DEF UpkeepInv

\* The columns, after such a step of a process that has added none that is needed.
LEMMA OtherColumns ==
  ASSUME UpkeepInv, ColumnsInv, SchemasKept, bare \subseteq bare',
         NEW p \in Procs, NEW s, Moved(p, s),
         \A n \in DOMAIN dbs : \A v \in Versions \ dbs[n].versions :
           \A k \in DOMAIN Migrations[v] :
             /\ Migrations[v][k].object \in dbs[n].objects /\ ~ Migrations[v][k].guarded
             /\ Past(p, n, v, k)
             => n \in bare' \/ \E q \in Procs \ {p} : Past(q, n, v, k)
  PROVE  ColumnsInv'
  <1>1. ASSUME NEW n \in DOMAIN dbs', NEW v \in Versions \ dbs'[n].versions,
               NEW k \in DOMAIN Migrations[v],
               Migrations[v][k].object \in dbs'[n].objects, ~ Migrations[v][k].guarded
        PROVE  n \in bare' \/ \E q \in Procs : Past(q, n, v, k)'
    <2>1. /\ n \in DOMAIN dbs /\ v \in Versions \ dbs[n].versions
          /\ Migrations[v][k].object \in dbs[n].objects
      BY <1>1 DEF SchemasKept, Later
    <2>2. n \in bare' \/ \E q \in Procs : Past(q, n, v, k)
      BY <1>1, <2>1 DEF ColumnsInv
    <2>3. n \in bare' \/ \E q \in Procs \ {p} : Past(q, n, v, k)
      BY <1>1, <2>1, <2>2
    <2>4. \A q \in Procs \ {p} : proc'[q] = proc[q]
      BY DEF Moved, UpkeepInv, StagesOK
    <2>5. QED
      BY <2>3, <2>4 DEF Past
  <1>2. QED
    BY <1>1 DEF ColumnsInv

-----------------------------------------------------------------------------
(***************************************************************************)
(* The steps that change no schema and no backup.                          *)
(***************************************************************************)

NothingAdded(p) == ~ (proc[p].at = "migrate" /\ proc[p].todo # <<>>)

Besides(p) ==
  /\ SchemasKept /\ UNCHANGED <<backups, live, bare>> /\ NothingAdded(p)
  /\ \E s : Moved(p, s) /\ StageOK(s)

LEMMA BesidesKeep ==
  ASSUME UpkeepInv, ColumnsInv, NEW p \in Procs, Besides(p)
  PROVE  UpkeepInv' /\ ColumnsInv'
  <1>1. PICK s : Moved(p, s) /\ StageOK(s)
    BY DEF Besides
  <1>2. UpkeepInv'
    BY <1>1, OtherStep DEF Besides
  <1>3. \A n, v, k : ~ Past(p, n, v, k)
    BY DEF Besides, NothingAdded, Past
  <1>4. ColumnsInv'
    BY <1>1, <1>3, OtherColumns DEF Besides
  <1>5. QED
    BY <1>2, <1>4

\* What a process that is not resting carries.
LEMMA StageOf ==
  ASSUME UpkeepInv, NEW p \in Procs, proc[p].at # "idle"
  PROVE  /\ DOMAIN proc[p] = StageFields /\ proc[p].on \in DOMAIN dbs
         /\ proc[p].cmd.do \in UpkeepOrders
         /\ proc[p].at # "migrate" => NothingAdded(p)
         /\ proc[p].at # "migrate" => Upgraded(dbs[proc[p].on])
         /\ proc[p].at = "migrate" => Migrating(proc[p])
         /\ proc[p].at \in {"hash", "row", "replace"} => proc[p].done \in DOMAIN backups
         /\ proc[p].at = "row" => Holds(proc[p].done, Head(proc[p].todo))
         /\ StageOK(proc[p])
  <1>1. StageOK(proc[p]) /\ resting.at = "idle"
    BY DEF UpkeepInv, StagesOK, resting
  <1>2. QED
    BY <1>1 DEF StageOK, NothingAdded

\* A process ends, its last write besides the schema or none.
LEMMA EndsBesides ==
  ASSUME UpkeepInv, NEW p \in Procs, UNCHANGED <<backups, live, bare>>, NothingAdded(p),
         SchemasKept, Goes(p, resting) \/ Ends(p)
  PROVE  Besides(p)
  BY DEF Besides, Goes, Ends, Moved, StageOK

LEMMA ChangesOthers ==
  ASSUME UpkeepInv, NEW p \in Procs, proc[p].at # "idle", NEW db, Changes(p, db),
         DOMAIN db = Fields, db.versions = Open(p).versions, db.objects = Open(p).objects,
         db.copies = Open(p).copies
  PROVE  SchemasKept
  <1>1. proc[p].on \in DOMAIN dbs /\ FilesOK
    BY StageOf DEF UpkeepInv
  <1>2. Later(dbs[proc[p].on], db)
    BY DEF Later, Open
  <1>3. QED
    BY <1>1, <1>2, OtherRows DEF Changes

\* A process that has migrated goes on, to a stage that carries no backup.
LEMMA GoesOn ==
  ASSUME UpkeepInv, NEW p \in Procs, proc[p].at # "idle", NothingAdded(p),
         UNCHANGED <<dbs, backups, live, bare>>, NEW s, Goes(p, s),
         Upgraded(dbs[proc[p].on]),
         DOMAIN s = StageFields, s.on = proc[p].on, s.cmd = proc[p].cmd,
         s.at \notin {"idle", "migrate", "hash", "row", "replace"}
  PROVE  Besides(p)
  <1>1. StageOK(s)
    BY StageOf DEF StageOK
  <1>2. SchemasKept
    BY SameFiles DEF UpkeepInv
  <1>3. QED
    BY <1>1, <1>2 DEF Besides, Goes, Moved

LEMMA StartBesides ==
  ASSUME UpkeepInv, NEW p \in Procs, NEW cmd, cmd.do \in UpkeepOrders, UpkeepStart(p, cmd)
  PROVE  Besides(p)
  <1> DEFINE todo == Beyond(CurrentVersion(dbs[live]))
  <1>1. PICK s : s = [at |-> "migrate", on |-> live, todo |-> todo, done |-> 0, cmd |-> cmd]
    OBVIOUS
  <1>2. /\ proc[p] = resting /\ Moved(p, s) /\ UNCHANGED <<dbs, live, backups, bare>>
    BY <1>1 DEF UpkeepStart, Starts, Moved, upkeepRecords
  <1>3. NothingAdded(p)
    BY <1>2 DEF NothingAdded, resting
  <1>4. SchemasKept
    BY <1>2, SameFiles DEF UpkeepInv
  <1>5. live \in DOMAIN dbs /\ IsDatabase(dbs[live])
    BY DEF UpkeepInv, FilesOK
  <1>6. PICK m \in 0..Newest : m = CurrentVersion(dbs[live]) /\ InOrderUpTo(dbs[live], m)
    BY <1>5, DatabaseVersions
  <1>7. Newest \in Nat
    BY MigrationsAssumption DEF Newest
  <1>8. /\ m + 1 \in 1..(Newest + 1) /\ m = (m + 1) - 1
        /\ \A v \in 1..((m + 1) - 1) : v \in dbs[live].versions
    BY <1>6, <1>7 DEF InOrderUpTo
  <1>9. /\ s.todo = Beyond(m) /\ s.on = live /\ s.done = 0 /\ s.at = "migrate" /\ s.cmd = cmd
        /\ DOMAIN s = StageFields
    BY <1>1, <1>6 DEF StageFields
  <1>10. m + 1 # Newest + 1 => 0 <= Len(Migrations[m + 1])
    BY <1>6, <1>7, MigrationsAssumption DEF Newest
  <1>11. Migrating(s)
    <2>1. PICK h \in 1..(Newest + 1) : h = m + 1
      BY <1>8
    <2>2. s.todo = Beyond(h - 1)
      BY <1>8, <1>9, <2>1
    <2>3. \A k \in 1..s.done : FALSE
      BY <1>9
    <2>4. QED
      BY <1>8, <1>9, <1>10, <2>1, <2>2, <2>3 DEF Migrating
  <1>12. StageOK(s)
    BY <1>5, <1>9, <1>11 DEF StageOK
  <1>13. QED
    BY <1>2, <1>3, <1>4, <1>12 DEF Besides

LEMMA MigratedBesides ==
  ASSUME UpkeepInv, NEW p \in Procs, Migrated(p)
  PROVE  Besides(p)
  <1>1. /\ proc[p].at = "migrate" /\ proc[p].todo = <<>>
        /\ UNCHANGED <<dbs, live, backups, bare>>
    BY DEF Migrated, upkeepRecords
  <1>2. Migrating(proc[p]) /\ DOMAIN proc[p] = StageFields /\ proc[p].on \in DOMAIN dbs
        /\ proc[p].cmd.do \in UpkeepOrders
    BY <1>1, StageOf
  <1>3. PICK h \in 1..(Newest + 1) : proc[p].todo = Beyond(h - 1)
                                  /\ \A v \in 1..(h - 1) : v \in dbs[proc[p].on].versions
    BY <1>2 DEF Migrating
  <1>4. h = Newest + 1
    BY <1>1, <1>3, BeyondSteps
  <1>5. Upgraded(dbs[proc[p].on])
    <2>1. dbs[proc[p].on].versions \subseteq Versions
      BY <1>2, DatabaseVersions DEF UpkeepInv, FilesOK
    <2>2. Versions = 1..(h - 1)
      BY <1>4, MigrationsAssumption DEF Newest
    <2>3. QED
      BY <1>3, <2>1, <2>2 DEF Upgraded
  <1>6. PICK s : s = [proc[p] EXCEPT !.at = proc[p].cmd.do]
    OBVIOUS
  <1>7. /\ DOMAIN s = StageFields /\ s.on = proc[p].on /\ s.cmd = proc[p].cmd
        /\ s.at = proc[p].cmd.do
    BY <1>2, <1>6 DEF StageFields
  <1>8. s.at \notin {"idle", "migrate", "hash", "row", "replace"}
    BY <1>2, <1>7 DEF UpkeepOrders
  <1>9. Goes(p, s) /\ NothingAdded(p)
    BY <1>1, <1>6 DEF Migrated, NothingAdded
  <1>10. QED
    BY <1>1, <1>5, <1>7, <1>8, <1>9, GoesOn

\* Steps that read, and go on or end.
LEMMA ReadingBesides ==
  ASSUME UpkeepInv, NEW p \in Procs,
         \/ BackupList(p) \/ BackupVerify(p)
         \/ UpdateCheck(p) \/ DbVersion(p) \/ DbHealth(p)
         \/ BaselineList(p) \/ ScanList(p)
  PROVE  Besides(p)
  <1>1. /\ proc[p].at # "idle" /\ proc[p].at # "migrate"
        /\ Goes(p, resting) /\ UNCHANGED <<dbs, live, backups, bare>>
    BY DEF BackupList, BackupVerify, UpdateCheck, DbVersion, DbHealth, BaselineList, ScanList, At,
           upkeepRecords
  <1>2. SchemasKept /\ NothingAdded(p)
    BY <1>1, SameFiles DEF UpkeepInv, NothingAdded
  <1>3. QED
    BY <1>1, <1>2, EndsBesides

\* Steps that write rows of their own, or refuse to.
LEMMA WritingBesides ==
  ASSUME UpkeepInv, NEW p \in Procs,
         \/ AuditRestore(p) \/ DbRepair(p) \/ StoreBaseline(p) \/ BaselineDelete(p)
         \/ RecordScan(p) \/ StateChanges(p)
  PROVE  Besides(p)
  <1>1. /\ proc[p].at # "idle" /\ proc[p].at # "migrate"
        /\ Goes(p, resting) \/ Ends(p)
        /\ UNCHANGED <<live, backups, bare>>
    BY DEF AuditRestore, DbRepair, StoreBaseline, BaselineDelete, RecordScan, StateChanges, At,
           Refuses
  <1>2. NothingAdded(p) /\ proc[p].on \in DOMAIN dbs /\ DOMAIN Open(p) = Fields
    BY <1>1, StageOf DEF NothingAdded, Open, UpkeepInv, FilesOK, IsDatabase
  <1>3. SchemasKept
    <2>1. CASE UNCHANGED dbs
      BY <2>1, SameFiles DEF UpkeepInv
    <2>2. CASE AuditRestore(p)
      BY <1>1, <1>2, <2>2, ChangesOthers DEF AuditRestore, Fields
    <2>3. CASE DbRepair(p) /\ ~ UNCHANGED dbs
      BY <1>1, <1>2, <2>3, ChangesOthers DEF DbRepair, Fields
    <2>4. CASE StoreBaseline(p)
      BY <1>1, <1>2, <2>4, ChangesOthers DEF StoreBaseline, Fields
    <2>5. CASE BaselineDelete(p) /\ ~ UNCHANGED dbs
      <3>1. PICK k : k = proc[p].cmd.id
        OBVIOUS
      <3>2. PICK db : db = RemoveBaseline(Open(p), k)
        OBVIOUS
      <3>3. /\ DOMAIN db = Fields /\ db.versions = Open(p).versions
            /\ db.objects = Open(p).objects /\ db.copies = Open(p).copies
        BY <1>2, <3>2 DEF RemoveBaseline, Fields
      <3>4. Changes(p, db)
        BY <2>5, <3>1, <3>2 DEF BaselineDelete
      <3>5. QED
        BY <1>1, <3>3, <3>4, ChangesOthers
    <2>6. CASE RecordScan(p) /\ ~ UNCHANGED dbs
      BY <1>1, <1>2, <2>6, ChangesOthers DEF RecordScan, Fields
    <2>7. CASE StateChanges(p)
      <3>1. PICK x \in States : Changes(p, [Open(p) EXCEPT !.state[proc[p].cmd.scope] = x])
        BY <2>7 DEF StateChanges
      <3>2. QED
        BY <1>1, <1>2, <3>1, ChangesOthers DEF Fields
    <2>8. QED
      BY <2>1, <2>2, <2>3, <2>4, <2>5, <2>6, <2>7
  <1>4. QED
    BY <1>1, <1>2, <1>3, EndsBesides

\* Steps that go from one statement of a command to the next.
LEMMA GoingBesides ==
  ASSUME UpkeepInv, NEW p \in Procs,
         BaselineCreate(p) \/ ChangeScan(p) \/ DiffState(p)
  PROVE  Besides(p)
  <1>1. /\ proc[p].at \in {"baseline", "scan", "diff"}
        /\ UNCHANGED <<dbs, live, backups, bare>>
    BY DEF BaselineCreate, ChangeScan, DiffState, At, upkeepRecords
  <1>2. /\ NothingAdded(p) /\ DOMAIN proc[p] = StageFields /\ Upgraded(dbs[proc[p].on])
        /\ proc[p].at # "idle"
    BY <1>1, StageOf
  <1>3. CASE Goes(p, resting) \/ Ends(p)
    BY <1>1, <1>2, <1>3, SameFiles, EndsBesides DEF UpkeepInv
  <1>4. CASE BaselineCreate(p)
    <2>1. PICK s : s = [proc[p] EXCEPT !.at = "store",
                          !.todo = <<Snapshot(Open(p), proc[p].cmd.scope)>>]
      OBVIOUS
    <2>2. DOMAIN s = StageFields /\ s.on = proc[p].on /\ s.cmd = proc[p].cmd /\ s.at = "store"
      BY <1>2, <2>1 DEF StageFields
    <2>3. Goes(p, s)
      BY <1>4, <2>1 DEF BaselineCreate
    <2>4. QED
      BY <1>1, <1>2, <2>2, <2>3, GoesOn
  <1>5. CASE ChangeScan(p) /\ ~ Ends(p)
    <2>1. PICK s : s = [proc[p] EXCEPT !.at = "diff",
                          !.todo = <<Open(p).baselines[proc[p].cmd.id]>>]
      OBVIOUS
    <2>2. DOMAIN s = StageFields /\ s.on = proc[p].on /\ s.cmd = proc[p].cmd /\ s.at = "diff"
      BY <1>2, <2>1 DEF StageFields
    <2>3. Goes(p, s)
      BY <1>5, <2>1 DEF ChangeScan, Refuses
    <2>4. QED
      BY <1>1, <1>2, <2>2, <2>3, GoesOn
  <1>6. CASE DiffState(p)
    <2>1. PICK s : s = [proc[p] EXCEPT !.at = "record scan",
                          !.todo = <<Diff(Head(proc[p].todo).was,
                                          Snapshot(Open(p), Head(proc[p].todo).scope))>>]
      OBVIOUS
    <2>2. DOMAIN s = StageFields /\ s.on = proc[p].on /\ s.cmd = proc[p].cmd
          /\ s.at = "record scan"
      BY <1>2, <2>1 DEF StageFields
    <2>3. Goes(p, s)
      BY <1>6, <2>1 DEF DiffState
    <2>4. QED
      BY <1>1, <1>2, <2>2, <2>3, GoesOn
  <1>7. QED
    BY <1>3, <1>4, <1>5, <1>6

LEMMA HashBesides ==
  ASSUME UpkeepInv, NEW p \in Procs, HashCopy(p)
  PROVE  Besides(p)
  <1>1. proc[p].at = "hash" /\ UNCHANGED <<dbs, live, backups, bare>>
    BY DEF HashCopy, At, upkeepRecords
  <1>2. /\ DOMAIN proc[p] = StageFields /\ proc[p].on \in DOMAIN dbs
        /\ proc[p].cmd.do \in UpkeepOrders /\ NothingAdded(p) /\ Upgraded(dbs[proc[p].on])
        /\ proc[p].done \in DOMAIN backups
    BY <1>1, StageOf
  <1>3. PICK content : content = backups[proc[p].done].content
    OBVIOUS
  <1>4. PICK s : s = [proc[p] EXCEPT !.at = "row", !.todo = <<content>>]
    OBVIOUS
  <1>5. /\ DOMAIN s = StageFields /\ s.on = proc[p].on /\ s.cmd = proc[p].cmd
        /\ s.at = "row" /\ s.done = proc[p].done /\ Head(s.todo) = content
    BY <1>2, <1>4 DEF StageFields
  <1>6. StageOK(s)
    BY <1>2, <1>3, <1>5 DEF StageOK, Holds
  <1>7. Moved(p, s)
    BY <1>3, <1>4 DEF HashCopy, Goes, Moved
  <1>8. QED
    BY <1>1, <1>2, <1>6, <1>7, SameFiles DEF Besides, UpkeepInv

LEMMA RestoreBesides ==
  ASSUME UpkeepInv, NEW p \in Procs, BackupRestore(p)
  PROVE  Besides(p)
  <1>1. proc[p].at = "restore" /\ UNCHANGED <<dbs, live, backups, bare>>
    BY DEF BackupRestore, At, upkeepRecords
  <1>2. /\ DOMAIN proc[p] = StageFields /\ proc[p].on \in DOMAIN dbs
        /\ proc[p].cmd.do \in UpkeepOrders /\ NothingAdded(p) /\ Upgraded(dbs[proc[p].on])
    BY <1>1, StageOf
  <1>3. CASE Ends(p)
    BY <1>1, <1>2, <1>3, SameFiles, EndsBesides DEF UpkeepInv
  <1>4. CASE ~ Ends(p)
    <2>1. PICK k : k = proc[p].cmd.id
      OBVIOUS
    <2>2. k \in DOMAIN Open(p).copies
          /\ Goes(p, [proc[p] EXCEPT !.at = "replace", !.done = Open(p).copies[k].file])
      BY <1>4, <2>1 DEF BackupRestore, Restorable, Refuses
    <2>3. PICK s : s = [proc[p] EXCEPT !.at = "replace", !.done = Open(p).copies[k].file]
      OBVIOUS
    <2>4. /\ DOMAIN s = StageFields /\ s.on = proc[p].on /\ s.cmd = proc[p].cmd
          /\ s.at = "replace" /\ s.done = Open(p).copies[k].file
      BY <1>2, <2>3 DEF StageFields
    <2>5. s.done \in DOMAIN backups
      BY <1>2, <2>2, <2>4 DEF UpkeepInv, KeptOK, Kept, Holds, Open
    <2>6. StageOK(s)
      BY <1>2, <2>4, <2>5 DEF StageOK
    <2>7. QED
      BY <1>1, <1>2, <2>2, <2>3, <2>6, SameFiles DEF Besides, UpkeepInv, Goes, Moved
  <1>5. QED
    BY <1>3, <1>4

-----------------------------------------------------------------------------
(***************************************************************************)
(* The migrations.                                                         *)
(***************************************************************************)

\* A kill while a version is being applied is remembered.
LEMMA KilledKeeps ==
  ASSUME UpkeepInv, ColumnsInv, NEW p \in Procs, UpkeepKilled(p)
  PROVE  UpkeepInv' /\ ColumnsInv'
  <1>1. /\ Moved(p, resting) /\ UNCHANGED <<dbs, live, backups>> /\ proc[p] # resting
        /\ bare' = IF proc[p].at = "migrate" /\ proc[p].done > 0
                   THEN bare \cup {proc[p].on} ELSE bare
    BY DEF UpkeepKilled, Refuses, Ends, Goes, Moved, At
  <1>2. SchemasKept /\ bare \subseteq bare'
    BY <1>1, SameFiles DEF UpkeepInv
  <1>3. StageOK(resting)
    BY DEF StageOK
  <1>4. UpkeepInv'
    BY <1>1, <1>2, <1>3, OtherStep
  <1>5. ASSUME NEW n, NEW v \in Versions, NEW k \in DOMAIN Migrations[v], Past(p, n, v, k)
        PROVE  n \in bare'
    <2>1. /\ proc[p].at = "migrate" /\ proc[p].on = n /\ k <= proc[p].done /\ k \in Nat /\ k > 0
          /\ proc[p].done \in Nat
      BY <1>1, <1>5, StageOf, MigrationsAssumption DEF Past, Migrating
    <2>2. QED
      BY <1>1, <2>1
  <1>6. ColumnsInv'
    BY <1>1, <1>2, <1>5, OtherColumns
  <1>7. QED
    BY <1>4, <1>6

\* The version process p is applying, and how far it has come.
LEMMA Applying ==
  ASSUME UpkeepInv, NEW p \in Procs, proc[p].at = "migrate", proc[p].todo # <<>>
  PROVE  \E h \in Versions :
           /\ h = Head(proc[p].todo) /\ h + 1 \in 1..(Newest + 1)
           /\ Tail(proc[p].todo) = Beyond(h) /\ proc[p].todo = Beyond(h - 1)
           /\ Script(p) = Migrations[h]
           /\ \A v \in 1..(h - 1) : v \in Open(p).versions
           /\ proc[p].done \in 0..Len(Migrations[h])
           /\ \A k \in 1..proc[p].done : Migrations[h][k].object \in Open(p).objects
  <1>1. Migrating(proc[p])
    BY StageOf
  <1>2. PICK h \in 1..(Newest + 1) :
          /\ proc[p].todo = Beyond(h - 1)
          /\ \A v \in 1..(h - 1) : v \in dbs[proc[p].on].versions
          /\ proc[p].done \in Nat
          /\ h = Newest + 1 => proc[p].done = 0
          /\ h # Newest + 1 =>
               /\ proc[p].done <= Len(Migrations[h])
               /\ \A k \in 1..proc[p].done : Migrations[h][k].object \in dbs[proc[p].on].objects
    BY <1>1 DEF Migrating
  <1>3. h # Newest + 1
    BY <1>2, BeyondSteps
  <1>4. h \in Versions /\ h + 1 \in 1..(Newest + 1) /\ Head(Beyond(h - 1)) = h
        /\ Tail(Beyond(h - 1)) = Beyond(h)
    BY <1>3, BeyondSteps
  <1>5. proc[p].done \in 0..Len(Migrations[h])
    BY <1>2, <1>3, <1>4, MigrationsAssumption
  <1>6. QED
    BY <1>2, <1>3, <1>4, <1>5 DEF Script, Open

\* A step that changes the schema of the database process p has open, for the better.
LEMMA SchemaStep ==
  ASSUME UpkeepInv, NEW p \in Procs, NEW n \in DOMAIN dbs, NEW db, NEW s,
         dbs' = [dbs EXCEPT ![n] = db], UNCHANGED <<live, backups>>, Moved(p, s),
         IsDatabase(db), db.copies = dbs[n].copies,
         dbs[n].versions \subseteq db.versions, dbs[n].objects \subseteq db.objects,
         DOMAIN s = StageFields, s.on = n, s.at = "migrate", s.cmd.do \in UpkeepOrders,
         Migrating(s)'
  PROVE  UpkeepInv'
  <1>1. /\ Rows(dbs') /\ DOMAIN dbs' = DOMAIN dbs /\ Len(dbs') = Len(dbs)
        /\ \A m \in DOMAIN dbs : dbs'[m] = IF m = n THEN db ELSE dbs[m]
    BY FileWritten DEF UpkeepInv
  <1>2. FilesOK'
    <2>1. ASSUME NEW m \in DOMAIN dbs'
          PROVE  IsDatabase(dbs[m])' /\ (m # 1 => Upgraded(dbs[m])')
      <3>1. m \in DOMAIN dbs /\ IsDatabase(dbs[m]) /\ (m # 1 => Upgraded(dbs[m]))
        BY <1>1 DEF UpkeepInv, FilesOK
      <3>2. CASE m # n
        BY <1>1, <3>1, <3>2 DEF IsDatabase, InOrderUpTo, Upgraded
      <3>3. CASE m = n
        <4>1. dbs'[m] = db
          BY <1>1, <3>1, <3>3
        <4>2. IsDatabase(dbs[m])'
          BY <4>1 DEF IsDatabase, InOrderUpTo
        <4>3. db.versions \subseteq Versions
          BY DatabaseVersions
        <4>4. QED
          BY <3>1, <3>3, <4>1, <4>2, <4>3 DEF Upgraded
      <3>4. QED
        BY <3>2, <3>3
    <2>2. QED
      BY <1>1, <2>1 DEF UpkeepInv, FilesOK
  <1>3. FilesGrow
    BY <1>1 DEF FilesGrow
  <1>4. CopiesStand
    BY DEF CopiesStand
  <1>5. CopiesOK'
    BY DEF UpkeepInv, CopiesOK, IsDatabase, InOrderUpTo, Upgraded
  <1>6. KeptOK'
    <2>1. ASSUME NEW m \in DOMAIN dbs'
          PROVE  Kept(dbs[m])'
      BY <1>1 DEF UpkeepInv, KeptOK, Kept, Holds
    <2>2. \A f \in DOMAIN backups' : Kept(backups[f].content)'
      BY DEF UpkeepInv, KeptOK, Kept, Holds
    <2>3. QED
      BY <2>1, <2>2 DEF KeptOK
  <1>7. StageOK(s)'
    BY <1>1 DEF StageOK
  <1>8. StagesOK'
    BY <1>2, <1>3, <1>4, <1>7, StagesStay DEF UpkeepInv
  <1>9. QED
    BY <1>2, <1>5, <1>6, <1>8 DEF UpkeepInv

\* A process that stops before it has recorded its version, when another one has
\* added what this one was to add, or recorded it.
LEMMA StopsMigrating ==
  ASSUME UpkeepInv, ColumnsInv, NEW p \in Procs, Refuses(p), UNCHANGED <<dbs, live, backups, bare>>,
         \A n \in DOMAIN dbs : \A v \in Versions \ dbs[n].versions :
           \A k \in DOMAIN Migrations[v] :
             /\ Migrations[v][k].object \in dbs[n].objects /\ ~ Migrations[v][k].guarded
             /\ Past(p, n, v, k)
             => n \in bare \/ \E q \in Procs \ {p} : Past(q, n, v, k)
  PROVE  UpkeepInv' /\ ColumnsInv'
  <1>1. Moved(p, resting)
    BY DEF Refuses, Ends, Goes, Moved
  <1>2. SchemasKept /\ StageOK(resting)
    BY SameFiles DEF UpkeepInv, StageOK
  <1>3. UpkeepInv'
    BY <1>1, <1>2, OtherStep
  <1>4. ColumnsInv'
    BY <1>1, <1>2, OtherColumns
  <1>5. QED
    BY <1>3, <1>4

LEMMA RunStatementKeeps ==
  ASSUME UpkeepInv, ColumnsInv, NEW p \in Procs, RunStatement(p)
  PROVE  UpkeepInv' /\ ColumnsInv'
  <1> DEFINE n == proc[p].on
  <1>1. /\ proc[p].at = "migrate" /\ proc[p].todo # <<>> /\ proc[p].done < Len(Script(p))
        /\ UNCHANGED <<live, backups, bare>>
    BY DEF RunStatement
  <1>2. /\ DOMAIN proc[p] = StageFields /\ n \in DOMAIN dbs /\ proc[p].cmd.do \in UpkeepOrders
    BY <1>1, StageOf
  <1>3. PICK h \in Versions :
          /\ h = Head(proc[p].todo) /\ proc[p].todo = Beyond(h - 1)
          /\ Script(p) = Migrations[h]
          /\ \A v \in 1..(h - 1) : v \in Open(p).versions
          /\ proc[p].done \in 0..Len(Migrations[h])
          /\ \A k \in 1..proc[p].done : Migrations[h][k].object \in Open(p).objects
    BY <1>1, Applying
  <1>4. PICK l : l = proc[p].done + 1
    OBVIOUS
  <1>5. /\ l \in DOMAIN Migrations[h] /\ l \in 1..Len(Migrations[h])
        /\ DOMAIN Migrations[h] = 1..Len(Migrations[h]) /\ Len(Migrations[h]) \in Nat
    <2>1. DOMAIN Migrations[h] = 1..Len(Migrations[h]) /\ Len(Migrations[h]) \in Nat
      BY <1>3, MigrationsAssumption
    <2>2. proc[p].done < Len(Migrations[h])
      BY <1>1, <1>3
    <2>3. proc[p].done \in 0..Len(Migrations[h])
      BY <1>3
    <2>4. l \in 1..Len(Migrations[h])
      BY <1>4, <2>1, <2>2, <2>3
    <2>5. QED
      BY <2>1, <2>4
  <1>5a. proc[p].done \in Nat /\ l \in Nat /\ l = proc[p].done + 1
    <2>1. proc[p].done \in 0..Len(Migrations[h])
      BY <1>3
    <2>2. QED
      BY <1>4, <1>5, <2>1
  <1>6. PICK o : o = Migrations[h][l].object
    OBVIOUS
  <1>7. CASE o \in dbs[n].objects /\ ~ Migrations[h][l].guarded
    <2>1. Refuses(p) /\ UNCHANGED dbs
      BY <1>3, <1>4, <1>6, <1>7 DEF RunStatement, Open
    <2>2. ASSUME NEW m \in DOMAIN dbs, NEW v \in Versions \ dbs[m].versions,
                 NEW k \in DOMAIN Migrations[v],
                 Migrations[v][k].object \in dbs[m].objects, ~ Migrations[v][k].guarded,
                 Past(p, m, v, k)
          PROVE  m \in bare \/ \E q \in Procs \ {p} : Past(q, m, v, k)
      <3>1. m = n /\ v = h /\ k < l /\ k \in Nat
        <4>1. m = n /\ proc[p].todo # <<>> /\ v = Head(proc[p].todo) /\ k <= proc[p].done
          BY <2>2 DEF Past
        <4>2. v = h
          BY <1>3, <4>1
        <4>3. k \in Nat
          BY <1>5, <2>2, <4>2
        <4>4. QED
          BY <1>5a, <4>1, <4>2, <4>3
      <3>2. m \in bare \/ \E q \in Procs : Past(q, m, h, l)
        BY <1>5, <1>6, <1>7, <2>2, <3>1 DEF ColumnsInv
      <3>3. ASSUME NEW q \in Procs, Past(q, m, h, l)
            PROVE  q # p /\ Past(q, m, v, k)
        <4>1. ~ (l <= proc[p].done)
          BY <1>5a
        <4>2. q # p
          BY <3>3, <4>1 DEF Past
        <4>3. proc[q].at = "migrate" /\ l <= proc[q].done
          BY <3>3 DEF Past
        <4>4. proc[q].done \in Nat
          BY <4>3, StageOf DEF Migrating
        <4>5. k <= proc[q].done
          BY <1>5a, <3>1, <4>3, <4>4
        <4>6. QED
          BY <3>1, <3>3, <4>2, <4>5 DEF Past
      <3>4. QED
        BY <3>2, <3>3
    <2>3. QED
      BY <1>1, <2>1, <2>2, StopsMigrating
  <1>8. CASE ~ (o \in dbs[n].objects /\ ~ Migrations[h][l].guarded)
    <2>1. PICK db : db = [dbs[n] EXCEPT !.objects = @ \cup {o}]
      OBVIOUS
    <2>2. PICK s : s = [proc[p] EXCEPT !.done = l]
      OBVIOUS
    <2>3. dbs' = [dbs EXCEPT ![n] = db]
      BY <1>3, <1>4, <1>6, <1>8, <2>1 DEF RunStatement, Changes, Open
    <2>4. Moved(p, s)
      BY <1>3, <1>4, <1>6, <1>8, <2>2 DEF RunStatement, Goes, Moved, Open
    <2>5. IsDatabase(dbs[n]) /\ DOMAIN dbs[n] = Fields /\ Rows(dbs)
      BY <1>2 DEF UpkeepInv, FilesOK, IsDatabase
    <2>6. /\ DOMAIN db = Fields /\ db.copies = dbs[n].copies /\ db.versions = dbs[n].versions
          /\ db.objects = dbs[n].objects \cup {o}
      BY <2>1, <2>5 DEF Fields
    <2>7. IsDatabase(db)
      BY <2>5, <2>6 DEF IsDatabase, InOrderUpTo
    <2>8. /\ DOMAIN s = StageFields /\ s.at = "migrate" /\ s.on = n /\ s.todo = Beyond(h - 1)
          /\ s.cmd = proc[p].cmd /\ s.done = l
      BY <1>1, <1>2, <1>3, <2>2 DEF StageFields
    <2>9. /\ DOMAIN dbs' = DOMAIN dbs
          /\ \A m \in DOMAIN dbs : dbs'[m] = IF m = n THEN db ELSE dbs[m]
      BY <1>2, <2>3, FileWritten DEF UpkeepInv
    <2>10. Migrating(s)'
      <3>1. h \in 1..(Newest + 1) /\ h # Newest + 1
        BY <1>3, MigrationsAssumption DEF Newest
      <3>2. s.done \in Nat /\ s.done <= Len(Migrations[h])
        BY <1>5, <2>8
      <3>3. dbs'[s.on] = db
        BY <1>2, <2>8, <2>9
      <3>4. \A k \in 1..s.done : Migrations[h][k].object \in db.objects
        <4>0. proc[p].done \in Nat /\ s.done = proc[p].done + 1 /\ l = proc[p].done + 1
          BY <1>5a, <2>8
        <4>1. \A k \in 1..s.done : k \in 1..proc[p].done \/ k = l
          BY <4>0
        <4>2. \A k \in 1..proc[p].done : Migrations[h][k].object \in dbs[n].objects
          BY <1>3 DEF Open
        <4>3. QED
          BY <1>6, <2>6, <4>1, <4>2
      <3>5. \A v \in 1..(h - 1) : v \in db.versions
        BY <1>3, <2>6 DEF Open
      <3>6. QED
        BY <2>8, <3>1, <3>2, <3>3, <3>4, <3>5 DEF Migrating
    <2>11. UpkeepInv'
      BY <1>1, <1>2, <2>3, <2>4, <2>6, <2>7, <2>8, <2>10, SchemaStep
    <2>12. ColumnsInv'
      <3>1. proc'[p] = s /\ \A q \in Procs \ {p} : proc'[q] = proc[q]
        BY <2>4 DEF Moved, UpkeepInv, StagesOK
      <3>2. ASSUME NEW m \in DOMAIN dbs', NEW v \in Versions \ dbs'[m].versions,
                   NEW k \in DOMAIN Migrations[v],
                   Migrations[v][k].object \in dbs'[m].objects, ~ Migrations[v][k].guarded
            PROVE  m \in bare' \/ \E q \in Procs : Past(q, m, v, k)'
        <4>1. m \in DOMAIN dbs /\ v \in Versions \ dbs[m].versions
          BY <2>6, <2>9, <3>2
        <4>2. CASE Migrations[v][k].object \in dbs[m].objects
          <5>1. m \in bare \/ \E q \in Procs : Past(q, m, v, k)
            BY <3>2, <4>1, <4>2 DEF ColumnsInv
          <5>2. Past(p, m, v, k) => Past(p, m, v, k)'
            <6>1. k \in Nat
              BY <3>2, MigrationsAssumption
            <6>2. QED
              BY <1>3, <1>4, <2>2, <2>8, <3>1, <6>1 DEF Past
          <5>3. \A q \in Procs \ {p} : Past(q, m, v, k) => Past(q, m, v, k)'
            BY <3>1 DEF Past
          <5>4. PICK q \in Procs : m \in bare \/ Past(q, m, v, k)
            BY <5>1
          <5>5. m \in bare \/ Past(q, m, v, k)'
            BY <5>2, <5>3, <5>4
          <5>6. QED
            BY <1>1, <5>5
        <4>3. CASE Migrations[v][k].object \notin dbs[m].objects
          <5>1. m = n /\ Migrations[v][k].object = o
            BY <2>6, <2>9, <3>2, <4>1, <4>3
          <5>2. v = h /\ k = l
            BY <1>5, <1>6, <3>2, <5>1, ColumnsAssumption
          <5>3. s.todo # <<>> /\ Head(s.todo) = v /\ k <= s.done
            <6>1. s.todo = proc[p].todo
              BY <1>3, <2>8
            <6>2. l \in Nat
              BY <1>5
            <6>3. k <= s.done
              BY <2>8, <5>2, <6>2
            <6>4. QED
              BY <1>1, <1>3, <5>2, <6>1, <6>3
          <5>4. Past(p, m, v, k)'
            BY <2>8, <3>1, <5>1, <5>3 DEF Past
          <5>5. QED
            BY <5>4
        <4>4. QED
          BY <4>2, <4>3
      <3>3. QED
        BY <3>2 DEF ColumnsInv
    <2>13. QED
      BY <2>11, <2>12
  <1>9. QED
    BY <1>7, <1>8

LEMMA RecordVersionKeeps ==
  ASSUME UpkeepInv, ColumnsInv, NEW p \in Procs, RecordVersion(p)
  PROVE  UpkeepInv' /\ ColumnsInv'
  <1>1. /\ proc[p].at = "migrate" /\ proc[p].todo # <<>> /\ proc[p].done = Len(Script(p))
        /\ UNCHANGED <<live, backups, bare>>
    BY DEF RecordVersion
  <1>2. /\ DOMAIN proc[p] = StageFields /\ proc[p].on \in DOMAIN dbs
        /\ proc[p].cmd.do \in UpkeepOrders
    BY <1>1, StageOf
  <1>3. PICK h \in Versions :
          /\ h = Head(proc[p].todo) /\ h + 1 \in 1..(Newest + 1)
          /\ Tail(proc[p].todo) = Beyond(h)
          /\ Script(p) = Migrations[h]
          /\ \A v \in 1..(h - 1) : v \in Open(p).versions
          /\ \A k \in 1..proc[p].done : Migrations[h][k].object \in Open(p).objects
    BY <1>1, Applying
  <1>4. PICK n \in DOMAIN dbs : n = proc[p].on
    BY <1>2
  <1>5. DOMAIN Migrations[h] = 1..Len(Migrations[h])
    BY <1>3, MigrationsAssumption
  <1>6. CASE h \in dbs[n].versions
    <2>1. Refuses(p) /\ UNCHANGED dbs
      BY <1>3, <1>4, <1>6 DEF RecordVersion, Open
    <2>2. \A m \in DOMAIN dbs : \A v \in Versions \ dbs[m].versions :
            \A k \in DOMAIN Migrations[v] : ~ Past(p, m, v, k)
      BY <1>3, <1>4, <1>6 DEF Past
    <2>3. QED
      BY <1>1, <2>1, <2>2, StopsMigrating
  <1>7. CASE h \notin dbs[n].versions
    <2>1. PICK db : db = [dbs[n] EXCEPT !.versions = @ \cup {h}]
      OBVIOUS
    <2>2. PICK s : s = [proc[p] EXCEPT !.todo = Tail(@), !.done = 0]
      OBVIOUS
    <2>3. dbs' = [dbs EXCEPT ![n] = db]
      BY <1>3, <1>4, <1>7, <2>1 DEF RecordVersion, Changes, Open
    <2>4. Moved(p, s)
      BY <1>3, <1>4, <1>7, <2>2 DEF RecordVersion, Goes, Moved, Open
    <2>5. IsDatabase(dbs[n]) /\ DOMAIN dbs[n] = Fields /\ Rows(dbs)
      BY <1>4 DEF UpkeepInv, FilesOK, IsDatabase
    <2>6. /\ DOMAIN db = Fields /\ db.copies = dbs[n].copies
          /\ db.versions = dbs[n].versions \cup {h} /\ db.objects = dbs[n].objects
      BY <2>1, <2>5 DEF Fields
    <2>7. IsDatabase(db)
      <3>1. PICK m \in 0..Newest : InOrderUpTo(dbs[n], m)
        BY <2>5 DEF IsDatabase
      <3>2. /\ Newest \in Nat /\ h \in 1..Newest /\ h \notin 1..m
            /\ \A v \in 1..(h - 1) : v \in 1..m
        BY <1>3, <1>4, <1>7, <3>1, MigrationsAssumption DEF Newest, InOrderUpTo, Open
      <3>3. h = m + 1
        <4>1. h > m
          BY <3>1, <3>2
        <4>2. h - 1 \notin 1..(h - 1) \/ h - 1 \in 1..m
          BY <3>2
        <4>3. QED
          BY <3>1, <3>2, <4>1, <4>2
      <3>4. Objects(h) \subseteq db.objects
        BY <1>1, <1>3, <1>4, <1>5, <2>6 DEF Objects, Open
      <3>5. db.versions = 1..(m + 1) /\ m + 1 \in 0..Newest
        BY <2>6, <3>1, <3>2, <3>3 DEF InOrderUpTo
      <3>6. \A v \in 1..(m + 1) : Objects(v) \subseteq db.objects
        <4>1. \A v \in 1..(m + 1) : v \in 1..m \/ v = h
          BY <3>1, <3>3
        <4>2. QED
          BY <2>6, <3>1, <3>4, <4>1 DEF InOrderUpTo
      <3>7. QED
        BY <2>5, <2>6, <3>5, <3>6 DEF IsDatabase, InOrderUpTo
    <2>8. /\ DOMAIN s = StageFields /\ s.at = "migrate" /\ s.on = n /\ s.todo = Beyond(h)
          /\ s.cmd = proc[p].cmd /\ s.done = 0
      BY <1>1, <1>2, <1>3, <1>4, <2>2 DEF StageFields
    <2>9. /\ DOMAIN dbs' = DOMAIN dbs
          /\ \A m \in DOMAIN dbs : dbs'[m] = IF m = n THEN db ELSE dbs[m]
      BY <1>4, <2>3, FileWritten DEF UpkeepInv
    <2>10. Migrating(s)'
      <3>1. PICK i \in 1..(Newest + 1) : i = h + 1
        BY <1>3
      <3>2. Newest \in Nat /\ h \in 1..Newest
        BY MigrationsAssumption DEF Newest
      <3>3. i - 1 = h /\ \A v \in 1..(i - 1) : v \in 1..(h - 1) \/ v = h
        BY <3>1, <3>2
      <3>4. dbs'[s.on] = db
        BY <2>8, <2>9
      <3>5. \A v \in 1..(i - 1) : v \in db.versions
        BY <1>3, <1>4, <2>6, <3>3 DEF Open
      <3>6. i # Newest + 1 => 0 <= Len(Migrations[i])
        <4>1. i # Newest + 1 => i \in Versions
          BY <3>1, <3>2, MigrationsAssumption DEF Newest
        <4>2. QED
          BY <4>1, MigrationsAssumption
      <3>7. \A k \in 1..s.done : FALSE
        BY <2>8
      <3>8. QED
        BY <2>8, <3>3, <3>4, <3>5, <3>6, <3>7 DEF Migrating
    <2>11. UpkeepInv'
      BY <1>1, <1>2, <2>3, <2>4, <2>6, <2>7, <2>8, <2>10, SchemaStep
    <2>12. ColumnsInv'
      <3>1. proc'[p] = s /\ \A q \in Procs \ {p} : proc'[q] = proc[q]
        BY <2>4 DEF Moved, UpkeepInv, StagesOK
      <3>2. ASSUME NEW m \in DOMAIN dbs', NEW v \in Versions \ dbs'[m].versions,
                   NEW k \in DOMAIN Migrations[v],
                   Migrations[v][k].object \in dbs'[m].objects, ~ Migrations[v][k].guarded
            PROVE  m \in bare' \/ \E q \in Procs : Past(q, m, v, k)'
        <4>1. /\ m \in DOMAIN dbs /\ v \in Versions \ dbs[m].versions
              /\ Migrations[v][k].object \in dbs[m].objects /\ ~ (m = n /\ v = h)
          BY <2>6, <2>9, <3>2
        <4>2. PICK q \in Procs : m \in bare \/ Past(q, m, v, k)
          BY <3>2, <4>1 DEF ColumnsInv
        <4>3. ~ Past(p, m, v, k)
          BY <1>3, <1>4, <4>1 DEF Past
        <4>4. m \in bare' \/ Past(q, m, v, k)'
          BY <1>1, <3>1, <4>2, <4>3 DEF Past
        <4>5. QED
          BY <4>4
      <3>3. QED
        BY <3>2 DEF ColumnsInv
    <2>13. QED
      BY <2>11, <2>12
  <1>8. QED
    BY <1>6, <1>7

-----------------------------------------------------------------------------
(***************************************************************************)
(* The backups.                                                            *)
(***************************************************************************)

\* Who has migrated the database it opened backs up one that is migrated: the path
\* still names that database, or one that has been restored.
LEMMA LiveIsUpgraded ==
  ASSUME UpkeepInv, NEW p \in Procs, proc[p].at \notin {"idle", "migrate"}
  PROVE  Upgraded(dbs[live]) /\ IsDatabase(dbs[live]) /\ Kept(dbs[live])
  <1>1. proc[p].on \in DOMAIN dbs /\ Upgraded(dbs[proc[p].on])
    BY StageOf
  <1>2. live \in DOMAIN dbs /\ live = Len(dbs) /\ DOMAIN dbs = 1..Len(dbs) /\ Len(dbs) \in Nat
    BY DEF UpkeepInv, FilesOK, Rows
  <1>3. live = 1 => proc[p].on = live
    BY <1>1, <1>2
  <1>4. QED
    BY <1>1, <1>2, <1>3 DEF UpkeepInv, FilesOK, KeptOK

LEMMA KeptStays ==
  ASSUME NEW d, Kept(d), CopiesStand
  PROVE  Kept(d)'
  <1>1. ASSUME NEW k \in DOMAIN d.copies
        PROVE  Holds(d.copies[k].file, d.copies[k].hash)'
    <2>1. PICK file : file = d.copies[k].file
      OBVIOUS
    <2>2. PICK hash : hash = d.copies[k].hash
      OBVIOUS
    <2>3. QED
      BY <1>1, <2>1, <2>2, HoldsStill DEF Kept
  <1>2. QED
    BY <1>1 DEF Kept

\* The parts of the invariant that are about files the step leaves as they are.
LEMMA FilesSame ==
  ASSUME UpkeepInv, UNCHANGED <<dbs, live>>, CopiesStand
  PROVE  /\ FilesOK' /\ FilesGrow
         /\ \A n \in DOMAIN dbs' : Kept(dbs[n])'
  <1>1. FilesOK' /\ FilesGrow
    BY DEF UpkeepInv, FilesOK, FilesGrow, IsDatabase, InOrderUpTo, Upgraded
  <1>2. ASSUME NEW n \in DOMAIN dbs'
        PROVE  Kept(dbs[n])'
    <2>1. n \in DOMAIN dbs /\ dbs'[n] = dbs[n] /\ Kept(dbs[n])
      BY <1>2 DEF UpkeepInv, KeptOK
    <2>2. PICK d : d = dbs[n]
      OBVIOUS
    <2>3. Kept(d)'
      BY <2>1, <2>2, KeptStays
    <2>4. QED
      BY <2>1, <2>2, <2>3
  <1>3. QED
    BY <1>1, <1>2

LEMMA BackupCreateKeeps ==
  ASSUME UpkeepInv, ColumnsInv, NEW p \in Procs, BackupCreate(p)
  PROVE  UpkeepInv' /\ ColumnsInv'
  <1>1. proc[p].at = "backup" /\ UNCHANGED <<dbs, live, bare>>
    BY DEF BackupCreate, At
  <1>2. /\ DOMAIN proc[p] = StageFields /\ proc[p].on \in DOMAIN dbs
        /\ proc[p].cmd.do \in UpkeepOrders /\ Upgraded(dbs[proc[p].on]) /\ NothingAdded(p)
    BY <1>1, StageOf
  <1>3. PICK db : db = dbs[live]
    OBVIOUS
  <1>4. Upgraded(db) /\ IsDatabase(db) /\ Kept(db)
    BY <1>1, <1>3, LiveIsUpgraded
  <1>5. PICK copy : copy = [content |-> db, copied |-> db]
    OBVIOUS
  <1>6. Rows(backups) /\ backups' = Append(backups, copy)
    BY <1>3, <1>5 DEF BackupCreate, UpkeepInv, CopiesOK
  <1>7. /\ Rows(backups') /\ Len(backups) \in Nat /\ DOMAIN backups = 1..Len(backups)
        /\ DOMAIN backups' = 1..(Len(backups) + 1)
        /\ \A f \in DOMAIN backups : backups'[f] = backups[f]
        /\ backups'[Len(backups) + 1] = copy
    BY <1>6, AppendRow
  <1>8. CopiesStand
    BY <1>7 DEF CopiesStand
  <1>9. \A f \in DOMAIN backups' : f \in DOMAIN backups \/ backups'[f] = copy
    BY <1>7
  <1>10. CopiesOK'
    <2>1. ASSUME NEW f \in DOMAIN backups'
          PROVE  /\ DOMAIN backups'[f] = {"content", "copied"}
                 /\ IsDatabase(backups'[f].content) /\ Upgraded(backups'[f].content)
      BY <1>4, <1>5, <1>7, <1>9 DEF UpkeepInv, CopiesOK
    <2>2. QED
      BY <1>7, <2>1 DEF CopiesOK, IsDatabase, InOrderUpTo, Upgraded
  <1>11. KeptOK'
    <2>1. ASSUME NEW f \in DOMAIN backups'
          PROVE  Kept(backups[f].content)'
      <3>1. PICK d : d = backups'[f].content
        OBVIOUS
      <3>2. Kept(d)
        BY <1>4, <1>5, <1>7, <1>9, <3>1 DEF UpkeepInv, KeptOK
      <3>3. Kept(d)'
        BY <1>8, <3>2, KeptStays
      <3>4. QED
        BY <3>1, <3>3
    <2>2. QED
      BY <1>1, <1>8, <2>1, FilesSame DEF KeptOK
  <1>12. PICK s : s = [proc[p] EXCEPT !.at = "hash", !.done = Len(backups) + 1]
    OBVIOUS
  <1>13. /\ DOMAIN s = StageFields /\ s.on = proc[p].on /\ s.cmd = proc[p].cmd
         /\ s.at = "hash" /\ s.done = Len(backups) + 1
    BY <1>2, <1>12 DEF StageFields
  <1>14. Moved(p, s)
    BY <1>12 DEF BackupCreate, Goes, Moved
  <1>15. StageOK(s)'
    BY <1>1, <1>2, <1>7, <1>13 DEF StageOK, Upgraded
  <1>16. FilesOK' /\ FilesGrow
    BY <1>1, <1>8, FilesSame
  <1>17. StagesOK'
    BY <1>8, <1>14, <1>15, <1>16, StagesStay DEF UpkeepInv
  <1>18. ColumnsInv'
    <2>1. SchemasKept
      BY <1>1, SameFiles DEF UpkeepInv
    <2>2. \A n, v, k : ~ Past(p, n, v, k)
      BY <1>2 DEF NothingAdded, Past
    <2>3. QED
      BY <1>1, <1>14, <2>1, <2>2, OtherColumns
  <1>19. QED
    BY <1>10, <1>11, <1>16, <1>17, <1>18 DEF UpkeepInv

LEMMA RecordBackupKeeps ==
  ASSUME UpkeepInv, ColumnsInv, NEW p \in Procs, RecordBackup(p)
  PROVE  UpkeepInv' /\ ColumnsInv'
  <1>1. proc[p].at = "row" /\ UNCHANGED <<live, backups, bare>> /\ Moved(p, resting)
    BY DEF RecordBackup, At, Goes, Moved
  <1>2. NothingAdded(p) /\ Holds(proc[p].done, Head(proc[p].todo))
    BY <1>1, StageOf
  <1>3. PICK n \in DOMAIN dbs : n = proc[p].on
    BY <1>1, StageOf
  <1>4. PICK row : row = [file |-> proc[p].done, hash |-> Head(proc[p].todo)]
    OBVIOUS
  <1>5. PICK db : db = [dbs[n] EXCEPT !.log = @ \cup {"backup.create"},
                                      !.copies = Append(@, row)]
    OBVIOUS
  <1>6. dbs' = [dbs EXCEPT ![n] = db]
    BY <1>3, <1>4, <1>5 DEF RecordBackup, Changes, Open
  <1>7. IsDatabase(dbs[n]) /\ Kept(dbs[n]) /\ DOMAIN dbs[n] = Fields /\ Rows(dbs[n].copies)
    BY DEF UpkeepInv, FilesOK, KeptOK, IsDatabase
  <1>8. /\ DOMAIN db = Fields /\ db.versions = dbs[n].versions /\ db.objects = dbs[n].objects
        /\ db.copies = Append(dbs[n].copies, row)
    BY <1>5, <1>7 DEF Fields
  <1>9. /\ Rows(db.copies) /\ Len(dbs[n].copies) \in Nat
        /\ DOMAIN dbs[n].copies = 1..Len(dbs[n].copies)
        /\ DOMAIN db.copies = 1..(Len(dbs[n].copies) + 1)
        /\ \A k \in DOMAIN dbs[n].copies : db.copies[k] = dbs[n].copies[k]
        /\ db.copies[Len(dbs[n].copies) + 1] = row
    BY <1>7, <1>8, AppendRow
  <1>10. Kept(db)
    <2>1. ASSUME NEW k \in DOMAIN db.copies
          PROVE  Holds(db.copies[k].file, db.copies[k].hash)
      <3>1. k \in DOMAIN dbs[n].copies \/ k = Len(dbs[n].copies) + 1
        BY <1>9
      <3>2. Holds(row.file, row.hash)
        BY <1>2, <1>4
      <3>3. QED
        BY <1>7, <1>9, <3>1, <3>2 DEF Kept
    <2>2. QED
      BY <2>1 DEF Kept
  <1>11. IsDatabase(db)
    BY <1>7, <1>8, <1>9 DEF IsDatabase, InOrderUpTo
  <1>12. /\ Rows(dbs') /\ DOMAIN dbs' = DOMAIN dbs /\ Len(dbs') = Len(dbs)
         /\ \A m \in DOMAIN dbs : dbs'[m] = IF m = n THEN db ELSE dbs[m]
    BY <1>6, FileWritten DEF UpkeepInv
  <1>13. FilesOK'
    <2>1. ASSUME NEW m \in DOMAIN dbs'
          PROVE  IsDatabase(dbs'[m]) /\ (m # 1 => Upgraded(dbs'[m]))
      BY <1>8, <1>11, <1>12 DEF UpkeepInv, FilesOK, Upgraded
    <2>2. QED
      BY <1>1, <1>12, <2>1 DEF UpkeepInv, FilesOK, IsDatabase, InOrderUpTo, Upgraded
  <1>14. FilesGrow
    BY <1>8, <1>12 DEF FilesGrow
  <1>15. CopiesStand
    BY <1>1 DEF CopiesStand
  <1>16. CopiesOK'
    BY <1>1 DEF UpkeepInv, CopiesOK, IsDatabase, InOrderUpTo, Upgraded
  <1>17. KeptOK'
    <2>1. ASSUME NEW m \in DOMAIN dbs'
          PROVE  Kept(dbs'[m])
      BY <1>10, <1>12 DEF UpkeepInv, KeptOK
    <2>2. QED
      BY <1>1, <2>1 DEF UpkeepInv, KeptOK, Kept, Holds
  <1>18. StagesOK'
    <2>1. StageOK(resting)'
      BY DEF StageOK
    <2>2. QED
      BY <1>1, <1>13, <1>14, <1>15, <2>1, StagesStay DEF UpkeepInv
  <1>19. UpkeepInv'
    BY <1>13, <1>16, <1>17, <1>18 DEF UpkeepInv
  <1>20. ColumnsInv'
    <2>1. ASSUME NEW m \in DOMAIN dbs', NEW v \in Versions \ dbs'[m].versions,
                 NEW k \in DOMAIN Migrations[v],
                 Migrations[v][k].object \in dbs'[m].objects, ~ Migrations[v][k].guarded
          PROVE  m \in bare' \/ \E q \in Procs : Past(q, m, v, k)'
      <3>1. PICK q \in Procs : m \in bare \/ Past(q, m, v, k)
        BY <1>8, <1>12, <2>1 DEF ColumnsInv
      <3>2. \A q2 \in Procs \ {p} : proc'[q2] = proc[q2]
        BY <1>1 DEF Moved, UpkeepInv, StagesOK
      <3>3. m \in bare' \/ Past(q, m, v, k)'
        BY <1>1, <1>2, <3>1, <3>2 DEF Past, NothingAdded
      <3>4. QED
        BY <3>3
    <2>2. QED
      BY <2>1 DEF ColumnsInv
  <1>21. QED
    BY <1>19, <1>20

LEMMA ReplaceKeeps ==
  ASSUME UpkeepInv, ColumnsInv, NEW p \in Procs, ReplaceDatabase(p)
  PROVE  UpkeepInv' /\ ColumnsInv'
  <1>1. proc[p].at = "replace" /\ UNCHANGED <<backups, bare>>
    BY DEF ReplaceDatabase, At
  <1>2. /\ DOMAIN proc[p] = StageFields /\ proc[p].on \in DOMAIN dbs
        /\ proc[p].cmd.do \in UpkeepOrders /\ Upgraded(dbs[proc[p].on]) /\ NothingAdded(p)
        /\ proc[p].done \in DOMAIN backups
    BY <1>1, StageOf
  <1>3. PICK db : db = backups[proc[p].done].content
    OBVIOUS
  <1>4. IsDatabase(db) /\ Upgraded(db) /\ Kept(db)
    BY <1>2, <1>3 DEF UpkeepInv, CopiesOK, KeptOK
  <1>5. Rows(dbs) /\ dbs' = Append(dbs, db) /\ live' = Len(dbs) + 1
    BY <1>3 DEF ReplaceDatabase, UpkeepInv, FilesOK
  <1>6. /\ Rows(dbs') /\ Len(dbs) \in Nat /\ DOMAIN dbs = 1..Len(dbs)
        /\ Len(dbs') = Len(dbs) + 1 /\ DOMAIN dbs' = 1..(Len(dbs) + 1)
        /\ \A n \in DOMAIN dbs : dbs'[n] = dbs[n]
        /\ dbs'[Len(dbs) + 1] = db
    BY <1>5, AppendRow
  <1>7. \A n \in DOMAIN dbs' : (n \in DOMAIN dbs /\ dbs'[n] = dbs[n]) \/ dbs'[n] = db
    BY <1>6
  <1>8. FilesOK'
    <2>1. ASSUME NEW n \in DOMAIN dbs'
          PROVE  IsDatabase(dbs'[n]) /\ (n # 1 => Upgraded(dbs'[n]))
      BY <1>4, <1>7 DEF UpkeepInv, FilesOK
    <2>2. live' \in DOMAIN dbs' /\ live' = Len(dbs')
      BY <1>5, <1>6
    <2>3. QED
      BY <1>6, <2>1, <2>2 DEF FilesOK, IsDatabase, InOrderUpTo, Upgraded
  <1>9. FilesGrow
    BY <1>6 DEF FilesGrow
  <1>10. CopiesStand
    BY <1>1 DEF CopiesStand
  <1>11. CopiesOK'
    BY <1>1 DEF UpkeepInv, CopiesOK, IsDatabase, InOrderUpTo, Upgraded
  <1>12. KeptOK'
    <2>1. ASSUME NEW n \in DOMAIN dbs'
          PROVE  Kept(dbs'[n])
      BY <1>4, <1>7 DEF UpkeepInv, KeptOK
    <2>2. QED
      BY <1>1, <2>1 DEF UpkeepInv, KeptOK, Kept, Holds
  <1>13. PICK s : s = [proc[p] EXCEPT !.at = "audit"]
    OBVIOUS
  <1>14. /\ DOMAIN s = StageFields /\ s.on = proc[p].on /\ s.cmd = proc[p].cmd /\ s.at = "audit"
    BY <1>2, <1>13 DEF StageFields
  <1>15. Moved(p, s)
    BY <1>13 DEF ReplaceDatabase, Goes, Moved
  <1>16. StageOK(s)'
    BY <1>2, <1>6, <1>14 DEF StageOK, Upgraded
  <1>17. StagesOK'
    BY <1>8, <1>9, <1>10, <1>15, <1>16, StagesStay DEF UpkeepInv
  <1>18. UpkeepInv'
    BY <1>8, <1>11, <1>12, <1>17 DEF UpkeepInv
  <1>19. ColumnsInv'
    <2>1. ASSUME NEW m \in DOMAIN dbs', NEW v \in Versions \ dbs'[m].versions,
                 NEW k \in DOMAIN Migrations[v],
                 Migrations[v][k].object \in dbs'[m].objects, ~ Migrations[v][k].guarded
          PROVE  m \in bare' \/ \E q \in Procs : Past(q, m, v, k)'
      <3>1. m \in DOMAIN dbs /\ dbs'[m] = dbs[m]
        BY <1>4, <1>7, <2>1 DEF Upgraded
      <3>2. PICK q \in Procs : m \in bare \/ Past(q, m, v, k)
        BY <2>1, <3>1 DEF ColumnsInv
      <3>3. \A q2 \in Procs \ {p} : proc'[q2] = proc[q2]
        BY <1>15 DEF Moved, UpkeepInv, StagesOK
      <3>4. m \in bare' \/ Past(q, m, v, k)'
        BY <1>1, <1>2, <3>2, <3>3 DEF Past, NothingAdded
      <3>5. QED
        BY <3>4
    <2>2. QED
      BY <2>1 DEF ColumnsInv
  <1>20. QED
    BY <1>18, <1>19

LEMMA AlteredKeeps ==
  ASSUME UpkeepInv, ColumnsInv, NEW file, Altered(file)
  PROVE  UpkeepInv' /\ ColumnsInv'
  <1>1. /\ file \in DOMAIN backups /\ UNCHANGED <<dbs, live, bare, proc>>
        /\ backups' = [backups EXCEPT ![file].content.log = @ \cup {"altered"}]
    BY DEF Altered, consoleVars, deskVars
  <1>2. PICK b : b = [backups[file] EXCEPT !.content.log = @ \cup {"altered"}]
    OBVIOUS
  <1>3. Rows(backups) /\ backups' = [backups EXCEPT ![file] = b]
    BY <1>1, <1>2 DEF UpkeepInv, CopiesOK
  <1>4. /\ Rows(backups') /\ DOMAIN backups' = DOMAIN backups
        /\ \A f \in DOMAIN backups : backups'[f] = IF f = file THEN b ELSE backups[f]
    <2>1. file \in DOMAIN backups
      BY <1>1
    <2>2. QED
      BY <1>3, <2>1, UpdateRow
  <1>5. PICK c : c = backups[file].content
    OBVIOUS
  <1>6. /\ DOMAIN backups[file] = {"content", "copied"} /\ IsDatabase(c) /\ Upgraded(c)
        /\ DOMAIN c = Fields
    BY <1>1, <1>5 DEF UpkeepInv, CopiesOK, IsDatabase
  <1>7. DOMAIN b = {"content", "copied"} /\ b.content = [c EXCEPT !.log = @ \cup {"altered"}]
    BY <1>2, <1>5, <1>6
  <1>8. /\ DOMAIN b.content = Fields /\ b.content.versions = c.versions
        /\ b.content.objects = c.objects /\ b.content.copies = c.copies
        /\ "altered" \in b.content.log
    BY <1>6, <1>7 DEF Fields
  <1>9. CopiesStand
    BY <1>4, <1>8 DEF CopiesStand
  <1>10. FilesOK' /\ FilesGrow /\ \A n \in DOMAIN dbs' : Kept(dbs[n])'
    BY <1>1, <1>9, FilesSame
  <1>11. CopiesOK'
    <2>1. IsDatabase(b.content) /\ Upgraded(b.content)
      BY <1>6, <1>8 DEF IsDatabase, InOrderUpTo, Upgraded
    <2>2. ASSUME NEW f \in DOMAIN backups'
          PROVE  /\ DOMAIN backups'[f] = {"content", "copied"}
                 /\ IsDatabase(backups'[f].content) /\ Upgraded(backups'[f].content)
      BY <1>4, <1>7, <2>1 DEF UpkeepInv, CopiesOK
    <2>3. QED
      BY <1>4, <2>2 DEF CopiesOK, IsDatabase, InOrderUpTo, Upgraded
  <1>12. KeptOK'
    <2>1. ASSUME NEW f \in DOMAIN backups'
          PROVE  Kept(backups[f].content)'
      <3>1. PICK d : d = backups'[f].content
        OBVIOUS
      <3>2. Kept(d)
        BY <1>1, <1>4, <1>5, <1>8, <3>1 DEF UpkeepInv, KeptOK, Kept
      <3>3. Kept(d)'
        BY <1>9, <3>2, KeptStays
      <3>4. QED
        BY <3>1, <3>3
    <2>2. QED
      BY <1>10, <2>1 DEF KeptOK
  <1>13. FilesOK
    BY DEF UpkeepInv
  <1>14. StagesOK'
    <2>1. ASSUME NEW q \in Procs
          PROVE  StageOK(proc[q])'
      <3>1. PICK s : s = proc[q]
        OBVIOUS
      <3>2. StageOK(s)'
        BY <1>9, <1>10, <1>13, <3>1, StageStays DEF UpkeepInv, StagesOK
      <3>3. QED
        BY <1>1, <3>1, <3>2
    <2>2. QED
      BY <1>1, <2>1 DEF UpkeepInv, StagesOK
  <1>15. ColumnsInv'
    BY <1>1 DEF ColumnsInv, Past
  <1>16. QED
    BY <1>10, <1>11, <1>12, <1>14, <1>15 DEF UpkeepInv

-----------------------------------------------------------------------------
(***************************************************************************)
(* The theorems about Upkeep.                                              *)
(***************************************************************************)

LEMMA UpkeepStarts ==
  ASSUME DeskInit, UpkeepInit
  PROVE  UpkeepInv /\ ColumnsInv
  <1>1. PICK db : db = Database(OldVersion)
    OBVIOUS
  <1>2. dbs = <<db>> /\ live = 1 /\ backups = <<>>
    BY <1>1 DEF UpkeepInit
  <1>3. DOMAIN dbs = {1} /\ dbs[1] = db /\ Len(dbs) = 1 /\ DOMAIN backups = {}
    BY <1>2
  <1>4. Rows(dbs) /\ Rows(backups)
    <2>1. <<db>> \in Seq({db})
      OBVIOUS
    <2>2. {dbs[i] : i \in DOMAIN dbs} = {db}
      BY <1>3
    <2>3. QED
      BY <1>2, <2>1, <2>2 DEF Rows
  <1>5. OldVersion \in 0..Newest
    BY MigrationsAssumption DEF Newest
  <1>6. /\ DOMAIN db = Fields /\ db.versions = 1..OldVersion /\ db.copies = <<>>
        /\ db.objects = UNION {Objects(u) : u \in 1..OldVersion}
    BY <1>1 DEF Database, Fields
  <1>7. IsDatabase(db)
    <2>1. Rows(<<>>)
      BY DEF Rows
    <2>2. \A v \in 1..OldVersion : Objects(v) \subseteq db.objects
      BY <1>6
    <2>3. QED
      BY <1>5, <1>6, <2>1, <2>2 DEF IsDatabase, InOrderUpTo
  <1>8. FilesOK /\ CopiesOK
    BY <1>2, <1>3, <1>4, <1>7 DEF FilesOK, CopiesOK
  <1>9. KeptOK
    BY <1>3, <1>6 DEF KeptOK, Kept
  <1>10. StagesOK
    BY DEF DeskInit, StagesOK, StageOK
  <1>11. ColumnsInv
    <2>1. ASSUME NEW v \in Versions \ db.versions, NEW k \in DOMAIN Migrations[v],
                 Migrations[v][k].object \in db.objects, ~ Migrations[v][k].guarded
          PROVE  FALSE
      <3>1. PICK u \in 1..OldVersion : Migrations[v][k].object \in Objects(u)
        BY <1>6, <2>1
      <3>2. PICK l \in DOMAIN Migrations[u] : Migrations[u][l].object = Migrations[v][k].object
        BY <3>1 DEF Objects
      <3>3. u \in Versions
        BY <1>5, <3>1, MigrationsAssumption DEF Newest
      <3>4. v = u
        BY <2>1, <3>2, <3>3, ColumnsAssumption
      <3>5. QED
        BY <1>6, <2>1, <3>1, <3>4
    <2>2. QED
      BY <1>3, <2>1 DEF ColumnsInv
  <1>12. QED
    BY <1>8, <1>9, <1>10, <1>11 DEF UpkeepInv

LEMMA UpkeepKeeps ==
  ASSUME UpkeepInv, ColumnsInv, [UpkeepNext]_upkeepVars
  PROVE  UpkeepInv' /\ ColumnsInv'
  <1>1. CASE UNCHANGED upkeepVars
    <2>1. UNCHANGED <<dbs, live, backups, bare, proc>>
      BY <1>1 DEF upkeepVars, upkeepRecords, consoleVars, deskVars
    <2>2. FilesOK' /\ CopiesOK' /\ KeptOK'
      BY <2>1 DEF UpkeepInv, FilesOK, CopiesOK, KeptOK, Kept, Holds, IsDatabase, InOrderUpTo,
                  Upgraded
    <2>3. StagesOK'
      BY <2>1 DEF UpkeepInv, StagesOK, StageOK, Migrating, Upgraded, Holds
    <2>4. ColumnsInv'
      BY <2>1 DEF ColumnsInv, Past
    <2>5. QED
      BY <2>2, <2>3, <2>4 DEF UpkeepInv
  <1>2. CASE \E file \in DOMAIN backups : Altered(file)
    BY <1>2, AlteredKeeps
  <1>3. ASSUME NEW p \in Procs, NEW cmd, cmd.do \in UpkeepOrders, UpkeepStart(p, cmd)
        PROVE  UpkeepInv' /\ ColumnsInv'
    BY <1>3, StartBesides, BesidesKeep
  <1>4. CASE \E p \in Procs, do \in UpkeepOrders, id \in 0..MaxScans, yes \in BOOLEAN,
                scope \in Scopes :
               UpkeepStart(p, [do |-> do, id |-> id, yes |-> yes, scope |-> scope])
    <2>1. PICK p \in Procs, do \in UpkeepOrders, id \in 0..MaxScans, yes \in BOOLEAN,
               scope \in Scopes :
                 UpkeepStart(p, [do |-> do, id |-> id, yes |-> yes, scope |-> scope])
      BY <1>4
    <2>2. PICK cmd : cmd = [do |-> do, id |-> id, yes |-> yes, scope |-> scope]
      OBVIOUS
    <2>3. cmd.do \in UpkeepOrders /\ UpkeepStart(p, cmd)
      BY <2>1, <2>2
    <2>4. QED
      BY <1>3, <2>3
  <1>5. ASSUME NEW p \in Procs, UpkeepStep(p)
        PROVE  UpkeepInv' /\ ColumnsInv'
    <2>1. CASE MigrationStep(p)
      BY <2>1, RunStatementKeeps, RecordVersionKeeps, MigratedBesides, BesidesKeep
         DEF MigrationStep
    <2>2. CASE BackupStep(p)
      BY <2>2, BackupCreateKeeps, HashBesides, RecordBackupKeeps, ReadingBesides, BesidesKeep
         DEF BackupStep
    <2>3. CASE RestoreStep(p)
      BY <2>3, RestoreBesides, ReplaceKeeps, WritingBesides, BesidesKeep DEF RestoreStep
    <2>4. CASE ReadinessStep(p)
      BY <2>4, ReadingBesides, WritingBesides, BesidesKeep DEF ReadinessStep
    <2>5. CASE ChangeStep(p)
      BY <2>5, ReadingBesides, WritingBesides, GoingBesides, BesidesKeep DEF ChangeStep
    <2>6. CASE UpkeepKilled(p)
      BY <2>6, KilledKeeps
    <2>7. QED
      BY <1>5, <2>1, <2>2, <2>3, <2>4, <2>5, <2>6 DEF UpkeepStep
  <1>6. QED
    BY <1>1, <1>2, <1>4, <1>5 DEF UpkeepNext

LEMMA UpkeepInvariant == UpkeepSpec => [](UpkeepInv /\ ColumnsInv)
  <1>1. DeskInit /\ ConsoleInit /\ UpkeepInit => UpkeepInv /\ ColumnsInv
    BY UpkeepStarts
  <1>2. UpkeepInv /\ ColumnsInv /\ [UpkeepNext]_upkeepVars => (UpkeepInv /\ ColumnsInv)'
    BY UpkeepKeeps
  <1>3. QED
    BY <1>1, <1>2, PTL DEF UpkeepSpec

\* The path of the database names a file there is, only versions that have a migration
\* are recorded, and the rows of backups name backup files there are.
THEOREM UpkeepTypesCorrect == UpkeepSpec => []UpkeepTypeOK
  <1>1. UpkeepInv => UpkeepTypeOK
    <2>1. SUFFICES ASSUME UpkeepInv
                   PROVE  UpkeepTypeOK
      OBVIOUS
    <2>2. \A n \in DOMAIN dbs : dbs[n].versions \subseteq Versions
      BY <2>1, DatabaseVersions DEF UpkeepInv, FilesOK
    <2>3. QED
      BY <2>1, <2>2 DEF UpkeepInv, FilesOK, KeptOK, Kept, Holds, UpkeepTypeOK
  <1>2. QED
    BY <1>1, UpkeepInvariant, PTL

\* Neither two starts at once, nor a restore, leave a database whose recorded versions
\* lack what their migrations make, or one with a column of a version that is not
\* recorded and nobody is about to record; only a kill inside a migration does
\* (MigrationRunner.apply, BackupService.restore).
THEOREM SchemaStaysWhole == UpkeepSpec => []SchemaIsWhole
  <1>1. UpkeepInv /\ ColumnsInv => SchemaIsWhole
    <2>1. SUFFICES ASSUME UpkeepInv, ColumnsInv
                   PROVE  SchemaIsWhole
      OBVIOUS
    <2>2. ASSUME NEW n \in DOMAIN dbs
          PROVE  /\ \A v \in dbs[n].versions : Objects(v) \subseteq dbs[n].objects
                 /\ PendingMigrations(dbs[n]) = Versions \ dbs[n].versions
      BY <2>1, DatabaseVersions DEF UpkeepInv, FilesOK
    <2>3. ASSUME NEW n \in DOMAIN dbs, NEW v \in PendingMigrations(dbs[n]),
                 NEW k \in DOMAIN Migrations[v],
                 Migrations[v][k].object \in dbs[n].objects, ~ Migrations[v][k].guarded
          PROVE  n \in bare \/ \E p \in Procs : proc[p].at = "migrate" /\ proc[p].on = n
      <3>1. v \in Versions \ dbs[n].versions
        BY <2>2, <2>3
      <3>2. n \in bare \/ \E p \in Procs : Past(p, n, v, k)
        BY <2>1, <2>3, <3>1 DEF ColumnsInv
      <3>3. QED
        BY <3>2 DEF Past
    <2>4. QED
      BY <2>2, <2>3 DEF SchemaIsWhole
  <1>2. QED
    BY <1>1, UpkeepInvariant, PTL

\* Whatever is backed up, restored or written meanwhile, a listed backup verifies,
\* unless somebody has written to its file (BackupService.create, verify, restore).
THEOREM BackupsStayVerified == UpkeepSpec => []BackupsVerify
  <1>1. UpkeepInv => BackupsVerify
    BY DEF UpkeepInv, FilesOK, KeptOK, Kept, Holds, BackupsVerify, Verified
  <1>2. QED
    BY <1>1, UpkeepInvariant, PTL

-----------------------------------------------------------------------------
(***************************************************************************)
(* Automation: the invariant.                                              *)
(***************************************************************************)

WorkflowRow == [steps : StepLists \ {<<>>}, version : Nat \ {0}, enabled : BOOLEAN]

TriggerFields == {"event", "glob", "workflow", "field", "status", "fired"}

RunFields == {"at", "definition", "todo", "fired", "trigger", "row", "view"}

AutomationTyped ==
  /\ workflows \in [Names -> WorkflowRow \cup {NONE}]
  /\ Rows(triggers) /\ Rows(runs)
  /\ \A n \in DOMAIN triggers :
       DOMAIN triggers[n] = TriggerFields /\ triggers[n].status \in {"on", "off", "gone"}
  /\ \A r \in DOMAIN runs :
       /\ DOMAIN runs[r] = {"definition", "status"}
       /\ runs[r].status \in {"running", "completed", "failed"}

\* What the stage of a process says of the stored workflows.
EditOK(s) ==
  /\ s.name \in Names /\ workflows[s.name] # NONE
  /\ s.steps \in StepLists \cup {<<>>} /\ s.enabled \in {TRUE, FALSE, NONE}

AutomationStage(s) ==
  \/ s = resting
  \/ DOMAIN s = {"at", "name", "steps", "enabled"} /\ s.at = "edit" /\ EditOK(s)
  \/ DOMAIN s = RunFields /\ s.at \in {"run", "running", "mark", "fire"}

AutomationStages ==
  proc = [p \in Procs |-> proc[p]] /\ \A p \in Procs : AutomationStage(proc[p])

\* A definition that was read from a row has at most the version the row has now,
\* and the steps of the row while that has not changed.
Grounded(d) ==
  d.origin = "custom" =>
    /\ d.name \in Names /\ workflows[d.name] # NONE /\ d.version \in Nat
    /\ d.version <= workflows[d.name].version
    /\ d.version = workflows[d.name].version => d.steps = workflows[d.name].steps

Agree(d, e) ==
  d.origin = "custom" /\ e.origin = "custom" /\ d.name = e.name /\ d.version = e.version
    => d.steps = e.steps

\* The definitions that have run, and those about to.
InRun(d) == \E r \in DOMAIN runs : d = runs[r].definition
InHand(d) == \E p \in Procs : proc[p].at = "run" /\ d = proc[p].definition
Carried(d) == InRun(d) \/ InHand(d)

VersionsOK ==
  /\ \A d : Carried(d) => Grounded(d)
  /\ \A d, e : Carried(d) /\ Carried(e) => Agree(d, e)

AutomationInv == AutomationTyped /\ AutomationStages /\ VersionsOK

-----------------------------------------------------------------------------
(***************************************************************************)
(* Lemmas about stored workflows.                                          *)
(***************************************************************************)

LEMMA RowIsThere ==
  ASSUME NEW row \in WorkflowRow
  PROVE  row # NONE
  BY StoredAssumption DEF WorkflowRow

\* What a name resolves to agrees with all that was read before.
LEMMA ResolvedAgrees ==
  ASSUME AutomationInv, NEW name, NEW d, d = Resolve(name), d # NONE
  PROVE  /\ Grounded(d)
         /\ \A e : Carried(e) => Agree(d, e) /\ Agree(e, d)
  <1>1. CASE d.origin # "custom"
    BY <1>1 DEF Grounded, Agree
  <1>2. CASE d.origin = "custom"
    <2>1. /\ name \in Names /\ workflows[name] # NONE
          /\ d = Definition(name, workflows[name].steps, workflows[name].version, "custom")
      BY <1>2 DEF Resolve, Definition
    <2>2. /\ d.name = name /\ d.version = workflows[name].version
          /\ d.steps = workflows[name].steps
      BY <2>1 DEF Definition
    <2>3. workflows[name] \in WorkflowRow
      BY <2>1 DEF AutomationInv, AutomationTyped
    <2>4. d.version \in Nat
      BY <2>2, <2>3 DEF WorkflowRow
    <2>5. Grounded(d)
      BY <2>1, <2>2, <2>4 DEF Grounded
    <2>6. ASSUME NEW e, Carried(e)
          PROVE  Agree(d, e) /\ Agree(e, d)
      <3>1. Grounded(e)
        BY <2>6 DEF AutomationInv, VersionsOK
      <3>2. QED
        BY <2>2, <3>1 DEF Grounded, Agree
    <2>7. QED
      BY <2>5, <2>6
  <1>3. QED
    BY <1>1, <1>2

\* Process p goes to a stage that carries no definition but one that is carried already,
\* or one that a name resolves to.
Carries(p, s) ==
  /\ proc' = [proc EXCEPT ![p] = s]
  /\ s.at = "run" => Carried(s.definition) \/ \E name : s.definition = Resolve(name)
                                                        /\ Resolve(name) # NONE

\* A step that changes no stored workflow and no run.
LEMMA WorkflowsStay ==
  ASSUME AutomationInv, UNCHANGED workflows, AutomationTyped',
         \A d : InRun(d)' => Carried(d),
         NEW p \in Procs, NEW s, Carries(p, s), AutomationStage(s)
  PROVE  AutomationInv'
  <1>1. /\ proc' = [q \in Procs |-> proc'[q]]
        /\ proc'[p] = s /\ \A q \in Procs \ {p} : proc'[q] = proc[q]
    BY DEF Carries, AutomationInv, AutomationStages
  <1>2. AutomationStages'
    <2>1. ASSUME NEW q \in Procs
          PROVE  AutomationStage(proc'[q])
      BY <1>1 DEF AutomationInv, AutomationStages
    <2>2. QED
      BY <1>1, <2>1 DEF AutomationStages, AutomationStage, EditOK
  <1>3. ASSUME NEW d, Carried(d)'
        PROVE  Carried(d) \/ \E name : d = Resolve(name) /\ Resolve(name) # NONE
    <2>1. CASE InRun(d)'
      BY <2>1
    <2>2. CASE InHand(d)'
      <3>1. PICK q \in Procs : proc'[q].at = "run" /\ d = proc'[q].definition
        BY <2>2 DEF InHand
      <3>2. CASE q = p
        BY <1>1, <3>1, <3>2 DEF Carries
      <3>3. CASE q # p
        BY <1>1, <3>1, <3>3 DEF Carried, InHand
      <3>4. QED
        BY <3>2, <3>3
    <2>3. QED
      BY <1>3, <2>1, <2>2 DEF Carried
  <1>4. ASSUME NEW d, Carried(d)'
        PROVE  Grounded(d)
    BY <1>3, <1>4, ResolvedAgrees DEF AutomationInv, VersionsOK
  <1>5. ASSUME NEW d, NEW e, Carried(d)', Carried(e)'
        PROVE  Agree(d, e)
    <2>1. CASE Carried(d) /\ Carried(e)
      BY <2>1 DEF AutomationInv, VersionsOK
    <2>2. CASE Carried(d) /\ ~ Carried(e)
      BY <1>3, <1>5, <2>2, ResolvedAgrees
    <2>3. CASE ~ Carried(d) /\ Carried(e)
      BY <1>3, <1>5, <2>3, ResolvedAgrees
    <2>4. CASE ~ Carried(d) /\ ~ Carried(e)
      <3>1. proc'[p].at = "run" /\ d = s.definition /\ e = s.definition
        BY <1>1, <1>5, <2>4 DEF Carried, InHand
      <3>2. QED
        BY <3>1 DEF Agree
    <2>5. QED
      BY <2>1, <2>2, <2>3, <2>4
  <1>6. VersionsOK'
    <2>1. \A d : Carried(d)' => Grounded(d)'
      BY <1>4 DEF Grounded
    <2>2. \A d, e : Carried(d)' /\ Carried(e)' => Agree(d, e)'
      BY <1>5 DEF Agree
    <2>3. QED
      BY <2>1, <2>2 DEF VersionsOK
  <1>7. QED
    BY <1>2, <1>6 DEF AutomationInv

-----------------------------------------------------------------------------
(***************************************************************************)
(* The steps of Automation.                                                *)
(***************************************************************************)

TypedTriggers ==
  /\ Rows(triggers)
  /\ \A n \in DOMAIN triggers :
       DOMAIN triggers[n] = TriggerFields /\ triggers[n].status \in {"on", "off", "gone"}

\* Steps that at most write a trigger, or a notification.
LEMMA NoRunWritten ==
  ASSUME AutomationInv, UNCHANGED <<workflows, runs>>, TypedTriggers',
         NEW p \in Procs, NEW s, Carries(p, s), AutomationStage(s)
  PROVE  AutomationInv'
  <1>1. AutomationTyped'
    BY DEF AutomationInv, AutomationTyped, TypedTriggers, WorkflowRow
  <1>2. \A d : InRun(d)' => Carried(d)
    BY DEF InRun, Carried
  <1>3. QED
    BY <1>1, <1>2, WorkflowsStay

LEMMA TriggersStay ==
  ASSUME AutomationInv, UNCHANGED triggers
  PROVE  TypedTriggers'
  BY DEF AutomationInv, AutomationTyped, TypedTriggers

LEMMA RestingCarries ==
  ASSUME NEW p \in Procs, proc' = [proc EXCEPT ![p] = resting]
  PROVE  Carries(p, resting) /\ AutomationStage(resting)
  BY DEF Carries, AutomationStage, resting

LEMMA StageOfRun ==
  ASSUME AutomationInv, NEW p \in Procs, proc[p].at \in {"run", "running", "mark", "fire"}
  PROVE  DOMAIN proc[p] = RunFields
  BY DEF AutomationInv, AutomationStages, AutomationStage, resting

\* Commands of one statement that write neither a workflow nor a run.
LEMMA OneStatement ==
  ASSUME AutomationInv, NEW t \in Procs,
         Commands(t) \/ Refuses(t) \/ Goes(t, resting),
         UNCHANGED <<workflows, runs>>, TypedTriggers'
  PROVE  AutomationInv'
  <1>1. proc' = [proc EXCEPT ![t] = resting]
    BY DEF Commands, Starts, Refuses, Ends, Goes
  <1>2. QED
    BY <1>1, RestingCarries, NoRunWritten

LEMMA ReadsOnly ==
  ASSUME AutomationInv, NEW t \in Procs, NEW answer, Reads(t, answer), UNCHANGED automationRecords
  PROVE  AutomationInv'
  BY OneStatement, TriggersStay DEF Reads, automationRecords

\* A process starts a run of what a name resolves to.
LEMMA RunStarts ==
  ASSUME AutomationInv, NEW t \in Procs, NEW name, Resolve(name) # NONE, NEW s,
         UNCHANGED automationRecords, proc' = [proc EXCEPT ![t] = s],
         DOMAIN s = RunFields, s.at = "run", s.definition = Resolve(name)
  PROVE  AutomationInv'
  <1>1. Carries(t, s)
    BY DEF Carries
  <1>2. AutomationStage(s)
    BY DEF AutomationStage
  <1>3. TypedTriggers' /\ UNCHANGED <<workflows, runs>>
    BY TriggersStay DEF automationRecords
  <1>4. QED
    BY <1>1, <1>2, <1>3, NoRunWritten

LEMMA WorkflowRunKeeps ==
  ASSUME AutomationInv, NEW t \in Procs, NEW name, NEW dry \in BOOLEAN, NEW known,
         NEW permitted, NEW allowed, NEW view,
         \/ WorkflowRun(t, name, dry, known, permitted, allowed)
         \/ Assess(t, name, view, dry, known, permitted, allowed)
  PROVE  AutomationInv'
  <1>1. UNCHANGED automationRecords /\ Resolve(name) # NONE
    BY DEF WorkflowRun, Assess
  <1>2. PICK v : v \in {"plain", view} /\
          \/ \E answer : Reads(t, answer)
          \/ Starts(t, [at |-> "run", definition |-> Resolve(name), todo |-> <<>>, fired |-> <<>>,
                        trigger |-> 0, row |-> 0, view |-> v])
    <2>1. CASE WorkflowRun(t, name, dry, known, permitted, allowed)
      BY <2>1 DEF WorkflowRun
    <2>2. CASE Assess(t, name, view, dry, known, permitted, allowed)
      BY <2>2 DEF Assess
    <2>3. QED
      BY <2>1, <2>2
  <1>3. CASE \E answer : Reads(t, answer)
    BY <1>1, <1>3, ReadsOnly
  <1>4. CASE Starts(t, [at |-> "run", definition |-> Resolve(name), todo |-> <<>>, fired |-> <<>>,
                        trigger |-> 0, row |-> 0, view |-> v])
    <2>1. PICK s : s = [at |-> "run", definition |-> Resolve(name), todo |-> <<>>,
                        fired |-> <<>>, trigger |-> 0, row |-> 0, view |-> v]
      OBVIOUS
    <2>2. DOMAIN s = RunFields /\ s.at = "run" /\ s.definition = Resolve(name)
      BY <2>1 DEF RunFields
    <2>3. proc' = [proc EXCEPT ![t] = s]
      BY <1>4, <2>1 DEF Starts
    <2>4. QED
      BY <1>1, <2>2, <2>3, RunStarts
  <1>5. QED
    BY <1>2, <1>3, <1>4

\* The row of a run takes the definition the process carries.
LEMMA StartRunKeeps ==
  ASSUME AutomationInv, NEW p \in Procs, StartRun(p)
  PROVE  AutomationInv'
  <1>1. proc[p].at = "run" /\ UNCHANGED <<workflows, triggers>>
    BY DEF StartRun
  <1>2. PICK row : row = [definition |-> proc[p].definition, status |-> "running"]
    OBVIOUS
  <1>3. Rows(runs) /\ runs' = Append(runs, row)
    BY <1>2 DEF StartRun, AutomationInv, AutomationTyped
  <1>4. /\ Rows(runs') /\ Len(runs) \in Nat /\ DOMAIN runs = 1..Len(runs)
        /\ DOMAIN runs' = 1..(Len(runs) + 1)
        /\ \A r \in DOMAIN runs : runs'[r] = runs[r]
        /\ runs'[Len(runs) + 1] = row
    BY <1>3, AppendRow
  <1>5. \A r \in DOMAIN runs' : (r \in DOMAIN runs /\ runs'[r] = runs[r]) \/ runs'[r] = row
    BY <1>4
  <1>6. AutomationTyped'
    <2>1. ASSUME NEW r \in DOMAIN runs'
          PROVE  /\ DOMAIN runs'[r] = {"definition", "status"}
                 /\ runs'[r].status \in {"running", "completed", "failed"}
      BY <1>2, <1>5 DEF AutomationInv, AutomationTyped
    <2>2. QED
      BY <1>1, <1>4, <2>1 DEF AutomationInv, AutomationTyped, WorkflowRow
  <1>7. \A d : InRun(d)' => Carried(d)
    BY <1>1, <1>2, <1>5 DEF InRun, InHand, Carried
  <1>8. PICK s : s = [proc[p] EXCEPT !.at = "running", !.row = Len(runs) + 1]
    OBVIOUS
  <1>9. DOMAIN s = RunFields /\ s.at = "running"
    BY <1>1, <1>8, StageOfRun DEF RunFields
  <1>10. Carries(p, s) /\ AutomationStage(s)
    BY <1>8, <1>9 DEF StartRun, Goes, Carries, AutomationStage
  <1>11. QED
    BY <1>1, <1>6, <1>7, <1>10, WorkflowsStay

LEMMA FinishRunKeeps ==
  ASSUME AutomationInv, NEW p \in Procs, NEW status \in {"completed", "failed"},
         FinishRun(p, status)
  PROVE  AutomationInv'
  <1>1. proc[p].at = "running" /\ UNCHANGED <<workflows, triggers>>
    BY DEF FinishRun
  <1>2. PICK row : row = proc[p].row
    OBVIOUS
  <1>3. runs' = [runs EXCEPT ![row].status = status]
    BY <1>2 DEF FinishRun
  <1>4. /\ Rows(runs') /\ DOMAIN runs' = DOMAIN runs
        /\ \A r \in DOMAIN runs : /\ DOMAIN runs'[r] = {"definition", "status"}
                                  /\ runs'[r].definition = runs[r].definition
                                  /\ runs'[r].status \in {"running", "completed", "failed"}
    <2>1. CASE row \in DOMAIN runs
      <3>1. PICK x : x = [runs[row] EXCEPT !.status = status]
        OBVIOUS
      <3>2. /\ DOMAIN x = {"definition", "status"} /\ x.definition = runs[row].definition
            /\ x.status = status
        BY <2>1, <3>1 DEF AutomationInv, AutomationTyped
      <3>3. Rows(runs) /\ runs' = [runs EXCEPT ![row] = x]
        BY <1>3, <3>1 DEF AutomationInv, AutomationTyped
      <3>4. /\ Rows(runs') /\ DOMAIN runs' = DOMAIN runs
            /\ \A r \in DOMAIN runs : runs'[r] = IF r = row THEN x ELSE runs[r]
        BY <2>1, <3>3, UpdateRow
      <3>5. QED
        BY <3>2, <3>4 DEF AutomationInv, AutomationTyped
    <2>2. CASE row \notin DOMAIN runs
      <3>1. Rows(runs) /\ DOMAIN runs = 1..Len(runs) /\ runs = [r \in 1..Len(runs) |-> runs[r]]
        BY DEF AutomationInv, AutomationTyped, Rows
      <3>2. runs' = runs
        BY <1>3, <2>2, <3>1
      <3>3. QED
        BY <3>1, <3>2 DEF AutomationInv, AutomationTyped
    <2>3. QED
      BY <2>1, <2>2
  <1>5. AutomationTyped'
    BY <1>1, <1>4 DEF AutomationInv, AutomationTyped, WorkflowRow
  <1>6. \A d : InRun(d)' => Carried(d)
    BY <1>4 DEF InRun, Carried
  <1>7. PICK s : s = IF proc[p].trigger = 0 THEN resting ELSE [proc[p] EXCEPT !.at = "mark"]
    OBVIOUS
  <1>8. s = resting \/ (DOMAIN s = RunFields /\ s.at = "mark")
    BY <1>1, <1>7, StageOfRun DEF RunFields
  <1>9. Carries(p, s) /\ AutomationStage(s)
    BY <1>7, <1>8 DEF FinishRun, Goes, Carries, AutomationStage, resting
  <1>10. QED
    BY <1>1, <1>5, <1>6, <1>9, WorkflowsStay

\* A stored workflow is written: who carries a definition of it carries an older version.
LEMMA RowWrittenKeeps ==
  ASSUME AutomationInv, UNCHANGED <<triggers, runs>>,
         NEW p \in Procs, proc' = [proc EXCEPT ![p] = resting],
         NEW name \in Names, NEW row \in WorkflowRow,
         workflows' = [workflows EXCEPT ![name] = row],
         workflows[name] # NONE => workflows[name].version < row.version
  PROVE  AutomationInv'
  <1>1. workflows \in [Names -> WorkflowRow \cup {NONE}]
    BY DEF AutomationInv, AutomationTyped
  <1>2. /\ workflows' \in [Names -> WorkflowRow \cup {NONE}]
        /\ \A n \in Names : workflows'[n] = IF n = name THEN row ELSE workflows[n]
    BY <1>1
  <1>3. AutomationTyped'
    BY <1>2 DEF AutomationInv, AutomationTyped, WorkflowRow
  <1>4. row # NONE
    BY RowIsThere
  <1>5. AutomationStages'
    <2>1. proc' = [q \in Procs |-> proc'[q]]
      BY DEF AutomationInv, AutomationStages
    <2>2. ASSUME NEW q \in Procs
          PROVE  AutomationStage(proc[q])'
      BY <1>2, <1>4 DEF AutomationInv, AutomationStages, AutomationStage, EditOK
    <2>3. QED
      BY <2>1, <2>2 DEF AutomationStages
  <1>6. \A d : Carried(d)' => Carried(d)
    BY DEF Carried, InRun, InHand, AutomationInv, AutomationStages, resting
  <1>7. ASSUME NEW d, Carried(d), d.origin = "custom"
        PROVE  /\ d.name \in Names /\ workflows'[d.name] # NONE /\ d.version \in Nat
               /\ d.version <= workflows'[d.name].version
               /\ d.version = workflows'[d.name].version => d.steps = workflows'[d.name].steps
    <2>1. /\ d.name \in Names /\ workflows[d.name] # NONE /\ d.version \in Nat
          /\ d.version <= workflows[d.name].version
          /\ d.version = workflows[d.name].version => d.steps = workflows[d.name].steps
      BY <1>7 DEF AutomationInv, VersionsOK, Grounded
    <2>2. CASE d.name # name
      BY <1>2, <2>1, <2>2
    <2>3. CASE d.name = name
      <3>1. workflows[name] \in WorkflowRow /\ workflows'[name] = row
        BY <1>1, <1>2, <2>1, <2>3
      <3>2. workflows[name].version \in Nat /\ row.version \in Nat
        BY <3>1 DEF WorkflowRow
      <3>3. d.version < row.version
        BY <2>1, <2>3, <3>2
      <3>4. QED
        BY <1>4, <2>1, <2>3, <3>1, <3>2, <3>3
    <2>4. QED
      BY <2>2, <2>3
  <1>8. VersionsOK'
    <2>1. ASSUME NEW d, Carried(d)'
          PROVE  Grounded(d)'
      BY <1>6, <1>7, <2>1 DEF Grounded
    <2>2. ASSUME NEW d, NEW e, Carried(d)', Carried(e)'
          PROVE  Agree(d, e)'
      BY <1>6, <2>2 DEF AutomationInv, VersionsOK, Agree
    <2>3. QED
      BY <2>1, <2>2 DEF VersionsOK
  <1>9. QED
    BY <1>3, <1>5, <1>8 DEF AutomationInv

LEMMA WorkflowCreateKeeps ==
  ASSUME AutomationInv, NEW t \in Procs, NEW name \in Names, NEW steps \in StepLists,
         WorkflowCreate(t, name, steps)
  PROVE  AutomationInv'
  <1>1. PICK row : row = [steps |-> steps, version |-> 1, enabled |-> TRUE]
    OBVIOUS
  <1>2. /\ steps # <<>> /\ workflows[name] = NONE /\ workflows' = [workflows EXCEPT ![name] = row]
        /\ UNCHANGED <<triggers, runs>> /\ proc' = [proc EXCEPT ![t] = resting]
    BY <1>1 DEF WorkflowCreate, InsertWorkflow, ValidateSteps, Starts
  <1>3. row \in WorkflowRow
    BY <1>1, <1>2 DEF WorkflowRow
  <1>4. QED
    BY <1>2, <1>3, RowWrittenKeeps

LEMMA WorkflowEditKeeps ==
  ASSUME AutomationInv, NEW t \in Procs, NEW name \in Names, NEW steps \in StepLists \cup {<<>>},
         NEW enabled \in {TRUE, FALSE, NONE}, WorkflowEdit(t, name, steps, enabled)
  PROVE  AutomationInv'
  <1>1. PICK s : s = [at |-> "edit", name |-> name, steps |-> steps, enabled |-> enabled]
    OBVIOUS
  <1>2. /\ workflows[name] # NONE /\ UNCHANGED <<workflows, triggers, runs>>
        /\ proc' = [proc EXCEPT ![t] = s]
    BY <1>1 DEF WorkflowEdit, Starts, automationRecords
  <1>3. AutomationStage(s)
    BY <1>1, <1>2 DEF AutomationStage, EditOK
  <1>4. Carries(t, s)
    BY <1>1, <1>2 DEF Carries
  <1>5. QED
    BY <1>2, <1>3, <1>4, NoRunWritten, TriggersStay

\* An edit makes a new version of the row there is by now, whatever the process has seen.
LEMMA UpdateWorkflowKeeps ==
  ASSUME AutomationInv, NEW p \in Procs, UpdateWorkflow(p)
  PROVE  AutomationInv'
  <1>1. proc[p].at = "edit" /\ UNCHANGED <<triggers, runs>>
        /\ proc' = [proc EXCEPT ![p] = resting]
    BY DEF UpdateWorkflow, Goes
  <1>2. EditOK(proc[p])
    BY <1>1 DEF AutomationInv, AutomationStages, AutomationStage, resting, RunFields
  <1>3. PICK name \in Names : name = proc[p].name
    BY <1>2 DEF EditOK
  <1>4. PICK steps \in StepLists \cup {<<>>} : steps = proc[p].steps
    BY <1>2 DEF EditOK
  <1>5. PICK enabled \in {TRUE, FALSE, NONE} : enabled = proc[p].enabled
    BY <1>2 DEF EditOK
  <1>6. PICK w \in WorkflowRow : w = workflows[name]
    BY <1>2, <1>3 DEF EditOK, AutomationInv, AutomationTyped
  <1>7. /\ w = [steps |-> w.steps, version |-> w.version, enabled |-> w.enabled]
        /\ w.steps \in StepLists \ {<<>>} /\ w.version \in Nat \ {0} /\ w.enabled \in BOOLEAN
    BY DEF WorkflowRow
  <1>8. PICK newSteps \in StepLists \ {<<>>} :
          newSteps = IF steps = <<>> THEN w.steps ELSE steps
    BY <1>7
  <1>9. PICK newEnabled \in BOOLEAN :
          newEnabled = IF enabled = NONE THEN w.enabled ELSE enabled
    BY <1>7
  <1>10. PICK row : row = [steps |-> newSteps, version |-> w.version + 1, enabled |-> newEnabled]
    OBVIOUS
  <1>11. row \in WorkflowRow
    BY <1>7, <1>10 DEF WorkflowRow
  <1>12. w.version < row.version
    BY <1>7, <1>10
  <1>13. workflows' = [workflows EXCEPT ![name] = row]
    <2>1. workflows' = [workflows EXCEPT
            ![name].version = @ + 1,
            ![name].steps = IF steps = <<>> THEN @ ELSE steps,
            ![name].enabled = IF enabled = NONE THEN @ ELSE enabled]
      BY <1>3, <1>4, <1>5 DEF UpdateWorkflow
    <2>2. PICK f : f = [workflows EXCEPT ![name].version = @ + 1]
      OBVIOUS
    <2>3. PICK g : g = [f EXCEPT ![name].steps = IF steps = <<>> THEN @ ELSE steps]
      OBVIOUS
    <2>4. workflows' = [g EXCEPT ![name].enabled = IF enabled = NONE THEN @ ELSE enabled]
      BY <2>1, <2>2, <2>3
    <2>5. workflows \in [Names -> WorkflowRow \cup {NONE}]
      BY DEF AutomationInv, AutomationTyped
    <2>6. /\ DOMAIN f = Names /\ \A n \in Names \ {name} : f[n] = workflows[n]
          /\ f[name] = [steps |-> w.steps, version |-> w.version + 1, enabled |-> w.enabled]
      BY <1>6, <1>7, <2>2, <2>5
    <2>7. /\ DOMAIN g = Names /\ \A n \in Names \ {name} : g[n] = workflows[n]
          /\ g[name] = [steps |-> newSteps, version |-> w.version + 1, enabled |-> w.enabled]
      BY <1>8, <2>3, <2>6
    <2>8. /\ DOMAIN workflows' = Names /\ \A n \in Names \ {name} : workflows'[n] = workflows[n]
          /\ workflows'[name] = row
      BY <1>9, <1>10, <2>4, <2>7
    <2>9. workflows' = [n \in Names |-> workflows'[n]]
      BY <2>4, <2>7
    <2>10. QED
      BY <2>5, <2>8, <2>9
  <1>14. workflows[name] # NONE => workflows[name].version < row.version
    BY <1>6, <1>12
  <1>15. QED
    BY <1>1, <1>11, <1>13, <1>14, RowWrittenKeeps

LEMMA TriggerWriteKeeps ==
  ASSUME AutomationInv, NEW t \in Procs,
         \/ \E event, glob, workflow, field : TriggerAdd(t, event, glob, workflow, field)
         \/ \E n : TriggerRemove(t, n) \/ TriggerEnable(t, n) \/ TriggerDisable(t, n)
  PROVE  AutomationInv'
  <1>1. Rows(triggers)
    BY DEF AutomationInv, AutomationTyped
  <1>2. ASSUME NEW event, NEW glob, NEW workflow, NEW field,
               TriggerAdd(t, event, glob, workflow, field)
        PROVE  AutomationInv'
    <2>1. PICK row : row = [event |-> event, glob |-> glob, workflow |-> workflow,
                            field |-> field, status |-> "on", fired |-> FALSE]
      OBVIOUS
    <2>2. triggers' = Append(triggers, row) /\ Commands(t) /\ UNCHANGED <<workflows, runs>>
      BY <1>2, <2>1 DEF TriggerAdd
    <2>3. /\ Rows(triggers') /\ Len(triggers) \in Nat /\ DOMAIN triggers = 1..Len(triggers)
          /\ DOMAIN triggers' = 1..(Len(triggers) + 1)
          /\ \A n \in DOMAIN triggers : triggers'[n] = triggers[n]
          /\ triggers'[Len(triggers) + 1] = row
      BY <1>1, <2>2, AppendRow
    <2>4. \A n \in DOMAIN triggers' :
            (n \in DOMAIN triggers /\ triggers'[n] = triggers[n]) \/ triggers'[n] = row
      BY <2>3
    <2>5. DOMAIN row = TriggerFields /\ row.status = "on"
      BY <2>1 DEF TriggerFields
    <2>6. TypedTriggers'
      BY <2>3, <2>4, <2>5 DEF TypedTriggers, AutomationInv, AutomationTyped
    <2>7. QED
      BY <2>2, <2>6, OneStatement
  <1>3. ASSUME NEW n, NEW status \in {"on", "off", "gone"}, n \in DOMAIN triggers,
               triggers' = [triggers EXCEPT ![n].status = status],
               Commands(t), UNCHANGED <<workflows, runs>>
        PROVE  AutomationInv'
    <2>1. PICK row : row = [triggers[n] EXCEPT !.status = status]
      OBVIOUS
    <2>2. DOMAIN row = TriggerFields /\ row.status = status
      BY <1>3, <2>1 DEF AutomationInv, AutomationTyped, TriggerFields
    <2>3. n \in DOMAIN triggers /\ triggers' = [triggers EXCEPT ![n] = row]
      BY <1>3, <2>1
    <2>4. /\ Rows(triggers') /\ DOMAIN triggers' = DOMAIN triggers
          /\ \A m \in DOMAIN triggers : triggers'[m] = IF m = n THEN row ELSE triggers[m]
      BY <1>1, <2>3, UpdateRow
    <2>5. TypedTriggers'
      BY <2>2, <2>4 DEF TypedTriggers, AutomationInv, AutomationTyped
    <2>6. QED
      BY <1>3, <2>5, OneStatement
  <1>4. QED
    BY <1>2, <1>3
       DEF TriggerRemove, TriggerEnable, TriggerDisable, TriggerSetEnabled, Present

LEMMA TriggerFireKeeps ==
  ASSUME AutomationInv, NEW t \in Procs, NEW event, NEW payload, NEW known,
         TriggerFire(t, event, payload, known)
  PROVE  AutomationInv'
  <1> DEFINE matched == TriggerMatches(event, payload)
  <1>1. PICK todo : todo = [k \in DOMAIN matched |->
                              [id |-> matched[k], workflow |-> triggers[matched[k]].workflow]]
    OBVIOUS
  <1>2. PICK s : s = [at |-> "fire", definition |-> NONE, trigger |-> 0, row |-> 0,
                      view |-> "plain", fired |-> <<>>, todo |-> todo]
    OBVIOUS
  <1>3. UNCHANGED automationRecords
    BY DEF TriggerFire
  <1>4. (\E answer : Reads(t, answer)) \/ Starts(t, s)
    BY <1>1, <1>2 DEF TriggerFire
  <1>5. CASE \E answer : Reads(t, answer)
    BY <1>3, <1>5, ReadsOnly
  <1>6. CASE Starts(t, s)
    <2>1. DOMAIN s = RunFields /\ s.at = "fire"
      BY <1>2 DEF RunFields
    <2>2. Carries(t, s) /\ AutomationStage(s)
      BY <1>6, <2>1 DEF Starts, Carries, AutomationStage
    <2>3. UNCHANGED <<workflows, runs>> /\ TypedTriggers'
      BY <1>3, TriggersStay DEF automationRecords
    <2>4. QED
      BY <2>2, <2>3, NoRunWritten
  <1>7. QED
    BY <1>4, <1>5, <1>6

LEMMA ResolveTriggerKeeps ==
  ASSUME AutomationInv, NEW p \in Procs, NEW allowed, ResolveTrigger(p, allowed)
  PROVE  AutomationInv'
  <1>1. proc[p].at = "fire" /\ UNCHANGED automationRecords
    BY DEF ResolveTrigger
  <1>2. DOMAIN proc[p] = RunFields
    BY <1>1, StageOfRun
  <1>3. PICK name : name = Head(proc[p].todo).workflow
    OBVIOUS
  <1>4. \/ \E outcome : Goes(p, Passed(p, outcome))
        \/ /\ Resolve(name) # NONE
           /\ Goes(p, [proc[p] EXCEPT !.at = "run", !.definition = Resolve(name),
                                      !.trigger = Head(proc[p].todo).id])
    BY <1>3 DEF ResolveTrigger
  <1>5. ASSUME NEW outcome, Goes(p, Passed(p, outcome))
        PROVE  AutomationInv'
    <2>1. PICK s : s = Passed(p, outcome)
      OBVIOUS
    <2>2. DOMAIN s = RunFields /\ s.at = "fire"
      BY <1>2, <2>1 DEF Passed, RunFields
    <2>3. Carries(p, s) /\ AutomationStage(s)
      BY <1>5, <2>1, <2>2 DEF Goes, Carries, AutomationStage
    <2>4. UNCHANGED <<workflows, runs>> /\ TypedTriggers'
      BY <1>1, TriggersStay DEF automationRecords
    <2>5. QED
      BY <2>3, <2>4, NoRunWritten
  <1>6. ASSUME Resolve(name) # NONE,
               Goes(p, [proc[p] EXCEPT !.at = "run", !.definition = Resolve(name),
                                       !.trigger = Head(proc[p].todo).id])
        PROVE  AutomationInv'
    <2>1. PICK s : s = [proc[p] EXCEPT !.at = "run", !.definition = Resolve(name),
                                       !.trigger = Head(proc[p].todo).id]
      OBVIOUS
    <2>2. DOMAIN s = RunFields /\ s.at = "run" /\ s.definition = Resolve(name)
      BY <1>2, <2>1 DEF RunFields
    <2>3. proc' = [proc EXCEPT ![p] = s]
      BY <1>6, <2>1 DEF Goes
    <2>4. QED
      BY <1>1, <1>6, <2>2, <2>3, RunStarts
  <1>7. QED
    BY <1>4, <1>5, <1>6

LEMMA MarkFiredKeeps ==
  ASSUME AutomationInv, NEW p \in Procs, MarkFired(p)
  PROVE  AutomationInv'
  <1>1. proc[p].at = "mark" /\ UNCHANGED <<workflows, runs>> /\ Goes(p, Passed(p, "ran"))
    BY DEF MarkFired
  <1>2. PICK s : s = Passed(p, "ran")
    OBVIOUS
  <1>3. DOMAIN s = RunFields /\ s.at = "fire"
    BY <1>1, <1>2, StageOfRun DEF Passed, RunFields
  <1>4. Carries(p, s) /\ AutomationStage(s)
    BY <1>1, <1>2, <1>3 DEF Goes, Carries, AutomationStage
  <1>5. TypedTriggers'
    <2>1. PICK n : n = proc[p].trigger
      OBVIOUS
    <2>2. CASE ~ Present(n)
      BY <2>1, <2>2, TriggersStay DEF MarkFired
    <2>3. CASE Present(n)
      <3>1. PICK row : row = [triggers[n] EXCEPT !.fired = TRUE]
        OBVIOUS
      <3>2. n \in DOMAIN triggers
        BY <2>3 DEF Present
      <3>3. DOMAIN row = TriggerFields /\ row.status = triggers[n].status
        BY <3>1, <3>2 DEF AutomationInv, AutomationTyped, TriggerFields
      <3>4. Rows(triggers) /\ triggers' = [triggers EXCEPT ![n] = row]
        BY <2>1, <2>3, <3>1 DEF MarkFired, AutomationInv, AutomationTyped
      <3>5. /\ Rows(triggers') /\ DOMAIN triggers' = DOMAIN triggers
            /\ \A m \in DOMAIN triggers : triggers'[m] = IF m = n THEN row ELSE triggers[m]
        BY <3>2, <3>4, UpdateRow
      <3>6. QED
        BY <3>2, <3>3, <3>5 DEF TypedTriggers, AutomationInv, AutomationTyped
    <2>4. QED
      BY <2>2, <2>3
  <1>6. QED
    BY <1>1, <1>4, <1>5, NoRunWritten

-----------------------------------------------------------------------------
(***************************************************************************)
(* The theorems about Automation.                                          *)
(***************************************************************************)

LEMMA AutomationStarts ==
  ASSUME DeskInit, AutomationInit
  PROVE  AutomationInv
  <1>1. Rows(<<>>)
    BY DEF Rows
  <1>2. AutomationTyped
    BY <1>1 DEF AutomationInit, AutomationTyped
  <1>3. AutomationStages
    BY DEF DeskInit, AutomationStages, AutomationStage
  <1>4. \A d : ~ Carried(d)
    BY DEF DeskInit, AutomationInit, Carried, InRun, InHand, resting
  <1>5. QED
    BY <1>2, <1>3, <1>4 DEF AutomationInv, VersionsOK

LEMMA AutomationKeeps ==
  ASSUME AutomationInv, [AutomationNext]_automationVars
  PROVE  AutomationInv'
  <1>1. CASE UNCHANGED automationVars
    <2>1. UNCHANGED <<workflows, triggers, runs, proc>>
      BY <1>1 DEF automationVars, automationRecords, consoleVars, deskVars
    <2>2. AutomationTyped' /\ AutomationStages'
      BY <2>1 DEF AutomationInv, AutomationTyped, AutomationStages, AutomationStage, EditOK,
                  WorkflowRow
    <2>3. VersionsOK'
      BY <2>1 DEF AutomationInv, VersionsOK, Carried, InRun, InHand, Grounded, Agree
    <2>4. QED
      BY <2>2, <2>3 DEF AutomationInv
  <1>2. ASSUME NEW c, AdaptersChange(c)
        PROVE  AutomationInv'
    <2>1. UNCHANGED <<workflows, triggers, runs, proc>>
      BY <1>2 DEF AdaptersChange, consoleVars, deskVars
    <2>2. AutomationTyped' /\ AutomationStages'
      BY <2>1 DEF AutomationInv, AutomationTyped, AutomationStages, AutomationStage, EditOK,
                  WorkflowRow
    <2>3. VersionsOK'
      BY <2>1 DEF AutomationInv, VersionsOK, Carried, InRun, InHand, Grounded, Agree
    <2>4. QED
      BY <2>2, <2>3 DEF AutomationInv
  <1>3. ASSUME NEW p \in Procs, RunStep(p)
        PROVE  AutomationInv'
    BY <1>3, StartRunKeeps, FinishRunKeeps DEF RunStep
  <1>4. ASSUME NEW p \in Procs, StoreStep(p)
        PROVE  AutomationInv'
    <2>1. CASE \E n \in Names, s \in StepLists : WorkflowCreate(p, n, s)
      BY <2>1, WorkflowCreateKeeps
    <2>2. CASE \E n \in Names, e \in Edits : WorkflowEdit(p, n, e[1], e[2])
      <3>1. PICK n \in Names, e \in Edits : WorkflowEdit(p, n, e[1], e[2])
        BY <2>2
      <3>2. PICK steps \in StepLists \cup {<<>>}, enabled \in {TRUE, FALSE, NONE} :
              steps = e[1] /\ enabled = e[2]
        BY DEF Edits
      <3>3. QED
        BY <3>1, <3>2, WorkflowEditKeeps
    <2>3. CASE UpdateWorkflow(p)
      BY <2>3, UpdateWorkflowKeeps
    <2>4. CASE WorkflowList(p)
      BY <2>4, ReadsOnly DEF WorkflowList
    <2>5. CASE \E n \in Names : WorkflowValidate(p, n)
      BY <2>5, ReadsOnly DEF WorkflowValidate
    <2>6. CASE \E n \in Names, dry, known, permitted \in BOOLEAN,
                  allowed \in SUBSET KnownCapabilities :
                 \/ WorkflowRun(p, n, dry, known, permitted, allowed)
                 \/ WorkflowUnknown(p, n, known, permitted)
                 \/ \E view \in Views : Assess(p, n, view, dry, known, permitted, allowed)
      <3>1. PICK n \in Names, dry \in BOOLEAN, known \in BOOLEAN, permitted \in BOOLEAN,
                 allowed \in SUBSET KnownCapabilities :
                   \/ WorkflowRun(p, n, dry, known, permitted, allowed)
                   \/ WorkflowUnknown(p, n, known, permitted)
                   \/ \E view \in Views : Assess(p, n, view, dry, known, permitted, allowed)
        BY <2>6
      <3>2. CASE WorkflowUnknown(p, n, known, permitted)
        BY <3>2, ReadsOnly DEF WorkflowUnknown
      <3>3. QED
        BY <3>1, <3>2, WorkflowRunKeeps
    <2>7. CASE \E n \in Names \cup {NONE} : WorkflowHistory(p, n)
      BY <2>7, ReadsOnly DEF WorkflowHistory
    <2>8. QED
      BY <1>4, <2>1, <2>2, <2>3, <2>4, <2>5, <2>6, <2>7 DEF StoreStep
  <1>5. ASSUME NEW p \in Procs, TriggerStep(p)
        PROVE  AutomationInv'
    <2>1. CASE \/ \E e \in EventTypes, g \in Globs, n \in Names : TriggerAdd(p, e, g, n, "target")
               \/ \E n \in DOMAIN triggers :
                    TriggerRemove(p, n) \/ TriggerEnable(p, n) \/ TriggerDisable(p, n)
      BY <2>1, TriggerWriteKeeps
    <2>2. CASE TriggerList(p)
      BY <2>2, ReadsOnly DEF TriggerList
    <2>3. CASE \E e \in EventTypes, payload \in Payloads, known \in BOOLEAN :
                 TriggerFire(p, e, payload, known)
      BY <2>3, TriggerFireKeeps
    <2>4. CASE \E allowed \in SUBSET KnownCapabilities : ResolveTrigger(p, allowed)
      BY <2>4, ResolveTriggerKeeps
    <2>5. CASE SessionRefused(p) \/ FiredAll(p)
      <3>1. UNCHANGED automationRecords /\ (Refuses(p) \/ Goes(p, resting))
        BY <2>5 DEF SessionRefused, FiredAll
      <3>2. QED
        BY <3>1, OneStatement, TriggersStay DEF automationRecords
    <2>6. CASE MarkFired(p)
      BY <2>6, MarkFiredKeeps
    <2>7. QED
      BY <1>5, <2>1, <2>2, <2>3, <2>4, <2>5, <2>6 DEF TriggerStep
  <1>6. ASSUME NEW p \in Procs, NoticeStep(p)
        PROVE  AutomationInv'
    <2>1. CASE \E reachable \in SUBSET DOMAIN Providers : NotifyTest(p, reachable)
      BY <2>1, ReadsOnly DEF NotifyTest
    <2>2. CASE \E reachable \in SUBSET DOMAIN Providers, e \in EventTypes :
                 Notifies(p, e, reachable)
      <3>1. UNCHANGED <<workflows, triggers, runs>> /\ proc' = [proc EXCEPT ![p] = resting]
        BY <2>2 DEF Notifies, Starts
      <3>2. QED
        BY <3>1, RestingCarries, NoRunWritten, TriggersStay
    <2>3. CASE NotifyList(p)
      BY <2>3, ReadsOnly DEF NotifyList
    <2>4. QED
      BY <1>6, <2>1, <2>2, <2>3 DEF NoticeStep
  <1>7. ASSUME NEW p \in Procs, AutomationKilled(p)
        PROVE  AutomationInv'
    BY <1>7, OneStatement, TriggersStay DEF AutomationKilled, automationRecords
  <1>8. QED
    BY <1>1, <1>2, <1>3, <1>4, <1>5, <1>6, <1>7 DEF AutomationNext

LEMMA AutomationInvariant == AutomationSpec => []AutomationInv
  <1>1. DeskInit /\ ConsoleInit /\ AutomationInit => AutomationInv
    BY AutomationStarts
  <1>2. AutomationInv /\ [AutomationNext]_automationVars => AutomationInv'
    BY AutomationKeeps
  <1>3. QED
    BY <1>1, <1>2, PTL DEF AutomationSpec

\* Stored workflows have steps and a version, and the rows of triggers and runs one of
\* the statuses there are.
THEOREM AutomationTypesCorrect == AutomationSpec => []AutomationTypeOK
  <1>1. AutomationInv => AutomationTypeOK
    <2>1. SUFFICES ASSUME AutomationInv
                   PROVE  AutomationTypeOK
      OBVIOUS
    <2>2. ASSUME NEW n \in Names, workflows[n] # NONE
          PROVE  workflows[n].version >= 1 /\ workflows[n].steps # <<>>
      <3>1. workflows[n] \in WorkflowRow
        BY <2>1, <2>2 DEF AutomationInv, AutomationTyped
      <3>2. QED
        BY <3>1 DEF WorkflowRow
    <2>3. QED
      BY <2>1, <2>2 DEF AutomationInv, AutomationTyped, AutomationTypeOK
  <1>2. QED
    BY <1>1, AutomationInvariant, PTL

\* Two runs of a stored workflow that give the same version have run the same steps,
\* whatever edits of however many terminals came between reading the workflow, starting
\* the run and finishing it (WorkflowStore.update, WorkflowEngine.run).
THEOREM VersionsNameSteps == AutomationSpec => []VersionNamesSteps
  <1>1. AutomationInv => VersionNamesSteps
    BY DEF AutomationInv, VersionsOK, Carried, InRun, Agree, VersionNamesSteps
  <1>2. QED
    BY <1>1, AutomationInvariant, PTL

-----------------------------------------------------------------------------
(***************************************************************************)
(* Plugins: the invariant.                                                 *)
(***************************************************************************)

SetStatuses == {"ENABLED", "DISABLED", "BLOCKED"}

PluginFields == {"at", "todo", "cmd", "owners", "next", "seen", "cached"}

PluginStages == Orders \cup {"sync", "insert", "update", "load", "place", "listed", "record",
                             "status", "forget"}

PluginTyped ==
  /\ disk \in [Ids -> AllPackages \cup {NONE}]
  /\ drafts \in [Ids -> AllPackages \cup {NONE}]
  /\ registry \in [Ids -> PluginRows \cup {NONE}]
  /\ stranded \subseteq Ids

\* What a process may rely on at its next statement.  A row stays a row, so that a
\* plugin without one is not being uninstalled, and keeps its directory.
PluginStageOK(s) ==
  \/ s = resting
  \/ /\ DOMAIN s = PluginFields /\ s.cmd \in PluginCommands
     /\ s.at \in PluginStages /\ s.next \in {"load", "place", "listed"}
     /\ s.at \in Orders => s.cmd.do = s.at
     /\ s.at = "place" => s.next = "place"
     /\ s.at \in {"insert", "update"} => Sound(s.seen)
     /\ \A i \in Ids :
          /\ s.at \in {"insert", "update"} /\ i = Head(s.todo) => s.seen \in AllPackages
          /\ s.at = "update" /\ i = Head(s.todo) => registry[i] # NONE
          /\ s.at = "insert" /\ i = Head(s.todo) /\ registry[i] = NONE => disk[i] # NONE
          /\ s.at = "record" /\ i = s.cmd.id /\ registry[i] = NONE => disk[i] # NONE
          /\ s.next = "place" /\ i = s.cmd.id => drafts[i] # NONE
          /\ s.at \in {"status", "forget"} /\ i = s.cmd.id => registry[i] # NONE
     /\ s.at = "record" => s.seen \in AllPackages
     /\ s.at = "status" => s.cmd.do \in SetStatuses

PluginProcs == proc = [p \in Procs |-> proc[p]] /\ \A p \in Procs : PluginStageOK(proc[p])

\* A command that nobody has overlapped still finds the plugin it has looked up.
LookedUp ==
  /\ quiet = [p \in Procs |-> quiet[p]]
  /\ \A p \in Procs : Do(p, "status") /\ quiet[p] => Get(proc[p].cmd.id)

PluginInv == PluginTyped /\ PluginProcs /\ LookedUp /\ RowsHaveFiles

(***************************************************************************)
(* Rows and drafts stay; a directory goes only when it has a row.          *)
(***************************************************************************)

PluginsStay ==
  /\ \A i \in Ids : registry[i] # NONE => registry'[i] # NONE
  /\ \A i \in Ids : drafts[i] # NONE => drafts'[i] # NONE
  /\ \A i \in Ids : disk[i] # NONE /\ registry'[i] = NONE => disk'[i] # NONE

LEMMA PluginStageStays ==
  ASSUME PluginsStay, NEW s, PluginStageOK(s)
  PROVE  PluginStageOK(s)'
  BY DEF PluginsStay, PluginStageOK


LEMMA PluginProcsStay ==
  ASSUME PluginProcs, PluginsStay, NEW p \in Procs, NEW s, Moved(p, s), PluginStageOK(s)'
  PROVE  PluginProcs'
  <1>1. /\ proc' = [q \in Procs |-> proc'[q]]
        /\ proc'[p] = s /\ \A q \in Procs \ {p} : proc'[q] = proc[q]
    BY DEF Moved, PluginProcs
  <1>2. ASSUME NEW q \in Procs
        PROVE  PluginStageOK(proc[q])'
    <2>1. PICK r : r = proc'[q]
      OBVIOUS
    <2>2. CASE q = p
      BY <1>1, <2>2
    <2>3. CASE q # p
      <3>1. PluginStageOK(r)
        BY <1>1, <2>1, <2>3 DEF PluginProcs
      <3>2. PluginStageOK(r)'
        BY <3>1, PluginStageStays
      <3>3. QED
        BY <2>1, <3>2
    <2>4. QED
      BY <2>2, <2>3
  <1>3. QED
    BY <1>1, <1>2 DEF PluginProcs

LEMMA CommandFields ==
  ASSUME NEW cmd \in PluginCommands
  PROVE  cmd.do \in Orders /\ cmd.id \in Ids /\ cmd.trust \in TrustLevels
  BY DEF PluginCommands

\* What a process that is not resting carries.
LEMMA PluginStageOf ==
  ASSUME PluginInv, NEW p \in Procs, proc[p].at # "idle"
  PROVE  /\ DOMAIN proc[p] = PluginFields /\ proc[p].cmd \in PluginCommands
         /\ PluginStageOK(proc[p]) /\ proc[p] # resting
         /\ proc[p].cmd.id \in Ids /\ proc[p].cmd.do \in Orders
         /\ proc[p].next \in {"load", "place", "listed"}
         /\ proc[p].next = "place" => drafts[proc[p].cmd.id] # NONE
         /\ proc[p].at = "place" => proc[p].next = "place"
         /\ proc[p].at \in Orders => proc[p].cmd.do = proc[p].at
  <1>1. PluginStageOK(proc[p]) /\ resting.at = "idle"
    BY DEF PluginInv, PluginProcs, resting
  <1>2. DOMAIN proc[p] = PluginFields /\ proc[p].cmd \in PluginCommands /\ proc[p] # resting
    BY <1>1 DEF PluginStageOK
  <1>3. proc[p].cmd.id \in Ids /\ proc[p].cmd.do \in Orders
    BY <1>2, CommandFields
  <1>4. QED
    BY <1>1, <1>2, <1>3 DEF PluginStageOK

(***************************************************************************)
(* Steps that write neither rows nor directories.                          *)
(***************************************************************************)

\* A process that is not about to forget a plugin goes to a stage of its own.
LEMMA PluginGoes ==
  ASSUME PluginInv, UNCHANGED pluginRecords, NEW p \in Procs, NEW s, Moved(p, s),
         proc[p].at # "forget", PluginStageOK(s),
         quiet' = quiet \/ quiet' = [quiet EXCEPT ![p] = TRUE],
         s.at = "status" => Get(s.cmd.id)
  PROVE  PluginInv'
  <1>1. PluginTyped' /\ PluginsStay
    BY DEF PluginInv, PluginTyped, PluginsStay, pluginRecords
  <1>2. PluginStageOK(s)'
    BY <1>1, PluginStageStays
  <1>3. PluginProcs'
    BY <1>1, <1>2, PluginProcsStay DEF PluginInv
  <1>4. proc'[p] = s /\ \A q \in Procs \ {p} : proc'[q] = proc[q]
    BY DEF Moved, PluginInv, PluginProcs
  <1>5. LookedUp'
    <2>1. quiet' = [q \in Procs |-> quiet'[q]] /\ \A q \in Procs \ {p} : quiet'[q] = quiet[q]
      BY DEF PluginInv, LookedUp
    <2>2. \A i : Get(i)' <=> Get(i)
      BY DEF Get, pluginRecords
    <2>3. QED
      BY <1>4, <2>1, <2>2 DEF PluginInv, LookedUp, Do
  <1>6. RowsHaveFiles'
    BY <1>4 DEF PluginInv, RowsHaveFiles, Get, Do, pluginRecords
  <1>7. QED
    BY <1>1, <1>3, <1>5, <1>6 DEF PluginInv

\* A command ends before it has changed anything more.
LEMMA PluginEnds ==
  ASSUME PluginInv, UNCHANGED pluginRecords, NEW p \in Procs, proc[p].at # "forget", Refuses(p)
  PROVE  PluginInv'
  <1>1. PluginStageOK(resting) /\ resting.at # "status"
    BY DEF PluginStageOK, resting
  <1>2. QED
    BY <1>1, PluginGoes DEF Refuses, Ends, Goes, Moved

\* A command tells what it has read and ends.
LEMMA PluginAnswers ==
  ASSUME PluginInv, UNCHANGED <<pluginRecords, quiet>>, NEW p \in Procs, proc[p].at # "forget",
         Goes(p, resting)
  PROVE  PluginInv'
  <1>1. PluginStageOK(resting) /\ resting.at # "status"
    BY DEF PluginStageOK, resting
  <1>2. QED
    BY <1>1, PluginGoes DEF Goes, Moved

LEMMA PluginStartKeeps ==
  ASSUME PluginInv, NEW p \in Procs, NEW cmd \in PluginCommands, PluginStart(p, cmd)
  PROVE  PluginInv'
  <1>1. PICK todo : todo = PluginDirs
    OBVIOUS
  <1>2. PICK s : s = [at |-> "sync", todo |-> todo, cmd |-> cmd, owners |-> {}, next |-> "load",
                      seen |-> NONE, cached |-> <<>>]
    OBVIOUS
  <1>3. Moved(p, s) /\ proc[p] = resting /\ UNCHANGED pluginRecords
        /\ quiet' = [quiet EXCEPT ![p] = TRUE]
    BY <1>1, <1>2 DEF PluginStart, Starts, Moved
  <1>4. PluginStageOK(s)
    BY <1>2 DEF PluginStageOK, PluginFields, PluginStages, Orders
  <1>5. proc[p].at # "forget" /\ s.at # "status"
    BY <1>2, <1>3 DEF resting
  <1>6. QED
    BY <1>3, <1>4, <1>5, PluginGoes

\* A process goes on to a statement that relies on little.
LEMMA PluginTurns ==
  ASSUME PluginInv, NEW p \in Procs, proc[p].at # "idle", proc[p].at # "forget",
         UNCHANGED <<pluginRecords, quiet>>, NEW s, Goes(p, s),
         DOMAIN s = PluginFields, s.cmd = proc[p].cmd,
         s.next \in {proc[p].next, "listed", "place"},
         s.next = "place" => drafts[s.cmd.id] # NONE, s.at = "place" => s.next = "place",
         s.at \in Orders \cup {"sync", "load", "place", "listed", "status"},
         s.at \in Orders => s.cmd.do = s.at,
         s.at = "status" => s.cmd.do \in SetStatuses /\ Get(s.cmd.id)
  PROVE  PluginInv'
  <1>1. PluginStageOK(proc[p]) /\ proc[p] # resting
    BY PluginStageOf
  <1>2. PluginStageOK(s)
    BY <1>1 DEF PluginStageOK, PluginStages, Orders, Get
  <1>3. QED
    BY <1>2, PluginGoes DEF Goes, Moved

LEMMA SyncFindKeeps ==
  ASSUME PluginInv, NEW p \in Procs, SyncFind(p)
  PROVE  PluginInv'
  <1>1. PluginStageOK(proc[p]) /\ proc[p] # resting /\ DOMAIN proc[p] = PluginFields
    BY PluginStageOf DEF SyncFind
  <1>2. PICK r : r = proc[p]
    OBVIOUS
  <1>3. PICK i : i = Head(r.todo)
    OBVIOUS
  <1>4. r.at = "sync" /\ UNCHANGED <<pluginRecords, quiet>>
    BY <1>2 DEF SyncFind
  <1>5. CASE ~ Valid(i)
    <2>1. PICK s : s = [r EXCEPT !.todo = Tail(@)]
      OBVIOUS
    <2>2. Moved(p, s)
      BY <1>2, <1>3, <1>5, <2>1 DEF SyncFind, Goes, Moved
    <2>3. /\ s.at = "sync" /\ s.next = r.next /\ s.cmd = r.cmd /\ s.seen = r.seen
          /\ DOMAIN s = PluginFields
      BY <1>1, <1>2, <1>4, <2>1 DEF PluginFields
    <2>4. PluginStageOK(s)
      BY <1>1, <1>2, <1>4, <2>3 DEF PluginStageOK
    <2>5. QED
      BY <1>2, <1>4, <2>2, <2>3, <2>4, PluginGoes
  <1>6. CASE Valid(i)
    <2>1. PICK s : s = [r EXCEPT !.at = IF registry[i] = NONE THEN "insert" ELSE "update",
                                 !.seen = disk[i],
                                 !.cached = (i :> (disk[i].trust \in ExecutableTrustLevels)) @@ @]
      OBVIOUS
    <2>2. Moved(p, s)
      BY <1>2, <1>3, <1>6, <2>1 DEF SyncFind, Goes, Moved
    <2>3. /\ s.at = (IF registry[i] = NONE THEN "insert" ELSE "update") /\ s.next = r.next
          /\ s.cmd = r.cmd /\ s.seen = disk[i] /\ s.todo = r.todo /\ DOMAIN s = PluginFields
      BY <1>1, <1>2, <1>4, <2>1 DEF PluginFields
    <2>4. Sound(s.seen) /\ s.seen # NONE /\ s.at \in {"insert", "update"}
      BY <1>6, <2>3 DEF Valid, Sound
    <2>5. i \in Ids => s.seen \in AllPackages
      BY <2>3, <2>4 DEF PluginInv, PluginTyped
    <2>6. PluginStageOK(s)
      BY <1>1, <1>2, <1>3, <1>4, <2>3, <2>4, <2>5 DEF PluginStageOK, PluginStages, Orders
    <2>7. QED
      BY <1>2, <1>4, <2>2, <2>4, <2>6, PluginGoes
  <1>7. QED
    BY <1>5, <1>6

LEMMA SyncedKeeps ==
  ASSUME PluginInv, NEW p \in Procs, Synced(p)
  PROVE  PluginInv'
  <1>1. /\ PluginStageOK(proc[p]) /\ proc[p] # resting /\ DOMAIN proc[p] = PluginFields
        /\ proc[p].at = "sync" /\ UNCHANGED <<pluginRecords, quiet>>
    BY PluginStageOf DEF Synced
  <1>2. PICK r : r = proc[p]
    OBVIOUS
  <1>3. PICK todo : todo = IF r.next = "load" THEN PluginDirs ELSE <<>>
    OBVIOUS
  <1>4. PICK s : s = [r EXCEPT !.at = r.next, !.todo = todo]
    OBVIOUS
  <1>5. Goes(p, s)
    BY <1>2, <1>3, <1>4 DEF Synced
  <1>6. s.at = r.next /\ s.next = r.next /\ s.cmd = r.cmd /\ DOMAIN s = PluginFields
    BY <1>1, <1>2, <1>4 DEF PluginFields
  <1>7. r.next \in {"load", "place", "listed"}
    BY <1>1, <1>2 DEF PluginStageOK
  <1>8. /\ proc[p].at # "idle" /\ proc[p].at # "forget" /\ UNCHANGED <<pluginRecords, quiet>>
        /\ s.cmd = proc[p].cmd /\ s.next \in {proc[p].next, "listed", "place"}
        /\ s.next = "place" => drafts[s.cmd.id] # NONE
        /\ s.at = "place" => s.next = "place"
        /\ s.at \in Orders \cup {"sync", "load", "place", "listed", "status"}
        /\ s.at \in Orders => s.cmd.do = s.at
        /\ s.at = "status" => s.cmd.do \in SetStatuses /\ Get(s.cmd.id)
    BY <1>1, <1>2, <1>6, PluginStageOf DEF Orders, SetStatuses
  <1>9. QED
    BY <1>8, <1>5, <1>6, PluginTurns

LEMMA LoadEnabledKeeps ==
  ASSUME PluginInv, NEW p \in Procs, LoadEnabled(p)
  PROVE  PluginInv'
  <1>1. /\ PluginStageOK(proc[p]) /\ proc[p] # resting /\ DOMAIN proc[p] = PluginFields
        /\ proc[p].at = "load" /\ UNCHANGED <<pluginRecords, quiet>>
        /\ proc[p].cmd.do \in Orders
    BY PluginStageOf DEF LoadEnabled
  <1>2. PICK r : r = proc[p]
    OBVIOUS
  <1>3. PICK owners : Goes(p, [r EXCEPT !.at = r.cmd.do, !.todo = <<>>, !.owners = owners])
    BY <1>2 DEF LoadEnabled
  <1>4. PICK s : s = [r EXCEPT !.at = r.cmd.do, !.todo = <<>>, !.owners = owners]
    OBVIOUS
  <1>5. s.at = r.cmd.do /\ s.next = r.next /\ s.cmd = r.cmd /\ DOMAIN s = PluginFields
    BY <1>1, <1>2, <1>4 DEF PluginFields
  <1>6. s.at \in Orders
    BY <1>1, <1>2, <1>5
  <1>7. /\ proc[p].at # "idle" /\ proc[p].at # "forget" /\ UNCHANGED <<pluginRecords, quiet>>
        /\ s.cmd = proc[p].cmd /\ s.next \in {proc[p].next, "listed", "place"}
        /\ s.next = "place" => drafts[s.cmd.id] # NONE
        /\ s.at = "place" => s.next = "place"
        /\ s.at \in Orders \cup {"sync", "load", "place", "listed", "status"}
        /\ s.at \in Orders => s.cmd.do = s.at
        /\ s.at = "status" => s.cmd.do \in SetStatuses /\ Get(s.cmd.id)
    BY <1>1, <1>2, <1>5, <1>6, PluginStageOf DEF Orders, SetStatuses
  <1>8. QED
    BY <1>7, <1>3, <1>4, <1>5, PluginTurns

LEMMA PluginInstallKeeps ==
  ASSUME PluginInv, NEW p \in Procs, PluginInstall(p)
  PROVE  PluginInv'
  <1>1. /\ PluginStageOK(proc[p]) /\ proc[p] # resting /\ DOMAIN proc[p] = PluginFields
        /\ proc[p].at = "install" /\ UNCHANGED <<pluginRecords, quiet>>
    BY PluginStageOf DEF PluginInstall, Do
  <1>2. PICK r : r = proc[p]
    OBVIOUS
  <1>3. PICK todo : todo = PluginDirs
    OBVIOUS
  <1>4. PICK s : s = [r EXCEPT !.at = "sync", !.todo = todo, !.next = "place"]
    OBVIOUS
  <1>5. Goes(p, s) /\ drafts[r.cmd.id] # NONE
    BY <1>2, <1>3, <1>4 DEF PluginInstall, Sound
  <1>6. s.at = "sync" /\ s.next = "place" /\ s.cmd = r.cmd /\ DOMAIN s = PluginFields
    BY <1>1, <1>2, <1>4 DEF PluginFields
  <1>7. /\ proc[p].at # "idle" /\ proc[p].at # "forget" /\ UNCHANGED <<pluginRecords, quiet>>
        /\ s.cmd = proc[p].cmd /\ s.next \in {proc[p].next, "listed", "place"}
        /\ s.next = "place" => drafts[s.cmd.id] # NONE
        /\ s.at = "place" => s.next = "place"
        /\ s.at \in Orders \cup {"sync", "load", "place", "listed", "status"}
        /\ s.at \in Orders => s.cmd.do = s.at
        /\ s.at = "status" => s.cmd.do \in SetStatuses /\ Get(s.cmd.id)
    BY <1>1, <1>2, <1>5, <1>6 DEF Orders, SetStatuses, PluginStageOK
  <1>8. QED
    BY <1>7, <1>5, <1>6, PluginTurns

LEMMA ListPluginsKeeps ==
  ASSUME PluginInv, NEW p \in Procs, ListPlugins(p)
  PROVE  PluginInv'
  <1>1. /\ PluginStageOK(proc[p]) /\ proc[p] # resting /\ DOMAIN proc[p] = PluginFields
        /\ proc[p].at = "list" /\ UNCHANGED <<pluginRecords, quiet>>
    BY PluginStageOf DEF ListPlugins, Do
  <1>2. PICK r : r = proc[p]
    OBVIOUS
  <1>3. PICK todo : todo = PluginDirs
    OBVIOUS
  <1>4. PICK s : s = [r EXCEPT !.at = "sync", !.todo = todo, !.next = "listed"]
    OBVIOUS
  <1>5. Goes(p, s)
    BY <1>2, <1>3, <1>4 DEF ListPlugins
  <1>6. s.at = "sync" /\ s.next = "listed" /\ s.cmd = r.cmd /\ DOMAIN s = PluginFields
    BY <1>1, <1>2, <1>4 DEF PluginFields
  <1>7. /\ proc[p].at # "idle" /\ proc[p].at # "forget" /\ UNCHANGED <<pluginRecords, quiet>>
        /\ s.cmd = proc[p].cmd /\ s.next \in {proc[p].next, "listed", "place"}
        /\ s.next = "place" => drafts[s.cmd.id] # NONE
        /\ s.at = "place" => s.next = "place"
        /\ s.at \in Orders \cup {"sync", "load", "place", "listed", "status"}
        /\ s.at \in Orders => s.cmd.do = s.at
        /\ s.at = "status" => s.cmd.do \in SetStatuses /\ Get(s.cmd.id)
    BY <1>1, <1>2, <1>5, <1>6 DEF Orders, SetStatuses, PluginStageOK
  <1>8. QED
    BY <1>7, <1>5, <1>6, PluginTurns

LEMMA SetPluginStatusKeeps ==
  ASSUME PluginInv, NEW p \in Procs, proc[p].at \in SetStatuses, SetPluginStatus(p)
  PROVE  PluginInv'
  <1>1. /\ PluginStageOK(proc[p]) /\ proc[p] # resting /\ DOMAIN proc[p] = PluginFields
        /\ proc[p].at \in Orders /\ UNCHANGED <<pluginRecords, quiet>>
    BY PluginStageOf DEF SetPluginStatus, SetStatuses, Orders
  <1>2. PICK r : r = proc[p]
    OBVIOUS
  <1>3. PICK s : s = [r EXCEPT !.at = "status"]
    OBVIOUS
  <1>4. Goes(p, s) /\ Get(r.cmd.id)
    BY <1>2, <1>3 DEF SetPluginStatus
  <1>5. s.at = "status" /\ s.next = r.next /\ s.cmd = r.cmd /\ DOMAIN s = PluginFields
    BY <1>1, <1>2, <1>3 DEF PluginFields
  <1>6. r.cmd.do \in SetStatuses
    BY <1>1, <1>2 DEF PluginStageOK
  <1>7. /\ proc[p].at # "idle" /\ proc[p].at # "forget" /\ UNCHANGED <<pluginRecords, quiet>>
        /\ s.cmd = proc[p].cmd /\ s.next \in {proc[p].next, "listed", "place"}
        /\ s.next = "place" => drafts[s.cmd.id] # NONE
        /\ s.at = "place" => s.next = "place"
        /\ s.at \in Orders \cup {"sync", "load", "place", "listed", "status"}
        /\ s.at \in Orders => s.cmd.do = s.at
        /\ s.at = "status" => s.cmd.do \in SetStatuses /\ Get(s.cmd.id)
    BY <1>1, <1>2, <1>4, <1>5, <1>6, PluginStageOf DEF Orders, SetStatuses
  <1>8. QED
    BY <1>7, <1>4, <1>5, PluginTurns

\* A command is refused, or what it asks for is on the screen.
LEMMA PluginReadsKeep ==
  ASSUME PluginInv, NEW p \in Procs,
         \/ PluginRefused(p) \/ SyncRaised(p) \/ PluginList(p) \/ PluginInfo(p)
         \/ PluginCheck(p) \/ AssertCapabilityAllowed(p)
  PROVE  PluginInv'
  <1>1. ASSUME PluginRefused(p) \/ SyncRaised(p)
        PROVE  PluginInv'
    <2>1. proc[p].at # "forget" /\ Refuses(p) /\ UNCHANGED pluginRecords
      BY <1>1 DEF PluginRefused, SyncRaised, Do
    <2>2. QED
      BY <2>1, PluginEnds
  <1>2. ASSUME PluginList(p) \/ PluginInfo(p) \/ PluginCheck(p) \/ AssertCapabilityAllowed(p)
        PROVE  PluginInv'
    <2>1. proc[p].at # "forget" /\ Goes(p, resting) /\ UNCHANGED <<pluginRecords, quiet>>
      BY <1>2 DEF PluginList, PluginInfo, PluginCheck, AssertCapabilityAllowed, Do
    <2>2. QED
      BY <2>1, PluginAnswers
  <1>3. QED
    BY <1>1, <1>2

(***************************************************************************)
(* Steps that write a row or a directory.                                  *)
(***************************************************************************)

LEMMA RowMade ==
  ASSUME NEW status \in Statuses, NEW trust \in TrustLevels, NEW m \in AllPackages
  PROVE  Row(status, trust, m) \in PluginRows /\ Row(status, trust, m) # NONE
  BY AbsenceAssumption DEF PluginRows

\* What is left to show of a step of p that keeps the types.
LEMMA PluginWrites ==
  ASSUME PluginInv, PluginTyped', PluginsStay, NEW p \in Procs, NEW s, Moved(p, s),
         PluginStageOK(s)', stranded \subseteq stranded',
         Updates(p) \/ UNCHANGED <<registry, quiet>>, s.at # "status",
         \A j \in Ids : Get(j)' =>
           \/ disk'[j] # NONE \/ j \in stranded' \/ (s.at = "forget" /\ s.cmd.id = j)
           \/ /\ Get(j) /\ (disk[j] # NONE => disk'[j] # NONE)
              /\ ~ (proc[p].at = "forget" /\ proc[p].cmd.id = j)
  PROVE  PluginInv'
  <1>1. PluginProcs'
    BY PluginProcsStay DEF PluginInv
  <1>2. proc'[p] = s /\ \A q \in Procs \ {p} : proc'[q] = proc[q]
    BY DEF Moved, PluginInv, PluginProcs
  <1>3. LookedUp'
    <2>1. CASE Updates(p)
      <3>1. /\ quiet' = [q \in Procs |-> quiet'[q]]
            /\ \A q \in Procs \ {p} : quiet'[q] => proc[q] = resting
        BY <2>1 DEF Updates
      <3>2. \A q \in Procs \ {p} : proc[q].at = "status" => ~ quiet'[q]
        BY <3>1 DEF resting
      <3>3. QED
        BY <1>2, <2>1, <3>1, <3>2 DEF LookedUp, Do
    <2>2. CASE UNCHANGED <<registry, quiet>>
      BY <1>2, <2>2 DEF PluginInv, LookedUp, Do, Get
    <2>3. QED
      BY <2>1, <2>2
  <1>4. RowsHaveFiles'
    <2>1. ASSUME NEW j \in Ids, Get(j)'
          PROVE  \/ disk'[j] # NONE \/ j \in stranded'
                 \/ \E q \in Procs : proc'[q].at = "forget" /\ proc'[q].cmd.id = j
      <3>1. CASE disk'[j] # NONE \/ j \in stranded' \/ (s.at = "forget" /\ s.cmd.id = j)
        BY <1>2, <3>1
      <3>2. CASE /\ Get(j) /\ (disk[j] # NONE => disk'[j] # NONE)
                 /\ ~ (proc[p].at = "forget" /\ proc[p].cmd.id = j)
        <4>1. \/ disk[j] # NONE \/ j \in stranded
              \/ \E q \in Procs : proc[q].at = "forget" /\ proc[q].cmd.id = j
          BY <3>2 DEF PluginInv, RowsHaveFiles, Do
        <4>2. QED
          BY <1>2, <3>2, <4>1
      <3>3. QED
        BY <2>1, <3>1, <3>2
    <2>2. QED
      BY <2>1 DEF RowsHaveFiles, Do
  <1>5. QED
    BY <1>1, <1>3, <1>4 DEF PluginInv

LEMMA SyncInsertKeeps ==
  ASSUME PluginInv, NEW p \in Procs, SyncInsert(p)
  PROVE  PluginInv'
  <1>1. /\ PluginStageOK(proc[p]) /\ proc[p] # resting /\ DOMAIN proc[p] = PluginFields
        /\ proc[p].at = "insert" /\ UNCHANGED <<disk, drafts, stranded>> /\ Updates(p)
    BY PluginStageOf DEF SyncInsert, RowWritten
  <1>2. PICK r : r = proc[p]
    OBVIOUS
  <1>3. PICK i : i = Head(r.todo)
    OBVIOUS
  <1>4. PICK status \in Statuses :
          /\ registry[i] = NONE
          /\ registry' = [registry EXCEPT ![i] = Row(status, r.seen.trust, r.seen)]
    BY <1>2, <1>3 DEF SyncInsert, Statuses
  <1>5. PICK s : s = [r EXCEPT !.at = "sync", !.todo = Tail(@), !.seen = NONE]
    OBVIOUS
  <1>6. /\ s.at = "sync" /\ s.next = r.next /\ s.cmd = r.cmd /\ DOMAIN s = PluginFields
    BY <1>1, <1>2, <1>5 DEF PluginFields
  <1>7. Moved(p, s)
    BY <1>2, <1>5 DEF SyncInsert, RowWritten, Goes, Moved
  <1>8. r.seen.trust \in TrustLevels
    <2>1. Sound(r.seen)
      BY <1>1, <1>2 DEF PluginStageOK
    <2>2. QED
      BY <2>1 DEF Sound, Errors
  <1>9. i \in Ids => /\ r.seen \in AllPackages /\ disk[i] # NONE
                     /\ Row(status, r.seen.trust, r.seen) \in PluginRows \ {NONE}
    BY <1>1, <1>2, <1>3, <1>4, <1>8, RowMade DEF PluginStageOK
  <1>10. PluginTyped' /\ PluginsStay
    BY <1>1, <1>4, <1>9 DEF PluginInv, PluginTyped, PluginsStay
  <1>11. PluginStageOK(s)'
    <2>1. PluginStageOK(s)
      BY <1>1, <1>2, <1>6 DEF PluginStageOK, PluginStages, Orders
    <2>2. QED
      BY <1>10, <2>1, PluginStageStays
  <1>12. \A j \in Ids : Get(j)' => disk'[j] # NONE \/ (Get(j) /\ disk'[j] = disk[j])
    BY <1>1, <1>4, <1>9 DEF Get, PluginInv, PluginTyped
  <1>13. QED
    BY <1>1, <1>6, <1>7, <1>10, <1>11, <1>12, PluginWrites

LEMMA SyncUpdateKeeps ==
  ASSUME PluginInv, NEW p \in Procs, SyncUpdate(p)
  PROVE  PluginInv'
  <1>1. /\ PluginStageOK(proc[p]) /\ proc[p] # resting /\ DOMAIN proc[p] = PluginFields
        /\ proc[p].at = "update" /\ UNCHANGED <<disk, drafts, stranded>> /\ Updates(p)
    BY PluginStageOf DEF SyncUpdate, RowWritten
  <1>2. PICK r : r = proc[p]
    OBVIOUS
  <1>3. PICK i : i = Head(r.todo)
    OBVIOUS
  <1>4. registry' = [registry EXCEPT ![i] = Row(registry[i].status, r.seen.trust, r.seen)]
    BY <1>2, <1>3 DEF SyncUpdate
  <1>5. PICK s : s = [r EXCEPT !.at = "sync", !.todo = Tail(@), !.seen = NONE]
    OBVIOUS
  <1>6. /\ s.at = "sync" /\ s.next = r.next /\ s.cmd = r.cmd /\ DOMAIN s = PluginFields
    BY <1>1, <1>2, <1>5 DEF PluginFields
  <1>7. Moved(p, s)
    BY <1>2, <1>5 DEF SyncUpdate, RowWritten, Goes, Moved
  <1>8. r.seen.trust \in TrustLevels
    <2>1. Sound(r.seen)
      BY <1>1, <1>2 DEF PluginStageOK
    <2>2. QED
      BY <2>1 DEF Sound, Errors
  <1>9. i \in Ids => /\ r.seen \in AllPackages /\ registry[i] # NONE
                     /\ registry[i].status \in Statuses
                     /\ Row(registry[i].status, r.seen.trust, r.seen) \in PluginRows \ {NONE}
    <2>1. i \in Ids => r.seen \in AllPackages /\ registry[i] # NONE
      BY <1>1, <1>2, <1>3 DEF PluginStageOK
    <2>2. i \in Ids => registry[i].status \in Statuses
      BY <2>1 DEF PluginInv, PluginTyped, PluginRows, Row
    <2>3. QED
      BY <1>8, <2>1, <2>2, RowMade
  <1>10. PluginTyped' /\ PluginsStay
    BY <1>1, <1>4, <1>9 DEF PluginInv, PluginTyped, PluginsStay
  <1>11. PluginStageOK(s)'
    <2>1. PluginStageOK(s)
      BY <1>1, <1>2, <1>6 DEF PluginStageOK, PluginStages, Orders
    <2>2. QED
      BY <1>10, <2>1, PluginStageStays
  <1>12. \A j \in Ids : Get(j)' => Get(j) /\ disk'[j] = disk[j]
    BY <1>1, <1>4, <1>9 DEF Get, Row, PluginInv, PluginTyped
  <1>13. QED
    BY <1>1, <1>6, <1>7, <1>10, <1>11, <1>12, PluginWrites

LEMMA PlaceKeeps ==
  ASSUME PluginInv, NEW p \in Procs, Place(p)
  PROVE  PluginInv'
  <1>1. /\ PluginStageOK(proc[p]) /\ proc[p] # resting /\ DOMAIN proc[p] = PluginFields
        /\ proc[p].cmd.id \in Ids /\ proc[p].at = "place"
        /\ UNCHANGED <<drafts, registry, stranded, quiet>>
    BY PluginStageOf DEF Place, Do
  <1>2. PICK r : r = proc[p]
    OBVIOUS
  <1>3. PICK i : i = r.cmd.id
    OBVIOUS
  <1>4. i \in Ids /\ ~ Get(i) /\ disk[i] = NONE /\ disk' = [disk EXCEPT ![i] = drafts[i]]
    BY <1>1, <1>2, <1>3 DEF Place
  <1>5. PICK s : s = [r EXCEPT !.at = "record", !.seen = drafts[i]]
    OBVIOUS
  <1>6. /\ s.at = "record" /\ s.next = r.next /\ s.cmd = r.cmd /\ s.seen = drafts[i]
        /\ DOMAIN s = PluginFields
    BY <1>1, <1>2, <1>5 DEF PluginFields
  <1>7. Moved(p, s)
    BY <1>2, <1>3, <1>5 DEF Place, Goes, Moved
  <1>8. drafts[i] # NONE /\ drafts[i] \in AllPackages
    BY <1>1, <1>2, <1>3, <1>4, PluginStageOf DEF PluginInv, PluginTyped
  <1>9. PluginTyped' /\ PluginsStay /\ disk'[i] # NONE
    BY <1>1, <1>4, <1>8 DEF PluginInv, PluginTyped, PluginsStay
  <1>10. PluginStageOK(s)'
    BY <1>1, <1>2, <1>3, <1>4, <1>6, <1>8, <1>9
    DEF PluginStageOK, PluginStages, Orders, PluginInv, PluginTyped
  <1>11. \A j \in Ids : Get(j)' => Get(j) /\ (disk[j] # NONE => disk'[j] # NONE)
    BY <1>1, <1>4, <1>8 DEF Get, PluginInv, PluginTyped
  <1>12. QED
    BY <1>1, <1>6, <1>7, <1>9, <1>10, <1>11, PluginWrites

LEMMA RestingStage ==
  PluginStageOK(resting)' /\ resting.at = "idle"
  BY DEF PluginStageOK, resting

LEMMA RecordInstallKeeps ==
  ASSUME PluginInv, NEW p \in Procs, RecordInstall(p)
  PROVE  PluginInv'
  <1>1. /\ PluginStageOK(proc[p]) /\ proc[p] # resting /\ proc[p].cmd \in PluginCommands
        /\ proc[p].cmd.id \in Ids /\ proc[p].at = "record"
        /\ UNCHANGED <<disk, drafts, stranded>>
    BY PluginStageOf DEF RecordInstall, Do
  <1>2. PICK r : r = proc[p]
    OBVIOUS
  <1>3. PICK i : i = r.cmd.id
    OBVIOUS
  <1>4. CASE registry[i] = NONE
    <2>1. PICK status \in Statuses :
            registry' = [registry EXCEPT ![i] = Row(status, r.cmd.trust, r.seen)]
      BY <1>2, <1>3, <1>4 DEF RecordInstall, Statuses
    <2>2. Moved(p, resting) /\ Updates(p)
      BY <1>2, <1>3, <1>4 DEF RecordInstall, Goes, Moved
    <2>3. i \in Ids /\ r.seen \in AllPackages /\ r.cmd.trust \in TrustLevels /\ disk[i] # NONE
      BY <1>1, <1>2, <1>3, <1>4, CommandFields DEF PluginStageOK
    <2>4. Row(status, r.cmd.trust, r.seen) \in PluginRows \ {NONE}
      BY <2>3, RowMade
    <2>5. PluginTyped' /\ PluginsStay
      BY <1>1, <2>1, <2>3, <2>4 DEF PluginInv, PluginTyped, PluginsStay
    <2>6. \A j \in Ids : Get(j)' => disk'[j] # NONE \/ (Get(j) /\ disk'[j] = disk[j])
      BY <1>1, <2>1, <2>3 DEF Get, PluginInv, PluginTyped
    <2>7. QED
      BY <1>1, <2>2, <2>5, <2>6, RestingStage, PluginWrites
  <1>5. CASE registry[i] # NONE
    <2>1. Refuses(p) /\ UNCHANGED pluginRecords
      BY <1>1, <1>2, <1>3, <1>5 DEF RecordInstall, pluginRecords
    <2>2. QED
      BY <1>1, <2>1, PluginEnds
  <1>6. QED
    BY <1>4, <1>5

\* Setting the status of a row leaves a row.
LEMMA StatusSet ==
  ASSUME PluginTyped, NEW i \in Ids, registry[i] # NONE, NEW status \in Statuses,
         registry' = [registry EXCEPT ![i].status = status]
  PROVE  /\ registry' \in [Ids -> PluginRows \cup {NONE}]
         /\ registry'[i] # NONE /\ registry'[i].status = status
         /\ \A j \in Ids \ {i} : registry'[j] = registry[j]
  <1>1. PICK old \in Statuses, trust \in TrustLevels, m \in AllPackages :
          registry[i] = Row(old, trust, m)
    BY DEF PluginTyped, PluginRows
  <1>2. PICK row : row = [registry[i] EXCEPT !.status = status]
    OBVIOUS
  <1>3. row = Row(status, trust, m)
    BY <1>1, <1>2 DEF Row
  <1>4. row \in PluginRows /\ row # NONE /\ row.status = status
    <2>1. row \in PluginRows /\ row # NONE
      BY <1>3, RowMade
    <2>2. row.status = status
      BY <1>3 DEF Row
    <2>3. QED
      BY <2>1, <2>2
  <1>5. registry' = [registry EXCEPT ![i] = row]
    BY <1>2
  <1>6. registry'[i] = row /\ \A j \in Ids \ {i} : registry'[j] = registry[j]
    BY <1>5 DEF PluginTyped
  <1>7. QED
    BY <1>4, <1>5, <1>6 DEF PluginTyped

LEMMA WriteStatusKeeps ==
  ASSUME PluginInv, NEW p \in Procs, WriteStatus(p)
  PROVE  PluginInv'
  <1>1. /\ PluginStageOK(proc[p]) /\ proc[p] # resting /\ proc[p].cmd.id \in Ids
        /\ proc[p].at = "status" /\ UNCHANGED <<disk, drafts>>
    BY PluginStageOf DEF WriteStatus, Do
  <1>2. PICK i \in Ids : i = proc[p].cmd.id
    BY <1>1
  <1>3. PICK status : status = proc[p].cmd.do
    OBVIOUS
  <1>4. /\ registry' = [registry EXCEPT ![i].status = status]
        /\ stranded' = IF disk[i] # NONE \/ quiet[p] THEN stranded ELSE stranded \cup {i}
    BY <1>2, <1>3 DEF WriteStatus
  <1>5. Moved(p, resting) /\ Updates(p)
    BY DEF WriteStatus, Goes, Moved
  <1>6. status \in Statuses /\ registry[i] # NONE
    BY <1>1, <1>2, <1>3 DEF PluginStageOK, SetStatuses, Statuses
  <1>7. /\ registry' \in [Ids -> PluginRows \cup {NONE}] /\ registry'[i] # NONE
        /\ \A j \in Ids \ {i} : registry'[j] = registry[j]
    BY <1>4, <1>6, StatusSet DEF PluginInv
  <1>8. PluginTyped' /\ PluginsStay /\ stranded \subseteq stranded'
    BY <1>1, <1>4, <1>7 DEF PluginInv, PluginTyped, PluginsStay
  <1>9. disk[i] # NONE \/ i \in stranded' \/ Get(i)
    BY <1>1, <1>2, <1>4 DEF PluginInv, LookedUp, Do
  <1>10. \A j \in Ids : Get(j)' => \/ disk'[j] # NONE \/ j \in stranded'
                                   \/ Get(j) /\ disk'[j] = disk[j]
    BY <1>1, <1>7, <1>9 DEF Get
  <1>11. QED
    BY <1>1, <1>5, <1>8, <1>10, RestingStage, PluginWrites

LEMMA PluginUninstallKeeps ==
  ASSUME PluginInv, NEW p \in Procs, PluginUninstall(p)
  PROVE  PluginInv'
  <1>1. /\ PluginStageOK(proc[p]) /\ proc[p] # resting /\ DOMAIN proc[p] = PluginFields
        /\ proc[p].cmd.id \in Ids /\ proc[p].at = "uninstall"
        /\ UNCHANGED <<drafts, registry, stranded, quiet>>
    BY PluginStageOf DEF PluginUninstall, Do
  <1>2. PICK r : r = proc[p]
    OBVIOUS
  <1>3. PICK i \in Ids : i = r.cmd.id
    BY <1>1, <1>2
  <1>4. Get(i) /\ disk' = [disk EXCEPT ![i] = NONE]
    BY <1>2, <1>3 DEF PluginUninstall
  <1>5. PICK s : s = [r EXCEPT !.at = "forget"]
    OBVIOUS
  <1>6. s.at = "forget" /\ s.next = r.next /\ s.cmd = r.cmd /\ DOMAIN s = PluginFields
    BY <1>1, <1>2, <1>5 DEF PluginFields
  <1>7. Moved(p, s)
    BY <1>2, <1>5 DEF PluginUninstall, Goes, Moved
  <1>8. PluginTyped' /\ PluginsStay
    BY <1>1, <1>4 DEF PluginInv, PluginTyped, PluginsStay, Get
  <1>9. PluginStageOK(s)'
    <2>1. PluginStageOK(s)
      BY <1>1, <1>2, <1>3, <1>4, <1>6 DEF PluginStageOK, PluginStages, Orders, Get
    <2>2. QED
      BY <1>8, <2>1, PluginStageStays
  <1>10. \A j \in Ids : Get(j)' => \/ s.at = "forget" /\ s.cmd.id = j
                                   \/ Get(j) /\ disk'[j] = disk[j]
    BY <1>1, <1>2, <1>3, <1>4, <1>6 DEF Get, PluginInv, PluginTyped
  <1>11. QED
    BY <1>1, <1>6, <1>7, <1>8, <1>9, <1>10, PluginWrites

LEMMA ForgetPluginKeeps ==
  ASSUME PluginInv, NEW p \in Procs, ForgetPlugin(p)
  PROVE  PluginInv'
  <1>1. /\ PluginStageOK(proc[p]) /\ proc[p] # resting /\ proc[p].cmd.id \in Ids
        /\ proc[p].at = "forget" /\ UNCHANGED <<disk, drafts, stranded>>
    BY PluginStageOf DEF ForgetPlugin, Do
  <1>2. PICK i \in Ids : i = proc[p].cmd.id
    BY <1>1
  <1>3. registry' = [registry EXCEPT ![i].status = "UNINSTALLED"]
    BY <1>2 DEF ForgetPlugin
  <1>4. Moved(p, resting) /\ Updates(p)
    BY DEF ForgetPlugin, Goes, Moved
  <1>5. "UNINSTALLED" \in Statuses /\ registry[i] # NONE
    BY <1>1, <1>2 DEF PluginStageOK, Statuses
  <1>6. /\ registry' \in [Ids -> PluginRows \cup {NONE}] /\ registry'[i] # NONE
        /\ registry'[i].status = "UNINSTALLED" /\ \A j \in Ids \ {i} : registry'[j] = registry[j]
    BY <1>3, <1>5, StatusSet DEF PluginInv
  <1>7. PluginTyped' /\ PluginsStay
    BY <1>1, <1>6 DEF PluginInv, PluginTyped, PluginsStay
  <1>8. \A j \in Ids : Get(j)' => Get(j) /\ disk'[j] = disk[j] /\ j # proc[p].cmd.id
    BY <1>1, <1>2, <1>6 DEF Get
  <1>9. QED
    BY <1>1, <1>4, <1>7, <1>8, RestingStage, PluginWrites

\* A kill between the directory and the row leaves the plugin among the stranded.
LEMMA PluginKilledKeeps ==
  ASSUME PluginInv, NEW p \in Procs, PluginKilled(p)
  PROVE  PluginInv'
  <1>1. proc[p] # resting /\ Refuses(p) /\ UNCHANGED <<disk, drafts, registry>>
    BY DEF PluginKilled, Refuses, Ends
  <1>2. CASE proc[p].at # "forget"
    BY <1>1, <1>2, PluginEnds DEF PluginKilled, Do, pluginRecords
  <1>3. CASE proc[p].at = "forget"
    <2>1. proc[p].cmd.id \in Ids /\ stranded' = stranded \cup {proc[p].cmd.id}
      BY <1>3, PluginStageOf DEF PluginKilled, Do
    <2>2. PluginTyped' /\ PluginsStay /\ stranded \subseteq stranded'
      BY <1>1, <2>1 DEF PluginInv, PluginTyped, PluginsStay
    <2>3. Moved(p, resting) /\ quiet' = [quiet EXCEPT ![p] = TRUE]
      BY <1>1 DEF Refuses, Ends, Goes, Moved
    <2>4. proc'[p] = resting /\ \A q \in Procs \ {p} : proc'[q] = proc[q]
      BY <2>3 DEF Moved, PluginInv, PluginProcs
    <2>5. PluginProcs'
      BY <2>2, <2>3, RestingStage, PluginProcsStay DEF PluginInv
    <2>6. LookedUp'
      <3>1. quiet' = [q \in Procs |-> quiet'[q]] /\ \A q \in Procs \ {p} : quiet'[q] = quiet[q]
        BY <2>3 DEF PluginInv, LookedUp
      <3>2. QED
        BY <1>1, <2>4, <3>1, RestingStage DEF PluginInv, LookedUp, Do, Get
    <2>7. RowsHaveFiles'
      BY <1>1, <2>1, <2>4 DEF PluginInv, RowsHaveFiles, Do, Get
    <2>8. QED
      BY <2>2, <2>5, <2>6, <2>7 DEF PluginInv
  <1>4. QED
    BY <1>2, <1>3

\* A package in a developer's directory is edited, or one in the plugin's own.
LEMMA PackageWritten ==
  ASSUME PluginInv, UNCHANGED <<registry, stranded, proc, quiet>>,
         NEW i \in Ids, NEW m \in AllPackages,
         \/ drafts' = [drafts EXCEPT ![i] = m] /\ UNCHANGED disk
         \/ disk' = [disk EXCEPT ![i] = m] /\ UNCHANGED drafts
  PROVE  PluginInv'
  <1>1. PluginTyped' /\ PluginsStay /\ \A j \in Ids : disk[j] # NONE => disk'[j] # NONE
    BY AbsenceAssumption DEF PluginInv, PluginTyped, PluginsStay
  <1>2. PluginProcs'
    <2>1. ASSUME NEW q \in Procs
          PROVE  PluginStageOK(proc[q])'
      <3>1. PICK r : r = proc[q]
        OBVIOUS
      <3>2. PluginStageOK(r)'
        BY <1>1, <3>1, PluginStageStays DEF PluginInv, PluginProcs
      <3>3. QED
        BY <3>1, <3>2
    <2>2. QED
      BY <2>1 DEF PluginInv, PluginProcs
  <1>3. LookedUp' /\ RowsHaveFiles'
    BY <1>1 DEF PluginInv, LookedUp, RowsHaveFiles, Get, Do
  <1>4. QED
    BY <1>1, <1>2, <1>3 DEF PluginInv

LEMMA EditedKeeps ==
  ASSUME PluginInv, NEW i \in Ids, NEW m \in Packages, Edited(i, m)
  PROVE  PluginInv'
  <1>1. m \in AllPackages
    BY DEF AllPackages
  <1>2. QED
    BY <1>1, PackageWritten DEF Edited, consoleVars, deskVars

LEMMA ScaffoldKeeps ==
  ASSUME PluginInv, NEW t \in Procs, NEW i \in Ids, NEW category \in Categories,
         NEW trust \in TrustLevels, NEW safety \in SafetyClasses, NEW m \in Packages,
         Scaffold(t, i, category, trust, safety, m.name)
  PROVE  PluginInv'
  <1>1. PICK package : package = Manifest(i, category, trust, safety, m.name, "Adapter")
    OBVIOUS
  <1>2. package \in AllPackages /\ drafts' = [drafts EXCEPT ![i] = package]
    BY <1>1 DEF Scaffold, AllPackages
  <1>3. /\ Moved(t, resting) /\ quiet' = [quiet EXCEPT ![t] = TRUE]
        /\ UNCHANGED <<disk, registry, stranded>> /\ proc[t] = resting
    BY DEF Scaffold, Commands, Starts, Moved
  <1>4. PluginTyped' /\ PluginsStay
    BY <1>2, <1>3, AbsenceAssumption DEF PluginInv, PluginTyped, PluginsStay
  <1>5. proc'[t] = resting /\ \A q \in Procs \ {t} : proc'[q] = proc[q]
    BY <1>3 DEF Moved, PluginInv, PluginProcs
  <1>6. PluginProcs'
    BY <1>3, <1>4, RestingStage, PluginProcsStay DEF PluginInv
  <1>7. LookedUp'
    <2>1. quiet' = [q \in Procs |-> quiet'[q]] /\ \A q \in Procs \ {t} : quiet'[q] = quiet[q]
      BY <1>3 DEF PluginInv, LookedUp
    <2>2. QED
      BY <1>3, <1>5, <2>1, RestingStage DEF PluginInv, LookedUp, Do, Get
  <1>8. RowsHaveFiles'
    BY <1>3, <1>5, RestingStage DEF PluginInv, RowsHaveFiles, Do, Get
  <1>9. QED
    BY <1>4, <1>6, <1>7, <1>8 DEF PluginInv

(***************************************************************************)
(* Plugins: the theorems.                                                  *)
(***************************************************************************)

LEMMA PluginStarts == DeskInit /\ ConsoleInit /\ PluginInit => PluginInv
  <1> SUFFICES ASSUME DeskInit, PluginInit
               PROVE  PluginInv
    OBVIOUS
  <1>1. PluginTyped
    BY BundledAssumption DEF PluginInit, PluginTyped, AllPackages
  <1>2. PluginProcs
    BY DEF DeskInit, PluginProcs, PluginStageOK
  <1>3. LookedUp
    BY DEF DeskInit, LookedUp, Do, resting
  <1>4. RowsHaveFiles
    BY DEF PluginInit, RowsHaveFiles, Get
  <1>5. QED
    BY <1>1, <1>2, <1>3, <1>4 DEF PluginInv

LEMMA PluginKeeps == PluginInv /\ [PluginNext]_pluginVars => PluginInv'
  <1> SUFFICES ASSUME PluginInv, [PluginNext]_pluginVars
               PROVE  PluginInv'
    OBVIOUS
  <1>1. CASE UNCHANGED pluginVars
    <2>1. PluginStageOK(resting) /\ resting.at # "status"
      BY DEF PluginStageOK, resting
    <2>2. UNCHANGED <<disk, drafts, registry, stranded, proc, quiet>>
      BY <1>1 DEF pluginVars, pluginRecords, consoleVars, deskVars
    <2>3. QED
      BY <2>2 DEF PluginInv, PluginTyped, PluginProcs, PluginStageOK, LookedUp, RowsHaveFiles,
                  Get, Do
  <1>2. ASSUME NEW p \in Procs, SyncStep(p)
        PROVE  PluginInv'
    BY <1>2, SyncFindKeeps, SyncInsertKeeps, SyncUpdateKeeps, PluginReadsKeep, SyncedKeeps,
       LoadEnabledKeeps DEF SyncStep
  <1>3. ASSUME NEW p \in Procs, InstallStep(p)
        PROVE  PluginInv'
    BY <1>3, PluginInstallKeeps, PlaceKeeps, RecordInstallKeeps DEF InstallStep
  <1>4. ASSUME NEW p \in Procs, StatusStep(p)
        PROVE  PluginInv'
    <2>1. CASE PluginEnable(p) \/ PluginDisable(p) \/ PluginBlock(p)
      BY <2>1, SetPluginStatusKeeps
      DEF PluginEnable, PluginDisable, PluginBlock, Do, SetStatuses
    <2>2. QED
      BY <1>4, <2>1, WriteStatusKeeps, PluginUninstallKeeps, ForgetPluginKeeps DEF StatusStep
  <1>5. ASSUME NEW p \in Procs, AnswerStep(p)
        PROVE  PluginInv'
    BY <1>5, ListPluginsKeeps, PluginReadsKeep DEF AnswerStep
  <1>6. ASSUME NEW p \in Procs, PluginStep(p)
        PROVE  PluginInv'
    BY <1>2, <1>3, <1>4, <1>5, <1>6, PluginReadsKeep, PluginKilledKeeps DEF PluginStep
  <1>7. QED
    BY <1>1, <1>6, PluginStartKeeps, ScaffoldKeeps, EditedKeeps DEF PluginNext

LEMMA PluginInvariant == PluginSpec => []PluginInv
  <1>1. DeskInit /\ ConsoleInit /\ PluginInit => PluginInv
    BY PluginStarts
  <1>2. PluginInv /\ [PluginNext]_pluginVars => PluginInv'
    BY PluginKeeps
  <1>3. QED
    BY <1>1, <1>2, PTL DEF PluginSpec

\* A row's status and trust level are of the enumerations the code checks them against
\* (PluginRegistryRecord, manifest.validate).
THEOREM PluginTypesCorrect == PluginSpec => []PluginTypeOK
  <1>1. PluginInv => PluginTypeOK
    BY DEF PluginInv, PluginTyped, PluginTypeOK, PluginRows, Row
  <1>2. QED
    BY <1>1, PluginInvariant, PTL

\* A row that is not uninstalled has a directory, unless the command that parts them is
\* under way, was killed or was overtaken, whatever processes start, install, uninstall
\* and set statuses meanwhile (PluginManager.install, uninstall, set_status).
THEOREM RowsKeepFiles == PluginSpec => []RowsHaveFiles
  <1>1. PluginInv => RowsHaveFiles
    BY DEF PluginInv
  <1>2. QED
    BY <1>1, PluginInvariant, PTL

-----------------------------------------------------------------------------
(***************************************************************************)
(* Toolbox: the invariant.                                                 *)
(***************************************************************************)

Outcomes == {"started", "success", "failed", "checked"}

ToolsTyped ==
  /\ present \subseteq Tools /\ stale \subseteq Tools
  /\ rows = [name \in Tools |-> rows[name]]
  /\ Rows(trail) /\ \A k \in DOMAIN trail : trail[k].outcome \in Outcomes

ToolStage(s) ==
  \/ s = resting
  \/ s.at = "install" /\ DOMAIN s = {"at", "capability", "package"}
  \/ s.at \in {"apt", "refresh"} /\ DOMAIN s = {"at", "tool"} /\ s.tool \in Tools
  \/ /\ s.at = "persist" /\ DOMAIN s = {"at", "found", "answer", "tool"}
     /\ s.found = [name \in Tools |-> s.found[name]]
  \/ /\ s.at \in {"health", "missing"} /\ DOMAIN s = {"at", "found"}
     /\ s.found = [name \in Tools |-> s.found[name]]

ToolStages == proc = [p \in Procs |-> proc[p]] /\ \A p \in Procs : ToolStage(proc[p])

\* What the path held when it was searched.
Found(s) == \A name \in Tools : s.found[name].ready <=> name \in present

\* What a search has found still holds when nobody has overlapped the command.
FoundHolds ==
  /\ quiet = [p \in Procs |-> quiet[p]]
  /\ \A p \in Procs : proc[p].at \in {"persist", "health"} /\ quiet[p] => Found(proc[p])

ToolInv == ToolsTyped /\ ToolStages /\ FoundHolds /\ InstalledIsReady

\* The stage is of a command that installs a tool, and will bring its row up to date.
Owes(s, name) == "tool" \in DOMAIN s /\ s.tool = name

(***************************************************************************)
(* The catalogue and the audit entries.                                    *)
(***************************************************************************)

LEMMA LeastPosition ==
  ASSUME NEW S, S \subseteq DOMAIN Catalogue, S # {}
  PROVE  (CHOOSE k \in S : \A j \in S : k <= j) \in S
  <1>1. S \subseteq Nat
    BY CatalogueAssumption
  <1>2. PICK k \in S : \A j \in S : ~ (<<j, k>> \in OpToRel(<, Nat))
    BY ONLY <1>1, S # {}, NatLessThanWellFounded, WFMin
  <1>3. \A j \in S : ~ (j < k)
    BY <1>1, <1>2 DEF OpToRel
  <1>4. \A j \in S : k <= j
    BY <1>1, <1>3
  <1>5. QED
    BY <1>4

\* Whatever package is asked for, the provider is a tool of the catalogue.
LEMMA ProviderIsATool ==
  ASSUME NEW capability, NEW package, FindProviders(capability) # {}
  PROVE  ProviderOf(capability, package).name \in Tools
  <1> DEFINE providers == FindProviders(capability)
             asked == {k \in providers : Catalogue[k].package = package}
             suited == IF asked = {} THEN providers ELSE asked
             first == CHOOSE k \in suited : \A j \in suited : k <= j
  <1>1. suited \subseteq DOMAIN Catalogue /\ suited # {}
    BY DEF FindProviders
  <1> HIDE DEF suited
  <1>2. first \in DOMAIN Catalogue
    BY <1>1, LeastPosition
  <1>3. ProviderOf(capability, package) = Catalogue[first]
    BY DEF ProviderOf, suited
  <1>4. QED
    BY <1>2, <1>3 DEF Tools

\* An entry is the last one of its tool and leaves the others with theirs.
LEMMA EntryAdded ==
  ASSUME Rows(trail), NEW entry, trail' = Append(trail, entry), NEW name, Succeeded(name)'
  PROVE  IF entry.tool = name THEN entry.outcome = "success" ELSE Succeeded(name)
  <1>1. /\ Len(trail) \in Nat /\ DOMAIN trail = 1..Len(trail)
        /\ DOMAIN trail' = 1..(Len(trail) + 1)
        /\ \A k \in DOMAIN trail : trail'[k] = trail[k]
        /\ trail'[Len(trail) + 1] = entry
    BY AppendRow
  <1>2. PICK k \in DOMAIN trail' :
          /\ trail'[k].tool = name /\ trail'[k].outcome = "success"
          /\ \A j \in DOMAIN trail' : j > k => trail'[j].tool # name
    BY DEF Succeeded
  <1>3. CASE k = Len(trail) + 1
    BY <1>1, <1>2, <1>3
  <1>4. CASE k # Len(trail) + 1
    <2>1. k \in DOMAIN trail /\ entry.tool # name
      BY <1>1, <1>2, <1>4
    <2>2. Succeeded(name)
      BY <1>1, <1>2, <2>1 DEF Succeeded
    <2>3. QED
      BY <2>1, <2>2
  <1>5. QED
    BY <1>3, <1>4

LEMMA EntryTyped ==
  ASSUME ToolInv, NEW entry, entry.outcome \in Outcomes, trail' = Append(trail, entry),
         UNCHANGED <<present, rows, stale>>
  PROVE  ToolsTyped'
  <1>1. /\ Rows(trail') /\ Len(trail) \in Nat /\ DOMAIN trail = 1..Len(trail)
        /\ DOMAIN trail' = 1..(Len(trail) + 1)
        /\ \A k \in DOMAIN trail : trail'[k] = trail[k]
        /\ trail'[Len(trail) + 1] = entry
    BY AppendRow DEF ToolInv, ToolsTyped
  <1>2. \A k \in DOMAIN trail' : trail'[k].outcome \in Outcomes
    BY <1>1 DEF ToolInv, ToolsTyped
  <1>3. QED
    BY <1>1, <1>2 DEF ToolInv, ToolsTyped

(***************************************************************************)
(* A step of one process.                                                  *)
(***************************************************************************)

\* What is left to show of a step of p that keeps the types.
LEMMA ToolMoves ==
  ASSUME ToolInv, ToolsTyped', NEW p \in Procs, NEW s, Moved(p, s), ToolStage(s),
         quiet' = [q \in Procs |-> quiet'[q]],
         \A q \in Procs \ {p} :
           quiet'[q] => proc[q].at = "idle" \/ (quiet[q] /\ present' = present),
         s.at \in {"persist", "health"} /\ quiet'[p] => Found(s)',
         \A name \in present' : Succeeded(name)' /\ rows'[name] # NONE =>
           \/ rows'[name].ready \/ name \in stale' \/ Owes(s, name)
           \/ /\ name \in present /\ Succeeded(name) /\ rows'[name] = rows[name]
              /\ name \in stale => name \in stale'
              /\ ~ Owes(proc[p], name)
  PROVE  ToolInv'
  <1>1. /\ proc' = [q \in Procs |-> proc'[q]]
        /\ proc'[p] = s /\ \A q \in Procs \ {p} : proc'[q] = proc[q]
    BY DEF Moved, ToolInv, ToolStages
  <1>2. ToolStages'
    BY <1>1 DEF ToolInv, ToolStages, ToolStage
  <1>3. FoundHolds'
    <2>1. ASSUME NEW q \in Procs, q # p, proc'[q].at \in {"persist", "health"}, quiet'[q]
          PROVE  \A name \in Tools : proc'[q].found[name].ready <=> name \in present'
      <3>1. quiet[q] /\ present' = present
        BY <1>1, <2>1
      <3>2. QED
        BY <1>1, <2>1, <3>1 DEF ToolInv, FoundHolds, Found
    <2>2. ASSUME proc'[p].at \in {"persist", "health"}, quiet'[p]
          PROVE  \A name \in Tools : proc'[p].found[name].ready <=> name \in present'
      BY <1>1, <2>2 DEF Found
    <2>3. QED
      BY <2>1, <2>2 DEF FoundHolds, Found
  <1>4. InstalledIsReady'
    <2>1. ASSUME NEW name \in present', Succeeded(name)', rows'[name] # NONE
          PROVE  \/ rows'[name].ready \/ name \in stale'
                 \/ \E q \in Procs : Owes(proc'[q], name)
      <3>1. CASE rows'[name].ready \/ name \in stale' \/ Owes(s, name)
        BY <1>1, <3>1
      <3>2. CASE /\ name \in present /\ Succeeded(name) /\ rows'[name] = rows[name]
                 /\ name \in stale => name \in stale'
                 /\ ~ Owes(proc[p], name)
        <4>1. \/ rows[name].ready \/ name \in stale
              \/ \E q \in Procs : Owes(proc[q], name)
          BY <2>1, <3>2 DEF ToolInv, InstalledIsReady, Owes
        <4>2. QED
          BY <1>1, <3>2, <4>1
      <3>3. QED
        BY <2>1, <3>1, <3>2
    <2>2. QED
      BY <2>1 DEF InstalledIsReady, Owes
  <1>5. QED
    BY <1>2, <1>3, <1>4 DEF ToolInv

\* A step that changes nothing the tools are judged by.
LEMMA ToolTurns ==
  ASSUME ToolInv, UNCHANGED <<present, rows, stale>>, NEW p \in Procs, NEW s, Moved(p, s),
         ToolStage(s), ToolsTyped', \A name \in Tools : Succeeded(name)' => Succeeded(name),
         quiet' = quiet \/ quiet' = [quiet EXCEPT ![p] = TRUE] \/ Updates(p),
         s.at \in {"persist", "health"} => Found(s),
         \A name \in Tools : Owes(proc[p], name) => Owes(s, name) \/ ~ Succeeded(name)'
  PROVE  ToolInv'
  <1>1. quiet' = [q \in Procs |-> quiet'[q]]
    BY DEF ToolInv, FoundHolds, Updates
  <1>2. ASSUME NEW q \in Procs \ {p}, quiet'[q]
        PROVE  proc[q].at = "idle" \/ quiet[q]
    <2>1. CASE quiet' = quiet \/ quiet' = [quiet EXCEPT ![p] = TRUE]
      BY <1>2, <2>1 DEF ToolInv, FoundHolds
    <2>2. CASE Updates(p)
      <3>1. proc[q] = resting
        BY <1>2, <2>2 DEF Updates
      <3>2. QED
        BY <3>1 DEF resting
    <2>3. QED
      BY <2>1, <2>2
  <1>3. s.at \in {"persist", "health"} => Found(s)'
    BY DEF Found
  <1>4. QED
    BY <1>1, <1>2, <1>3, ToolMoves DEF ToolInv, ToolsTyped

\* A search begins.
LEMMA DiscoverFinds ==
  /\ Discover = [name \in Tools |-> Discover[name]]
  /\ \A name \in Tools : Discover[name].ready <=> name \in present
  BY DEF Discover

LEMMA SearchesKeep ==
  ASSUME ToolInv, NEW t \in Procs, NEW answer, Searches(t, answer)
  PROVE  ToolInv'
  <1>1. PICK found : found = Discover
    OBVIOUS
  <1>2. PICK s : s = [at |-> "persist", found |-> found, answer |-> answer, tool |-> NONE]
    OBVIOUS
  <1>3. /\ Moved(t, s) /\ proc[t] = resting /\ UNCHANGED toolboxRecords
        /\ quiet' = [quiet EXCEPT ![t] = TRUE]
    BY <1>1, <1>2 DEF Searches, Starts, Moved
  <1>4. ToolStage(s) /\ Found(s)
    BY <1>1, <1>2, DiscoverFinds DEF ToolStage, Found
  <1>5. UNCHANGED <<present, rows, stale, trail>>
    BY <1>3 DEF toolboxRecords
  <1>6. ToolsTyped' /\ \A name \in Tools : Succeeded(name)' => Succeeded(name)
    BY <1>5 DEF ToolInv, ToolsTyped, Succeeded
  <1>7. \A name \in Tools : ~ Owes(proc[t], name)
    BY <1>3 DEF Owes, resting
  <1>8. QED
    BY <1>3, <1>4, <1>5, <1>6, <1>7, ToolTurns

\* A process that is not at rest.
LEMMA ToolStageOf ==
  ASSUME ToolInv, NEW p \in Procs
  PROVE  ToolStage(proc[p]) /\ (proc[p].at # "idle" => proc[p] # resting)
  BY DEF ToolInv, ToolStages, resting

\* The steps that leave the tools, their rows and the audit entries as they are.
LEMMA ToolUnchanged ==
  ASSUME ToolInv, UNCHANGED toolboxRecords
  PROVE  /\ UNCHANGED <<present, rows, stale>> /\ ToolsTyped'
         /\ \A name \in Tools : Succeeded(name)' => Succeeded(name)
  BY DEF ToolInv, ToolsTyped, Succeeded, toolboxRecords

LEMMA ToolReads ==
  ASSUME ToolInv, NEW t \in Procs, Commands(t), UNCHANGED toolboxRecords
  PROVE  ToolInv'
  <1>1. /\ Moved(t, resting) /\ proc[t] = resting /\ quiet' = [quiet EXCEPT ![t] = TRUE]
    BY DEF Commands, Starts, Moved
  <1>2. ToolStage(resting) /\ resting.at = "idle" /\ \A name \in Tools : ~ Owes(proc[t], name)
    BY <1>1 DEF ToolStage, Owes, resting
  <1>3. QED
    BY <1>1, <1>2, ToolUnchanged, ToolTurns

LEMMA ToolsHealthKeeps ==
  ASSUME ToolInv, NEW t \in Procs, ToolsHealth(t)
  PROVE  ToolInv'
  <1>1. PICK found : found = Discover
    OBVIOUS
  <1>2. PICK s : s = [at |-> "health", found |-> found]
    OBVIOUS
  <1>3. /\ Moved(t, s) /\ proc[t] = resting /\ UNCHANGED toolboxRecords
        /\ quiet' = [quiet EXCEPT ![t] = TRUE]
    BY <1>1, <1>2 DEF ToolsHealth, Starts, Moved
  <1>4. ToolStage(s) /\ Found(s)
    BY <1>1, <1>2, DiscoverFinds DEF ToolStage, Found
  <1>5. \A name \in Tools : ~ Owes(proc[t], name)
    BY <1>3 DEF Owes, resting
  <1>6. QED
    BY <1>3, <1>4, <1>5, ToolUnchanged, ToolTurns

LEMMA ToolsRemoveKeeps ==
  ASSUME ToolInv, NEW t \in Procs, NEW name, ToolsRemove(t, name)
  PROVE  ToolInv'
  <1>1. CASE name \in Tools /\ rows[name] # NONE
    <2>1. /\ Moved(t, resting) /\ proc[t] = resting /\ quiet' = [quiet EXCEPT ![t] = TRUE]
          /\ rows' = [rows EXCEPT ![name] = NONE] /\ UNCHANGED <<present, trail, stale>>
      BY <1>1 DEF ToolsRemove, RemoveFromRegistry, Commands, Starts, Moved
    <2>2. /\ ToolsTyped' /\ rows'[name] = NONE
          /\ \A other \in Tools \ {name} : rows'[other] = rows[other]
      BY <1>1, <2>1 DEF ToolInv, ToolsTyped
    <2>3. \A other : Succeeded(other)' => Succeeded(other)
      BY <2>1 DEF Succeeded
    <2>4. /\ ToolStage(resting) /\ resting.at = "idle"
          /\ \A other \in Tools : ~ Owes(proc[t], other)
      BY <2>1 DEF ToolStage, Owes, resting
    <2>5. /\ quiet' = [q \in Procs |-> quiet'[q]]
          /\ \A q \in Procs \ {t} : quiet'[q] => quiet[q]
      BY <2>1 DEF ToolInv, FoundHolds
    <2>6. \A other \in present' : rows'[other] # NONE =>
            /\ other \in present /\ other \in Tools /\ rows'[other] = rows[other]
            /\ other \in stale => other \in stale'
      BY <2>1, <2>2 DEF ToolInv, ToolsTyped
    <2>7. QED
      BY <2>1, <2>2, <2>3, <2>4, <2>5, <2>6, ToolMoves
  <1>2. CASE ~ (name \in Tools /\ rows[name] # NONE)
    <2>1. Commands(t) /\ UNCHANGED toolboxRecords
      BY <1>2 DEF ToolsRemove, Reads, toolboxRecords
    <2>2. QED
      BY <2>1, ToolReads
  <1>3. QED
    BY <1>1, <1>2

LEMMA ToolsInstallKeeps ==
  ASSUME ToolInv, NEW t \in Procs, NEW capability, NEW package, NEW admin, NEW dry, NEW yes,
         ToolsInstall(t, capability, package, admin, dry, yes)
  PROVE  ToolInv'
  <1>1. CASE admin /\ InstallPlan(capability, package) /\ ~ dry /\ yes
    <2>1. PICK s : s = [at |-> "install", capability |-> capability, package |-> package]
      OBVIOUS
    <2>2. /\ Moved(t, s) /\ proc[t] = resting /\ UNCHANGED toolboxRecords
          /\ quiet' = [quiet EXCEPT ![t] = TRUE]
      BY <1>1, <2>1 DEF ToolsInstall, Starts, Moved
    <2>3. ToolStage(s) /\ s.at = "install" /\ \A name \in Tools : ~ Owes(proc[t], name)
      BY <2>1, <2>2 DEF ToolStage, Owes, resting
    <2>4. QED
      BY <2>2, <2>3, ToolUnchanged, ToolTurns
  <1>2. CASE ~ (admin /\ InstallPlan(capability, package) /\ ~ dry /\ yes)
    BY <1>2, ToolReads DEF ToolsInstall, Reads
  <1>3. QED
    BY <1>1, <1>2

LEMMA ModuleCheckKeeps ==
  ASSUME ToolInv, NEW t \in Procs, NEW m, NEW posture, ModuleCheck(t, m, posture)
  PROVE  ToolInv'
  <1>1. CASE m \in DOMAIN Domains
    <2>1. PICK entry : entry = [tool |-> m, outcome |-> "checked"]
      OBVIOUS
    <2>2. /\ Commands(t) /\ trail' = Append(trail, entry) /\ UNCHANGED <<present, rows, stale>>
      BY <1>1, <2>1 DEF ModuleCheck
    <2>3. /\ Moved(t, resting) /\ proc[t] = resting /\ quiet' = [quiet EXCEPT ![t] = TRUE]
      BY <2>2 DEF Commands, Starts, Moved
    <2>4. /\ ToolStage(resting) /\ resting.at = "idle"
          /\ \A other \in Tools : ~ Owes(proc[t], other)
      BY <2>3 DEF ToolStage, Owes, resting
    <2>5. \A other \in Tools : Succeeded(other)' => Succeeded(other)
      BY <2>1, <2>2, EntryAdded DEF ToolInv, ToolsTyped
    <2>6. ToolsTyped'
      BY <2>1, <2>2, EntryTyped DEF Outcomes
    <2>7. QED
      BY <2>2, <2>3, <2>4, <2>5, <2>6, ToolTurns
  <1>2. CASE m \notin DOMAIN Domains
    <2>1. Commands(t) /\ UNCHANGED toolboxRecords
      BY <1>2 DEF ModuleCheck, Reads, toolboxRecords
    <2>2. QED
      BY <2>1, ToolReads
  <1>3. QED
    BY <1>1, <1>2

\* A command that ends without more: it installs nothing, or is among the stale.
LEMMA ToolEnds ==
  ASSUME ToolInv, NEW p \in Procs, Ends(p), UNCHANGED <<present, rows, trail>>,
         stale \subseteq stale', stale' \subseteq Tools,
         \A name \in Tools : Owes(proc[p], name) => name \in stale'
  PROVE  ToolInv'
  <1>1. /\ Moved(p, resting) /\ quiet' = [quiet EXCEPT ![p] = TRUE]
    BY DEF Ends, Goes, Moved
  <1>2. ToolStage(resting) /\ resting.at = "idle"
    BY DEF ToolStage, resting
  <1>3. ToolsTyped' /\ \A name : Succeeded(name)' => Succeeded(name)
    BY DEF ToolInv, ToolsTyped, Succeeded
  <1>4. /\ quiet' = [q \in Procs |-> quiet'[q]]
        /\ \A q \in Procs \ {p} : quiet'[q] => quiet[q]
    BY <1>1 DEF ToolInv, FoundHolds
  <1>5. present \subseteq Tools
    BY DEF ToolInv, ToolsTyped
  <1>6. QED
    BY <1>1, <1>2, <1>3, <1>4, <1>5, ToolMoves

\* All rows are replaced: by what is on the path, or all of them are stale.
LEMMA PersistKeeps ==
  ASSUME ToolInv, NEW p \in Procs, proc[p].at \in {"persist", "health"}, NEW s,
         Persist(p, proc[p].found), Goes(p, s), ToolStage(s), s.at \notin {"persist", "health"}
  PROVE  ToolInv'
  <1>1. proc[p].found = [name \in Tools |-> proc[p].found[name]]
    BY ToolStageOf DEF ToolStage, resting
  <1>2. PICK found : found = proc[p].found
    OBVIOUS
  <1>3. /\ rows' = found /\ stale' = (IF quiet[p] THEN {} ELSE Tools) /\ Updates(p)
        /\ UNCHANGED <<present, trail>> /\ Moved(p, s)
    BY <1>2 DEF Persist, Goes, Moved
  <1>4. ToolsTyped' /\ \A name : Succeeded(name)' => Succeeded(name)
    BY <1>1, <1>2, <1>3 DEF ToolInv, ToolsTyped, Succeeded
  <1>5. quiet' = [q \in Procs |-> quiet'[q]]
    BY <1>3 DEF Updates
  <1>6. ASSUME NEW q \in Procs \ {p}, quiet'[q]
        PROVE  proc[q].at = "idle"
    <2>1. proc[q] = resting
      BY <1>3, <1>6 DEF Updates
    <2>2. QED
      BY <2>1 DEF resting
  <1>7. \A name \in present : rows'[name].ready \/ name \in stale'
    <2>1. present \subseteq Tools
      BY DEF ToolInv, ToolsTyped
    <2>2. CASE quiet[p]
      <3>1. \A name \in Tools : found[name].ready <=> name \in present
        BY <1>2, <2>2 DEF ToolInv, FoundHolds, Found
      <3>2. QED
        BY <1>3, <2>1, <3>1
    <2>3. CASE ~ quiet[p]
      BY <1>3, <2>1, <2>3
    <2>4. QED
      BY <2>2, <2>3
  <1>8. QED
    BY <1>3, <1>4, <1>5, <1>6, <1>7, ToolMoves

LEMMA WriteBackKeeps ==
  ASSUME ToolInv, NEW p \in Procs, WriteBack(p)
  PROVE  ToolInv'
  <1>1. CASE Persisted(p)
    <2>1. ToolStage(resting) /\ resting.at = "idle"
      BY DEF ToolStage, resting
    <2>2. QED
      BY <1>1, <2>1, PersistKeeps DEF Persisted
  <1>2. CASE HealthPersisted(p)
    <2>1. PICK r : r = proc[p]
      OBVIOUS
    <2>2. PICK s : s = [r EXCEPT !.at = "missing"]
      OBVIOUS
    <2>3. /\ r.at = "health" /\ DOMAIN r = {"at", "found"}
          /\ r.found = [name \in Tools |-> r.found[name]]
      BY <1>2, <2>1, ToolStageOf DEF HealthPersisted, ToolStage, resting
    <2>4. s.at = "missing" /\ s.found = r.found /\ DOMAIN s = {"at", "found"}
      BY <2>2, <2>3
    <2>5. ToolStage(s)
      BY <2>3, <2>4 DEF ToolStage
    <2>6. Persist(p, proc[p].found) /\ Goes(p, s) /\ proc[p].at = "health"
      BY <1>2, <2>1, <2>2 DEF HealthPersisted
    <2>7. QED
      BY <2>4, <2>5, <2>6, PersistKeeps
  <1>3. CASE HealthAnswered(p)
    <2>1. /\ Moved(p, resting) /\ UNCHANGED <<toolboxRecords, quiet>> /\ proc[p].at = "missing"
      BY <1>3 DEF HealthAnswered, Goes, Moved
    <2>2. ToolStage(resting) /\ resting.at = "idle"
      BY DEF ToolStage, resting
    <2>3. \A name \in Tools : ~ Owes(proc[p], name)
      <3>1. DOMAIN proc[p] = {"at", "found"}
        BY <2>1, ToolStageOf DEF ToolStage, resting
      <3>2. QED
        BY <3>1 DEF Owes
    <2>4. QED
      BY <2>1, <2>2, <2>3, ToolUnchanged, ToolTurns
  <1>4. QED
    BY <1>1, <1>2, <1>3 DEF WriteBack

LEMMA ToolboxKilledKeeps ==
  ASSUME ToolInv, NEW p \in Procs, ToolboxKilled(p)
  PROVE  ToolInv'
  <1>1. Ends(p) /\ UNCHANGED <<present, rows, trail>>
    BY DEF ToolboxKilled, Refuses
  <1>2. /\ stale \subseteq stale' /\ stale' \subseteq Tools
        /\ \A name \in Tools : Owes(proc[p], name) => name \in stale'
    BY DEF ToolboxKilled, Owes, ToolInv, ToolsTyped
  <1>3. QED
    BY <1>1, <1>2, ToolEnds

(***************************************************************************)
(* Installing.                                                             *)
(***************************************************************************)

\* A process that runs apt-get, or has run it.
LEMMA AptStage ==
  ASSUME ToolInv, NEW p \in Procs, proc[p].at \in {"apt", "refresh"}
  PROVE  /\ DOMAIN proc[p] = {"at", "tool"} /\ proc[p].tool \in Tools /\ proc[p] # resting
         /\ \A name : Owes(proc[p], name) <=> name = proc[p].tool
  BY ToolStageOf DEF ToolStage, resting, Owes

LEMMA InstallStartsKeeps ==
  ASSUME ToolInv, NEW p \in Procs, NEW apt, InstallStarts(p, apt)
  PROVE  ToolInv'
  <1>1. /\ proc[p].at = "install" /\ UNCHANGED <<present, rows, stale>>
        /\ \A name \in Tools : ~ Owes(proc[p], name)
    <2>1. proc[p].at = "install" /\ UNCHANGED <<present, rows, stale>>
      BY DEF InstallStarts
    <2>2. DOMAIN proc[p] = {"at", "capability", "package"}
      BY <2>1, ToolStageOf DEF ToolStage, resting
    <2>3. QED
      BY <2>1, <2>2 DEF Owes
  <1>2. PICK capability, package : capability = proc[p].capability /\ package = proc[p].package
    OBVIOUS
  <1>3. CASE ~ InstallPlan(capability, package) \/ ~ apt
    <2>1. Ends(p) /\ UNCHANGED trail
      BY <1>2, <1>3 DEF InstallStarts, Refuses
    <2>2. stale \subseteq Tools
      BY DEF ToolInv, ToolsTyped
    <2>3. QED
      BY <1>1, <2>1, <2>2, ToolEnds
  <1>4. CASE InstallPlan(capability, package) /\ apt
    <2>1. PICK name : name = ProviderOf(capability, package).name
      OBVIOUS
    <2>2. name \in Tools
      BY <1>4, <2>1, ProviderIsATool DEF InstallPlan
    <2>3. PICK entry : entry = [tool |-> name, outcome |-> "started"]
      OBVIOUS
    <2>4. PICK s : s = [at |-> "apt", tool |-> name]
      OBVIOUS
    <2>5. trail' = Append(trail, entry) /\ Moved(p, s) /\ Updates(p)
      BY <1>2, <1>4, <2>1, <2>3, <2>4 DEF InstallStarts, Goes, Moved
    <2>6. ToolStage(s) /\ s.at = "apt"
      BY <2>2, <2>4 DEF ToolStage
    <2>7. ToolsTyped'
      BY <1>1, <2>3, <2>5, EntryTyped DEF Outcomes
    <2>8. \A other \in Tools : Succeeded(other)' => Succeeded(other)
      BY <2>3, <2>5, EntryAdded DEF ToolInv, ToolsTyped
    <2>9. QED
      BY <1>1, <2>5, <2>6, <2>7, <2>8, ToolTurns
  <1>5. QED
    BY <1>3, <1>4

LEMMA PackageInstalledKeeps ==
  ASSUME ToolInv, NEW p \in Procs, PackageInstalled(p)
  PROVE  ToolInv'
  <1>1. /\ proc[p].at = "apt" /\ UNCHANGED <<rows, trail, stale, proc>> /\ Updates(p)
        /\ present' = present \cup {proc[p].tool}
    BY DEF PackageInstalled
  <1>2. PICK s : s = proc[p]
    OBVIOUS
  <1>3. Moved(p, s) /\ ToolStage(s) /\ s.at = "apt"
    BY <1>1, <1>2, ToolStageOf DEF Moved, ToolInv, ToolStages
  <1>4. s.tool \in Tools /\ Owes(s, s.tool)
    BY <1>1, <1>2, AptStage
  <1>5. ToolsTyped' /\ \A name : Succeeded(name)' => Succeeded(name)
    BY <1>1, <1>2, <1>4 DEF ToolInv, ToolsTyped, Succeeded
  <1>6. quiet' = [q \in Procs |-> quiet'[q]]
    BY <1>1 DEF Updates
  <1>7. ASSUME NEW q \in Procs \ {p}, quiet'[q]
        PROVE  proc[q].at = "idle"
    <2>1. proc[q] = resting
      BY <1>1, <1>7 DEF Updates
    <2>2. QED
      BY <2>1 DEF resting
  <1>8. \A name \in present' : Owes(s, name) \/ (name \in present /\ ~ Owes(proc[p], name))
    BY <1>1, <1>2, <1>4
  <1>9. QED
    BY <1>1, <1>3, <1>5, <1>6, <1>7, <1>8, ToolMoves

LEMMA AptRaisedKeeps ==
  ASSUME ToolInv, NEW p \in Procs, AptRaised(p)
  PROVE  ToolInv'
  <1>1. /\ proc[p].at = "apt" /\ Ends(p) /\ UNCHANGED <<present, rows, trail>>
        /\ stale' = stale \cup {proc[p].tool}
    BY DEF AptRaised, Refuses
  <1>2. /\ stale \subseteq stale' /\ stale' \subseteq Tools
        /\ \A name \in Tools : Owes(proc[p], name) => name \in stale'
    BY <1>1, AptStage DEF ToolInv, ToolsTyped
  <1>3. QED
    BY <1>1, <1>2, ToolEnds

LEMMA AptEndsKeeps ==
  ASSUME ToolInv, NEW p \in Procs, NEW outcome \in {"success", "failed"}, AptEnds(p, outcome)
  PROVE  ToolInv'
  <1>1. PICK name \in Tools :
          name = proc[p].tool /\ \A other : Owes(proc[p], other) <=> other = name
    BY AptStage DEF AptEnds
  <1>2. PICK entry : entry = [tool |-> name, outcome |-> outcome]
    OBVIOUS
  <1>3. trail' = Append(trail, entry) /\ Updates(p) /\ UNCHANGED <<present, rows, stale>>
    BY <1>1, <1>2 DEF AptEnds
  <1>4. PICK s : s = IF outcome = "failed" THEN resting ELSE [at |-> "refresh", tool |-> name]
    OBVIOUS
  <1>5. Moved(p, s)
    BY <1>1, <1>4 DEF AptEnds, Goes, Moved
  <1>6. ToolStage(s) /\ s.at \in {"idle", "refresh"}
    BY <1>4 DEF ToolStage, resting
  <1>7. ToolsTyped'
    BY <1>2, <1>3, EntryTyped DEF Outcomes
  <1>8. \A other \in Tools : Succeeded(other)' =>
          IF other = name THEN outcome = "success" ELSE Succeeded(other)
    BY <1>2, <1>3, EntryAdded DEF ToolInv, ToolsTyped
  <1>9. /\ quiet' = [q \in Procs |-> quiet'[q]]
        /\ \A q \in Procs \ {p} : quiet'[q] => proc[q].at = "idle"
    <2>1. quiet' = [q \in Procs |-> quiet'[q]]
      BY <1>3 DEF Updates
    <2>2. ASSUME NEW q \in Procs \ {p}, quiet'[q]
          PROVE  proc[q].at = "idle"
      <3>1. proc[q] = resting
        BY <1>3, <2>2 DEF Updates
      <3>2. QED
        BY <3>1 DEF resting
    <2>3. QED
      BY <2>1, <2>2
  <1>10. outcome = "success" => Owes(s, name)
    BY <1>4 DEF Owes
  <1>11. present \subseteq Tools
    BY DEF ToolInv, ToolsTyped
  <1>12. \A other \in present' : Succeeded(other)' =>
           Owes(s, other) \/ (other \in present /\ Succeeded(other) /\ ~ Owes(proc[p], other))
    BY <1>1, <1>3, <1>8, <1>10, <1>11
  <1>13. QED
    BY <1>3, <1>5, <1>6, <1>7, <1>9, <1>12, ToolMoves

LEMMA InstallRefreshKeeps ==
  ASSUME ToolInv, NEW p \in Procs, InstallRefresh(p)
  PROVE  ToolInv'
  <1>1. /\ proc[p].at = "refresh" /\ UNCHANGED <<toolboxRecords, quiet>>
        /\ \A other : Owes(proc[p], other) <=> other = proc[p].tool
    BY AptStage DEF InstallRefresh
  <1>2. PICK found, name : found = Discover /\ name = proc[p].tool
    OBVIOUS
  <1>3. PICK s : s = [at |-> "persist", found |-> found, answer |-> [installed |-> TRUE],
                      tool |-> name]
    OBVIOUS
  <1>4. Moved(p, s)
    BY <1>2, <1>3 DEF InstallRefresh, Goes, Moved
  <1>5. ToolStage(s) /\ Found(s)
    BY <1>2, <1>3, DiscoverFinds DEF ToolStage, Found
  <1>6. \A other \in Tools : Owes(proc[p], other) => Owes(s, other)
    BY <1>1, <1>2, <1>3 DEF Owes
  <1>7. QED
    BY <1>1, <1>4, <1>5, <1>6, ToolUnchanged, ToolTurns

\* A tool that comes or goes by hand is among the stale.
LEMMA PathChangesKeeps ==
  ASSUME ToolInv, NEW name \in Tools, PathChanges(name)
  PROVE  ToolInv'
  <1>1. /\ present' = (present \ {name}) \cup ({name} \ present) /\ stale' = stale \cup {name}
        /\ quiet' = [q \in Procs |-> proc[q] = resting] /\ UNCHANGED <<rows, trail, proc>>
    BY DEF PathChanges
  <1>2. ToolsTyped' /\ ToolStages'
    BY <1>1 DEF ToolInv, ToolsTyped, ToolStages, ToolStage
  <1>3. FoundHolds'
    <2>1. ASSUME NEW q \in Procs, quiet'[q]
          PROVE  proc'[q].at = "idle"
      <3>1. proc'[q] = resting
        BY <1>1, <2>1
      <3>2. QED
        BY <3>1 DEF resting
    <2>2. QED
      BY <1>1, <2>1 DEF FoundHolds
  <1>4. InstalledIsReady'
    BY <1>1 DEF ToolInv, InstalledIsReady, Succeeded
  <1>5. QED
    BY <1>2, <1>3, <1>4 DEF ToolInv

(***************************************************************************)
(* Toolbox: the theorems.                                                  *)
(***************************************************************************)

LEMMA ToolboxStarts == DeskInit /\ ConsoleInit /\ ToolboxInit => ToolInv
  <1> SUFFICES ASSUME DeskInit, ToolboxInit
               PROVE  ToolInv
    OBVIOUS
  <1>1. Rows(trail) /\ DOMAIN trail = {}
    BY DEF ToolboxInit, Rows
  <1>2. ToolsTyped
    BY <1>1 DEF ToolboxInit, ToolsTyped
  <1>3. ToolStages
    BY DEF DeskInit, ToolStages, ToolStage
  <1>4. FoundHolds
    BY DEF DeskInit, FoundHolds, resting
  <1>5. InstalledIsReady
    BY <1>1 DEF InstalledIsReady, Succeeded
  <1>6. QED
    BY <1>2, <1>3, <1>4, <1>5 DEF ToolInv

LEMMA ToolboxKeeps == ToolInv /\ [ToolboxNext]_toolboxVars => ToolInv'
  <1> SUFFICES ASSUME ToolInv, [ToolboxNext]_toolboxVars
               PROVE  ToolInv'
    OBVIOUS
  <1>1. CASE UNCHANGED toolboxVars
    <2>1. UNCHANGED <<present, rows, trail, stale, proc, quiet>>
      BY <1>1 DEF toolboxVars, toolboxRecords, consoleVars, deskVars
    <2>2. QED
      BY <2>1 DEF ToolInv, ToolsTyped, ToolStages, ToolStage, FoundHolds, Found,
                  InstalledIsReady, Succeeded
  <1>2. ASSUME NEW t \in Procs, SearchStep(t)
        PROVE  ToolInv'
    <2>1. ASSUME NEW answer, Searches(t, answer)
          PROVE  ToolInv'
      BY <2>1, SearchesKeep
    <2>2. ASSUME NEW name, NEW flag, NEW configured, ToolsExplain(t, name, flag, configured)
          PROVE  ToolInv'
      BY <2>2, ToolReads DEF ToolsExplain, Reads
    <2>3. QED
      BY <1>2, <2>1, <2>2, ToolsHealthKeeps, ToolsRemoveKeeps
      DEF SearchStep, ToolsList, ToolsCapabilities, ToolsUpdate, ToolsSearch, ToolsInfo, ToolsDocs
  <1>3. ASSUME NEW p \in Procs, ToolInstallStep(p)
        PROVE  ToolInv'
    BY <1>3, InstallStartsKeeps, PackageInstalledKeeps, AptRaisedKeeps, InstallRefreshKeeps,
       AptEndsKeeps DEF ToolInstallStep
  <1>4. ASSUME NEW t \in Procs, ModuleStep(t)
        PROVE  ToolInv'
    BY <1>4, ModuleCheckKeeps, ToolReads DEF ModuleStep, ModuleList, ModuleInfo, Reads
  <1>5. QED
    BY <1>1, <1>2, <1>3, <1>4, WriteBackKeeps, ToolboxKilledKeeps, ToolsInstallKeeps,
       PathChangesKeeps DEF ToolboxNext

LEMMA ToolboxInvariant == ToolboxSpec => []ToolInv
  <1>1. DeskInit /\ ConsoleInit /\ ToolboxInit => ToolInv
    BY ToolboxStarts
  <1>2. ToolInv /\ [ToolboxNext]_toolboxVars => ToolInv'
    BY ToolboxKeeps
  <1>3. QED
    BY <1>1, <1>2, PTL DEF ToolboxSpec

\* Only tools of the catalogue are found on the path or installed, and every audit entry
\* has an outcome the installer writes (ToolInstaller.plan, install).
THEOREM ToolboxTypesCorrect == ToolboxSpec => []ToolboxTypeOK
  <1>1. ToolInv => ToolboxTypeOK
    BY DEF ToolInv, ToolsTyped, ToolboxTypeOK, Outcomes
  <1>2. QED
    BY <1>1, ToolboxInvariant, PTL

\* A tool that was installed and is on the path is ready in the registry, unless its
\* command is under way, or was killed, timed out, or overlapped by a search or a change
\* of the path (ToolInstallManager.install, CapabilityRegistry.refresh).
THEOREM InstalledStaysReady == ToolboxSpec => []InstalledIsReady
  <1>1. ToolInv => InstalledIsReady
    BY DEF ToolInv
  <1>2. QED
    BY <1>1, ToolboxInvariant, PTL

-----------------------------------------------------------------------------
(***************************************************************************)
(* Programs: the invariant.                                                *)
(***************************************************************************)

\* The steps of a profile.
ProfileSteps(steps) == Len(steps) \in Nat /\ DOMAIN steps = 1..Len(steps) /\ DOMAIN steps # {}

StepFields == {"technique", "tactic", "capability", "state"}

SimulationOK(sim) ==
  /\ DOMAIN sim = {"profile", "status", "steps"}
  /\ sim.status \in {"planned", "running", "completed", "failed"}
  /\ Rows(sim.steps) /\ \A k \in DOMAIN sim.steps : DOMAIN sim.steps[k] = StepFields

LessonStates == {"none", "in_progress", "completed"}

ProgramsTyped ==
  /\ Rows(simulations) /\ \A n \in DOMAIN simulations : SimulationOK(simulations[n])
  /\ cut \subseteq DOMAIN simulations
  /\ profiles = [name \in DOMAIN Profiles |-> profiles[name]]
  /\ \A name \in DOMAIN Profiles : profiles[name] # NONE => ProfileSteps(profiles[name])
  /\ lessons \in [Learners -> [Lessons -> LessonStates]]

\* The stage is of a command that writes simulation n.
RowOf(s, n) == "row" \in DOMAIN s /\ s.row = n

Running == {"begin", "step", "result"}

\* What a step of a run may come to.
RunStates(dry) == IF dry THEN {"planned"} ELSE {"blocked", "completed", "failed", "cancelled"}

\* What is left of an order of n steps after d of them.
LeftOf(order, n, d) == [k \in 1..(n - d) |-> order[d + k]]

\* A run takes the steps of a simulation in some order, in which it is to be found at
\* its d-th step; when it has not been overlapped, the steps before are on record.
Follows(s, steps, still) ==
  \E order \in Bijection(DOMAIN steps, DOMAIN steps), d \in 0..Len(steps) :
    /\ s.todo = LeftOf(order, Len(steps), d)
    /\ Len(s.states) = (IF s.at = "result" THEN d + 1 ELSE d)
    /\ s.at = "result" => d < Len(steps)
    /\ still => \A k \in 1..d : steps[order[k]].state = s.states[k]

ProgramStage(s) ==
  \/ s = resting
  \/ s.at = "delete" /\ DOMAIN s = {"at", "name"}
  \/ s.at = "exercise" /\ DOMAIN s = {"at", "name", "steps"} /\ ProfileSteps(s.steps)
  \/ s.at = "steps" /\ DOMAIN s = {"at", "name", "steps", "row"} /\ ProfileSteps(s.steps)
  \/ /\ s.at \in Running /\ DOMAIN s = {"at", "row", "dry", "steps", "todo", "states"}
     /\ s.dry \in BOOLEAN /\ Rows(s.states)
     /\ \A k \in DOMAIN s.states : s.states[k] \in RunStates(s.dry)
  \/ s.at \in {"atomic", "notify", "snapshot"} /\ "row" \notin DOMAIN s

\* What the rows of the simulations say to a process at stage s.
RowAgrees(s, still) ==
  "row" \in DOMAIN s =>
    /\ s.row \in DOMAIN simulations
    /\ s.at = "steps" =>
         simulations[s.row].steps = <<>> /\ simulations[s.row].status = "planned"
    /\ s.at \in Running =>
         /\ simulations[s.row].steps # <<>>
         /\ Follows(s, simulations[s.row].steps, still)

ProgramStages ==
  /\ proc = [p \in Procs |-> proc[p]] /\ quiet = [p \in Procs |-> quiet[p]]
  /\ \A p \in Procs : ProgramStage(proc[p]) /\ RowAgrees(proc[p], quiet[p])

\* A simulation without steps is still that of the command that made it.
Fresh(s, t) == s.at = "steps" /\ "row" \in DOMAIN t => t.row # s.row

FreshAlone == \A p, q \in Procs : p # q => Fresh(proc[p], proc[q])

ProgramsInv == ProgramsTyped /\ ProgramStages /\ FreshAlone /\ SimulationTellsSteps

\* The status of a simulation is what its steps came to.
Settled(sim) ==
  /\ sim.steps # <<>>
  /\ LET states == {sim.steps[k].state : k \in DOMAIN sim.steps} IN
     CASE sim.status = "planned" -> states = {"planned"}
       [] sim.status = "completed" -> states \subseteq {"completed", "cancelled"}
       [] sim.status = "failed" -> states \cap {"blocked", "failed"} # {}
       [] OTHER -> FALSE

LEMMA TellsWhenSettled ==
  SimulationTellsSteps <=>
    \A n \in DOMAIN simulations :
      n \in cut \/ (\E p \in Procs : RowOf(proc[p], n)) \/ Settled(simulations[n])
  BY DEF SimulationTellsSteps, RowOf, Settled, StepStates

(***************************************************************************)
(* A run goes on.                                                          *)
(***************************************************************************)

LEMMA FollowsOn ==
  ASSUME NEW s, NEW steps, NEW still, Follows(s, steps, still), NEW steps2, NEW still2,
         DOMAIN steps2 = DOMAIN steps, Len(steps2) = Len(steps),
         still2 => still /\ steps2 = steps
  PROVE  Follows(s, steps2, still2)
  BY DEF Follows

LEMMA HeadAndTail ==
  ASSUME NEW n \in Nat, n > 0, NEW todo, todo = [k \in 1..n |-> todo[k]]
  PROVE  Head(todo) = todo[1] /\ Tail(todo) = [k \in 1..(n - 1) |-> todo[k + 1]]
  <1> DEFINE S == {todo[k] : k \in 1..n}
  <1>1. todo \in [1..n -> S]
    OBVIOUS
  <1> HIDE DEF S
  <1>2. todo \in Seq(S) /\ Len(todo) = n
    BY <1>1
  <1>3. todo # <<>>
    BY <1>2
  <1>4. /\ Len(Tail(todo)) = n - 1 /\ Tail(todo) \in Seq(S) /\ Head(todo) = todo[1]
        /\ \A k \in 1..(n - 1) : Tail(todo)[k] = todo[k + 1]
    BY <1>2, <1>3, HeadTailProperties
  <1>5. Tail(todo) \in [1..(n - 1) -> S]
    BY <1>4, LenProperties
  <1>6. QED
    BY <1>4, <1>5

\* The order a run is planned in is one of all the steps.
LEMMA FollowsFromTheStart ==
  ASSUME NEW s, NEW steps, Rows(steps), NEW order \in Bijection(DOMAIN steps, DOMAIN steps),
         s.todo = order, s.states = <<>>, s.at = "begin", NEW still
  PROVE  Follows(s, steps, still)
  <1>1. Len(steps) \in Nat /\ DOMAIN steps = 1..Len(steps)
    BY DEF Rows
  <1>2. order \in [1..Len(steps) -> 1..Len(steps)]
    BY <1>1 DEF Bijection, Injection
  <1>3. order = LeftOf(order, Len(steps), 0)
    BY <1>1, <1>2 DEF LeftOf
  <1>4. /\ s.todo = LeftOf(order, Len(steps), 0) /\ 0 \in 0..Len(steps)
        /\ Len(s.states) = (IF s.at = "result" THEN 0 + 1 ELSE 0)
        /\ s.at = "result" => 0 < Len(steps) /\ 1..0 = {}
    BY <1>1, <1>3
  <1>5. QED
    BY <1>4 DEF Follows

\* The run has begun.
LEMMA FollowsBegun ==
  ASSUME NEW s, NEW steps, NEW still, Follows(s, steps, still), s.at = "begin", NEW t,
         t.at = "step", t.todo = s.todo, t.states = s.states
  PROVE  Follows(t, steps, still)
  BY DEF Follows

\* A step has come to something.
LEMMA FollowsOutcome ==
  ASSUME NEW s, NEW steps, Rows(steps), NEW still, Follows(s, steps, still), s.at = "step",
         s.todo # <<>>, Rows(s.states), NEW t, NEW outcome,
         t.at = "result", t.todo = s.todo, t.states = Append(s.states, outcome)
  PROVE  Follows(t, steps, still)
  <1>1. PICK order \in Bijection(DOMAIN steps, DOMAIN steps), d \in 0..Len(steps) :
          /\ s.todo = LeftOf(order, Len(steps), d)
          /\ Len(s.states) = d
          /\ still => \A k \in 1..d : steps[order[k]].state = s.states[k]
    BY DEF Follows
  <1>2. Len(steps) \in Nat
    BY DEF Rows
  <1>3. d < Len(steps)
    <2>1. SUFFICES ASSUME d = Len(steps)
                   PROVE  FALSE
      BY <1>2
    <2>2. s.todo = [k \in 1..0 |-> order[d + k]]
      BY <1>1, <1>2, <2>1 DEF LeftOf
    <2>3. s.todo = <<>>
      BY <2>2
    <2>4. QED
      BY <2>3
  <1>4. /\ Len(t.states) = d + 1
        /\ \A k \in 1..d : t.states[k] = s.states[k]
    BY <1>1, AppendRow
  <1>5. /\ t.todo = LeftOf(order, Len(steps), d)
        /\ Len(t.states) = (IF t.at = "result" THEN d + 1 ELSE d)
        /\ t.at = "result" => d < Len(steps)
        /\ still => \A k \in 1..d : steps[order[k]].state = t.states[k]
    BY <1>1, <1>3, <1>4
  <1>6. QED
    BY <1>5 DEF Follows

\* What is left of an order after its first step.
LEMMA StepAhead ==
  ASSUME NEW n \in Nat, NEW d \in 0..n, d < n, NEW order \in [1..n -> 1..n],
         NEW todo, todo = LeftOf(order, n, d)
  PROVE  /\ Head(todo) = order[d + 1] /\ order[d + 1] \in 1..n
         /\ Tail(todo) = LeftOf(order, n, d + 1)
  <1>1. PICK m \in Nat : m = n - d /\ m > 0 /\ d + m = n
    OBVIOUS
  <1>2. \A k \in 1..m : d + k \in 1..n /\ order[d + k] \in 1..n
    BY <1>1
  <1>3. todo = [k \in 1..m |-> order[d + k]]
    BY <1>1 DEF LeftOf
  <1>4. todo = [k \in 1..m |-> todo[k]]
    BY <1>3
  <1>5. Head(todo) = todo[1] /\ Tail(todo) = [k \in 1..(m - 1) |-> todo[k + 1]]
    BY ONLY <1>1, <1>4, m \in Nat, HeadAndTail
  <1>6. Head(todo) = order[d + 1] /\ order[d + 1] \in 1..n
    BY <1>1, <1>2, <1>3, <1>5
  <1>7. ASSUME NEW k \in 1..(m - 1)
        PROVE  todo[k + 1] = order[(d + 1) + k]
    <2>1. k + 1 \in 1..m /\ d + (k + 1) = (d + 1) + k
      BY <1>1
    <2>2. QED
      BY <1>3, <2>1
  <1>8. Tail(todo) = [k \in 1..(m - 1) |-> order[(d + 1) + k]]
    BY <1>5, <1>7
  <1>9. m - 1 = n - (d + 1)
    BY <1>1
  <1>10. QED
    BY <1>6, <1>8, <1>9 DEF LeftOf

\* The next step is one of the simulation's.
LEMMA HeadIsAStep ==
  ASSUME NEW s, NEW steps, Rows(steps), NEW still, Follows(s, steps, still), s.at = "result"
  PROVE  Head(s.todo) \in DOMAIN steps
  <1>1. PICK order \in Bijection(DOMAIN steps, DOMAIN steps), d \in 0..Len(steps) :
          s.todo = LeftOf(order, Len(steps), d) /\ d < Len(steps)
    BY DEF Follows
  <1>2. PICK n : n = Len(steps)
    OBVIOUS
  <1>3. n \in Nat /\ DOMAIN steps = 1..n
    BY <1>2 DEF Rows
  <1>4. order \in [1..n -> 1..n]
    BY <1>3 DEF Bijection, Injection
  <1>5. Head(s.todo) \in 1..n
    BY <1>1, <1>2, <1>3, <1>4, StepAhead
  <1>6. QED
    BY <1>3, <1>5

\* What it came to is on record.
LEMMA FollowsRecorded ==
  ASSUME NEW s, NEW steps, Rows(steps), NEW still, Follows(s, steps, still), s.at = "result",
         NEW h, h = Head(s.todo), NEW step, step.state = Last(s.states),
         NEW steps2, DOMAIN steps2 = DOMAIN steps, Len(steps2) = Len(steps),
         \A k \in DOMAIN steps : steps2[k] = IF k = h THEN step ELSE steps[k],
         NEW t, t.at = "step", t.todo = Tail(s.todo), t.states = s.states
  PROVE  Follows(t, steps2, still)
  <1>1. PICK order \in Bijection(DOMAIN steps, DOMAIN steps), d \in 0..Len(steps) :
          /\ s.todo = LeftOf(order, Len(steps), d)
          /\ Len(s.states) = d + 1 /\ d < Len(steps)
          /\ still => \A k \in 1..d : steps[order[k]].state = s.states[k]
    BY DEF Follows
  <1>2. PICK n : n = Len(steps)
    OBVIOUS
  <1>3. n \in Nat /\ DOMAIN steps = 1..n
    BY <1>2 DEF Rows
  <1>4. /\ order \in [1..n -> 1..n]
        /\ \A i, j \in 1..n : order[i] = order[j] => i = j
    BY <1>3 DEF Bijection, Injection, IsInjective
  <1>5. /\ Head(s.todo) = order[d + 1] /\ order[d + 1] \in 1..n
        /\ Tail(s.todo) = LeftOf(order, n, d + 1)
    <2>1. PICK todo : todo = s.todo
      OBVIOUS
    <2>2. n \in Nat /\ d \in 0..n /\ d < n /\ todo = LeftOf(order, n, d)
      BY <1>1, <1>2, <1>3, <2>1
    <2>3. /\ Head(todo) = order[d + 1] /\ order[d + 1] \in 1..n
          /\ Tail(todo) = LeftOf(order, n, d + 1)
      BY ONLY <1>4, <2>2, StepAhead
    <2>4. QED
      BY <2>1, <2>3
  <1>6. h \in DOMAIN steps /\ h = order[d + 1] /\ h \in 1..n
    BY <1>3, <1>5
  <1>7. step.state = s.states[d + 1]
    BY <1>1, <1>6 DEF Last
  <1>8. ASSUME still, NEW k \in 1..(d + 1)
        PROVE  steps2[order[k]].state = s.states[k]
    <2>1. k \in 1..n /\ d + 1 \in 1..n /\ (k # d + 1 => k \in 1..d)
      BY ONLY <1>1, <1>2, <1>3, d \in 0..Len(steps), k \in 1..(d + 1)
    <2>2. CASE k = d + 1
      BY <1>6, <1>7, <2>2
    <2>3. CASE k # d + 1
      <3>1. order[k] # h
        BY ONLY <1>4, <1>6, <2>1, <2>3
      <3>2. order[k] \in DOMAIN steps
        BY ONLY <1>3, <1>4, <2>1
      <3>3. QED
        BY <1>1, <1>8, <2>1, <2>3, <3>1, <3>2
    <2>4. QED
      BY <2>2, <2>3
  <1>9. PICK e \in 0..Len(steps) : e = d + 1
    BY ONLY <1>1, <1>2, <1>3, d \in 0..Len(steps)
  <1>10. QED
    <2>1. /\ t.todo = LeftOf(order, Len(steps2), e)
          /\ Len(t.states) = (IF t.at = "result" THEN e + 1 ELSE e)
          /\ t.at = "result" => e < Len(steps2)
          /\ still => \A k \in 1..e : steps2[order[k]].state = t.states[k]
      BY <1>1, <1>2, <1>5, <1>8, <1>9
    <2>2. order \in Bijection(DOMAIN steps2, DOMAIN steps2) /\ e \in 0..Len(steps2)
      OBVIOUS
    <2>3. QED
      BY ONLY <2>1, <2>2 DEF Follows

\* The status a run ends with is what its steps came to.
LEMMA FollowsToTheEnd ==
  ASSUME NEW s, NEW sim, SimulationOK(sim), sim.steps # <<>>, Follows(s, sim.steps, TRUE),
         s.at = "step", s.todo = <<>>, s.dry \in BOOLEAN, Rows(s.states),
         \A k \in DOMAIN s.states : s.states[k] \in RunStates(s.dry),
         sim.status = ExerciseStatus(s.dry, s.states)
  PROVE  Settled(sim)
  <1>1. PICK order \in Bijection(DOMAIN sim.steps, DOMAIN sim.steps), d \in 0..Len(sim.steps) :
          /\ s.todo = LeftOf(order, Len(sim.steps), d)
          /\ Len(s.states) = d
          /\ \A k \in 1..d : sim.steps[order[k]].state = s.states[k]
    BY DEF Follows
  <1>2. Len(sim.steps) \in Nat /\ DOMAIN sim.steps = 1..Len(sim.steps)
    BY DEF SimulationOK, Rows
  <1>3. d = Len(sim.steps)
    <2>1. DOMAIN s.todo = {}
      OBVIOUS
    <2>2. DOMAIN s.todo = 1..(Len(sim.steps) - d)
      BY <1>1 DEF LeftOf
    <2>3. ASSUME d # Len(sim.steps)
          PROVE  1 \in 1..(Len(sim.steps) - d)
      BY ONLY <1>2, <2>3, d \in 0..Len(sim.steps)
    <2>4. QED
      BY <2>1, <2>2, <2>3
  <1>4. DOMAIN s.states = 1..d
    BY <1>1 DEF Rows
  <1>5. Len(sim.steps) > 0
    <2>1. ASSUME Len(sim.steps) = 0
          PROVE  FALSE
      BY <1>2, <2>1 DEF SimulationOK, Rows
    <2>2. QED
      BY <1>2, <2>1
  <1> DEFINE states == {sim.steps[k].state : k \in DOMAIN sim.steps}
  <1>6. \A k \in DOMAIN s.states : s.states[k] \in states
    <2>1. order \in [1..d -> 1..d]
      BY <1>2, <1>3 DEF Bijection, Injection
    <2>2. QED
      BY <1>1, <1>2, <1>3, <1>4, <2>1
  <1>7. \A x \in states : \E k \in DOMAIN s.states : x = s.states[k]
    <2>1. \A j \in DOMAIN sim.steps : \E k \in DOMAIN sim.steps : order[k] = j
      BY DEF Bijection, Surjection
    <2>2. ASSUME NEW j \in DOMAIN sim.steps
          PROVE  \E k \in DOMAIN s.states : sim.steps[j].state = s.states[k]
      <3>1. PICK k \in 1..d : order[k] = j
        BY <1>2, <1>3, <2>1
      <3>2. QED
        BY <1>1, <1>4, <3>1
    <2>3. QED
      BY <2>2
  <1>8. 1 \in DOMAIN s.states
    BY <1>3, <1>4, <1>5
  <1> HIDE DEF states
  <1>9. CASE s.dry
    <2>1. sim.status = "planned" /\ states = {"planned"}
      BY <1>6, <1>7, <1>8, <1>9 DEF ExerciseStatus, RunStates
    <2>2. QED
      BY <2>1 DEF Settled, states
  <1>10. CASE ~ s.dry /\ \E k \in DOMAIN s.states : s.states[k] \in {"blocked", "failed"}
    <2>1. sim.status = "failed" /\ states \cap {"blocked", "failed"} # {}
      BY <1>6, <1>10 DEF ExerciseStatus
    <2>2. QED
      BY <2>1 DEF Settled, states
  <1>11. CASE ~ s.dry /\ ~ \E k \in DOMAIN s.states : s.states[k] \in {"blocked", "failed"}
    <2>1. sim.status = "completed" /\ states \subseteq {"completed", "cancelled"}
      BY <1>7, <1>11 DEF ExerciseStatus, RunStates
    <2>2. QED
      BY <2>1 DEF Settled, states
  <1>12. QED
    BY <1>9, <1>10, <1>11

(***************************************************************************)
(* A step of one process.                                                  *)
(***************************************************************************)

LEMMA RestingProgram ==
  ProgramStage(resting) /\ "row" \notin DOMAIN resting /\ resting.at = "idle"
  BY DEF ProgramStage, resting

\* What a process that is not p finds changed about the simulation it runs or makes.
Undisturbed(q) ==
  \A n : RowOf(proc[q], n) =>
    /\ n \in DOMAIN simulations'
    /\ proc[q].at = "steps" =>
         /\ simulations'[n].steps = simulations[n].steps
         /\ simulations'[n].status = simulations[n].status
    /\ proc[q].at \in Running =>
         /\ simulations'[n].steps # <<>>
         /\ DOMAIN simulations'[n].steps = DOMAIN simulations[n].steps
         /\ Len(simulations'[n].steps) = Len(simulations[n].steps)
    /\ quiet'[q] => quiet[q] /\ simulations'[n].steps = simulations[n].steps

\* What is left to show of a step of p that keeps the types.
LEMMA ProgramMoves ==
  ASSUME ProgramsInv, ProgramsTyped', NEW p \in Procs, NEW s, Moved(p, s), ProgramStage(s),
         NEW still, quiet'[p] => still, RowAgrees(s, still)',
         quiet' = [q \in Procs |-> quiet'[q]],
         \A q \in Procs \ {p} : Undisturbed(q) /\ Fresh(s, proc[q]) /\ Fresh(proc[q], s),
         \A n \in DOMAIN simulations' :
           \/ n \in cut' \/ RowOf(s, n) \/ Settled(simulations'[n])
           \/ /\ n \in DOMAIN simulations /\ ~ RowOf(proc[p], n)
              /\ Settled(simulations[n]) => Settled(simulations'[n])
              /\ n \in cut => n \in cut'
  PROVE  ProgramsInv'
  <1>1. /\ proc' = [q \in Procs |-> proc'[q]]
        /\ proc'[p] = s /\ \A q \in Procs \ {p} : proc'[q] = proc[q]
    BY DEF Moved, ProgramsInv, ProgramStages
  <1>2. ASSUME NEW q \in Procs
        PROVE  ProgramStage(proc[q])' /\ RowAgrees(proc[q], quiet[q])'
    <2>1. PICK r, calm : r = proc'[q] /\ calm = quiet'[q]
      OBVIOUS
    <2>2. CASE q = p
      <3>1. r = s /\ (calm => still)
        BY <1>1, <2>1, <2>2
      <3>2. RowAgrees(r, calm)'
        <4>1. \A steps : Follows(s, steps, still) => Follows(s, steps, calm)
          BY <3>1 DEF Follows
        <4>2. QED
          BY <3>1, <4>1 DEF RowAgrees
      <3>3. QED
        BY <2>1, <3>1, <3>2
    <2>3. CASE q # p
      <3>1. r = proc[q]
        BY <1>1, <2>1, <2>3
      <3>2. PICK was : was = quiet[q]
        OBVIOUS
      <3>3. ProgramStage(r) /\ RowAgrees(r, was)
        BY <3>1, <3>2 DEF ProgramsInv, ProgramStages
      <3>4. RowAgrees(r, calm)'
        <4>1. SUFFICES ASSUME "row" \in DOMAIN r
                       PROVE  RowAgrees(r, calm)'
          BY DEF RowAgrees
        <4>2. PICK n : n = r.row
          OBVIOUS
        <4>3. RowOf(r, n)
          BY <4>1, <4>2 DEF RowOf
        <4>4. /\ n \in DOMAIN simulations'
              /\ r.at = "steps" =>
                   /\ simulations'[n].steps = simulations[n].steps
                   /\ simulations'[n].status = simulations[n].status
              /\ r.at \in Running =>
                   /\ simulations'[n].steps # <<>>
                   /\ DOMAIN simulations'[n].steps = DOMAIN simulations[n].steps
                   /\ Len(simulations'[n].steps) = Len(simulations[n].steps)
              /\ calm => was /\ simulations'[n].steps = simulations[n].steps
          BY <2>1, <2>3, <3>1, <3>2, <4>3 DEF Undisturbed
        <4>5. r.at \in Running => Follows(r, simulations'[n].steps, calm)
          <5>1. r.at \in Running => Follows(r, simulations[n].steps, was)
            BY <3>3, <4>1, <4>2 DEF RowAgrees
          <5>2. PICK old, new : old = simulations[n].steps /\ new = simulations'[n].steps
            OBVIOUS
          <5>3. QED
            BY <4>4, <5>1, <5>2, FollowsOn
        <4>6. QED
          BY <3>3, <4>1, <4>2, <4>4, <4>5 DEF RowAgrees
      <3>5. QED
        BY <2>1, <3>3, <3>4
    <2>4. QED
      BY <2>2, <2>3
  <1>3. ProgramStages'
    BY <1>1, <1>2 DEF ProgramStages
  <1>4. FreshAlone'
    <2>1. ASSUME NEW q \in Procs, NEW r \in Procs, q # r
          PROVE  Fresh(proc'[q], proc'[r])
      BY <1>1, <2>1 DEF ProgramsInv, FreshAlone
    <2>2. QED
      BY <2>1 DEF FreshAlone, Fresh
  <1>5. SimulationTellsSteps'
    <2>1. ASSUME NEW n \in DOMAIN simulations'
          PROVE  n \in cut' \/ (\E q \in Procs : RowOf(proc'[q], n)) \/ Settled(simulations'[n])
      <3>1. CASE n \in cut' \/ RowOf(s, n) \/ Settled(simulations'[n])
        BY <1>1, <3>1
      <3>2. CASE /\ n \in DOMAIN simulations /\ ~ RowOf(proc[p], n)
                 /\ Settled(simulations[n]) => Settled(simulations'[n])
                 /\ n \in cut => n \in cut'
        <4>1. n \in cut \/ (\E q \in Procs : RowOf(proc[q], n)) \/ Settled(simulations[n])
          BY <3>2, TellsWhenSettled DEF ProgramsInv
        <4>2. QED
          BY <1>1, <3>2, <4>1
      <3>3. QED
        BY <2>1, <3>1, <3>2
    <2>2. QED
      BY <2>1 DEF SimulationTellsSteps, RowOf, Settled, StepStates
  <1>6. QED
    BY <1>3, <1>4, <1>5 DEF ProgramsInv

\* What becomes of the commands under way.
Ripples(p) == quiet' = quiet \/ quiet' = [quiet EXCEPT ![p] = TRUE] \/ Updates(p)

LEMMA QuietAfter ==
  ASSUME ProgramsInv, NEW p \in Procs, Ripples(p)
  PROVE  /\ quiet' = [q \in Procs |-> quiet'[q]]
         /\ \A q \in Procs \ {p} : quiet'[q] => quiet[q] \/ "row" \notin DOMAIN proc[q]
         /\ Updates(p) => \A q \in Procs \ {p} : quiet'[q] => "row" \notin DOMAIN proc[q]
         /\ Updates(p) /\ proc[p] # resting => (quiet'[p] => quiet[p])
  <1>1. quiet' = [q \in Procs |-> quiet'[q]]
    BY DEF Ripples, ProgramsInv, ProgramStages, Updates
  <1>2. ASSUME Updates(p), NEW q \in Procs \ {p}, quiet'[q]
        PROVE  "row" \notin DOMAIN proc[q]
    <2>1. proc[q] = resting
      BY <1>2 DEF Updates
    <2>2. QED
      BY <2>1, RestingProgram
  <1>3. ASSUME NEW q \in Procs \ {p}, quiet'[q]
        PROVE  quiet[q] \/ "row" \notin DOMAIN proc[q]
    BY <1>2, <1>3 DEF Ripples, ProgramsInv, ProgramStages
  <1>4. Updates(p) /\ proc[p] # resting => (quiet'[p] => quiet[p])
    BY DEF Updates
  <1>5. QED
    BY <1>1, <1>2, <1>3, <1>4

\* A step that leaves the simulations as they are.
LEMMA ProgramTurns ==
  ASSUME ProgramsInv, ProgramsTyped', UNCHANGED simulations, NEW p \in Procs, Ripples(p),
         NEW s, Moved(p, s), ProgramStage(s), NEW still, quiet'[p] => still, RowAgrees(s, still),
         s.at # "steps", cut \subseteq cut',
         \A n : \/ RowOf(s, n) => RowOf(proc[p], n)
                \/ n \in DOMAIN simulations /\ simulations[n].steps # <<>>,
         \A n \in DOMAIN simulations : RowOf(proc[p], n) => RowOf(s, n) \/ n \in cut'
  PROVE  ProgramsInv'
  <1>1. RowAgrees(s, still)'
    BY DEF RowAgrees
  <1>2. ASSUME NEW q \in Procs \ {p}
        PROVE  Undisturbed(q) /\ Fresh(s, proc[q]) /\ Fresh(proc[q], s)
    <2>1. PICK r, was : r = proc[q] /\ was = quiet[q]
      OBVIOUS
    <2>2. RowAgrees(r, was)
      BY <2>1 DEF ProgramsInv, ProgramStages
    <2>3. Undisturbed(q)
      BY <2>1, <2>2, QuietAfter DEF Undisturbed, RowOf, RowAgrees
    <2>4. Fresh(r, s)
      <3>1. SUFFICES ASSUME r.at = "steps", "row" \in DOMAIN s
                     PROVE  s.row # r.row
        BY DEF Fresh
      <3>2. "row" \in DOMAIN r
        BY <2>1, <3>1 DEF ProgramsInv, ProgramStages, ProgramStage, resting, Running
      <3>3. simulations[r.row].steps = <<>>
        BY <2>2, <3>1, <3>2 DEF RowAgrees
      <3>4. CASE RowOf(proc[p], s.row)
        BY <2>1, <3>1, <3>4 DEF ProgramsInv, FreshAlone, Fresh, RowOf
      <3>5. CASE ~ RowOf(proc[p], s.row)
        BY <3>1, <3>3, <3>5 DEF RowOf
      <3>6. QED
        BY <3>4, <3>5
    <2>5. QED
      BY <2>1, <2>3, <2>4 DEF Fresh
  <1>3. QED
    BY <1>1, <1>2, QuietAfter, ProgramMoves

\* A step of a command that has nothing to do with the simulations.
LEMMA ProgramBesides ==
  ASSUME ProgramsInv, ProgramsTyped', UNCHANGED <<simulations, cut>>, NEW p \in Procs, Ripples(p),
         NEW s, Moved(p, s), ProgramStage(s), "row" \notin DOMAIN s, "row" \notin DOMAIN proc[p],
         s.at # "steps"
  PROVE  ProgramsInv'
  <1>1. RowAgrees(s, TRUE)
    BY DEF RowAgrees
  <1>2. QED
    BY <1>1, ProgramTurns DEF RowOf

\* A step of p that writes the simulation it makes or runs.
LEMMA ProgramWrites ==
  ASSUME ProgramsInv, NEW p \in Procs, Updates(p), NEW n \in DOMAIN simulations,
         RowOf(proc[p], n), NEW sim, simulations' = [simulations EXCEPT ![n] = sim],
         SimulationOK(sim), UNCHANGED <<profiles, lessons>>,
         \/ proc[p].at = "steps"
         \/ /\ sim.steps # <<>> /\ DOMAIN sim.steps = DOMAIN simulations[n].steps
            /\ Len(sim.steps) = Len(simulations[n].steps),
         NEW s, Moved(p, s), ProgramStage(s), NEW still, quiet'[p] => still,
         RowAgrees(s, still)', s.at # "steps", "row" \in DOMAIN s => s.row = n,
         cut' \subseteq DOMAIN simulations, \A m \in cut : m = n \/ m \in cut',
         n \in cut' \/ RowOf(s, n) \/ Settled(sim)
  PROVE  ProgramsInv'
  <1>1. Rows(simulations) /\ \A m \in DOMAIN simulations : SimulationOK(simulations[m])
    BY DEF ProgramsInv, ProgramsTyped
  <1>2. /\ Rows(simulations') /\ DOMAIN simulations' = DOMAIN simulations
        /\ \A m \in DOMAIN simulations : simulations'[m] = IF m = n THEN sim ELSE simulations[m]
    BY <1>1, UpdateRow
  <1>3. ProgramsTyped'
    BY <1>1, <1>2 DEF ProgramsInv, ProgramsTyped
  <1>4. ASSUME NEW q \in Procs \ {p}
        PROVE  Undisturbed(q) /\ Fresh(s, proc[q]) /\ Fresh(proc[q], s)
    <2>1. PICK r, was : r = proc[q] /\ was = quiet[q]
      OBVIOUS
    <2>2. RowAgrees(r, was) /\ ProgramStage(r)
      BY <2>1 DEF ProgramsInv, ProgramStages
    <2>3. Fresh(r, proc[p]) /\ Fresh(proc[p], r)
      BY <2>1 DEF ProgramsInv, FreshAlone
    <2>4. r.at = "steps" => "row" \in DOMAIN r /\ r.row # n
      BY <2>2, <2>3 DEF ProgramStage, Fresh, RowOf, resting, Running
    <2>5. proc[p].at = "steps" /\ "row" \in DOMAIN r => r.row # n
      BY <2>3 DEF Fresh, RowOf
    <2>6. quiet'[q] => "row" \notin DOMAIN r
      BY <2>1, QuietAfter DEF Ripples
    <2>7. Undisturbed(q)
      <3>1. SUFFICES ASSUME NEW m, RowOf(r, m)
                     PROVE  /\ m \in DOMAIN simulations'
                            /\ r.at = "steps" =>
                                 /\ simulations'[m].steps = simulations[m].steps
                                 /\ simulations'[m].status = simulations[m].status
                            /\ r.at \in Running =>
                                 /\ simulations'[m].steps # <<>>
                                 /\ DOMAIN simulations'[m].steps = DOMAIN simulations[m].steps
                                 /\ Len(simulations'[m].steps) = Len(simulations[m].steps)
                            /\ ~ quiet'[q]
        BY <2>1 DEF Undisturbed
      <3>2. m \in DOMAIN simulations /\ r.row = m /\ "row" \in DOMAIN r
        BY <2>2, <3>1 DEF RowAgrees, RowOf
      <3>3. r.at \in Running => simulations[m].steps # <<>>
        BY <2>2, <3>2 DEF RowAgrees
      <3>4. CASE m # n
        BY <1>2, <2>6, <3>2, <3>3, <3>4
      <3>5. CASE m = n
        BY <1>2, <2>4, <2>5, <2>6, <3>2, <3>5
      <3>6. QED
        BY <3>4, <3>5
    <2>8. QED
      BY <2>1, <2>4, <2>7 DEF Fresh
  <1>5. \A m \in DOMAIN simulations' :
          \/ m \in cut' \/ RowOf(s, m) \/ Settled(simulations'[m])
          \/ /\ m \in DOMAIN simulations /\ ~ RowOf(proc[p], m)
             /\ Settled(simulations[m]) => Settled(simulations'[m])
             /\ m \in cut => m \in cut'
    BY <1>2 DEF RowOf
  <1>6. QED
    BY <1>3, <1>4, <1>5, QuietAfter, ProgramMoves DEF Ripples

\* A step of p that has no simulation to do with, and ends without one.
LEMMA ProgramPasses ==
  ASSUME ProgramsInv, ProgramsTyped', UNCHANGED <<simulations, cut>>, NEW t \in Procs,
         NEW s, Starts(t, s), ProgramStage(s), "row" \notin DOMAIN s, s.at # "steps"
  PROVE  ProgramsInv'
  <1>1. proc[t] = resting /\ Moved(t, s) /\ quiet' = [quiet EXCEPT ![t] = TRUE]
    BY DEF Starts, Moved
  <1>2. Ripples(t) /\ "row" \notin DOMAIN proc[t]
    BY <1>1, RestingProgram DEF Ripples
  <1>3. QED
    BY <1>1, <1>2, ProgramBesides

LEMMA ProgramRecordsTyped ==
  ASSUME ProgramsInv, UNCHANGED <<profiles, simulations, lessons, cut>>
  PROVE  ProgramsTyped'
  BY DEF ProgramsInv, ProgramsTyped

LEMMA ProgramReads ==
  ASSUME ProgramsInv, NEW t \in Procs, NEW answer, Reads(t, answer), UNCHANGED programRecords
  PROVE  ProgramsInv'
  <1>1. UNCHANGED <<profiles, simulations, lessons, cut>>
    BY DEF programRecords
  <1>2. Starts(t, resting)
    BY DEF Reads, Commands
  <1>3. QED
    BY <1>1, <1>2, ProgramRecordsTyped, ProgramPasses, RestingProgram

\* A command that ends early leaves its simulation among those cut short.
LEMMA ProgramEnds ==
  ASSUME ProgramsInv, NEW p \in Procs, Ends(p), UNCHANGED <<profiles, simulations, lessons>>,
         cut \subseteq cut', cut' \subseteq DOMAIN simulations,
         \A n \in DOMAIN simulations : RowOf(proc[p], n) => n \in cut'
  PROVE  ProgramsInv'
  <1>1. ProgramsTyped'
    BY DEF ProgramsInv, ProgramsTyped
  <1>2. Moved(p, resting) /\ Ripples(p)
    BY DEF Ends, Goes, Moved, Ripples
  <1>3. RowAgrees(resting, TRUE) /\ \A n : ~ RowOf(resting, n)
    BY RestingProgram DEF RowAgrees, RowOf
  <1>4. QED
    BY <1>1, <1>2, <1>3, RestingProgram, ProgramTurns

\* The row a process has read is one of the table.
LEMMA ProgramRow ==
  ASSUME ProgramsInv, NEW p \in Procs
  PROVE  /\ ProgramStage(proc[p]) /\ RowAgrees(proc[p], quiet[p])
         /\ \A n : RowOf(proc[p], n) => n \in DOMAIN simulations
  BY DEF ProgramsInv, ProgramStages, RowAgrees, RowOf

LEMMA ProgramKilledKeeps ==
  ASSUME ProgramsInv, NEW p \in Procs, ProgramKilled(p)
  PROVE  ProgramsInv'
  <1>1. Ends(p) /\ UNCHANGED <<profiles, simulations, lessons>>
    BY DEF ProgramKilled, Refuses
  <1>2. cut \subseteq DOMAIN simulations
    BY DEF ProgramsInv, ProgramsTyped
  <1>3. /\ cut \subseteq cut' /\ cut' \subseteq DOMAIN simulations
        /\ \A n \in DOMAIN simulations : RowOf(proc[p], n) => n \in cut'
    BY <1>2, ProgramRow DEF ProgramKilled, RowOf
  <1>4. QED
    BY <1>1, <1>3, ProgramEnds

(***************************************************************************)
(* Profiles.                                                               *)
(***************************************************************************)

LEMMA ProfileAddKeeps ==
  ASSUME ProgramsInv, NEW t \in Procs, NEW name \in DOMAIN Profiles, ProfileAdd(t, name)
  PROVE  ProgramsInv'
  <1>1. /\ Starts(t, resting) /\ ValidSteps(Profiles[name])
        /\ UNCHANGED <<simulations, lessons, cut>>
    BY DEF ProfileAdd, CreateProfile
  <1>2. PICK given : given = Profiles[name]
    OBVIOUS
  <1>3. PICK steps : steps = [k \in DOMAIN given |->
                       [given[k] EXCEPT !.tactic = ResolveTactic(given[k], TtpIds(given, k))]]
    OBVIOUS
  <1>4. profiles' = [profiles EXCEPT ![name] = steps]
    BY <1>2, <1>3 DEF ProfileAdd, CreateProfile
  <1>5. given \in Seq(Range(given)) /\ given # <<>>
    BY <1>1, <1>2, ProfilesAssumption DEF ValidSteps
  <1>6. Len(given) \in Nat /\ Len(given) > 0 /\ DOMAIN given = 1..Len(given)
    BY <1>5
  <1>7. DOMAIN steps = 1..Len(given) /\ Len(steps) = Len(given)
    BY <1>3, <1>6
  <1>8. ProfileSteps(steps)
    <2>1. 1 \in DOMAIN steps
      BY <1>6, <1>7
    <2>2. QED
      BY <1>6, <1>7, <2>1 DEF ProfileSteps
  <1>9. ProgramsTyped'
    BY <1>1, <1>4, <1>8 DEF ProgramsInv, ProgramsTyped
  <1>10. QED
    BY <1>1, <1>9, ProgramPasses, RestingProgram

LEMMA ProfileDeleteKeeps ==
  ASSUME ProgramsInv, NEW t \in Procs, NEW name, ProfileDelete(t, name)
  PROVE  ProgramsInv'
  <1>1. PICK s : s = [at |-> "delete", name |-> name]
    OBVIOUS
  <1>2. Starts(t, s) /\ UNCHANGED <<profiles, simulations, lessons, cut>>
    BY <1>1 DEF ProfileDelete, programRecords
  <1>3. ProgramStage(s) /\ "row" \notin DOMAIN s /\ s.at # "steps"
    BY <1>1 DEF ProgramStage
  <1>4. QED
    BY <1>2, <1>3, ProgramRecordsTyped, ProgramPasses

LEMMA ProfileDeletedKeeps ==
  ASSUME ProgramsInv, NEW p \in Procs, ProfileDeleted(p)
  PROVE  ProgramsInv'
  <1>1. /\ proc[p].at = "delete" /\ Moved(p, resting) /\ Updates(p) /\ UNCHANGED <<lessons, cut>>
    BY DEF ProfileDeleted, Goes, Moved
  <1>2. PICK name : name = proc[p].name
    OBVIOUS
  <1>3. /\ profiles' = [profiles EXCEPT ![name] = NONE]
        /\ simulations' = [n \in DOMAIN simulations |->
             IF simulations[n].profile = name THEN [simulations[n] EXCEPT !.profile = NONE]
             ELSE simulations[n]]
    BY <1>2 DEF ProfileDeleted, DeleteProfile
  <1>4. Rows(simulations) /\ \A n \in DOMAIN simulations : SimulationOK(simulations[n])
    BY DEF ProgramsInv, ProgramsTyped
  <1>5. DOMAIN simulations' = DOMAIN simulations /\ Rows(simulations')
    <2>1. Len(simulations) \in Nat /\ DOMAIN simulations = 1..Len(simulations)
      BY <1>4 DEF Rows
    <2>2. QED
      BY <1>3, <2>1, MapRows
  <1>6. ASSUME NEW n \in DOMAIN simulations
        PROVE  /\ simulations'[n].steps = simulations[n].steps
               /\ simulations'[n].status = simulations[n].status
               /\ SimulationOK(simulations'[n])
               /\ Settled(simulations[n]) => Settled(simulations'[n])
    <2>1. PICK old, new : old = simulations[n] /\ new = simulations'[n]
      OBVIOUS
    <2>2. new = old \/ new = [old EXCEPT !.profile = NONE]
      BY <1>3, <2>1
    <2>3. DOMAIN old = {"profile", "status", "steps"}
      BY <1>4, <2>1 DEF SimulationOK
    <2>4. new.steps = old.steps /\ new.status = old.status /\ DOMAIN new = DOMAIN old
      BY <2>2, <2>3
    <2>5. SimulationOK(new)
      <3>1. SimulationOK(old)
        BY <1>4, <2>1
      <3>2. QED
        BY <2>4, <3>1 DEF SimulationOK
    <2>6. Settled(old) => Settled(new)
      <3>1. {new.steps[k].state : k \in DOMAIN new.steps}
              = {old.steps[k].state : k \in DOMAIN old.steps}
        BY <2>4
      <3>2. QED
        BY ONLY <2>4, <3>1 DEF Settled
    <2>7. QED
      BY <2>1, <2>4, <2>5, <2>6
  <1>7. ProgramsTyped'
    BY <1>1, <1>3, <1>5, <1>6 DEF ProgramsInv, ProgramsTyped
  <1>8. ASSUME NEW q \in Procs \ {p}
        PROVE  Undisturbed(q) /\ Fresh(resting, proc[q]) /\ Fresh(proc[q], resting)
    <2>1. RowAgrees(proc[q], quiet[q])
      BY ProgramRow
    <2>2. Undisturbed(q)
      BY <1>1, <1>5, <1>6, <2>1, QuietAfter DEF Undisturbed, Ripples, RowAgrees, RowOf
    <2>3. QED
      BY <2>2, RestingProgram DEF Fresh
  <1>9. RowAgrees(resting, TRUE)' /\ \A n : ~ RowOf(resting, n)
    BY RestingProgram DEF RowAgrees, RowOf
  <1>10. ~ \E n : RowOf(proc[p], n)
    BY <1>1, ProgramRow DEF ProgramStage, RowOf, resting, Running
  <1>11. QED
    BY <1>1, <1>5, <1>6, <1>7, <1>8, <1>9, <1>10, QuietAfter, RestingProgram, ProgramMoves
    DEF Ripples

(***************************************************************************)
(* Making a simulation.                                                    *)
(***************************************************************************)

LEMMA ExerciseNewKeeps ==
  ASSUME ProgramsInv, NEW t \in Procs, NEW name \in DOMAIN Profiles, ExerciseNew(t, name)
  PROVE  ProgramsInv'
  <1>1. CASE profiles[name] = NONE
    BY <1>1, ProgramReads DEF ExerciseNew
  <1>2. CASE profiles[name] # NONE
    <2>1. PICK steps : steps = profiles[name]
      OBVIOUS
    <2>2. PICK s : s = [at |-> "exercise", name |-> name, steps |-> steps]
      OBVIOUS
    <2>3. Starts(t, s) /\ UNCHANGED <<profiles, simulations, lessons, cut>>
      BY <1>2, <2>1, <2>2 DEF ExerciseNew, programRecords
    <2>4. ProfileSteps(steps)
      BY <1>2, <2>1 DEF ProgramsInv, ProgramsTyped
    <2>5. ProgramStage(s) /\ "row" \notin DOMAIN s /\ s.at # "steps"
      BY <2>2, <2>4 DEF ProgramStage
    <2>6. QED
      BY <2>3, <2>5, ProgramRecordsTyped, ProgramPasses
  <1>3. QED
    BY <1>1, <1>2

LEMMA CreateExerciseKeeps ==
  ASSUME ProgramsInv, NEW p \in Procs, CreateExercise(p)
  PROVE  ProgramsInv'
  <1>1. proc[p].at = "exercise" /\ UNCHANGED <<profiles, lessons, cut>>
    BY DEF CreateExercise
  <1>2. DOMAIN proc[p] = {"at", "name", "steps"} /\ ProfileSteps(proc[p].steps)
    BY <1>1, ProgramRow DEF ProgramStage, resting, Running
  <1>3. \A n : ~ RowOf(proc[p], n)
    BY <1>2 DEF RowOf
  <1>4. CASE profiles[proc[p].name] = NONE
    <2>1. Ends(p) /\ UNCHANGED simulations
      BY <1>4 DEF CreateExercise, Refuses
    <2>2. cut \subseteq DOMAIN simulations
      BY DEF ProgramsInv, ProgramsTyped
    <2>3. QED
      BY <1>1, <1>3, <2>1, <2>2, ProgramEnds
  <1>5. CASE profiles[proc[p].name] # NONE
    <2>1. PICK name, steps, n : /\ name = proc[p].name /\ steps = proc[p].steps
                                /\ n = Len(simulations) + 1
      OBVIOUS
    <2>2. PICK sim : sim = [profile |-> name, status |-> "planned", steps |-> <<>>]
      OBVIOUS
    <2>3. PICK s : s = [at |-> "steps", name |-> name, steps |-> steps, row |-> n]
      OBVIOUS
    <2>4. simulations' = Append(simulations, sim) /\ Moved(p, s) /\ Updates(p)
      BY <1>5, <2>1, <2>2, <2>3 DEF CreateExercise, Goes, Moved
    <2>5. Rows(simulations) /\ \A m \in DOMAIN simulations : SimulationOK(simulations[m])
      BY DEF ProgramsInv, ProgramsTyped
    <2>6. /\ Rows(simulations') /\ DOMAIN simulations' = DOMAIN simulations \cup {n}
          /\ n \notin DOMAIN simulations /\ simulations'[n] = sim
          /\ \A m \in DOMAIN simulations : simulations'[m] = simulations[m]
      BY <2>1, <2>4, <2>5, AppendRow
    <2>7. SimulationOK(sim)
      <3>1. Rows(<<>>)
        BY DEF Rows
      <3>2. QED
        BY <2>2, <3>1 DEF SimulationOK
    <2>8. ProgramsTyped'
      BY <1>1, <2>6, <2>7 DEF ProgramsInv, ProgramsTyped
    <2>9. ProgramStage(s) /\ s.row = n /\ s.at = "steps" /\ "row" \in DOMAIN s
      BY <1>2, <2>1, <2>3 DEF ProgramStage
    <2>10. RowAgrees(s, TRUE)'
      BY <2>2, <2>6, <2>9 DEF RowAgrees, Running
    <2>11. ASSUME NEW q \in Procs \ {p}
           PROVE  Undisturbed(q) /\ Fresh(s, proc[q]) /\ Fresh(proc[q], s)
      <3>1. RowAgrees(proc[q], quiet[q]) /\ \A m : RowOf(proc[q], m) => m \in DOMAIN simulations
        BY ProgramRow
      <3>2. Undisturbed(q)
        BY <2>4, <2>6, <3>1, QuietAfter DEF Undisturbed, Ripples, RowAgrees, RowOf
      <3>3. Fresh(s, proc[q])
        BY <2>6, <2>9, <3>1 DEF Fresh, RowOf
      <3>4. Fresh(proc[q], s)
        <4>1. proc[q].at = "steps" => "row" \in DOMAIN proc[q]
          BY ProgramRow DEF ProgramStage, resting, Running
        <4>2. QED
          BY <2>6, <2>9, <3>1, <4>1 DEF Fresh, RowOf
      <3>5. QED
        BY <3>2, <3>3, <3>4
    <2>12. RowOf(s, n)
      BY <2>9 DEF RowOf
    <2>13. ASSUME NEW m \in DOMAIN simulations'
           PROVE  \/ RowOf(s, m)
                  \/ /\ m \in DOMAIN simulations /\ ~ RowOf(proc[p], m)
                     /\ Settled(simulations[m]) => Settled(simulations'[m])
                     /\ m \in cut => m \in cut'
      BY <1>1, <1>3, <2>6, <2>12
    <2>14. quiet' = [q \in Procs |-> quiet'[q]]
      BY <2>4, QuietAfter DEF Ripples
    <2>15. QED
      BY <2>4, <2>8, <2>9, <2>10, <2>11, <2>13, <2>14, ProgramMoves
  <1>6. QED
    BY <1>4, <1>5

LEMMA CreateExerciseStepsKeeps ==
  ASSUME ProgramsInv, NEW p \in Procs, CreateExerciseSteps(p)
  PROVE  ProgramsInv'
  <1>1. proc[p].at = "steps" /\ UNCHANGED <<profiles, lessons>>
    BY DEF CreateExerciseSteps
  <1>2. DOMAIN proc[p] = {"at", "name", "steps", "row"} /\ ProfileSteps(proc[p].steps)
    BY <1>1, ProgramRow DEF ProgramStage, resting, Running
  <1>3. PICK given, n : given = proc[p].steps /\ n = proc[p].row
    OBVIOUS
  <1>4. /\ \A m : RowOf(proc[p], m) <=> m = n
        /\ n \in DOMAIN simulations
        /\ simulations[n].steps = <<>> /\ simulations[n].status = "planned"
    BY <1>1, <1>2, <1>3, ProgramRow DEF RowAgrees, RowOf
  <1>5. cut \subseteq DOMAIN simulations /\ SimulationOK(simulations[n])
    BY <1>4 DEF ProgramsInv, ProgramsTyped
  <1>6. CASE profiles[proc[p].name] = NONE
    <2>1. Ends(p) /\ UNCHANGED simulations /\ cut' = cut \cup {n}
      BY <1>3, <1>6 DEF CreateExerciseSteps, Refuses
    <2>2. QED
      BY <1>1, <1>4, <1>5, <2>1, ProgramEnds
  <1>7. CASE profiles[proc[p].name] # NONE
    <2>1. PICK steps : steps = [k \in DOMAIN given |-> Planned(given[k])]
      OBVIOUS
    <2>2. PICK sim : sim = [simulations[n] EXCEPT !.steps = steps]
      OBVIOUS
    <2>3. /\ simulations' = [simulations EXCEPT ![n] = sim]
          /\ Moved(p, resting) /\ Updates(p) /\ UNCHANGED cut
      BY <1>3, <1>7, <2>1, <2>2 DEF CreateExerciseSteps, Goes, Moved
    <2>4. Len(given) \in Nat /\ DOMAIN given = 1..Len(given) /\ DOMAIN given # {}
      BY <1>2, <1>3 DEF ProfileSteps
    <2>5. Rows(steps) /\ DOMAIN steps = DOMAIN given /\ steps # <<>>
      BY <2>1, <2>4, MapRows
    <2>6. \A k \in DOMAIN steps : DOMAIN steps[k] = StepFields /\ steps[k].state = "planned"
      BY <2>1 DEF Planned, StepFields
    <2>7. /\ DOMAIN sim = {"profile", "status", "steps"}
          /\ sim.steps = steps /\ sim.status = "planned"
      BY <1>4, <1>5, <2>2 DEF SimulationOK
    <2>8. SimulationOK(sim)
      BY <2>5, <2>6, <2>7 DEF SimulationOK
    <2>9. Settled(sim)
      <3>1. {sim.steps[k].state : k \in DOMAIN sim.steps} = {"planned"}
        BY <2>4, <2>5, <2>6, <2>7
      <3>2. QED
        BY <2>5, <2>7, <3>1 DEF Settled
    <2>10. RowAgrees(resting, TRUE)'
      BY RestingProgram DEF RowAgrees
    <2>11. QED
      BY <1>1, <1>4, <1>5, <2>3, <2>8, <2>9, <2>10, RestingProgram, ProgramWrites
  <1>8. QED
    BY <1>6, <1>7

(***************************************************************************)
(* Running a simulation.                                                   *)
(***************************************************************************)

LEMMA PlanExerciseKeeps ==
  ASSUME ProgramsInv, NEW t \in Procs, NEW n, NEW dry \in BOOLEAN, NEW chain,
         PlanExercise(t, n, dry, chain)
  PROVE  ProgramsInv'
  <1>1. /\ n \in DOMAIN simulations /\ simulations[n].steps # <<>>
        /\ UNCHANGED <<profiles, simulations, lessons, cut>>
    BY DEF PlanExercise, programRecords
  <1>2. PICK steps : steps = simulations[n].steps
    OBVIOUS
  <1>3. PICK order \in Ordered(steps, chain) :
          Starts(t, [at |-> "begin", row |-> n, dry |-> dry, steps |-> steps,
                     todo |-> order, states |-> <<>>])
    BY <1>2 DEF PlanExercise
  <1>4. PICK s : s = [at |-> "begin", row |-> n, dry |-> dry, steps |-> steps,
                      todo |-> order, states |-> <<>>]
    OBVIOUS
  <1>5. Rows(steps)
    BY <1>1, <1>2 DEF ProgramsInv, ProgramsTyped, SimulationOK
  <1>6. order \in Bijection(DOMAIN steps, DOMAIN steps)
    BY DEF Ordered
  <1>7. /\ s.at = "begin" /\ s.row = n /\ s.dry = dry /\ s.todo = order /\ s.states = <<>>
        /\ DOMAIN s = {"at", "row", "dry", "steps", "todo", "states"}
    BY <1>4
  <1>8. Follows(s, steps, TRUE)
    BY <1>5, <1>6, <1>7, FollowsFromTheStart
  <1>9. ProgramStage(s)
    <2>1. Rows(<<>>)
      BY DEF Rows
    <2>2. QED
      BY <1>7, <2>1 DEF ProgramStage, Running
  <1>10. RowAgrees(s, TRUE)
    BY <1>1, <1>2, <1>7, <1>8 DEF RowAgrees
  <1>11. Moved(t, s) /\ Ripples(t) /\ \A m : ~ RowOf(proc[t], m)
    BY <1>3, <1>4, RestingProgram DEF Starts, Moved, Ripples, RowOf
  <1>12. \A m : RowOf(s, m) => m \in DOMAIN simulations /\ simulations[m].steps # <<>>
    BY <1>1, <1>7 DEF RowOf
  <1>13. ProgramsTyped'
    BY <1>1, ProgramRecordsTyped
  <1>14. QED
    BY <1>1, <1>7, <1>9, <1>10, <1>11, <1>12, <1>13, ProgramTurns

\* A process at a step of a run.
LEMMA RunningStage ==
  ASSUME ProgramsInv, NEW p \in Procs, proc[p].at \in Running
  PROVE  /\ DOMAIN proc[p] = {"at", "row", "dry", "steps", "todo", "states"}
         /\ proc[p] # resting /\ proc[p].dry \in BOOLEAN /\ Rows(proc[p].states)
         /\ \A k \in DOMAIN proc[p].states : proc[p].states[k] \in RunStates(proc[p].dry)
         /\ \A n : RowOf(proc[p], n) <=> n = proc[p].row
         /\ proc[p].row \in DOMAIN simulations
         /\ simulations[proc[p].row].steps # <<>> /\ SimulationOK(simulations[proc[p].row])
         /\ Follows(proc[p], simulations[proc[p].row].steps, quiet[p])
  <1>1. PICK r : r = proc[p]
    OBVIOUS
  <1>2. ProgramStage(r) /\ RowAgrees(r, quiet[p]) /\ r.at \in Running
    BY <1>1, ProgramRow
  <1>3. /\ DOMAIN r = {"at", "row", "dry", "steps", "todo", "states"}
        /\ r # resting /\ r.dry \in BOOLEAN /\ Rows(r.states)
        /\ \A k \in DOMAIN r.states : r.states[k] \in RunStates(r.dry)
    BY <1>2 DEF ProgramStage, resting, Running
  <1>4. /\ \A n : RowOf(r, n) <=> n = r.row
        /\ r.row \in DOMAIN simulations
        /\ simulations[r.row].steps # <<>>
        /\ Follows(r, simulations[r.row].steps, quiet[p])
    BY <1>2, <1>3 DEF RowAgrees, RowOf
  <1>5. SimulationOK(simulations[r.row])
    BY <1>4 DEF ProgramsInv, ProgramsTyped
  <1>6. QED
    BY <1>1, <1>3, <1>4, <1>5

LEMMA SubmitRaisedKeeps ==
  ASSUME ProgramsInv, NEW p \in Procs, SubmitRaised(p)
  PROVE  ProgramsInv'
  <1>1. /\ proc[p].at = "step" /\ Ends(p) /\ cut' = cut \cup {proc[p].row}
        /\ UNCHANGED <<profiles, simulations, lessons>>
    BY DEF SubmitRaised, Refuses
  <1>2. cut \subseteq DOMAIN simulations
    BY DEF ProgramsInv, ProgramsTyped
  <1>3. proc[p].row \in DOMAIN simulations /\ \A n : RowOf(proc[p], n) <=> n = proc[p].row
    BY <1>1, RunningStage DEF Running
  <1>4. QED
    BY <1>1, <1>2, <1>3, ProgramEnds

LEMMA BeginExerciseKeeps ==
  ASSUME ProgramsInv, NEW p \in Procs, BeginExercise(p)
  PROVE  ProgramsInv'
  <1>1. PICK r, n, calm : r = proc[p] /\ n = r.row /\ calm = quiet[p]
    OBVIOUS
  <1>2. r.at = "begin" /\ UNCHANGED <<profiles, lessons, cut>> /\ Updates(p)
    BY <1>1 DEF BeginExercise
  <1>3. PICK s : s = [r EXCEPT !.at = "step"]
    OBVIOUS
  <1>4. PICK sim : sim = [simulations[n] EXCEPT !.status = "running"]
    OBVIOUS
  <1>5. simulations' = [simulations EXCEPT ![n] = sim] /\ Moved(p, s)
    BY <1>1, <1>3, <1>4 DEF BeginExercise, Goes, Moved
  <1>6. /\ DOMAIN r = {"at", "row", "dry", "steps", "todo", "states"}
        /\ proc[p] # resting /\ r.dry \in BOOLEAN /\ Rows(r.states)
        /\ \A k \in DOMAIN r.states : r.states[k] \in RunStates(r.dry)
        /\ \A m : RowOf(r, m) <=> m = n
        /\ n \in DOMAIN simulations
        /\ simulations[n].steps # <<>> /\ SimulationOK(simulations[n])
        /\ Follows(r, simulations[n].steps, calm)
    BY <1>1, <1>2, RunningStage DEF Running
  <1>7. /\ DOMAIN s = DOMAIN r /\ s.at = "step" /\ s.row = n /\ s.dry = r.dry
        /\ s.todo = r.todo /\ s.states = r.states
    BY <1>1, <1>3, <1>6
  <1>8. /\ sim.steps = simulations[n].steps /\ sim.status = "running"
        /\ DOMAIN sim = DOMAIN simulations[n]
    BY <1>4, <1>6 DEF SimulationOK
  <1>9. SimulationOK(sim)
    BY <1>6, <1>8 DEF SimulationOK
  <1>10. ProgramStage(s)
    BY <1>6, <1>7 DEF ProgramStage, Running
  <1>11. DOMAIN simulations' = DOMAIN simulations /\ simulations'[n] = sim
    BY <1>5, <1>6
  <1>12. Follows(s, sim.steps, calm)
    BY <1>2, <1>6, <1>7, <1>8, FollowsBegun
  <1>13. RowAgrees(s, calm)'
    BY <1>6, <1>7, <1>8, <1>11, <1>12 DEF RowAgrees
  <1>14. quiet'[p] => calm
    BY <1>1, <1>2, <1>6, QuietAfter DEF Ripples
  <1>15. RowOf(s, n) /\ cut \subseteq DOMAIN simulations
    BY <1>6, <1>7 DEF RowOf, ProgramsInv, ProgramsTyped
  <1>16. QED
    BY <1>1, <1>2, <1>5, <1>6, <1>7, <1>8, <1>9, <1>10, <1>13, <1>14, <1>15, ProgramWrites

LEMMA RunExerciseStepKeeps ==
  ASSUME ProgramsInv, NEW p \in Procs, NEW outcome,
         outcome \in {"planned", "blocked", "completed", "failed", "cancelled"},
         RunExerciseStep(p, outcome)
  PROVE  ProgramsInv'
  <1>1. PICK r, n, calm : r = proc[p] /\ n = r.row /\ calm = quiet[p]
    OBVIOUS
  <1>2. /\ r.at = "step" /\ r.todo # <<>> /\ StepState(p, outcome)
        /\ UNCHANGED <<profiles, simulations, lessons, cut, quiet>>
    BY <1>1 DEF RunExerciseStep, programRecords
  <1>3. PICK s : s = [r EXCEPT !.at = "result", !.states = Append(@, outcome)]
    OBVIOUS
  <1>4. Moved(p, s)
    BY <1>1, <1>3 DEF RunExerciseStep, Goes, Moved
  <1>5. /\ DOMAIN r = {"at", "row", "dry", "steps", "todo", "states"}
        /\ r.dry \in BOOLEAN /\ Rows(r.states)
        /\ \A k \in DOMAIN r.states : r.states[k] \in RunStates(r.dry)
        /\ \A m : RowOf(r, m) <=> m = n
        /\ n \in DOMAIN simulations
        /\ simulations[n].steps # <<>> /\ SimulationOK(simulations[n])
        /\ Follows(r, simulations[n].steps, calm)
    BY <1>1, <1>2, RunningStage DEF Running
  <1>6. /\ DOMAIN s = DOMAIN r /\ s.at = "result" /\ s.row = n /\ s.dry = r.dry
        /\ s.todo = r.todo /\ s.states = Append(r.states, outcome)
    BY <1>1, <1>3, <1>5
  <1>7. outcome \in RunStates(s.dry)
    BY <1>1, <1>2, <1>5, <1>6 DEF StepState, RunStates
  <1>8. Rows(s.states) /\ \A k \in DOMAIN s.states : s.states[k] \in RunStates(s.dry)
    <2>1. PICK old, dry : old = r.states /\ dry = r.dry
      OBVIOUS
    <2>2. /\ Rows(Append(old, outcome)) /\ Len(old) \in Nat /\ DOMAIN old = 1..Len(old)
          /\ DOMAIN Append(old, outcome) = 1..(Len(old) + 1)
          /\ \A i \in DOMAIN old : Append(old, outcome)[i] = old[i]
          /\ Append(old, outcome)[Len(old) + 1] = outcome
      BY <1>5, <2>1, AppendRow
    <2>3. \A k \in 1..(Len(old) + 1) : k \in DOMAIN old \/ k = Len(old) + 1
      BY <2>2
    <2>4. QED
      BY <1>5, <1>6, <1>7, <2>1, <2>2, <2>3
  <1>9. ProgramStage(s)
    BY <1>5, <1>6, <1>8 DEF ProgramStage, Running
  <1>10. Follows(s, simulations[n].steps, calm)
    <2>1. PICK steps : steps = simulations[n].steps
      OBVIOUS
    <2>2. Rows(steps)
      BY <1>5, <2>1 DEF SimulationOK
    <2>3. QED
      BY <1>2, <1>5, <1>6, <2>1, <2>2, FollowsOutcome
  <1>11. RowAgrees(s, calm)
    BY <1>5, <1>6, <1>10 DEF RowAgrees
  <1>12. quiet'[p] => calm
    BY <1>1, <1>2
  <1>13. ProgramsTyped' /\ Ripples(p)
    BY <1>2, ProgramRecordsTyped DEF Ripples
  <1>14. \A m : RowOf(s, m) <=> RowOf(proc[p], m)
    BY <1>1, <1>5, <1>6 DEF RowOf
  <1>15. QED
    BY <1>2, <1>4, <1>6, <1>9, <1>11, <1>12, <1>13, <1>14, ProgramTurns

LEMMA RecordStepKeeps ==
  ASSUME ProgramsInv, NEW p \in Procs, RecordStep(p)
  PROVE  ProgramsInv'
  <1>1. PICK r, n, calm : r = proc[p] /\ n = r.row /\ calm = quiet[p]
    OBVIOUS
  <1>2. r.at = "result" /\ UNCHANGED <<profiles, lessons, cut>> /\ Updates(p)
    BY <1>1 DEF RecordStep
  <1>3. PICK s : s = [r EXCEPT !.at = "step", !.todo = Tail(@)]
    OBVIOUS
  <1>4. PICK old : old = simulations[n].steps
    OBVIOUS
  <1>5. PICK h, state, step, steps :
          /\ h = Head(r.todo) /\ state = Last(r.states)
          /\ step = [old[h] EXCEPT !.state = state] /\ steps = [old EXCEPT ![h] = step]
    <2>1. PICK h, state : h = Head(r.todo) /\ state = Last(r.states)
      OBVIOUS
    <2>2. PICK step : step = [old[h] EXCEPT !.state = state]
      OBVIOUS
    <2>3. PICK steps : steps = [old EXCEPT ![h] = step]
      OBVIOUS
    <2>4. QED
      BY <2>1, <2>2, <2>3
  <1>6. PICK sim : sim = [simulations[n] EXCEPT !.steps = steps]
    OBVIOUS
  <1>7. /\ DOMAIN r = {"at", "row", "dry", "steps", "todo", "states"}
        /\ proc[p] # resting /\ r.dry \in BOOLEAN /\ Rows(r.states)
        /\ \A k \in DOMAIN r.states : r.states[k] \in RunStates(r.dry)
        /\ \A m : RowOf(r, m) <=> m = n
        /\ n \in DOMAIN simulations
        /\ simulations[n].steps # <<>> /\ SimulationOK(simulations[n])
        /\ Follows(r, old, calm)
    BY <1>1, <1>2, <1>4, RunningStage DEF Running
  <1>8. simulations' = [simulations EXCEPT ![n] = sim] /\ Moved(p, s)
    <2>1. simulations' = [simulations EXCEPT ![n].steps[Head(r.todo)].state = Last(r.states)]
      BY <1>1 DEF RecordStep
    <2>2. [simulations[n] EXCEPT !.steps[Head(r.todo)].state = Last(r.states)] = sim
      BY <1>4, <1>5, <1>6, <1>7 DEF SimulationOK
    <2>3. QED
      BY <1>1, <1>3, <2>1, <2>2 DEF RecordStep, Goes, Moved
  <1>9. /\ DOMAIN s = DOMAIN r /\ s.at = "step" /\ s.row = n /\ s.dry = r.dry
        /\ s.todo = Tail(r.todo) /\ s.states = r.states
    BY <1>1, <1>3, <1>7
  <1>10. /\ Rows(old) /\ \A k \in DOMAIN old : DOMAIN old[k] = StepFields
         /\ sim.steps = steps /\ sim.status = simulations[n].status
         /\ DOMAIN sim = {"profile", "status", "steps"}
    BY <1>4, <1>6, <1>7 DEF SimulationOK
  <1>11. /\ Follows(s, steps, calm)
         /\ Rows(steps) /\ DOMAIN steps = DOMAIN old /\ Len(steps) = Len(old)
         /\ \A k \in DOMAIN steps : DOMAIN steps[k] = StepFields
    <2>1. Follows(r, old, calm) /\ r.at = "result" /\ Rows(r.states)
      BY <1>2, <1>7
    <2>2. s.at = "step" /\ s.todo = Tail(r.todo) /\ s.states = r.states
      BY <1>9
    <2>3. Rows(old) /\ \A k \in DOMAIN old : DOMAIN old[k] = StepFields
      BY <1>10
    <2>4. h = Head(r.todo) /\ h \in DOMAIN old
      BY <1>5, <2>1, <2>3, HeadIsAStep
    <2>5. DOMAIN step = StepFields /\ step.state = Last(r.states)
      BY <1>5, <2>3, <2>4 DEF StepFields
    <2>6. /\ Rows(steps) /\ DOMAIN steps = DOMAIN old /\ Len(steps) = Len(old)
          /\ \A k \in DOMAIN old : steps[k] = IF k = h THEN step ELSE old[k]
      <3>1. /\ Rows([old EXCEPT ![h] = step]) /\ Len([old EXCEPT ![h] = step]) = Len(old)
            /\ DOMAIN [old EXCEPT ![h] = step] = DOMAIN old
            /\ \A k \in DOMAIN old : [old EXCEPT ![h] = step][k] = IF k = h THEN step ELSE old[k]
        BY <2>3, <2>4, UpdateRow
      <3>2. QED
        BY <1>5, <3>1
    <2>7. Follows(s, steps, calm)
      BY ONLY <2>1, <2>2, <2>3, <2>4, <2>5, <2>6, FollowsRecorded
    <2>8. \A k \in DOMAIN steps : DOMAIN steps[k] = StepFields
      BY <2>3, <2>5, <2>6
    <2>9. QED
      BY <2>6, <2>7, <2>8
  <1>12. SimulationOK(sim)
    BY <1>7, <1>10, <1>11 DEF SimulationOK
  <1>13. steps # <<>>
    <2>1. DOMAIN old # {}
      <3>1. ASSUME DOMAIN old = {}
            PROVE  old = <<>>
        BY <1>10, <3>1 DEF Rows
      <3>2. QED
        BY <1>4, <1>7, <3>1
    <2>2. QED
      BY <1>11, <2>1
  <1>14. ProgramStage(s)
    BY <1>7, <1>9 DEF ProgramStage, Running
  <1>15. DOMAIN simulations' = DOMAIN simulations /\ simulations'[n] = sim
    BY <1>7, <1>8
  <1>16. RowAgrees(s, calm)'
    BY <1>7, <1>9, <1>10, <1>11, <1>13, <1>15 DEF RowAgrees
  <1>17. quiet'[p] => calm
    BY <1>1, <1>2, <1>7, QuietAfter DEF Ripples
  <1>18. RowOf(s, n) /\ cut \subseteq DOMAIN simulations
    BY <1>7, <1>9 DEF RowOf, ProgramsInv, ProgramsTyped
  <1>19. QED
    BY <1>1, <1>2, <1>4, <1>7, <1>8, <1>9, <1>10, <1>11, <1>12, <1>13, <1>14, <1>16, <1>17, <1>18,
       ProgramWrites

LEMMA FinishExerciseKeeps ==
  ASSUME ProgramsInv, NEW p \in Procs, FinishExercise(p)
  PROVE  ProgramsInv'
  <1>1. PICK r, n, calm : r = proc[p] /\ n = r.row /\ calm = quiet[p]
    OBVIOUS
  <1>2. /\ r.at = "step" /\ r.todo = <<>> /\ UNCHANGED <<profiles, lessons>> /\ Updates(p)
        /\ Moved(p, resting)
        /\ cut' = IF calm THEN cut \ {n} ELSE cut \cup {n}
    BY <1>1 DEF FinishExercise, Goes, Moved
  <1>3. PICK status : status = ExerciseStatus(r.dry, r.states)
    OBVIOUS
  <1>4. PICK sim : sim = [simulations[n] EXCEPT !.status = status]
    OBVIOUS
  <1>5. simulations' = [simulations EXCEPT ![n] = sim]
    BY <1>1, <1>3, <1>4 DEF FinishExercise
  <1>6. /\ r.dry \in BOOLEAN /\ Rows(r.states)
        /\ \A k \in DOMAIN r.states : r.states[k] \in RunStates(r.dry)
        /\ \A m : RowOf(r, m) <=> m = n
        /\ n \in DOMAIN simulations
        /\ simulations[n].steps # <<>> /\ SimulationOK(simulations[n])
        /\ Follows(r, simulations[n].steps, calm)
    BY <1>1, <1>2, RunningStage DEF Running
  <1>7. status \in {"planned", "completed", "failed"}
    BY <1>3 DEF ExerciseStatus
  <1>8. /\ sim.steps = simulations[n].steps /\ sim.status = status
        /\ DOMAIN sim = DOMAIN simulations[n]
    BY <1>4, <1>6 DEF SimulationOK
  <1>9. SimulationOK(sim)
    BY <1>6, <1>7, <1>8 DEF SimulationOK
  <1>10. calm => Settled(sim)
    <2>1. SUFFICES ASSUME calm
                   PROVE  Settled(sim)
      OBVIOUS
    <2>2. Follows(r, sim.steps, TRUE)
      <3>1. Follows(r, sim.steps, calm)
        BY <1>6, <1>8
      <3>2. QED
        BY <2>1, <3>1 DEF Follows
    <2>3. QED
      BY <1>2, <1>3, <1>6, <1>8, <1>9, <2>2, FollowsToTheEnd
  <1>11. /\ cut' \subseteq DOMAIN simulations /\ \A m \in cut : m = n \/ m \in cut'
         /\ n \in cut' \/ calm
    BY <1>2, <1>6 DEF ProgramsInv, ProgramsTyped
  <1>12. RowAgrees(resting, TRUE)'
    BY RestingProgram DEF RowAgrees
  <1>13. QED
    BY <1>1, <1>2, <1>5, <1>6, <1>8, <1>9, <1>10, <1>11, <1>12, RestingProgram, ProgramWrites

(***************************************************************************)
(* The commands that have nothing to do with simulations.                  *)
(***************************************************************************)

\* A last statement of such a command.
LEMMA ProgramDone ==
  ASSUME ProgramsInv, NEW p \in Procs, proc[p].at \in {"atomic", "notify", "snapshot"},
         Goes(p, resting), Updates(p), UNCHANGED <<profiles, simulations, lessons, cut>>
  PROVE  ProgramsInv'
  <1>1. Moved(p, resting) /\ Ripples(p)
    BY DEF Goes, Moved, Ripples
  <1>2. "row" \notin DOMAIN proc[p]
    BY ProgramRow DEF ProgramStage, resting, Running
  <1>3. QED
    BY <1>1, <1>2, ProgramRecordsTyped, RestingProgram, ProgramBesides

LEMMA AtomicStepKeeps ==
  ASSUME ProgramsInv, NEW t \in Procs, AtomicStep(t)
  PROVE  ProgramsInv'
  <1>1. ASSUME NEW answer, Reads(t, answer), UNCHANGED programRecords
        PROVE  ProgramsInv'
    BY <1>1, ProgramReads
  <1>2. ASSUME NEW status, RunAtomic(t, status)
        PROVE  ProgramsInv'
    <2>1. /\ proc[t].at = "atomic" /\ Goes(t, resting) /\ Updates(t)
          /\ UNCHANGED <<profiles, simulations, lessons, cut>>
      BY <1>2 DEF RunAtomic
    <2>2. QED
      BY <2>1, ProgramDone
  <1>3. ASSUME NEW a, NEW known, NEW allowed, AtomicRun(t, a, known, allowed)
        PROVE  ProgramsInv'
    <2>1. PICK s : s = [at |-> "atomic", atomic |-> a]
      OBVIOUS
    <2>2. UNCHANGED programRecords /\ (Starts(t, s) \/ Reads(t, [refused |-> a]))
      BY <1>3, <2>1 DEF AtomicRun
    <2>3. UNCHANGED <<profiles, simulations, lessons, cut>>
      BY <2>2 DEF programRecords
    <2>4. ProgramStage(s) /\ "row" \notin DOMAIN s /\ s.at # "steps"
      BY <2>1 DEF ProgramStage
    <2>5. CASE Starts(t, s)
      BY <2>3, <2>4, <2>5, ProgramRecordsTyped, ProgramPasses
    <2>6. CASE Reads(t, [refused |-> a])
      BY <1>1, <2>2, <2>6
    <2>7. QED
      BY <2>2, <2>5, <2>6
  <1>4. QED
    BY <1>1, <1>2, <1>3 DEF AtomicStep, AtomicList, AtomicInfo

\* What becomes of a lesson.
LEMMA LessonTyped ==
  ASSUME ProgramsInv, UNCHANGED <<profiles, simulations, cut>>,
         NEW u \in Learners, NEW l \in Lessons, NEW state \in LessonStates,
         lessons' = [lessons EXCEPT ![u][l] = state]
  PROVE  ProgramsTyped'
  <1>1. lessons' \in [Learners -> [Lessons -> LessonStates]]
    BY DEF ProgramsInv, ProgramsTyped
  <1>2. QED
    BY <1>1 DEF ProgramsInv, ProgramsTyped

LEMMA LearnStepKeeps ==
  ASSUME ProgramsInv, NEW t \in Procs, LearnStep(t)
  PROVE  ProgramsInv'
  <1>1. ASSUME NEW answer, Reads(t, answer), UNCHANGED programRecords
        PROVE  ProgramsInv'
    BY <1>1, ProgramReads
  <1>2. CASE LearnNotified(t)
    <2>1. /\ proc[t].at = "notify" /\ Goes(t, resting) /\ Updates(t)
          /\ UNCHANGED <<profiles, simulations, lessons, cut>>
      BY <1>2 DEF LearnNotified
    <2>2. QED
      BY <2>1, ProgramDone
  <1>3. ASSUME NEW u, NEW l \in Lessons, LearnLesson(t, u, l)
        PROVE  ProgramsInv'
    <2>1. Starts(t, resting) /\ UNCHANGED <<profiles, simulations, cut>>
      BY <1>3 DEF LearnLesson, Commands
    <2>2. ProgramsTyped'
      <3>1. CASE u \in Learners
        BY <1>3, <2>1, <3>1, LessonTyped DEF LearnLesson, StartLesson, LessonStates
      <3>2. CASE u \notin Learners
        BY <1>3, <2>1, <3>2, ProgramRecordsTyped DEF LearnLesson
      <3>3. QED
        BY <3>1, <3>2
    <2>3. QED
      BY <2>1, <2>2, RestingProgram, ProgramPasses
  <1>4. ASSUME NEW event, Starts(t, [at |-> "notify", event |-> event]),
               UNCHANGED <<simulations, cut>>, ProgramsTyped'
        PROVE  ProgramsInv'
    <2>1. PICK s : s = [at |-> "notify", event |-> event]
      OBVIOUS
    <2>2. ProgramStage(s) /\ "row" \notin DOMAIN s /\ s.at # "steps"
      BY <2>1 DEF ProgramStage
    <2>3. QED
      BY <1>4, <2>1, <2>2, ProgramPasses
  <1>5. ASSUME NEW u \in Learners, NEW l \in Lessons, LearnComplete(t, u, l)
        PROVE  ProgramsInv'
    <2>1. ProgramsTyped' /\ UNCHANGED <<simulations, cut>>
      BY <1>5, LessonTyped DEF LearnComplete, CompleteLesson, LessonStates
    <2>2. QED
      BY <1>4, <1>5, <2>1 DEF LearnComplete
  <1>6. ASSUME NEW u \in Learners, NEW d \in Drills, PracticeStart(t, u, d)
        PROVE  ProgramsInv'
    <2>1. Starts(t, resting) /\ UNCHANGED <<profiles, simulations, lessons, cut>>
      BY <1>6 DEF PracticeStart, Commands
    <2>2. QED
      BY <2>1, ProgramRecordsTyped, RestingProgram, ProgramPasses
  <1>7. ASSUME NEW u \in Learners, NEW d \in Drills, PracticePass(t, u, d)
        PROVE  ProgramsInv'
    <2>1. UNCHANGED <<profiles, simulations, lessons, cut>>
      BY <1>7 DEF PracticePass
    <2>2. QED
      BY <1>4, <1>7, <2>1, ProgramRecordsTyped DEF PracticePass
  <1>8. QED
    BY <1>1, <1>2, <1>3, <1>5, <1>6, <1>7
    DEF LearnStep, LearnList, LearnRefused, PracticeList, LearnProgress

LEMMA GrcStepKeeps ==
  ASSUME ProgramsInv, NEW t \in Procs, GrcStep(t)
  PROVE  ProgramsInv'
  <1>1. ASSUME NEW answer, Reads(t, answer), UNCHANGED programRecords
        PROVE  ProgramsInv'
    BY <1>1, ProgramReads
  <1>2. CASE Snapshotted(t)
    <2>1. /\ proc[t].at = "snapshot" /\ Goes(t, resting) /\ Updates(t)
          /\ UNCHANGED <<profiles, simulations, lessons, cut>>
      BY <1>2 DEF Snapshotted
    <2>2. QED
      BY <2>1, ProgramDone
  <1>3. ASSUME NEW estate, GrcCheck(t, estate)
        PROVE  ProgramsInv'
    <2>1. PICK results : results = RunChecks(estate)
      OBVIOUS
    <2>2. PICK s : s = [at |-> "snapshot", results |-> results]
      OBVIOUS
    <2>3. Starts(t, s) /\ UNCHANGED <<profiles, simulations, lessons, cut>>
      BY <1>3, <2>1, <2>2 DEF GrcCheck
    <2>4. ProgramStage(s) /\ "row" \notin DOMAIN s /\ s.at # "steps"
      BY <2>2 DEF ProgramStage
    <2>5. QED
      BY <2>3, <2>4, ProgramRecordsTyped, ProgramPasses
  <1>4. QED
    BY <1>1, <1>2, <1>3 DEF GrcStep, GrcControls, GrcStatus

(***************************************************************************)
(* Programs: the theorems.                                                 *)
(***************************************************************************)

LEMMA ProgramsStarts == DeskInit /\ ConsoleInit /\ ProgramsInit => ProgramsInv
  <1> SUFFICES ASSUME DeskInit, ProgramsInit
               PROVE  ProgramsInv
    OBVIOUS
  <1>1. Rows(simulations) /\ DOMAIN simulations = {}
    BY DEF ProgramsInit, Rows
  <1>2. ProgramsTyped
    BY <1>1 DEF ProgramsInit, ProgramsTyped, LessonStates
  <1>3. \A p \in Procs : proc[p] = resting
    BY DEF DeskInit
  <1>4. ProgramStages
    <2>1. proc = [p \in Procs |-> proc[p]] /\ quiet = [p \in Procs |-> quiet[p]]
      BY DEF DeskInit
    <2>2. QED
      BY <1>3, <2>1, RestingProgram DEF ProgramStages, RowAgrees
  <1>5. FreshAlone
    BY <1>3, RestingProgram DEF FreshAlone, Fresh
  <1>6. SimulationTellsSteps
    BY <1>1 DEF SimulationTellsSteps
  <1>7. QED
    BY <1>2, <1>4, <1>5, <1>6 DEF ProgramsInv

LEMMA ProgramsKeeps == ProgramsInv /\ [ProgramsNext]_programVars => ProgramsInv'
  <1> SUFFICES ASSUME ProgramsInv, [ProgramsNext]_programVars
               PROVE  ProgramsInv'
    OBVIOUS
  <1>1. CASE UNCHANGED programVars
    <2>1. UNCHANGED <<profiles, simulations, lessons, cut, proc, quiet>>
      BY <1>1 DEF programVars, programRecords, consoleVars, deskVars
    <2>2. ProgramStages'
      BY <2>1 DEF ProgramsInv, ProgramStages, ProgramStage, RowAgrees, Follows
    <2>3. FreshAlone'
      BY <2>1 DEF ProgramsInv, FreshAlone, Fresh
    <2>4. SimulationTellsSteps'
      <3>1. \A n \in DOMAIN simulations' :
              n \in cut' \/ (\E p \in Procs : RowOf(proc'[p], n)) \/ Settled(simulations'[n])
        BY <2>1, TellsWhenSettled DEF ProgramsInv
      <3>2. QED
        BY <3>1 DEF SimulationTellsSteps, RowOf, Settled, StepStates
    <2>5. QED
      BY <2>1, <2>2, <2>3, <2>4, ProgramRecordsTyped DEF ProgramsInv
  <1>2. ASSUME NEW t \in Procs, ProfileStep(t)
        PROVE  ProgramsInv'
    BY <1>2, ProgramReads, ProfileDeletedKeeps, ProfileAddKeeps, ProfileDeleteKeeps
    DEF ProfileStep, ProfileList, AdversaryCoverage, ProfileRefused, ProfileShow
  <1>3. ASSUME NEW t \in Procs, SimulationStep(t)
        PROVE  ProgramsInv'
    BY <1>3, ProgramReads, ExerciseNewKeeps, PlanExerciseKeeps
    DEF SimulationStep, ExerciseRun, AdversaryChain, ExerciseUnknown, AdversaryReport,
        ExerciseList
  <1>4. ASSUME NEW p \in Procs, SimulationRun(p)
        PROVE  ProgramsInv'
    BY <1>4, CreateExerciseKeeps, CreateExerciseStepsKeeps, BeginExerciseKeeps,
       SubmitRaisedKeeps, RunExerciseStepKeeps, RecordStepKeeps, FinishExerciseKeeps
    DEF SimulationRun
  <1>5. QED
    BY <1>1, <1>2, <1>3, <1>4, ProgramKilledKeeps, AtomicStepKeeps, LearnStepKeeps,
       GrcStepKeeps DEF ProgramsNext

LEMMA ProgramsInvariant == ProgramsSpec => []ProgramsInv
  <1>1. DeskInit /\ ConsoleInit /\ ProgramsInit => ProgramsInv
    BY ProgramsStarts
  <1>2. ProgramsInv /\ [ProgramsNext]_programVars => ProgramsInv'
    BY ProgramsKeeps
  <1>3. QED
    BY <1>1, <1>2, PTL DEF ProgramsSpec

\* A simulation has a status of the schema, a lesson one of its three states, and only
\* simulations on record are cut short (AdversaryService.create_exercise, plan_exercise).
THEOREM ProgramsTypesCorrect == ProgramsSpec => []ProgramsTypeOK
  <1>1. ProgramsInv => ProgramsTypeOK
    BY DEF ProgramsInv, ProgramsTyped, SimulationOK, LessonStates, ProgramsTypeOK
  <1>2. QED
    BY <1>1, ProgramsInvariant, PTL

\* A simulation that no run was cut short in, and none is under way for, is reported to
\* be what its steps came to (AdversaryService.create_exercise, plan_exercise).
THEOREM SimulationsTellSteps == ProgramsSpec => []SimulationTellsSteps
  <1>1. ProgramsInv => SimulationTellsSteps
    BY DEF ProgramsInv
  <1>2. QED
    BY <1>1, ProgramsInvariant, PTL
=============================================================================
