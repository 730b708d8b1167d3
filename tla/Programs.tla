--------------------------------- MODULE Programs ---------------------------------
(***************************************************************************)
(* The programs a team works through: simulations of an adversary, atomic  *)
(* tests, the curriculum, compliance checks (adversary, redteam, learning, *)
(* grc and their commands).  A simulation runs the steps of a profile as   *)
(* jobs, one statement for each result; two runs of one simulation write   *)
(* the same rows.                                                          *)
(***************************************************************************)
EXTENDS Console, SequencesExt

CONSTANTS Profiles,    \* Profiles[name]: what a user gives as the steps of a profile
          ChainPhase,  \* ChainPhase[tactic]: its position in the kill chain
          TacticOf,    \* TacticOf[technique]: the tactic of the built-in map
          Atomics,     \* Atomics[id]: the capability of an atomic test
          Lessons, Drills, Learners,
          Controls,    \* Controls[c]: the checks a control of a framework rests on
          Estates,     \* what compliance checks may find of the platform
          MaxSims, MaxLedger  \* bounds

ASSUME ProfilesAssumption ==
  \A name \in DOMAIN Profiles : Profiles[name] \in Seq(Range(Profiles[name]))

VARIABLES ttps,         \* techniques on record, each with its tactic
          profiles,     \* profiles[name]: its steps, or NONE
          simulations,  \* rows of advsim_exercises with their steps, in order
          lessons,      \* lessons[u][l]: "none", "in_progress" or "completed"
          drills,       \* drills[u][d]: status and attempts
          ledger,       \* evidence and audit entries, in order
          cut           \* ghost: simulations a kill, an error or an overlap left unfinished

programRecords == <<ttps, profiles, simulations, lessons, drills, ledger, cut>>
programVars == <<programRecords, consoleVars>>

(***************************************************************************)
(* Adversary profiles.                                                     *)
(***************************************************************************)

\* The tactic given, else that of the built-in map, else that on record.
ResolveTactic(step, recorded) ==
  IF step.tactic # NONE THEN step.tactic
  ELSE IF step.technique \in DOMAIN TacticOf THEN TacticOf[step.technique]
  ELSE LET known == {r \in recorded : r[1] = step.technique} IN
       IF known = {} THEN NONE ELSE (CHOOSE r \in known : TRUE)[2]

\* Tactics the chain does not know come last.
ChainIndex(tactic) ==
  IF tactic \in DOMAIN ChainPhase THEN ChainPhase[tactic] ELSE 1 + Cardinality(DOMAIN ChainPhase)

ValidSteps(steps) == steps # <<>> /\ \A k \in DOMAIN steps : steps[k].capability # NONE

\* Each technique of the first steps is put on record with the tactic it came with,
\* unless it is there.
TtpIds(steps, count) ==
  ttps \cup {<<steps[k].technique, steps[k].tactic>> : k \in {k \in 1..count :
    /\ steps[k].technique \notin {NONE} \cup {r[1] : r \in ttps}
    /\ \A j \in 1..(k - 1) : steps[j].technique # steps[k].technique}}

\* One transaction; the name is unique.
CreateProfile(name, steps) ==
  /\ ValidSteps(steps) /\ profiles[name] = NONE
  /\ profiles' = [profiles EXCEPT ![name] =
       [k \in DOMAIN steps |->
          [steps[k] EXCEPT !.tactic = ResolveTactic(steps[k], TtpIds(steps, k))]]]
  /\ ttps' = TtpIds(steps, Len(steps))

ProfileAdd(t, name) ==
  /\ Starts(t, resting) /\ CreateProfile(name, Profiles[name]) /\ Tells(t, [created |-> name])
  /\ UNCHANGED <<simulations, lessons, drills, ledger, cut>>

ProfileRefused(t, name) ==
  /\ ~ ValidSteps(Profiles[name]) \/ profiles[name] # NONE
  /\ Reads(t, [created |-> NONE]) /\ UNCHANGED programRecords

ListProfiles == {name \in DOMAIN profiles : profiles[name] # NONE}

ProfileList(t) == Reads(t, ListProfiles) /\ UNCHANGED programRecords

ProfileShow(t, name) == Reads(t, profiles[name]) /\ UNCHANGED programRecords

\* Steps go with their profile; simulations of it keep their own and lose the name.
DeleteProfile(name) ==
  /\ profiles' = [profiles EXCEPT ![name] = NONE]
  /\ simulations' = [n \in DOMAIN simulations |->
       IF simulations[n].profile = name THEN [simulations[n] EXCEPT !.profile = NONE]
       ELSE simulations[n]]

ProfileDelete(t, name) ==
  /\ profiles[name] # NONE
  /\ Starts(t, [at |-> "delete", name |-> name])
  /\ UNCHANGED <<programRecords, told>>

ProfileDeleted(p) ==
  /\ proc[p].at = "delete"
  /\ DeleteProfile(proc[p].name)
  /\ Goes(p, resting) /\ Updates(p) /\ Tells(p, [deleted |-> proc[p].name])
  /\ UNCHANGED <<ttps, lessons, drills, ledger, cut>>

\* Techniques by tactic, over one profile or all of them.
Coverage(names) ==
  UNION {{<<profiles[n][k].tactic, profiles[n][k].technique>> : k \in DOMAIN profiles[n]} :
           n \in names \cap ListProfiles}

AdversaryCoverage(t, names) == Reads(t, Coverage(names)) /\ UNCHANGED programRecords

(***************************************************************************)
(* Simulations.                                                            *)
(***************************************************************************)

\* exercise new: the profile is read, then the row is inserted, then in a
\* transaction of their own the steps.
ExerciseNew(t, name) ==
  /\ Len(simulations) < MaxSims
  /\ IF profiles[name] = NONE THEN Reads(t, [unknown |-> name])
     ELSE /\ Starts(t, [at |-> "exercise", name |-> name, steps |-> profiles[name]])
          /\ UNCHANGED told
  /\ UNCHANGED programRecords

\* The row refers to the profile, which must still be there.
CreateExercise(p) ==
  /\ proc[p].at = "exercise"
  /\ IF profiles[proc[p].name] = NONE THEN Refuses(p) /\ UNCHANGED simulations
     ELSE /\ simulations' = Append(simulations,
               [profile |-> proc[p].name, status |-> "planned", steps |-> <<>>])
          /\ Goes(p, [at |-> "steps", name |-> proc[p].name, steps |-> proc[p].steps,
                      row |-> Len(simulations) + 1])
          /\ Updates(p) /\ UNCHANGED told
  /\ UNCHANGED <<ttps, profiles, lessons, drills, ledger, cut>>

Planned(step) == [technique |-> step.technique, tactic |-> step.tactic,
                  capability |-> step.capability, state |-> "planned"]

\* So do the steps: a profile deleted meanwhile leaves a simulation without any.
CreateExerciseSteps(p) ==
  LET n == proc[p].row IN
  /\ proc[p].at = "steps"
  /\ IF profiles[proc[p].name] = NONE
     THEN Refuses(p) /\ cut' = cut \cup {n} /\ UNCHANGED simulations
     ELSE /\ simulations' = [simulations EXCEPT ![n].steps =
               [k \in DOMAIN proc[p].steps |-> Planned(proc[p].steps[k])]]
          /\ Goes(p, resting) /\ Updates(p) /\ Tells(p, [created |-> n]) /\ UNCHANGED cut
  /\ UNCHANGED <<ttps, profiles, lessons, drills, ledger>>

\* Step j runs before step k: by position, or by phase of the kill chain, then position.
Precedes(steps, chain, j, k) ==
  LET phase(l) == IF chain THEN ChainIndex(steps[l].tactic) ELSE 0 IN
  phase(j) < phase(k) \/ (phase(j) = phase(k) /\ j < k)

\* The positions of the steps in the order they run in.
Ordered(steps, chain) ==
  {order \in Bijection(DOMAIN steps, DOMAIN steps) :
     \A j, k \in DOMAIN steps : j < k => Precedes(steps, chain, order[j], order[k])}

\* What a run of a simulation has read and has still to do.
PlanExercise(t, n, dry, chain) ==
  /\ n \in DOMAIN simulations /\ simulations[n].steps # <<>>
  /\ \E order \in Ordered(simulations[n].steps, chain) :
       Starts(t, [at |-> "begin", row |-> n, dry |-> dry, steps |-> simulations[n].steps,
                  todo |-> order, states |-> <<>>])
  /\ UNCHANGED <<programRecords, told>>

ExerciseRun(t, n, dry) == PlanExercise(t, n, dry, FALSE)

AdversaryChain(t, n, dry) == PlanExercise(t, n, dry, TRUE)

ExerciseUnknown(t, n) ==
  /\ n \in DOMAIN simulations => simulations[n].steps = <<>>
  /\ Reads(t, [unknown |-> n]) /\ UNCHANGED programRecords

BeginExercise(p) ==
  /\ proc[p].at = "begin"
  /\ simulations' = [simulations EXCEPT ![proc[p].row].status = "running"]
  /\ Goes(p, [proc[p] EXCEPT !.at = "step"]) /\ Updates(p)
  /\ UNCHANGED <<ttps, profiles, lessons, drills, ledger, cut, told>>

\* The policy engine decides on each step; a live run that is allowed submits a job
\* and waits for the state it ends in.
StepState(p, outcome) ==
  IF proc[p].dry THEN outcome = "planned"
  ELSE outcome \in {"blocked", "completed", "failed", "cancelled"}

RunExerciseStep(p, outcome) ==
  /\ proc[p].at = "step" /\ proc[p].todo # <<>> /\ StepState(p, outcome)
  /\ Goes(p, [proc[p] EXCEPT !.at = "result", !.states = Append(@, outcome)])
  /\ UNCHANGED <<programRecords, told, quiet>>

\* A scheduler that takes no job, or a job that outlasts the wait for it, ends the
\* run where it is.
SubmitRaised(p) ==
  /\ proc[p].at = "step" /\ proc[p].todo # <<>> /\ ~ proc[p].dry
  /\ cut' = cut \cup {proc[p].row}
  /\ Refuses(p) /\ UNCHANGED <<ttps, profiles, simulations, lessons, drills, ledger>>

RecordStep(p) ==
  /\ proc[p].at = "result"
  /\ simulations' = [simulations EXCEPT
       ![proc[p].row].steps[Head(proc[p].todo)].state = Last(proc[p].states)]
  /\ Goes(p, [proc[p] EXCEPT !.at = "step", !.todo = Tail(@)]) /\ Updates(p)
  /\ UNCHANGED <<ttps, profiles, lessons, drills, ledger, cut, told>>

\* A mutant of ExerciseStatus: the last step decides.
ExerciseStatusOfLast(dry, states) ==
  IF dry THEN "planned"
  ELSE IF Last(states) \in {"blocked", "failed"} THEN "failed"
  ELSE "completed"

\* A step that was cancelled does not count against the run; a dry run leaves a
\* simulation planned, whatever it was.
ExerciseStatus(dry, states) ==
  IF dry THEN "planned"
  ELSE IF \E k \in DOMAIN states : states[k] \in {"blocked", "failed"} THEN "failed"
  ELSE "completed"

FinishExercise(p) ==
  /\ proc[p].at = "step" /\ proc[p].todo = <<>>
  /\ LET status == ExerciseStatus(proc[p].dry, proc[p].states) IN
     /\ simulations' = [simulations EXCEPT ![proc[p].row].status = status]
     /\ Tells(p, [status |-> status, states |-> proc[p].states])
  /\ cut' = IF quiet[p] THEN cut \ {proc[p].row} ELSE cut \cup {proc[p].row}
  /\ Goes(p, resting) /\ Updates(p)
  /\ UNCHANGED <<ttps, profiles, lessons, drills, ledger>>

ExerciseList(t) ==
  Reads(t, [n \in DOMAIN simulations |-> simulations[n].status]) /\ UNCHANGED programRecords

\* What the simulation covers, and of what.
Report(n) ==
  LET steps == simulations[n].steps IN
  [status |-> simulations[n].status, profile |-> simulations[n].profile,
   techniques |-> {steps[k].technique : k \in DOMAIN steps} \ {NONE},
   phases |-> {ResolveTactic(steps[k], ttps) : k \in DOMAIN steps} \ {NONE},
   total |-> Len(steps)]

AdversaryReport(t, n) ==
  /\ Reads(t, IF n \in DOMAIN simulations THEN Report(n) ELSE [unknown |-> n])
  /\ UNCHANGED programRecords

(***************************************************************************)
(* Atomic tests.                                                           *)
(***************************************************************************)

Enters(entry) == Len(ledger) < MaxLedger /\ ledger' = Append(ledger, entry)

AtomicList(t) == Reads(t, DOMAIN Atomics) /\ UNCHANGED programRecords

AtomicInfo(t, a) ==
  /\ Reads(t, IF a \in DOMAIN Atomics THEN Atomics[a] ELSE [unknown |-> a])
  /\ UNCHANGED programRecords

\* atomic run: a user with a session, whom the policy engine allows the capability.
AtomicRun(t, a, known, allowed) ==
  /\ IF known /\ a \in DOMAIN Atomics /\ allowed
     THEN Starts(t, [at |-> "atomic", atomic |-> a]) /\ UNCHANGED told
     ELSE Reads(t, [refused |-> a])
  /\ UNCHANGED programRecords

\* A workflow of one step; its end is on record, however it ended.
RunAtomic(p, status) ==
  /\ proc[p].at = "atomic"
  /\ Enters([what |-> "atomic.run",
             outcome |-> IF status = "completed" THEN "success" ELSE "failed"])
  /\ Goes(p, resting) /\ Updates(p) /\ Tells(p, [atomic |-> proc[p].atomic, status |-> status])
  /\ UNCHANGED <<ttps, profiles, simulations, lessons, drills, cut>>

(***************************************************************************)
(* The curriculum.                                                         *)
(***************************************************************************)

LearnList(t) == Reads(t, Lessons) /\ UNCHANGED programRecords

\* To read a lesson is to start it, one that was completed too.
StartLesson(u, l) == lessons' = [lessons EXCEPT ![u][l] = "in_progress"]

LearnLesson(t, u, l) ==
  /\ Commands(t) /\ Tells(t, [lesson |-> l])
  /\ IF u \in Learners THEN StartLesson(u, l) ELSE UNCHANGED lessons
  /\ UNCHANGED <<ttps, profiles, simulations, drills, ledger, cut>>

\* A mutant of CompleteLesson: the word that is used for drills.
CompleteLessonAsDrill(u, l) == lessons' = [lessons EXCEPT ![u][l] = "passed"]

CompleteLesson(u, l) == lessons' = [lessons EXCEPT ![u][l] = "completed"]

\* learn complete: the row, then the notification.
LearnComplete(t, u, l) ==
  /\ Starts(t, [at |-> "notify", event |-> "learning.lesson_completed"])
  /\ CompleteLesson(u, l)
  /\ UNCHANGED <<ttps, profiles, simulations, drills, ledger, cut, told>>

LearnNotified(p) ==
  /\ proc[p].at = "notify"
  /\ Enters([what |-> proc[p].event, outcome |-> "success"])
  /\ Goes(p, resting) /\ Updates(p) /\ Tells(p, [done |-> proc[p].event])
  /\ UNCHANGED <<ttps, profiles, simulations, lessons, drills, cut>>

\* Shares of the curriculum, in hundredths, that make a level.
LevelForCompletion(completed, total) ==
  LET share == IF total = 0 THEN 0 ELSE (100 * completed) \div total IN
  1 + Cardinality({bound \in {15, 35, 60, 90} : share >= bound})

Progress(u) ==
  LET completed == Cardinality({l \in Lessons : lessons[u][l] = "completed"}) IN
  [completed |-> completed, level |-> LevelForCompletion(completed, Cardinality(Lessons))]

LearnProgress(t, u) == Reads(t, Progress(u)) /\ UNCHANGED programRecords

PracticeDrills(u) == IF u = NONE THEN [d \in Drills |-> NONE] ELSE drills[u]

PracticeList(t, u) == Reads(t, PracticeDrills(u)) /\ UNCHANGED programRecords

\* An attempt more; what was passed stays passed.
PracticeStart(t, u, d) ==
  /\ Commands(t) /\ Tells(t, [started |-> d])
  /\ drills' = [drills EXCEPT ![u][d] =
       IF @ = NONE THEN [status |-> "pending", attempts |-> 1] ELSE [@ EXCEPT !.attempts = @ + 1]]
  /\ UNCHANGED <<ttps, profiles, simulations, lessons, ledger, cut>>

PassDrill(u, d) ==
  drills' = [drills EXCEPT ![u][d] =
    IF @ = NONE THEN [status |-> "passed", attempts |-> 1] ELSE [@ EXCEPT !.status = "passed"]]

PracticePass(t, u, d) ==
  /\ Starts(t, [at |-> "notify", event |-> "learning.practice_passed"])
  /\ PassDrill(u, d)
  /\ UNCHANGED <<ttps, profiles, simulations, lessons, ledger, cut, told>>

LearnRefused(t, id) == Reads(t, [refused |-> id]) /\ UNCHANGED programRecords

(***************************************************************************)
(* Compliance.                                                             *)
(***************************************************************************)

Verdict(passed) == IF passed THEN "PASS" ELSE "FAIL"

\* The checks of the platform itself; those of a target are never run here.
RunChecks(estate) ==
  [audit_active |-> Verdict(estate.audit /\ estate.events > 0),
   scope_enforcement |-> Verdict(estate.required),
   authorization |-> Verdict(estate.engagements > 0 /\ estate.rules > 0),
   evidence_integrity |-> IF estate.evidence = {} THEN "NOT_APPLICABLE"
                          ELSE Verdict(FALSE \notin estate.evidence),
   backup_verified |-> Verdict(estate.backups # <<>> /\ Last(estate.backups)),
   tls_version |-> "NOT_RUN"]

\* Nothing passes that has a check that did not.
ControlStatus(c, results) ==
  IF \A check \in Controls[c] : results[check] = "PASS" THEN "PASS"
  ELSE IF \E check \in Controls[c] : results[check] = "FAIL" THEN "FAIL"
  ELSE "NOT_RUN"

GrcStatus(t, estate) ==
  /\ Reads(t, [c \in DOMAIN Controls |-> ControlStatus(c, RunChecks(estate))])
  /\ UNCHANGED programRecords

GrcControls(t) == Reads(t, DOMAIN Controls) /\ UNCHANGED programRecords

\* grc check: the results are stored as evidence, then the audit entry that names it.
GrcCheck(t, estate) ==
  /\ Starts(t, [at |-> "snapshot", results |-> RunChecks(estate)])
  /\ Enters([what |-> "evidence", outcome |-> RunChecks(estate)])
  /\ UNCHANGED <<ttps, profiles, simulations, lessons, drills, cut, told>>

Snapshotted(p) ==
  /\ proc[p].at = "snapshot"
  /\ Enters([what |-> "grc.snapshot", outcome |-> "success"])
  /\ Goes(p, resting) /\ Updates(p) /\ Tells(p, proc[p].results)
  /\ UNCHANGED <<ttps, profiles, simulations, lessons, drills, cut>>

\* A kill; a simulation on its way stays as it is.
ProgramKilled(p) ==
  /\ Refuses(p)
  /\ cut' = IF "row" \in DOMAIN proc[p] THEN cut \cup {proc[p].row} ELSE cut
  /\ UNCHANGED <<ttps, profiles, simulations, lessons, drills, ledger>>

(***************************************************************************)
(* The specification.                                                      *)
(***************************************************************************)

ProgramsInit ==
  /\ ttps = {} /\ profiles = [name \in DOMAIN Profiles |-> NONE]
  /\ simulations = <<>> /\ cut = {} /\ ledger = <<>>
  /\ lessons = [u \in Learners |-> [l \in Lessons |-> "none"]]
  /\ drills = [u \in Learners |-> [d \in Drills |-> NONE]]

ProfileStep(t) ==
  \/ ProfileList(t) \/ AdversaryCoverage(t, ListProfiles) \/ ProfileDeleted(t)
  \/ \E name \in DOMAIN Profiles :
       \/ ProfileAdd(t, name) \/ ProfileRefused(t, name)
       \/ ProfileShow(t, name) \/ ProfileDelete(t, name)

SimulationStep(t) ==
  \/ \E name \in DOMAIN Profiles : ExerciseNew(t, name)
  \/ \E n \in 1..MaxSims, dry \in BOOLEAN : ExerciseRun(t, n, dry) \/ AdversaryChain(t, n, dry)
  \/ \E n \in 1..MaxSims : ExerciseUnknown(t, n) \/ AdversaryReport(t, n)
  \/ ExerciseList(t)

SimulationRun(p) ==
  \/ CreateExercise(p) \/ CreateExerciseSteps(p) \/ BeginExercise(p) \/ SubmitRaised(p)
  \/ \E outcome \in {"planned", "blocked", "completed", "failed", "cancelled"} :
       RunExerciseStep(p, outcome)
  \/ RecordStep(p) \/ FinishExercise(p)

AtomicStep(t) ==
  \/ AtomicList(t) \/ \E status \in {"completed", "failed"} : RunAtomic(t, status)
  \/ \E a \in DOMAIN Atomics \cup {NONE}, known, allowed \in BOOLEAN :
       AtomicInfo(t, a) \/ AtomicRun(t, a, known, allowed)

LearnStep(t) ==
  \/ LearnList(t) \/ LearnNotified(t) \/ LearnRefused(t, NONE) \/ PracticeList(t, NONE)
  \/ \E u \in Learners : LearnProgress(t, u) \/ PracticeList(t, u)
  \/ \E u \in Learners \cup {NONE}, l \in Lessons : LearnLesson(t, u, l)
  \/ \E u \in Learners, l \in Lessons : LearnComplete(t, u, l)
  \/ \E u \in Learners, d \in Drills : PracticeStart(t, u, d) \/ PracticePass(t, u, d)

GrcStep(t) ==
  \/ GrcControls(t) \/ Snapshotted(t)
  \/ \E estate \in Estates : GrcStatus(t, estate) \/ GrcCheck(t, estate)

ProgramsNext ==
  \E p \in Procs : \/ ProfileStep(p) \/ SimulationStep(p) \/ SimulationRun(p) \/ ProgramKilled(p)
                   \/ AtomicStep(p) \/ LearnStep(p) \/ GrcStep(p)

ProgramsSpec == DeskInit /\ ConsoleInit /\ ProgramsInit /\ [][ProgramsNext]_programVars

ProgramsTypeOK ==
  /\ \A n \in DOMAIN simulations :
       simulations[n].status \in {"planned", "running", "completed", "failed"}
  /\ \A u \in Learners, l \in Lessons : lessons[u][l] \in {"none", "in_progress", "completed"}
  /\ cut \subseteq DOMAIN simulations

StepStates(n) == {simulations[n].steps[k].state : k \in DOMAIN simulations[n].steps}

\* What a simulation is reported to be is what its steps came to: one that is
\* completed has no step that was blocked, failed or never run, one that failed has
\* such a step, and one that is planned has run none.  Only a run that was killed,
\* that raised, or that another overlapped leaves it otherwise
\* (AdversaryService.create_exercise, plan_exercise).
SimulationTellsSteps ==
  \A n \in DOMAIN simulations :
    \/ n \in cut \/ \E p \in Procs : "row" \in DOMAIN proc[p] /\ proc[p].row = n
    \/ /\ simulations[n].steps # <<>>
       /\ LET states == StepStates(n) IN
          CASE simulations[n].status = "planned" -> states = {"planned"}
            [] simulations[n].status = "completed" -> states \subseteq {"completed", "cancelled"}
            [] simulations[n].status = "failed" -> states \cap {"blocked", "failed"} # {}
            [] OTHER -> FALSE
===================================================================================
