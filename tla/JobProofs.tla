------------------------------ MODULE JobProofs ------------------------------
(***************************************************************************)
(* Theorems about JobScheduler, for any instances, clients, jobs, attempts *)
(* and bounds: type correctness, the safety invariants of JobSafety, and   *)
(* the refinement of JobLifecycle.                                         *)
(***************************************************************************)
EXTENDS JobSafety, FiniteSetTheorems, TLAPS

-----------------------------------------------------------------------------
(* Type correctness, one lemma per kind of actor.                          *)

LEMMA TypeInit == Init => TypeOK
  <1> SUFFICES ASSUME Init PROVE TypeOK
    OBVIOUS
  <1>1. DataTypes
    BY DEF Init, DataTypes
  <1>2. InstanceTypes
    BY DEF Init, InstanceTypes, WorkerPoints
  <1>3. ThreadTypes
    BY DEF Init, ThreadTypes, ThreadPoints
  <1>4. ClientTypes
    BY DEF Init, ClientTypes, ClientPoints
  <1>5. QED
    BY <1>1, <1>2, <1>3, <1>4 DEF TypeOK

\* An insertion gives the new job a rank.
LEMMA InsertType ==
  ASSUME TypeOK, NEW j \in Jobs, InsertJob(j)
  PROVE  /\ state' \in [Jobs -> JobStates \cup {"ABSENT"}]
         /\ createdAt' \in [Jobs -> Nat]
  <1>1. Cardinality(Existing) \in Nat
    BY SchedulerAssumption, FS_Subset, FS_CardinalityType DEF Existing
  <1>2. QED
    BY <1>1 DEF InsertJob, SetState, JobStates, TypeOK, DataTypes

LEMMA TypeInstance ==
  ASSUME TypeOK, NEW i \in Instances, Boot(i) \/ BootStep(i) \/ Terminate(i)
  PROVE  TypeOK'
  <1> USE DEF TypeOK, jobVars, stopVars, bootVars, workerVars,
          memVars, threadVars, clientVars, BootFrame, DataTypes,
          InstanceTypes, ThreadTypes, ClientTypes
  <1>1. CASE Boot(i)
    BY <1>1 DEF Boot, Restored, Interrupted
  <1>2. CASE RecoverJob(i)
    BY <1>2 DEF RecoverJob, FailInterrupted, SetState, JobStates
  <1>3. CASE BootDone(i)
    BY <1>3 DEF BootDone
  <1>4. CASE Terminate(i)
    <2>1. DataTypes'
      BY <1>4 DEF Terminate
    <2>2. InstanceTypes'
      BY <1>4 DEF Terminate, WorkerPoints
    <2>3. ThreadTypes'
      <3>1. pc' \in [Attempts -> ThreadPoints]
        BY <1>4 DEF Terminate, ThreadPoints, Ended
      <3>2. \A a \in Attempts : pc'[a] # "idle" => pc[a] # "idle"
        <4> TAKE a \in Attempts
        <4>1. CASE pc[a] = "idle"
          BY <1>4, <4>1, SchedulerAssumption DEF Terminate
        <4>2. QED
          BY <4>1
      <3>3. QED
        BY <1>4, <3>1, <3>2 DEF Terminate
    <2>4. ClientTypes'
      BY <1>4 DEF Terminate, ClientPoints
    <2>5. QED
      BY <2>1, <2>2, <2>3, <2>4
  <1>5. QED
    BY <1>1, <1>2, <1>3, <1>4 DEF BootStep

LEMMA TypeWorker ==
  ASSUME TypeOK, NEW i \in Instances, WorkerStep(i)
  PROVE  TypeOK'
  <1> USE DEF TypeOK, jobVars, stopVars, bootVars, workerVars,
          memVars, threadVars, clientVars, WorkerFrame, WorkerAt, WorkerGoes,
          WorkerPoints, DataTypes, InstanceTypes, ThreadTypes, ClientTypes
  <1>1. CASE Reap(i)
    BY <1>1 DEF Reap
  <1>2. CASE ScheduleDue(i)
    BY <1>2 DEF ScheduleDue
  <1>3. CASE ScheduleRate(i)
    BY <1>3 DEF ScheduleRate
  <1>4. CASE ScheduleInsert(i)
    BY <1>4, InsertType DEF ScheduleInsert, InsertJob
  <1>5. CASE SchedulesDone(i)
    BY <1>5 DEF SchedulesDone
  <1>6. CASE SelectJob(i)
    BY <1>6 DEF SelectJob
  <1>7. CASE SelectNothing(i)
    BY <1>7 DEF SelectNothing
  <1>8. CASE Spawn(i)
    BY <1>8 DEF Spawn, ThreadPoints
  <1>9. QED
    BY <1>1, <1>2, <1>3, <1>4, <1>5, <1>6, <1>7, <1>8 DEF WorkerStep

LEMMA TypeThread ==
  ASSUME TypeOK, NEW a \in Attempts, ThreadStep(a) \/ ToolExits(a)
  PROVE  TypeOK'
  <1> USE DEF TypeOK, jobVars, stopVars, bootVars, workerVars,
          memVars, threadVars, clientVars, ThreadFrame, ThreadAt, ThreadPoints,
          DataTypes, InstanceTypes, ThreadTypes, ClientTypes
  <1>1. CASE Start(a)
    BY <1>1 DEF Start
  <1>2. CASE CancelBeforeStart(a)
    BY <1>2 DEF CancelBeforeStart, ThreadWrites, SetState, JobStates
  <1>3. CASE Claim(a)
    BY <1>3 DEF Claim, ThreadWrites, SetState, JobStates
  <1>4. CASE LaunchFails(a)
    BY <1>4 DEF LaunchFails, ThreadWrites, SetState, JobStates
  <1>5. CASE Launch(a)
    BY <1>5 DEF Launch
  <1>6. CASE Register(a)
    BY <1>6 DEF Register
  <1>7. CASE SeeCancel(a)
    BY <1>7 DEF SeeCancel, LeavePoll, Kill
  <1>8. CASE SeeExit(a)
    BY <1>8 DEF SeeExit, LeavePoll
  <1>9. CASE SeeDeadline(a)
    BY <1>9 DEF SeeDeadline, LeavePoll, Kill
  <1>10. CASE Recheck(a)
    BY <1>10 DEF Recheck
  <1>11. CASE Unregister(a)
    BY <1>11 DEF Unregister
  <1>12. CASE Finish(a)
    BY <1>12 DEF Finish, Verdict, ThreadWrites, SetState, JobStates
  <1>13. CASE ToolExits(a)
    BY <1>13 DEF ToolExits
  <1>14. CASE SeeGarbled(a)
    BY <1>14 DEF SeeGarbled, LeavePoll
  <1>15. CASE Raises(a)
    <2>1. CASE ThreadAt(a, "launch", "raised")
      BY <1>15, <2>1 DEF Raises
    <2>2. CASE ThreadAt(a, "finish", "raised")
      BY <1>15, <2>2 DEF Raises
    <2>3. QED
      BY <1>15, <2>1, <2>2 DEF Raises
  <1>16. QED
    BY <1>1, <1>2, <1>3, <1>4, <1>5, <1>6, <1>7, <1>8, <1>9, <1>10, <1>11,
       <1>12, <1>13, <1>14, <1>15
    DEF ThreadStep

\* An operation that has read job j and goes on with it.
LEMMA ReadJobType ==
  ASSUME TypeOK, NEW c \in Clients, NEW j \in Jobs \cup {None},
         NEW next \in ClientPoints, ReadJob(c, j, next), asked' \subseteq Jobs,
         j = None => next = "submitRate"
  PROVE  TypeOK'
  <1> USE DEF ReadJob, ClientFrame, Quiet, jobVars, stopVars, bootVars,
          threadVars, TypeOK
  <1>1. DataTypes'
    BY DEF DataTypes
  <1>2. InstanceTypes'
    BY DEF InstanceTypes
  <1>3. ThreadTypes'
    BY DEF ThreadTypes
  <1>4. ClientTypes'
    <2>1. call' \in [Clients -> ClientPoints]
      BY DEF ClientTypes
    <2>2. arg' \in [Clients -> Jobs \cup {None}] /\ todo' \in [Clients -> SUBSET Jobs]
      BY DEF ClientTypes
    <2>3. QED
      BY <2>1, <2>2 DEF ClientTypes
  <1>5. QED
    BY <1>1, <1>2, <1>3, <1>4

LEMMA TypeClient ==
  ASSUME TypeOK, NEW c \in Clients, CallStep(c) \/ NewCall(c)
  PROVE  TypeOK'
  <1> USE SchedulerAssumption DEF TypeOK, jobVars, stopVars, bootVars,
     workerVars,
          memVars, threadVars, clientVars, ClientFrame, Quiet, ClientGoes,
          ClientPoints, DataTypes, InstanceTypes, ThreadTypes, ClientTypes
  <1>1. CASE PauseSignal(c)
    BY <1>1 DEF PauseSignal, Signal
  <1>2. CASE PauseWrite(c)
    BY <1>2 DEF PauseWrite, ClientWrites, SetState, JobStates
  <1>3. CASE ResumeSignal(c)
    BY <1>3 DEF ResumeSignal, Signal
  <1>4. CASE ResumeWrite(c)
    BY <1>4 DEF ResumeWrite, ClientWrites, SetState, JobStates
  <1>5. CASE CancelFlag(c)
    BY <1>5 DEF CancelFlag
  <1>6. CASE CancelMark(c)
    BY <1>6 DEF CancelMark, ClientWrites, SetState, JobStates
  <1>7. CASE CancelKill(c)
    <2>1. DataTypes'
      BY <1>7 DEF CancelKill, Kill, Return
    <2>2. InstanceTypes'
      BY <1>7 DEF CancelKill, Kill, Return
    <2>3. ThreadTypes'
      <3>1. CASE tool' = tool
        BY <1>7, <3>1 DEF CancelKill
      <3>2. CASE \E a \in Attempts : Kill(a)
        <4>1. tool' \in [Attempts -> {"none", "running", "stopped", "exit0",
                                     "exit1", "killed"}]
          BY <3>2 DEF Kill
        <4>2. QED
          BY <1>7, <4>1 DEF CancelKill
      <3>3. procs[Home[c]][arg[c]] \in Attempts \cup {None}
        BY <1>7 DEF CancelKill
      <3>4. QED
        BY <1>7, <3>1, <3>2, <3>3 DEF CancelKill
    <2>4. ClientTypes'
      BY <1>7 DEF CancelKill, Kill, Return
    <2>5. QED
      BY <2>1, <2>2, <2>3, <2>4
  <1>8. CASE CancelWrite(c)
    BY <1>8 DEF CancelWrite, ClientWrites, SetState, JobStates, Return
  <1>9. CASE SubmitCheck(c)
    BY <1>9 DEF SubmitCheck
  <1>10. CASE SubmitRate(c)
    BY <1>10 DEF SubmitRate
  <1>11. CASE SubmitInsert(c)
    <2>1. DataTypes'
      BY <1>11, InsertType DEF SubmitInsert, InsertJob, WorkerPoints
    <2>2. InstanceTypes'
      BY <1>11, InsertType DEF SubmitInsert, InsertJob, WorkerPoints
    <2>3. ThreadTypes'
      BY <1>11, InsertType DEF SubmitInsert, InsertJob, WorkerPoints
    <2>4. ClientTypes'
      BY <1>11, InsertType DEF SubmitInsert, InsertJob, WorkerPoints
    <2>5. QED
      BY <2>1, <2>2, <2>3, <2>4
  <1>12. CASE StopNext(c)
    <2>1. PICK j \in todo[c] :
            /\ todo' = [todo EXCEPT ![c] = @ \ {j}]
            /\ IF state[j] \in Terminal
               THEN UNCHANGED <<call, arg, asked>>
               ELSE /\ asked' = asked \cup {j}
                    /\ arg' = [arg EXCEPT ![c] = j]
                    /\ call' = [call EXCEPT ![c] =
                                  IF state[j] = "RUNNING" THEN "cancelFlag"
                                                          ELSE "cancelWrite"]
      BY <1>12 DEF StopNext
    <2>2. j \in Jobs /\ todo' \in [Clients -> SUBSET Jobs]
      BY <2>1
    <2>3. DataTypes' /\ InstanceTypes' /\ ThreadTypes'
      BY <1>12, <2>1, <2>2 DEF StopNext
    <2>4. CASE state[j] \in Terminal
      BY <2>1, <2>2, <2>3, <2>4
    <2>5. CASE state[j] \notin Terminal
      <3>1. call' \in [Clients -> ClientPoints]
        BY <2>1, <2>5
      <3>2. arg' \in [Clients -> Jobs \cup {None}]
        BY <2>1, <2>2, <2>5
      <3>3. \A d \in Clients : d # c => call'[d] = call[d] /\ arg'[d] = arg[d]
        BY <2>1, <2>5
      <3>4. arg'[c] = j
        BY <2>1, <2>5
      <3>5. ClientTypes'
        BY <2>2, <3>1, <3>2, <3>3, <3>4
      <3>6. QED
        BY <2>3, <3>5
    <2>6. QED
      BY <2>4, <2>5
  <1>13. CASE StopRelease(c)
    BY <1>13 DEF StopRelease
  <1>14. CASE StopPersist(c)
    BY <1>14 DEF StopPersist, SetStopRow
  <1>15. CASE ClearPersist(c)
    BY <1>15 DEF ClearPersist, SetStopRow
  <1>16. CASE ClearWindows(c)
    BY <1>16 DEF ClearWindows
  <1>17. CASE Submit(c)
    BY <1>17, ReadJobType DEF Submit
  <1>18. CASE EmergencyStop(c)
    BY <1>18 DEF EmergencyStop, Stoppable, Listed, Existing
  <1>19. CASE StopClear(c)
    BY <1>19 DEF StopClear
  <1>20. ASSUME NEW j \in Jobs, Pause(c, j) PROVE TypeOK'
    BY <1>20, ReadJobType DEF Pause
  <1>21. ASSUME NEW j \in Jobs, Resume(c, j) PROVE TypeOK'
    BY <1>21, ReadJobType DEF Resume
  <1>22. ASSUME NEW j \in Jobs, Cancel(c, j) PROVE TypeOK'
    BY <1>22, ReadJobType DEF Cancel, ReadForCancel
  <1>23. ASSUME NEW j \in Jobs, Retry(c, j) PROVE TypeOK'
    BY <1>23, ReadJobType DEF Retry
  <1>24. QED
    BY <1>1, <1>2, <1>3, <1>4, <1>5, <1>6, <1>7, <1>8, <1>9, <1>10, <1>11,
       <1>12, <1>13, <1>14, <1>15, <1>16, <1>17, <1>18, <1>19, <1>20,
       <1>21, <1>22, <1>23
    DEF CallStep, NewCall

LEMMA TypeStutter == TypeOK /\ UNCHANGED vars => TypeOK'
  BY DEF TypeOK, DataTypes, InstanceTypes, ThreadTypes, ClientTypes, vars,
         jobVars, stopVars, bootVars, workerVars, memVars, threadVars,
         clientVars

\* The variables keep their types in every behaviour: threads and begun calls
\* always have the job and the instance they work on.
THEOREM TypeCorrect == Spec => []TypeOK
  <1>1. TypeOK /\ [Next]_vars => TypeOK'
    <2> SUFFICES ASSUME TypeOK, [Next]_vars PROVE TypeOK'
      OBVIOUS
    <2> QED
      BY TypeInstance, TypeWorker, TypeThread, TypeClient, TypeStutter DEF Next
  <1>2. QED
    BY TypeInit, <1>1, PTL DEF Spec

-----------------------------------------------------------------------------
(***************************************************************************)
(* The safety invariants of JobSafety, for any number of instances, clients*)
(* and jobs.  The argument is by rely and guarantee: a first group of      *)
(* lemmas says what each kind of actor may do to the variables the others  *)
(* use, and each invariant is then preserved by every guarantee.           *)
(***************************************************************************)

CancelPoints == {"cancelFlag", "cancelMark", "cancelKill", "cancelWrite"}

\* What a client does to jobs, tools and tables.
ClientGuarantee(c) ==
    /\ pc' = pc /\ jobOf' = jobOf /\ hostOf' = hostOf /\ outcome' = outcome
    /\ threads' = threads /\ picked' = picked
    /\ \A i \in Instances :
          worker'[i] = worker[i] \/ (worker[i] = "off" /\ worker'[i] = "reap")
    /\ \A j \in Jobs :
          \/ state'[j] \in {state[j], "PAUSED", "QUEUED"}
          \/ /\ state'[j] \in {"CANCELLING", "CANCELLED"}
             /\ j = arg[c] /\ call[c] \in CancelPoints
    /\ \A a \in Attempts :
          \/ tool'[a] = tool[a]
          \/ tool[a] \in Alive /\ tool'[a] \in Alive \cup {"killed"}

\* What the worker thread does to jobs, threads and tools.
WorkerGuarantee(i) ==
    /\ UNCHANGED <<tool, outcome>>
    /\ \A j \in Jobs : state'[j] = state[j] \/ state'[j] = "QUEUED"
    /\ \A a \in Attempts :
          \/ pc'[a] = pc[a] /\ jobOf'[a] = jobOf[a] /\ hostOf'[a] = hostOf[a]
          \/ pc[a] = "idle" /\ pc'[a] = "start"

\* What the bootstrap and the death of an instance do.
InstanceGuarantee(i) ==
    /\ UNCHANGED <<tool, jobOf, hostOf>>
    /\ \A j \in Jobs : state'[j] = state[j] \/ state'[j] = "FAILED"
    /\ \A a \in Attempts :
          \/ pc'[a] = pc[a] /\ outcome'[a] = outcome[a]
          \/ pc'[a] \in {pc[a], "lost"} /\ pc[a] # "idle" /\ outcome'[a] = "none"

-----------------------------------------------------------------------------
LEMMA ClientsGuarantee ==
  ASSUME TypeOK, NEW c \in Clients, CallStep(c) \/ NewCall(c)
  PROVE  ClientGuarantee(c)
  <1> USE SchedulerAssumption
      DEF ClientGuarantee, CancelPoints, TypeOK, DataTypes, InstanceTypes, ThreadTypes,
          jobVars, stopVars, bootVars, threadVars, ClientFrame, Quiet, ClientGoes,
          ReadJob
  <1>1. CASE PauseSignal(c) \/ ResumeSignal(c)
    BY <1>1 DEF PauseSignal, ResumeSignal, Signal, Alive
  <1>2. CASE PauseWrite(c) \/ ResumeWrite(c)
    BY <1>2 DEF PauseWrite, ResumeWrite, ClientWrites, SetState
  <1>3. CASE CancelFlag(c)
    BY <1>3 DEF CancelFlag
  <1>4. CASE CancelMark(c) \/ CancelWrite(c)
    BY <1>4 DEF CancelMark, CancelWrite, ClientWrites, SetState
  <1>5. CASE CancelKill(c)
    BY <1>5 DEF CancelKill, Kill, Alive
  <1>6. CASE SubmitCheck(c) \/ SubmitRate(c) \/ ClearWindows(c)
    BY <1>6 DEF SubmitCheck, SubmitRate, ClearWindows
  <1>7. CASE SubmitInsert(c)
    BY <1>7 DEF SubmitInsert, InsertJob, SetState
  <1>8. CASE StopNext(c) \/ StopRelease(c)
    BY <1>8 DEF StopNext, StopRelease
  <1>9. CASE StopPersist(c) \/ ClearPersist(c)
    BY <1>9 DEF StopPersist, ClearPersist, SetStopRow
  <1>10. CASE Submit(c) \/ EmergencyStop(c) \/ StopClear(c)
    BY <1>10 DEF Submit, EmergencyStop, StopClear
  <1>11. CASE \E j \in Jobs : Pause(c, j) \/ Resume(c, j) \/ Cancel(c, j) \/ Retry(c, j)
    BY <1>11 DEF Pause, Resume, Cancel, ReadForCancel, Retry
  <1>12. QED
    BY <1>1, <1>2, <1>3, <1>4, <1>5, <1>6, <1>7, <1>8, <1>9, <1>10, <1>11
    DEF CallStep, NewCall

LEMMA WorkerGuarantees ==
  ASSUME TypeOK, NEW i \in Instances, WorkerStep(i)
  PROVE  WorkerGuarantee(i)
  <1> USE DEF WorkerGuarantee, TypeOK, DataTypes, ThreadTypes, jobVars,
              WorkerFrame, WorkerAt, WorkerGoes
  <1>1. CASE Reap(i)
    BY <1>1 DEF Reap
  <1>2. CASE ScheduleDue(i) \/ ScheduleRate(i) \/ SchedulesDone(i)
    BY <1>2 DEF ScheduleDue, ScheduleRate, SchedulesDone
  <1>3. CASE ScheduleInsert(i)
    BY <1>3 DEF ScheduleInsert, InsertJob, SetState
  <1>4. CASE SelectJob(i) \/ SelectNothing(i)
    BY <1>4 DEF SelectJob, SelectNothing
  <1>5. CASE Spawn(i)
    BY <1>5 DEF Spawn
  <1>6. QED
    BY <1>1, <1>2, <1>3, <1>4, <1>5 DEF WorkerStep

LEMMA InstanceGuarantees ==
  ASSUME TypeOK, NEW i \in Instances, Boot(i) \/ BootStep(i) \/ Terminate(i)
  PROVE  InstanceGuarantee(i)
  <1> USE DEF InstanceGuarantee, TypeOK, DataTypes, InstanceTypes, ThreadTypes,
              jobVars, threadVars, BootFrame
  <1>1. CASE Boot(i) \/ BootDone(i)
    BY <1>1 DEF Boot, BootDone
  <1>2. CASE RecoverJob(i)
    BY <1>2 DEF RecoverJob, FailInterrupted, SetState
  <1>3. CASE Terminate(i)
    BY <1>3, SchedulerAssumption DEF Terminate
  <1>4. QED
    BY <1>1, <1>2, <1>3 DEF BootStep

-----------------------------------------------------------------------------
(* RUNNING jobs are backed by a thread.                                    *)

Backs(a, j) == jobOf[a] = j /\ (Executing(a) \/ pc[a] \in {"lost", "raised"})

\* Nobody but the threads touches what backs a job or sets it RUNNING.
LEMMA BackedByOthers ==
  ASSUME RunningIsBacked,
         \A j \in Jobs : state'[j] = "RUNNING" => state[j] = "RUNNING",
         \A j \in Jobs, a \in Attempts : Backs(a, j) => Backs(a, j)'
  PROVE  RunningIsBacked'
  BY DEF RunningIsBacked, Backs

LEMMA BackedByThread ==
  ASSUME TypeOK, RunningIsBacked, NEW a \in Attempts, ThreadStep(a) \/ ToolExits(a)
  PROVE  RunningIsBacked'
  <1> USE DEF TypeOK, ThreadTypes, DataTypes, ThreadAt, ThreadFrame, ThreadPoints
  <1>1. CASE Claim(a) \/ LaunchFails(a) \/ Finish(a) \/ CancelBeforeStart(a)
    <2>1. jobOf' = jobOf /\ jobOf[a] \in Jobs
      BY <1>1 DEF Claim, LaunchFails, Finish, CancelBeforeStart, ThreadWrites
    <2>2. \A b \in Attempts \ {a} : pc'[b] = pc[b]
      BY <1>1 DEF Claim, LaunchFails, Finish, CancelBeforeStart, ThreadWrites
    <2>3. \A j \in Jobs \ {jobOf[a]} : state'[j] = state[j]
      BY <1>1 DEF Claim, LaunchFails, Finish, CancelBeforeStart, ThreadWrites,
                  SetState
    <2>4. \/ state'[jobOf[a]] # "RUNNING"
          \/ pc'[a] = "launch"
      BY <1>1, <2>1 DEF Claim, LaunchFails, Finish, CancelBeforeStart, Verdict,
                        ThreadWrites, SetState
    <2>5. QED
      BY <2>1, <2>2, <2>3, <2>4 DEF RunningIsBacked, Executing
  <1>2. CASE /\ state' = state /\ jobOf' = jobOf
             /\ \A b \in Attempts :
                   Executing(b) => Executing(b)' \/ pc'[b] = "raised"
             /\ \A b \in Attempts : pc[b] \in {"lost", "raised"} => pc'[b] \in {"lost", "raised"}
    BY <1>2, BackedByOthers DEF Backs
  <1>3. CASE Start(a)
    BY <1>2, <1>3 DEF Start, Executing
  <1>4. CASE Launch(a) \/ Register(a) \/ Recheck(a) \/ Unregister(a)
              \/ Raises(a)
    BY <1>2, <1>4 DEF Launch, Register, Recheck, Unregister, Raises, Executing
  <1>5. CASE SeeCancel(a) \/ SeeExit(a) \/ SeeGarbled(a) \/ SeeDeadline(a)
    BY <1>2, <1>5 DEF SeeCancel, SeeExit, SeeGarbled, SeeDeadline, LeavePoll, Executing
  <1>6. CASE ToolExits(a)
    BY <1>2, <1>6 DEF ToolExits, Executing
  <1>7. QED
    BY <1>1, <1>3, <1>4, <1>5, <1>6 DEF ThreadStep

LEMMA BackedStep ==
  ASSUME TypeOK, RunningIsBacked, [Next]_vars
  PROVE  RunningIsBacked'
  <1>1. CASE \E i \in Instances : Boot(i) \/ BootStep(i) \/ Terminate(i)
    BY <1>1, InstanceGuarantees, BackedByOthers
    DEF InstanceGuarantee, Backs, Executing
  <1>2. CASE \E i \in Instances : WorkerStep(i)
    BY <1>2, WorkerGuarantees, BackedByOthers
    DEF WorkerGuarantee, Backs, Executing
  <1>3. CASE \E a \in Attempts : ThreadStep(a) \/ ToolExits(a)
    BY <1>3, BackedByThread
  <1>4. CASE \E c \in Clients : CallStep(c) \/ NewCall(c)
    BY <1>4, ClientsGuarantee, BackedByOthers
    DEF ClientGuarantee, Backs, Executing
  <1>5. CASE UNCHANGED vars
    BY <1>5 DEF vars, jobVars, threadVars, RunningIsBacked, Executing
  <1>6. QED
    BY <1>1, <1>2, <1>3, <1>4, <1>5 DEF Next

\* No thread of _execute ends leaving its job RUNNING, whatever clients,
\* recoveries and other threads of the job write meanwhile.
THEOREM RunningBacked == Spec => []RunningIsBacked
  <1>1. Init => RunningIsBacked
    BY DEF Init, RunningIsBacked
  <1>2. QED
    BY <1>1, TypeCorrect, BackedStep, PTL DEF Spec

-----------------------------------------------------------------------------
(* No way out of the polling loop leaves a live tool behind.               *)

LEMMA PolledStep ==
  ASSUME TypeOK, LiveToolIsPolled, [Next]_vars
  PROVE  LiveToolIsPolled'
  <1> USE DEF LiveToolIsPolled
  <1>1. CASE \E i \in Instances : Boot(i) \/ BootStep(i) \/ Terminate(i)
    BY <1>1, InstanceGuarantees DEF InstanceGuarantee
  <1>2. CASE \E i \in Instances : WorkerStep(i)
    BY <1>2, WorkerGuarantees DEF WorkerGuarantee
  <1>3. ASSUME NEW a \in Attempts, ThreadStep(a) \/ ToolExits(a)
        PROVE  LiveToolIsPolled'
    <2> USE DEF TypeOK, ThreadTypes, Alive, ThreadAt, ThreadFrame, ThreadWrites
    <2>1. CASE Start(a) \/ Claim(a) \/ CancelBeforeStart(a)
      BY <2>1 DEF Start, Claim, CancelBeforeStart
    <2>2. CASE LaunchFails(a) \/ Launch(a) \/ Register(a)
      BY <2>2 DEF LaunchFails, Launch, Register
    <2>3. CASE SeeCancel(a) \/ SeeExit(a) \/ SeeGarbled(a) \/ SeeDeadline(a)
      BY <2>3 DEF SeeCancel, SeeExit, SeeGarbled, SeeDeadline, LeavePoll, Kill
    <2>4. CASE Recheck(a) \/ Unregister(a) \/ Finish(a) \/ Raises(a)
      BY <2>4 DEF Recheck, Unregister, Finish, Raises
    <2>5. CASE ToolExits(a)
      BY <2>5 DEF ToolExits
    <2>6. QED
      BY <1>3, <2>1, <2>2, <2>3, <2>4, <2>5 DEF ThreadStep
  <1>4. CASE \E c \in Clients : CallStep(c) \/ NewCall(c)
    BY <1>4, ClientsGuarantee DEF ClientGuarantee
  <1>5. CASE UNCHANGED vars
    BY <1>5 DEF vars, threadVars
  <1>6. QED
    BY <1>1, <1>2, <1>3, <1>4, <1>5 DEF Next

\* A tool that is alive is being polled, unless its instance died.
THEOREM LiveToolPolled == Spec => []LiveToolIsPolled
  <1>1. Init => LiveToolIsPolled
    BY DEF Init, LiveToolIsPolled, Alive
  <1>2. QED
    BY <1>1, TypeCorrect, PolledStep, PTL DEF Spec

-----------------------------------------------------------------------------
(* COMPLETED means that a tool of the job exited with code 0.  Inductive   *)
(* once it is known that a thread launches a tool only when it has none.   *)

ToolAfterLaunch ==
    \A a \in Attempts : pc[a] \in {"idle", "start", "cancelled", "claim", "launch"}
                            => tool[a] = "none"
SuccessInv == CompletedMeansSuccess /\ ToolAfterLaunch

LEMMA SuccessByThread ==
  ASSUME TypeOK, SuccessInv, NEW a \in Attempts, ThreadStep(a) \/ ToolExits(a)
  PROVE  SuccessInv'
  <1> USE DEF TypeOK, ThreadTypes, DataTypes, Alive, ThreadAt, ThreadFrame,
              ThreadPoints, SuccessInv
  <1>1. ToolAfterLaunch'
    <2> USE DEF ToolAfterLaunch
    <2>1. CASE Start(a) \/ Claim(a) \/ CancelBeforeStart(a)
      BY <2>1 DEF Start, Claim, CancelBeforeStart, ThreadWrites
    <2>2. CASE LaunchFails(a) \/ Launch(a) \/ Register(a)
      BY <2>2 DEF LaunchFails, Launch, Register, ThreadWrites
    <2>3. CASE SeeCancel(a) \/ SeeExit(a) \/ SeeGarbled(a) \/ SeeDeadline(a)
      BY <2>3 DEF SeeCancel, SeeExit, SeeGarbled, SeeDeadline, LeavePoll, Kill
    <2>4. CASE Recheck(a) \/ Unregister(a) \/ Finish(a) \/ Raises(a)
      BY <2>4 DEF Recheck, Unregister, Finish, Raises, ThreadWrites
    <2>5. CASE ToolExits(a)
      BY <2>5 DEF ToolExits
    <2>6. QED
      BY <2>1, <2>2, <2>3, <2>4, <2>5 DEF ThreadStep
  <1>2. jobOf' = jobOf /\ \A b \in Attempts : tool[b] = "exit0" => tool'[b] = "exit0"
    <2> USE DEF ToolAfterLaunch
    <2>1. CASE Start(a) \/ Claim(a) \/ CancelBeforeStart(a)
      BY <2>1 DEF Start, Claim, CancelBeforeStart, ThreadWrites
    <2>2. CASE LaunchFails(a) \/ Launch(a) \/ Register(a)
      BY <2>2 DEF LaunchFails, Launch, Register, ThreadWrites
    <2>3. CASE SeeCancel(a) \/ SeeExit(a) \/ SeeGarbled(a) \/ SeeDeadline(a)
      BY <2>3 DEF SeeCancel, SeeExit, SeeGarbled, SeeDeadline, LeavePoll, Kill
    <2>4. CASE Recheck(a) \/ Unregister(a) \/ Finish(a) \/ Raises(a)
      BY <2>4 DEF Recheck, Unregister, Finish, Raises, ThreadWrites
    <2>5. CASE ToolExits(a)
      BY <2>5 DEF ToolExits
    <2>6. QED
      BY <2>1, <2>2, <2>3, <2>4, <2>5 DEF ThreadStep
  <1>3. \A j \in Jobs : state'[j] = "COMPLETED" =>
           state[j] = "COMPLETED" \/ (jobOf[a] = j /\ tool[a] = "exit0")
    <2>1. CASE Claim(a) \/ LaunchFails(a) \/ Finish(a) \/ CancelBeforeStart(a)
      BY <2>1 DEF Claim, LaunchFails, Finish, CancelBeforeStart, Verdict,
                  ThreadWrites, SetState
    <2>2. CASE Start(a) \/ Launch(a) \/ Register(a) \/ Recheck(a) \/ Unregister(a)
              \/ Raises(a)
      BY <2>2 DEF Start, Launch, Register, Recheck, Unregister, Raises
    <2>3. CASE SeeCancel(a) \/ SeeExit(a) \/ SeeGarbled(a) \/ SeeDeadline(a) \/ ToolExits(a)
      BY <2>3 DEF SeeCancel, SeeExit, SeeGarbled, SeeDeadline, LeavePoll, ToolExits
    <2>4. QED
      BY <2>1, <2>2, <2>3 DEF ThreadStep
  <1>4. QED
    BY <1>1, <1>2, <1>3 DEF CompletedMeansSuccess

LEMMA SuccessStep ==
  ASSUME TypeOK, SuccessInv, [Next]_vars
  PROVE  SuccessInv'
  <1> USE DEF SuccessInv, CompletedMeansSuccess, ToolAfterLaunch
  <1>1. CASE \E i \in Instances : Boot(i) \/ BootStep(i) \/ Terminate(i)
    BY <1>1, InstanceGuarantees DEF InstanceGuarantee
  <1>2. CASE \E i \in Instances : WorkerStep(i)
    <2>1. PICK i \in Instances : WorkerGuarantee(i)
      BY <1>2, WorkerGuarantees
    <2>2. \A a \in Attempts : tool[a] = "exit0" => jobOf'[a] = jobOf[a]
      BY <2>1 DEF WorkerGuarantee
    <2>3. QED
      BY <2>1, <2>2 DEF WorkerGuarantee
  <1>3. CASE \E a \in Attempts : ThreadStep(a) \/ ToolExits(a)
    BY <1>3, SuccessByThread
  <1>4. CASE \E c \in Clients : CallStep(c) \/ NewCall(c)
    BY <1>4, ClientsGuarantee DEF ClientGuarantee, Alive
  <1>5. CASE UNCHANGED vars
    BY <1>5 DEF vars, jobVars, threadVars
  <1>6. QED
    BY <1>1, <1>2, <1>3, <1>4, <1>5 DEF Next

\* No interleaving of operations, crashes and recoveries reports as COMPLETED
\* a job none of whose tools exited with code 0.
THEOREM CompletedSuccess == Spec => []CompletedMeansSuccess
  <1>1. Init => SuccessInv
    BY DEF Init, SuccessInv, CompletedMeansSuccess, ToolAfterLaunch
  <1>2. SuccessInv => CompletedMeansSuccess
    BY DEF SuccessInv
  <1>3. QED
    BY <1>1, <1>2, TypeCorrect, SuccessStep, PTL DEF Spec

-----------------------------------------------------------------------------
(* CANCELLED means asked for.  The strengthening follows the request: from *)
(* the client, through the flag, to the thread that saw the flag.          *)

AskedByClients == \A c \in Clients : call[c] \in CancelPoints => arg[c] \in asked
AskedByFlags   == \A i \in Instances : cancelFlags[i] \subseteq asked
AskedByThreads ==
    \A a \in Attempts :
        /\ pc[a] = "cancelled" \/ outcome[a] = "cancelled" => jobOf[a] \in asked
        /\ pc[a] = "idle" => outcome[a] = "none"
CancelInv == CancelledWasAsked /\ AskedByClients /\ AskedByFlags /\ AskedByThreads

LEMMA AskedInstance ==
  ASSUME TypeOK, CancelInv, NEW i \in Instances,
         Boot(i) \/ BootStep(i) \/ Terminate(i) \/ WorkerStep(i)
  PROVE  CancelInv'
  <1>1. /\ asked' = asked
        /\ \A k \in Instances : cancelFlags'[k] \subseteq cancelFlags[k]
        /\ \A c \in Clients : \/ call'[c] = call[c] /\ arg'[c] = arg[c]
                              \/ call'[c] = "idle"
    <2> USE DEF TypeOK, InstanceTypes, ClientTypes, memVars, clientVars, BootFrame,
                WorkerFrame, WorkerAt, WorkerGoes
    <2>1. CASE Boot(i) \/ BootStep(i)
      BY <2>1 DEF Boot, BootStep, RecoverJob, BootDone
    <2>2. CASE Terminate(i)
      BY <2>2 DEF Terminate
    <2>3. CASE Reap(i)
      BY <2>3 DEF Reap
    <2>4. CASE ScheduleDue(i) \/ ScheduleRate(i) \/ ScheduleInsert(i) \/ SchedulesDone(i)
      BY <2>4 DEF ScheduleDue, ScheduleRate, ScheduleInsert, SchedulesDone
    <2>5. CASE SelectJob(i) \/ SelectNothing(i) \/ Spawn(i)
      BY <2>5 DEF SelectJob, SelectNothing, Spawn
    <2>6. QED
      BY <2>1, <2>2, <2>3, <2>4, <2>5 DEF WorkerStep
  <1>2. AskedByClients' /\ AskedByFlags'
    BY <1>1 DEF CancelInv, AskedByClients, AskedByFlags, CancelPoints
  <1>3. CASE Boot(i) \/ BootStep(i) \/ Terminate(i)
    BY <1>1, <1>2, <1>3, InstanceGuarantees
    DEF InstanceGuarantee, CancelInv, CancelledWasAsked, AskedByThreads
  <1>4. CASE WorkerStep(i)
    BY <1>1, <1>2, <1>4, WorkerGuarantees
    DEF WorkerGuarantee, CancelInv, CancelledWasAsked, AskedByThreads
  <1>5. QED
    BY <1>3, <1>4

LEMMA AskedThread ==
  ASSUME TypeOK, CancelInv, NEW a \in Attempts, ThreadStep(a) \/ ToolExits(a)
  PROVE  CancelInv'
  <1> USE DEF TypeOK, DataTypes, ThreadTypes, ThreadPoints, ThreadAt, memVars,
              clientVars, ThreadFrame
  <1>1. asked' = asked /\ cancelFlags' = cancelFlags /\ call' = call /\ arg' = arg
    <2>1. CASE Start(a) \/ Launch(a) \/ Register(a) \/ Recheck(a) \/ Unregister(a)
              \/ Raises(a)
      BY <2>1 DEF Start, Launch, Register, Recheck, Unregister, Raises
    <2>2. CASE SeeCancel(a) \/ SeeExit(a) \/ SeeGarbled(a) \/ SeeDeadline(a) \/ ToolExits(a)
      BY <2>2 DEF SeeCancel, SeeExit, SeeGarbled, SeeDeadline, LeavePoll, ToolExits
    <2>3. CASE Claim(a) \/ LaunchFails(a) \/ Finish(a) \/ CancelBeforeStart(a)
      BY <2>3 DEF Claim, LaunchFails, Finish, CancelBeforeStart, ThreadWrites
    <2>4. QED
      BY <2>1, <2>2, <2>3 DEF ThreadStep
  <1>2. AskedByClients' /\ AskedByFlags'
    BY <1>1 DEF CancelInv, AskedByClients, AskedByFlags
  <1>3. Flagged(a) /\ pc[a] # "idle" => jobOf[a] \in asked
    BY DEF Flagged, CancelInv, AskedByFlags
  <1>4. CASE Claim(a) \/ LaunchFails(a) \/ Finish(a) \/ CancelBeforeStart(a)
    <2>1. AskedByThreads'
      BY <1>1, <1>4 DEF Claim, LaunchFails, Finish, CancelBeforeStart,
                        ThreadWrites, CancelInv, AskedByThreads
    <2>2. \A j \in Jobs \ {jobOf[a]} : state'[j] = state[j]
      BY <1>4 DEF Claim, LaunchFails, Finish, CancelBeforeStart, ThreadWrites,
                  SetState
    <2>3. state'[jobOf[a]] = "CANCELLED" => jobOf[a] \in asked
      BY <1>4 DEF Claim, LaunchFails, Finish, CancelBeforeStart, ThreadWrites,
                  SetState, Verdict, CancelInv, AskedByThreads
    <2>4. state'[jobOf[a]] # "CANCELLING"
      BY <1>4 DEF Claim, LaunchFails, Finish, CancelBeforeStart, ThreadWrites,
                  SetState, Verdict
    <2>5. QED
      BY <1>1, <1>2, <2>1, <2>2, <2>3, <2>4 DEF CancelInv, CancelledWasAsked
  <1>5. CASE Start(a) \/ Launch(a) \/ Register(a) \/ Recheck(a) \/ Unregister(a)
              \/ Raises(a)
    <2>1. state' = state
      BY <1>5 DEF Start, Launch, Register, Recheck, Unregister, Raises
    <2>2. AskedByThreads'
      BY <1>1, <1>3, <1>5 DEF Start, Launch, Register, Recheck, Unregister, Raises,
                              CancelInv, AskedByThreads
    <2>3. QED
      BY <1>1, <1>2, <2>1, <2>2 DEF CancelInv, CancelledWasAsked
  <1>6. CASE SeeCancel(a) \/ SeeExit(a) \/ SeeGarbled(a) \/ SeeDeadline(a) \/ ToolExits(a)
    <2>1. state' = state
      BY <1>6 DEF SeeCancel, SeeExit, SeeGarbled, SeeDeadline, LeavePoll, ToolExits
    <2>2. AskedByThreads'
      BY <1>1, <1>3, <1>6 DEF SeeCancel, SeeExit, SeeGarbled, SeeDeadline, LeavePoll,
                              ToolExits, CancelInv, AskedByThreads
    <2>3. QED
      BY <1>1, <1>2, <2>1, <2>2 DEF CancelInv, CancelledWasAsked
  <1>7. QED
    BY <1>4, <1>5, <1>6 DEF ThreadStep

LEMMA AskedClient ==
  ASSUME TypeOK, CancelInv, NEW c \in Clients, CallStep(c) \/ NewCall(c)
  PROVE  CancelInv'
  <1>1. /\ asked \subseteq asked'
        /\ \A d \in Clients \ {c} : call'[d] = call[d] /\ arg'[d] = arg[d]
        /\ call'[c] \in CancelPoints => arg'[c] \in asked'
        /\ \A i \in Instances :
              \/ cancelFlags'[i] = cancelFlags[i]
              \/ /\ cancelFlags'[i] = cancelFlags[i] \cup {arg[c]}
                 /\ call[c] \in CancelPoints
    <2> USE SchedulerAssumption
        DEF TypeOK, DataTypes, InstanceTypes, ClientTypes, CancelPoints, Quiet,
            ClientGoes, ReadJob, CancelInv, AskedByClients
    <2>1. CASE PauseSignal(c) \/ ResumeSignal(c) \/ PauseWrite(c) \/ ResumeWrite(c)
      BY <2>1 DEF PauseSignal, ResumeSignal, PauseWrite, ResumeWrite, ClientWrites
    <2>2. CASE CancelFlag(c)
      BY <2>2 DEF CancelFlag
    <2>3. CASE CancelMark(c) \/ CancelWrite(c)
      BY <2>3 DEF CancelMark, CancelWrite, ClientWrites, Return
    <2>4. CASE CancelKill(c)
      BY <2>4 DEF CancelKill, Return
    <2>5. CASE SubmitCheck(c) \/ SubmitRate(c) \/ SubmitInsert(c) \/ ClearWindows(c)
      BY <2>5 DEF SubmitCheck, SubmitRate, SubmitInsert, ClearWindows
    <2>6. CASE StopNext(c)
      BY <2>6 DEF StopNext
    <2>7. CASE StopRelease(c) \/ StopPersist(c) \/ ClearPersist(c)
      BY <2>7 DEF StopRelease, StopPersist, ClearPersist, SetStopRow
    <2>8. CASE Submit(c) \/ EmergencyStop(c) \/ StopClear(c)
      BY <2>8 DEF Submit, EmergencyStop, StopClear
    <2>9. CASE \E j \in Jobs : Cancel(c, j)
      BY <2>9 DEF Cancel, ReadForCancel
    <2>10. CASE \E j \in Jobs : Pause(c, j) \/ Resume(c, j) \/ Retry(c, j)
      BY <2>10 DEF Pause, Resume, Retry
    <2>11. QED
      BY <2>1, <2>2, <2>3, <2>4, <2>5, <2>6, <2>7, <2>8, <2>9, <2>10
      DEF CallStep, NewCall
  <1>2. AskedByClients' /\ AskedByFlags'
    BY <1>1 DEF CancelInv, AskedByClients, AskedByFlags
  <1>3. CancelledWasAsked' /\ AskedByThreads'
    BY <1>1, ClientsGuarantee
    DEF ClientGuarantee, CancelInv, CancelledWasAsked, AskedByThreads, AskedByClients
  <1>4. QED
    BY <1>2, <1>3 DEF CancelInv

LEMMA CancelStep ==
  ASSUME TypeOK, CancelInv, [Next]_vars
  PROVE  CancelInv'
  <1>1. CASE UNCHANGED vars
    BY <1>1 DEF vars, jobVars, memVars, threadVars, clientVars, CancelInv,
                CancelledWasAsked, AskedByClients, AskedByFlags, AskedByThreads
  <1>2. QED
    BY <1>1, AskedInstance, AskedThread, AskedClient DEF Next

\* A job is CANCELLED only if somebody asked for it; a flag left behind, or
\* one set for an earlier thread of the job, cancels no other job.
THEOREM CancelledAsked == Spec => []CancelledWasAsked
  <1>1. Init => CancelInv
    BY DEF Init, CancelInv, CancelledWasAsked, AskedByClients, AskedByFlags,
           AskedByThreads, CancelPoints
  <1>2. CancelInv => CancelledWasAsked
    BY DEF CancelInv
  <1>3. QED
    BY <1>1, <1>2, TypeCorrect, CancelStep, PTL DEF Spec

-----------------------------------------------------------------------------
(* Slots: the worker counts in SelectJob and registers in Spawn, under two *)
(* acquisitions of the lock; it is the only one that adds to the table.    *)

SlotInv == \A i \in Instances :
    /\ Cardinality(Used(i)) <= MaxConcurrent
    /\ worker[i] = "spawn" => Cardinality(Used(i)) < MaxConcurrent

LEMMA UsedFinite ==
  \A i : IsFiniteSet(Used(i)) /\ Cardinality(Used(i)) \in Nat
  BY SchedulerAssumption, FS_Subset, FS_CardinalityType DEF Used

LEMMA UsedShrinks ==
  ASSUME NEW i \in Instances, Used(i)' \subseteq Used(i)
  PROVE  Cardinality(Used(i)') <= Cardinality(Used(i))
  BY UsedFinite, FS_Subset

\* Steps that add to no table and leave the worker where it may not spawn.
LEMMA SlotsByOthers ==
  ASSUME SlotInv,
         \A i \in Instances : Used(i)' \subseteq Used(i),
         \A i \in Instances : worker'[i] = "spawn" => worker[i] = "spawn"
  PROVE  SlotInv'
  <1> SUFFICES ASSUME NEW i \in Instances
               PROVE  /\ Cardinality(Used(i)') <= MaxConcurrent
                      /\ worker'[i] = "spawn" => Cardinality(Used(i)') < MaxConcurrent
    BY DEF SlotInv
  <1>1. Cardinality(Used(i)') \in Nat
    <2>1. IsFiniteSet(Used(i)')
      BY UsedFinite, FS_Subset
    <2>2. QED
      BY <2>1, FS_CardinalityType
  <1>2. QED
    BY <1>1, UsedShrinks, UsedFinite, SchedulerAssumption DEF SlotInv

LEMMA SlotsByWorker ==
  ASSUME TypeOK, SlotInv, NEW i \in Instances, WorkerStep(i)
  PROVE  SlotInv'
  <1> USE DEF TypeOK, InstanceTypes, WorkerPoints, WorkerAt, WorkerGoes
  <1>1. CASE Reap(i)
    BY <1>1, SlotsByOthers DEF Reap, Used
  <1>2. CASE ScheduleDue(i) \/ ScheduleRate(i) \/ ScheduleInsert(i) \/ SchedulesDone(i)
    BY <1>2, SlotsByOthers
    DEF ScheduleDue, ScheduleRate, ScheduleInsert, SchedulesDone, Used
  <1>3. CASE SelectNothing(i)
    BY <1>3, SlotsByOthers DEF SelectNothing, Used
  <1>4. CASE SelectJob(i)
    <2>1. threads' = threads /\ SlotFree(i)
      BY <1>4 DEF SelectJob
    <2>2. \A k \in Instances \ {i} : worker'[k] = worker[k]
      BY <1>4 DEF SelectJob
    <2>3. \A k \in Instances : Used(k)' = Used(k)
      BY <2>1 DEF Used
    <2>4. QED
      BY <2>1, <2>2, <2>3 DEF SlotInv, SlotFree
  <1>5. CASE Spawn(i)
    <2>1. worker[i] = "spawn" /\ worker' = [worker EXCEPT ![i] = "reap"]
      BY <1>5 DEF Spawn
    <2>2. \A k \in Instances \ {i} : Used(k)' = Used(k)
      BY <1>5 DEF Spawn, Used
    <2>3. Used(i)' \subseteq Used(i) \cup {picked[i]}
      BY <1>5 DEF Spawn, Used
    <2>4. Cardinality(Used(i)') <= Cardinality(Used(i)) + 1
      <3>1. /\ IsFiniteSet(Used(i) \cup {picked[i]})
            /\ Cardinality(Used(i) \cup {picked[i]}) <= Cardinality(Used(i)) + 1
        <4> DEFINE S == Used(i)
                   p == picked[i]
        <4>1. IsFiniteSet(S) /\ Cardinality(S) \in Nat
          BY UsedFinite
        <4> HIDE DEF S, p
        <4>2. /\ IsFiniteSet(S \cup {p})
              /\ \/ Cardinality(S \cup {p}) = Cardinality(S)
                 \/ Cardinality(S \cup {p}) = Cardinality(S) + 1
          BY <4>1, FS_AddElement
        <4>3. IsFiniteSet(S \cup {p}) /\ Cardinality(S \cup {p}) <= Cardinality(S) + 1
          BY <4>1, <4>2
        <4> USE DEF S, p
        <4>4. QED
          BY <4>3
      <3>2. IsFiniteSet(Used(i)')
        BY <2>3, <3>1, FS_Subset
      <3>3. Cardinality(Used(i)') <= Cardinality(Used(i) \cup {picked[i]})
        BY <2>3, <3>1, FS_Subset
      <3>4. QED
        BY <3>1, <3>2, <3>3, UsedFinite, FS_CardinalityType
    <2>5. Cardinality(Used(i)') <= MaxConcurrent
      <3>1. Cardinality(Used(i)) < MaxConcurrent
        BY <2>1 DEF SlotInv
      <3>2. Cardinality(Used(i)') \in Nat
        BY <2>3, UsedFinite, FS_AddElement, FS_Subset, FS_CardinalityType
      <3>3. QED
        BY <2>4, <3>1, <3>2, UsedFinite, SchedulerAssumption
    <2>6. QED
      BY <2>1, <2>2, <2>5 DEF SlotInv
  <1>6. QED
    BY <1>1, <1>2, <1>3, <1>4, <1>5 DEF WorkerStep

LEMMA SlotsByBoot ==
  ASSUME TypeOK, SlotInv, NEW i \in Instances, Boot(i) \/ BootStep(i) \/ Terminate(i)
  PROVE  SlotInv'
  <1> USE DEF TypeOK, InstanceTypes, workerVars, BootFrame
  <1>1. CASE Boot(i) \/ BootStep(i)
    BY <1>1, SlotsByOthers DEF Boot, BootStep, RecoverJob, BootDone, Used
  <1>2. CASE Terminate(i)
    BY <1>2, SlotsByOthers DEF Terminate, Used
  <1>3. QED
    BY <1>1, <1>2

LEMMA SlotsByThread ==
  ASSUME TypeOK, SlotInv, NEW a \in Attempts, ThreadStep(a) \/ ToolExits(a)
  PROVE  SlotInv'
  <1>1. threads' = threads /\ worker' = worker
    <2> USE DEF ThreadFrame, workerVars
    <2>1. CASE Start(a) \/ Launch(a) \/ Register(a) \/ Recheck(a) \/ Unregister(a)
              \/ Raises(a)
      BY <2>1 DEF Start, Launch, Register, Recheck, Unregister, Raises
    <2>2. CASE SeeCancel(a) \/ SeeExit(a) \/ SeeGarbled(a) \/ SeeDeadline(a) \/ ToolExits(a)
      BY <2>2 DEF SeeCancel, SeeExit, SeeGarbled, SeeDeadline, LeavePoll, ToolExits
    <2>3. CASE Claim(a) \/ LaunchFails(a) \/ Finish(a) \/ CancelBeforeStart(a)
      BY <2>3 DEF Claim, LaunchFails, Finish, CancelBeforeStart, ThreadWrites
    <2>4. QED
      BY <2>1, <2>2, <2>3 DEF ThreadStep
  <1>2. QED
    BY <1>1, SlotsByOthers DEF Used

LEMMA SlotStep ==
  ASSUME TypeOK, SlotInv, [Next]_vars
  PROVE  SlotInv'
  <1>1. CASE \E c \in Clients : CallStep(c) \/ NewCall(c)
    BY <1>1, ClientsGuarantee, SlotsByOthers DEF ClientGuarantee, Used
  <1>2. CASE UNCHANGED vars
    BY <1>2, SlotsByOthers DEF vars, workerVars, Used
  <1>3. QED
    BY <1>1, <1>2, SlotsByBoot, SlotsByWorker, SlotsByThread DEF Next

LEMMA SlotInvariance == Spec => []SlotInv
  <1>1. Init => SlotInv
    <2> SUFFICES ASSUME Init PROVE SlotInv
      OBVIOUS
    <2>1. \A i \in Instances : Used(i) = {}
      BY DEF Init, Used
    <2>2. \A i \in Instances : Cardinality(Used(i)) = 0
      BY <2>1, FS_EmptySet
    <2>3. QED
      BY <2>2, SchedulerAssumption DEF SlotInv
  <1>2. QED
    BY <1>1, TypeCorrect, SlotStep, PTL DEF Spec

\* The thread table of an instance never exceeds max_concurrent_jobs.
THEOREM Slots == Spec => []SlotsRespected
  <1>1. SlotInv => SlotsRespected
    BY DEF SlotInv, SlotsRespected
  <1>2. QED
    BY <1>1, SlotInvariance, PTL

-----------------------------------------------------------------------------
(* What each kind of actor leaves alone.                                   *)

LEMMA ThreadsKeep ==
  ASSUME NEW a \in Attempts, ThreadStep(a) \/ ToolExits(a)
  PROVE  /\ UNCHANGED <<stopVars, bootVars, workerVars, cancelFlags, clientVars>>
         /\ UNCHANGED <<createdAt, jobOf, hostOf>>
  <1> USE DEF ThreadFrame, memVars
  <1>1. CASE Start(a) \/ Launch(a) \/ Register(a) \/ Recheck(a) \/ Unregister(a)
              \/ Raises(a)
    BY <1>1 DEF Start, Launch, Register, Recheck, Unregister, Raises
  <1>2. CASE SeeCancel(a) \/ SeeExit(a) \/ SeeGarbled(a) \/ SeeDeadline(a) \/ ToolExits(a)
    BY <1>2 DEF SeeCancel, SeeExit, SeeGarbled, SeeDeadline, LeavePoll, ToolExits
  <1>3. CASE Claim(a) \/ LaunchFails(a) \/ Finish(a) \/ CancelBeforeStart(a)
    BY <1>3 DEF Claim, LaunchFails, Finish, CancelBeforeStart, ThreadWrites
  <1>4. QED
    BY <1>1, <1>2, <1>3 DEF ThreadStep

\* A thread that moves was alive; the others stay where they are.
LEMMA ThreadsMove ==
  ASSUME TypeOK, NEW a \in Attempts, ThreadStep(a) \/ ToolExits(a)
  PROVE  /\ \A b \in Attempts \ {a} : pc'[b] = pc[b]
         /\ pc'[a] = pc[a] \/ (LiveThread(a) /\ pc'[a] \notin {"idle", "lost"})
  <1> USE DEF ThreadAt, TypeOK, ThreadTypes, LiveThread, Ended
  <1>1. CASE Start(a) \/ Launch(a) \/ Register(a) \/ Recheck(a) \/ Unregister(a)
              \/ Raises(a)
    BY <1>1 DEF Start, Launch, Register, Recheck, Unregister, Raises
  <1>2. CASE SeeCancel(a) \/ SeeExit(a) \/ SeeGarbled(a) \/ SeeDeadline(a) \/ ToolExits(a)
    BY <1>2 DEF SeeCancel, SeeExit, SeeGarbled, SeeDeadline, LeavePoll, ToolExits
  <1>3. CASE Claim(a) \/ LaunchFails(a) \/ Finish(a) \/ CancelBeforeStart(a)
    BY <1>3 DEF Claim, LaunchFails, Finish, CancelBeforeStart, ThreadWrites
  <1>4. QED
    BY <1>1, <1>2, <1>3 DEF ThreadStep

LEMMA WorkersKeep ==
  ASSUME NEW i \in Instances, WorkerStep(i)
  PROVE  UNCHANGED <<stopVars, bootVars, outcome, tool, clientVars>>
  <1> USE DEF WorkerFrame, WorkerAt, WorkerGoes
  <1>1. CASE Reap(i) \/ ScheduleDue(i) \/ ScheduleRate(i) \/ ScheduleInsert(i)
    BY <1>1 DEF Reap, ScheduleDue, ScheduleRate, ScheduleInsert
  <1>2. CASE SchedulesDone(i) \/ SelectJob(i) \/ SelectNothing(i) \/ Spawn(i)
    BY <1>2 DEF SchedulesDone, SelectJob, SelectNothing, Spawn
  <1>3. QED
    BY <1>1, <1>2 DEF WorkerStep

\* A client changes nothing of the other clients, of the bootstrap, and of the
\* flags of threads only by adding to them; a call it has not begun needs its
\* instance up.
LEMMA ClientsKeep ==
  ASSUME TypeOK, NEW c \in Clients, CallStep(c) \/ NewCall(c)
  PROVE  /\ UNCHANGED bootVars
         /\ \A d \in Clients \ {c} : /\ call'[d] = call[d] /\ arg'[d] = arg[d]
                                     /\ todo'[d] = todo[d]
         /\ \A i \in Instances : cancelFlags[i] \subseteq cancelFlags'[i]
         /\ \A i \in Instances \ {Home[c]} : worker'[i] = worker[i]
         /\ call[c] = "idle" => phase[Home[c]] = "up"
  <1> USE SchedulerAssumption
      DEF TypeOK, InstanceTypes, ClientTypes, ClientFrame, Quiet, ClientGoes, ReadJob, CanCall
  <1>1. CASE PauseSignal(c) \/ ResumeSignal(c) \/ PauseWrite(c) \/ ResumeWrite(c)
    BY <1>1 DEF PauseSignal, ResumeSignal, PauseWrite, ResumeWrite, ClientWrites
  <1>2. CASE CancelFlag(c)
    BY <1>2 DEF CancelFlag
  <1>3. CASE CancelMark(c) \/ CancelWrite(c)
    BY <1>3 DEF CancelMark, CancelWrite, ClientWrites
  <1>4. CASE CancelKill(c)
    BY <1>4 DEF CancelKill
  <1>5. CASE SubmitCheck(c) \/ SubmitRate(c) \/ SubmitInsert(c) \/ ClearWindows(c)
    BY <1>5 DEF SubmitCheck, SubmitRate, SubmitInsert, ClearWindows
  <1>6. CASE StopNext(c)
    BY <1>6 DEF StopNext
  <1>7. CASE StopRelease(c) \/ StopPersist(c) \/ ClearPersist(c)
    BY <1>7 DEF StopRelease, StopPersist, ClearPersist, SetStopRow
  <1>8. CASE Submit(c) \/ EmergencyStop(c) \/ StopClear(c)
    BY <1>8 DEF Submit, EmergencyStop, StopClear
  <1>9. CASE \E j \in Jobs : Cancel(c, j)
    BY <1>9 DEF Cancel, ReadForCancel
  <1>10. CASE \E j \in Jobs : Pause(c, j) \/ Resume(c, j) \/ Retry(c, j)
    BY <1>10 DEF Pause, Resume, Retry
  <1>11. QED
    BY <1>1, <1>2, <1>3, <1>4, <1>5, <1>6, <1>7, <1>8, <1>9, <1>10 DEF CallStep, NewCall

-----------------------------------------------------------------------------
(* Only an instance that is up has callers, a worker and live threads.     *)

UpInv ==
    /\ \A c \in Clients : call[c] # "idle" => phase[Home[c]] = "up"
    /\ \A i \in Instances : worker[i] # "off" => phase[i] = "up"
    /\ \A a \in Attempts : LiveThread(a) => phase[hostOf[a]] = "up"

LEMMA UpStep ==
  ASSUME TypeOK, UpInv, [Next]_vars
  PROVE  UpInv'
  <1> USE DEF UpInv
  <1>1. ASSUME NEW i \in Instances, Boot(i) \/ BootStep(i)
        PROVE  UpInv'
    <2>1. UNCHANGED <<pc, hostOf, call, worker>>
      BY <1>1 DEF Boot, BootStep, RecoverJob, BootDone, BootFrame, threadVars, clientVars,
                  workerVars
    <2>2. \A k \in Instances : phase[k] = "up" => phase'[k] = "up"
      BY <1>1 DEF Boot, BootStep, RecoverJob, BootDone, TypeOK, InstanceTypes
    <2>3. \A a \in Attempts : LiveThread(a) => hostOf[a] \in Instances
      BY DEF LiveThread, TypeOK, ThreadTypes
    <2>4. QED
      BY <2>1, <2>2, <2>3, SchedulerAssumption DEF LiveThread
  <1>2. ASSUME NEW i \in Instances, Terminate(i)
        PROVE  UpInv'
    <2>1. \A c \in Clients : call'[c] # "idle" => phase'[Home[c]] = "up"
      BY <1>2, SchedulerAssumption DEF Terminate, TypeOK, InstanceTypes, ClientTypes
    <2>2. \A k \in Instances : worker'[k] # "off" => phase'[k] = "up"
      BY <1>2 DEF Terminate, TypeOK, InstanceTypes
    <2>3. \A a \in Attempts : LiveThread(a)' => phase'[hostOf'[a]] = "up"
      BY <1>2 DEF Terminate, TypeOK, InstanceTypes, ThreadTypes, LiveThread
    <2>4. QED
      BY <2>1, <2>2, <2>3
  <1>3. ASSUME NEW i \in Instances, WorkerStep(i)
        PROVE  UpInv'
    <2>1. phase' = phase /\ call' = call
      BY <1>3, WorkersKeep DEF bootVars, clientVars
    <2>2. worker[i] # "off" /\ \A k \in Instances \ {i} : worker'[k] = worker[k]
      BY <1>3 DEF WorkerStep, Reap, ScheduleDue, ScheduleRate, ScheduleInsert, SchedulesDone,
                  SelectJob, SelectNothing, Spawn, WorkerAt, WorkerGoes, TypeOK, InstanceTypes
    <2>3. \A a \in Attempts : \/ pc'[a] = pc[a] /\ hostOf'[a] = hostOf[a]
                              \/ hostOf'[a] = i
      BY <1>3 DEF WorkerStep, Reap, ScheduleDue, ScheduleRate, ScheduleInsert, SchedulesDone,
                  SelectJob, SelectNothing, Spawn, WorkerAt, WorkerGoes, TypeOK, ThreadTypes
    <2>4. QED
      BY <2>1, <2>2, <2>3 DEF LiveThread
  <1>4. ASSUME NEW a \in Attempts, ThreadStep(a) \/ ToolExits(a)
        PROVE  UpInv'
    BY <1>4, ThreadsKeep, ThreadsMove
       DEF bootVars, clientVars, workerVars, LiveThread
  <1>5. ASSUME NEW c \in Clients, CallStep(c) \/ NewCall(c)
        PROVE  UpInv'
    <2>1. phase' = phase /\ phase[Home[c]] = "up"
      BY <1>5, ClientsKeep DEF bootVars
    <2>2. pc' = pc /\ hostOf' = hostOf
      BY <1>5, ClientsGuarantee DEF ClientGuarantee
    <2>3. QED
      BY <1>5, <2>1, <2>2, ClientsKeep DEF LiveThread
  <1>6. CASE UNCHANGED vars
    BY <1>6 DEF vars, bootVars, clientVars, workerVars, threadVars, LiveThread
  <1>7. QED
    BY <1>1, <1>2, <1>3, <1>4, <1>5, <1>6 DEF Next

LEMMA UpInvariance == Spec => []UpInv
  <1>1. Init => UpInv
    BY DEF Init, UpInv, LiveThread
  <1>2. QED
    BY <1>1, TypeCorrect, UpStep, PTL DEF Spec

-----------------------------------------------------------------------------
(* With one slot, a thread that is alive is the one the table has for its   *)
(* job: Spawn waits until _reap has emptied the table.                      *)

TableInv ==
    \A a \in Attempts : LiveThread(a) => threads[hostOf[a]][jobOf[a]] = a

LEMMA TableStep ==
  ASSUME MaxConcurrent = 1, TypeOK, SlotInv, TableInv, [Next]_vars
  PROVE  TableInv'
  <1>0. \A a \in Attempts : LiveThread(a) => hostOf[a] \in Instances /\ jobOf[a] \in Jobs
    BY DEF LiveThread, TypeOK, ThreadTypes
  <1>1. ASSUME NEW i \in Instances, Boot(i) \/ BootStep(i)
        PROVE  TableInv'
    BY <1>1 DEF Boot, BootStep, RecoverJob, BootDone, BootFrame, threadVars, workerVars,
                TableInv, LiveThread
  <1>2. ASSUME NEW i \in Instances, Terminate(i)
        PROVE  TableInv'
    BY <1>0, <1>2 DEF Terminate, TypeOK, InstanceTypes, ThreadTypes, LiveThread, TableInv
  <1>3. ASSUME NEW i \in Instances, Reap(i)
        PROVE  TableInv'
    <2>1. UNCHANGED <<pc, jobOf, hostOf>>
      BY <1>3 DEF Reap
    <2>2. ASSUME NEW a \in Attempts, LiveThread(a)
          PROVE  threads'[hostOf[a]][jobOf[a]] = a
      <3>1. threads[hostOf[a]][jobOf[a]] = a /\ hostOf[a] \in Instances /\ jobOf[a] \in Jobs
        BY <1>0, <2>2 DEF TableInv
      <3>2. hostOf[a] = i => jobOf[a] \notin Dead(i)
        BY <2>2, <3>1 DEF Dead, LiveThread
      <3>3. QED
        BY <1>3, <3>1, <3>2 DEF Reap, TypeOK, InstanceTypes
    <2>3. QED
      BY <2>1, <2>2 DEF TableInv, LiveThread
  <1>4. ASSUME NEW i \in Instances, Spawn(i)
        PROVE  TableInv'
    <2>1. PICK b \in Attempts : /\ pc[b] = "idle"
                               /\ pc' = [pc EXCEPT ![b] = "start"]
                               /\ jobOf' = [jobOf EXCEPT ![b] = picked[i]]
                               /\ hostOf' = [hostOf EXCEPT ![b] = i]
                               /\ threads' = [threads EXCEPT ![i][picked[i]] = b]
      BY <1>4 DEF Spawn
    <2>2. worker[i] = "spawn" /\ picked[i] \in Jobs
      BY <1>4 DEF Spawn, WorkerAt, TypeOK, InstanceTypes
    <2>3. Used(i) = {}
      <3>1. Cardinality(Used(i)) < 1
        BY <2>2 DEF SlotInv
      <3>2. QED
        BY <3>1, UsedFinite, FS_EmptySet
    <2>4. \A a \in Attempts : LiveThread(a) => hostOf[a] # i
      <3>1. ASSUME NEW a \in Attempts, LiveThread(a), hostOf[a] = i PROVE FALSE
        <4>1. threads[i][jobOf[a]] = a /\ jobOf[a] \in Jobs
          BY <1>0, <3>1 DEF TableInv
        <4>2. QED
          BY <2>3, <4>1, SchedulerAssumption DEF Used
      <3>2. QED
        BY <3>1
    <2>5. ASSUME NEW a \in Attempts, LiveThread(a)'
          PROVE  threads'[hostOf'[a]][jobOf'[a]] = a
      <3>1. CASE a = b
        BY <2>1, <2>2, <3>1 DEF TypeOK, InstanceTypes, ThreadTypes
      <3>2. CASE a # b
        <4>1. LiveThread(a) /\ hostOf'[a] = hostOf[a] /\ jobOf'[a] = jobOf[a]
          BY <2>1, <2>5, <3>2 DEF TypeOK, ThreadTypes, LiveThread
        <4>2. threads[hostOf[a]][jobOf[a]] = a /\ hostOf[a] # i /\ hostOf[a] \in Instances
          BY <1>0, <2>4, <4>1 DEF TableInv
        <4>3. QED
          BY <2>1, <4>1, <4>2 DEF TypeOK, InstanceTypes
      <3>3. QED
        BY <3>1, <3>2
    <2>6. QED
      BY <2>5 DEF TableInv
  <1>5. ASSUME NEW i \in Instances, WorkerStep(i)
        PROVE  TableInv'
    <2>1. CASE ScheduleDue(i) \/ ScheduleRate(i) \/ ScheduleInsert(i) \/ SchedulesDone(i)
      BY <2>1 DEF ScheduleDue, ScheduleRate, ScheduleInsert, SchedulesDone, WorkerAt, WorkerGoes,
                  TableInv, LiveThread
    <2>2. CASE SelectJob(i) \/ SelectNothing(i)
      BY <2>2 DEF SelectJob, SelectNothing, WorkerAt, WorkerGoes, TableInv, LiveThread
    <2>3. QED
      BY <1>3, <1>4, <1>5, <2>1, <2>2 DEF WorkerStep
  <1>6. ASSUME NEW a \in Attempts, ThreadStep(a) \/ ToolExits(a)
        PROVE  TableInv'
    BY <1>6, ThreadsKeep, ThreadsMove DEF workerVars, TableInv, LiveThread
  <1>7. ASSUME NEW c \in Clients, CallStep(c) \/ NewCall(c)
        PROVE  TableInv'
    BY <1>7, ClientsGuarantee DEF ClientGuarantee, TableInv, LiveThread
  <1>8. CASE UNCHANGED vars
    BY <1>8 DEF vars, threadVars, workerVars, TableInv, LiveThread
  <1>9. QED
    BY <1>1, <1>2, <1>5, <1>6, <1>7, <1>8 DEF Next

LEMMA TableInvariance ==
  ASSUME MaxConcurrent = 1
  PROVE  Spec => []TableInv
  <1>1. Init => TableInv
    BY DEF Init, TableInv, LiveThread
  <1>2. TypeOK /\ SlotInv /\ TableInv /\ [Next]_vars => TableInv'
    BY TableStep
  <1>3. QED
    BY <1>1, <1>2, TypeCorrect, SlotInvariance, PTL DEF Spec

\* With one slot, a cancellation that has reached an executing thread is kept
\* until the thread acts on it or dies with its instance: _reap drops the flag
\* of a job only with a thread that has ended.
THEOREM CancellationSticks ==
  ASSUME MaxConcurrent = 1
  PROVE  Spec => CancelSticks
  <1> DEFINE Sticks == \A a \in Attempts :
               Executing(a) /\ pc[a] \notin {"unregister", "finish"} /\ Flagged(a) =>
                 \/ Flagged(a)'
                 \/ outcome'[a] = "cancelled"
                 \/ pc'[a] \in Ended \cup {"lost"}
  <1>1. TypeOK /\ TableInv /\ [Next]_vars => [Sticks]_vars
    <2> SUFFICES ASSUME TypeOK, TableInv, Next PROVE Sticks
      OBVIOUS
    <2> SUFFICES ASSUME NEW a \in Attempts, Executing(a), Flagged(a)
                 PROVE  Flagged(a)' \/ pc'[a] \in Ended \cup {"lost"}
      OBVIOUS
    <2>0. /\ LiveThread(a) /\ hostOf[a] \in Instances /\ jobOf[a] \in Jobs
          /\ jobOf[a] \in cancelFlags[hostOf[a]]
      BY DEF Executing, LiveThread, Ended, Flagged, TypeOK, ThreadTypes
    <2>1. ASSUME NEW i \in Instances, Boot(i) \/ BootStep(i)
          PROVE  Flagged(a)'
      BY <2>0, <2>1 DEF Boot, BootStep, RecoverJob, BootDone, BootFrame, memVars, threadVars,
                          Flagged
    <2>2. ASSUME NEW i \in Instances, Terminate(i)
          PROVE  Flagged(a)' \/ pc'[a] = "lost"
      BY <2>0, <2>2 DEF Terminate, Flagged, LiveThread, TypeOK, InstanceTypes
    <2>3. ASSUME NEW i \in Instances, WorkerStep(i)
          PROVE  Flagged(a)'
      <3>1. jobOf'[a] = jobOf[a] /\ hostOf'[a] = hostOf[a]
        BY <2>0, <2>3, WorkerGuarantees DEF WorkerGuarantee, Executing
      <3>2. CASE Reap(i)
        <4>1. hostOf[a] = i => jobOf[a] \notin Dead(i)
          BY <2>0 DEF TableInv, Dead, LiveThread
        <4>2. QED
          BY <2>0, <3>1, <3>2, <4>1 DEF Reap, Flagged, TypeOK, InstanceTypes
      <3>3. CASE cancelFlags' = cancelFlags
        BY <2>0, <3>1, <3>3 DEF Flagged
      <3>4. QED
        BY <2>3, <3>2, <3>3
           DEF WorkerStep, ScheduleDue, ScheduleRate, ScheduleInsert, SchedulesDone, SelectJob,
               SelectNothing, Spawn, WorkerGoes, memVars
    <2>4. ASSUME NEW b \in Attempts, ThreadStep(b) \/ ToolExits(b)
          PROVE  Flagged(a)'
      BY <2>0, <2>4, ThreadsKeep DEF Flagged
    <2>5. ASSUME NEW c \in Clients, CallStep(c) \/ NewCall(c)
          PROVE  Flagged(a)'
      <3>1. jobOf' = jobOf /\ hostOf' = hostOf
        BY <2>5, ClientsGuarantee DEF ClientGuarantee
      <3>2. \A i \in Instances : cancelFlags[i] \subseteq cancelFlags'[i]
        BY <2>5, ClientsKeep
      <3>3. QED
        BY <2>0, <3>1, <3>2 DEF Flagged
    <2>6. QED
      BY <2>1, <2>2, <2>3, <2>4, <2>5 DEF Next
  <1>2. QED
    BY <1>1, TypeCorrect, TableInvariance, PTL DEF Spec, CancelSticks

-----------------------------------------------------------------------------
(* Recovery.  With one instance nobody else sets a job RUNNING while it     *)
(* recovers, so the jobs it has read and not yet failed are all there are.  *)

OneInstance == \A i, k \in Instances : i = k

RecoveryInv ==
    \A i \in Instances : phase[i] = "recovering" =>
        \A j \in Jobs : state[j] = "RUNNING" => j \in toFail[i]

LEMMA RecoveryStep ==
  ASSUME OneInstance, TypeOK, UpInv, RecoveryInv, [Next]_vars
  PROVE  RecoveryInv'
  <1> USE DEF RecoveryInv
  <1>0. ASSUME UNCHANGED bootVars, \A j \in Jobs : state'[j] = "RUNNING" => state[j] = "RUNNING"
        PROVE  RecoveryInv'
    BY <1>0 DEF bootVars
  <1>1. ASSUME NEW i \in Instances, Boot(i)
        PROVE  RecoveryInv'
    <2>1. toFail'[i] = {j \in Jobs : state[j] = "RUNNING"} /\ state' = state
      BY <1>1 DEF Boot, Interrupted, jobVars, TypeOK, InstanceTypes
    <2>2. QED
      BY <2>1 DEF OneInstance
  <1>2. ASSUME NEW i \in Instances, RecoverJob(i)
        PROVE  RecoveryInv'
    <2>1. PICK j \in toFail[i] : /\ state' = [state EXCEPT ![j] = "FAILED"]
                                /\ toFail' = [toFail EXCEPT ![i] = @ \ {j}]
      BY <1>2 DEF RecoverJob, FailInterrupted, SetState
    <2>2. phase' = phase
      BY <1>2 DEF RecoverJob
    <2>3. QED
      BY <2>1, <2>2 DEF OneInstance, TypeOK, DataTypes, InstanceTypes
  <1>3. ASSUME NEW i \in Instances, BootDone(i) \/ Terminate(i)
        PROVE  RecoveryInv'
    BY <1>3 DEF BootDone, Terminate, OneInstance, TypeOK, InstanceTypes
  <1>4. ASSUME NEW i \in Instances, WorkerStep(i)
        PROVE  RecoveryInv'
    BY <1>0, <1>4, WorkersKeep, WorkerGuarantees DEF WorkerGuarantee
  <1>5. ASSUME NEW a \in Attempts, ThreadStep(a) \/ ToolExits(a)
        PROVE  RecoveryInv'
    <2>1. UNCHANGED bootVars
      BY <1>5, ThreadsKeep
    <2>2. CASE LiveThread(a)
      <3>1. \A i \in Instances : phase[i] = "up"
        BY <2>2 DEF UpInv, OneInstance, LiveThread, TypeOK, ThreadTypes
      <3>2. QED
        BY <2>1, <3>1 DEF bootVars
    <2>3. CASE ~LiveThread(a)
      <3>1. ToolExits(a)
        BY <1>5, <2>3 DEF LiveThread, Ended, ThreadStep, Start, CancelBeforeStart, Claim,
                          LaunchFails,
                          Launch, Register, SeeCancel, SeeExit, SeeDeadline, SeeGarbled, Recheck,
                          Unregister, Finish, Raises, LeavePoll, ThreadWrites, ThreadAt
      <3>2. QED
        BY <1>0, <2>1, <3>1 DEF ToolExits
    <2>4. QED
      BY <2>2, <2>3
  <1>6. ASSUME NEW c \in Clients, CallStep(c) \/ NewCall(c)
        PROVE  RecoveryInv'
    BY <1>0, <1>6, ClientsKeep, ClientsGuarantee DEF ClientGuarantee
  <1>7. CASE UNCHANGED vars
    BY <1>0, <1>7 DEF vars, jobVars
  <1>8. QED
    BY <1>1, <1>2, <1>3, <1>4, <1>5, <1>6, <1>7 DEF Next, BootStep

\* When the one instance ends its bootstrap no job is RUNNING, wherever the
\* instances before it were killed.
THEOREM RecoveryCompletes ==
  ASSUME OneInstance
  PROVE  Spec => RecoveryLeavesNoneRunning
  <1>1. Init => RecoveryInv
    BY DEF Init, RecoveryInv
  <1>2. TypeOK /\ UpInv /\ RecoveryInv /\ [Next]_vars => RecoveryInv'
    BY RecoveryStep
  <1>3. RecoveryInv =>
          \A i \in Instances : BootDone(i) /\ Alone(i) => \A j \in Jobs : state[j] # "RUNNING"
    BY DEF RecoveryInv, BootDone
  <1>4. QED
    BY <1>1, <1>2, <1>3, TypeCorrect, UpInvariance, PTL DEF Spec, RecoveryLeavesNoneRunning

-----------------------------------------------------------------------------
(* The emergency stop.  Its caller holds the lock until it has gone through *)
(* its list, and cannot get past a cancel that wants the lock again.        *)

StopPoints == {"stopNext", "cancelFlag", "cancelWrite"}

HolderInv ==
    \A c \in Clients : holder[Home[c]] = c => call[c] \in StopPoints

\* A client takes the lock of its own instance, or lets it go; of its flag and
\* of the row of the stop it writes what its operation is about.
LEMMA StopVarsByClient ==
  ASSUME TypeOK, NEW c \in Clients, CallStep(c) \/ NewCall(c)
  PROVE  /\ \/ UNCHANGED <<stopRow, stopFlag, holder>>
            \/ EmergencyStop(c) \/ StopRelease(c) \/ StopClear(c)
            \/ StopPersist(c) \/ ClearPersist(c)
         /\ \A i \in Instances \ {Home[c]} : holder'[i] = holder[i]
         /\ holder'[Home[c]] \in {holder[Home[c]], c, None}
  <1> USE SchedulerAssumption DEF TypeOK, InstanceTypes, Quiet, stopVars, ReadJob
  <1>1. CASE PauseSignal(c) \/ ResumeSignal(c) \/ PauseWrite(c) \/ ResumeWrite(c)
    BY <1>1 DEF PauseSignal, ResumeSignal, PauseWrite, ResumeWrite, ClientWrites
  <1>2. CASE CancelFlag(c) \/ CancelMark(c) \/ CancelWrite(c) \/ CancelKill(c)
    BY <1>2 DEF CancelFlag, CancelMark, CancelWrite, CancelKill, ClientWrites
  <1>3. CASE SubmitCheck(c) \/ SubmitRate(c) \/ SubmitInsert(c) \/ ClearWindows(c)
    BY <1>3 DEF SubmitCheck, SubmitRate, SubmitInsert, ClearWindows
  <1>4. CASE StopNext(c) \/ Submit(c)
    BY <1>4 DEF StopNext, Submit
  <1>5. CASE StopRelease(c) \/ StopPersist(c) \/ ClearPersist(c)
    BY <1>5 DEF StopRelease, StopPersist, ClearPersist, SetStopRow
  <1>6. CASE EmergencyStop(c) \/ StopClear(c)
    BY <1>6 DEF EmergencyStop, StopClear
  <1>7. CASE \E j \in Jobs : Pause(c, j) \/ Resume(c, j) \/ Cancel(c, j) \/ Retry(c, j)
    BY <1>7 DEF Pause, Resume, Cancel, ReadForCancel, Retry
  <1>8. QED
    BY <1>1, <1>2, <1>3, <1>4, <1>5, <1>6, <1>7 DEF CallStep, NewCall

\* The holder of the lock stays inside its stop until it releases.
LEMMA HolderByClient ==
  ASSUME TypeOK, HolderInv, NEW c \in Clients, CallStep(c) \/ NewCall(c)
  PROVE  holder'[Home[c]] = c => call'[c] \in StopPoints
  <1> USE SchedulerAssumption
      DEF TypeOK, InstanceTypes, ClientTypes, HolderInv, StopPoints, ClientGoes, CanCall
  <1>1. CASE PauseSignal(c) \/ ResumeSignal(c) \/ PauseWrite(c) \/ ResumeWrite(c)
    BY <1>1 DEF PauseSignal, ResumeSignal, PauseWrite, ResumeWrite, ClientWrites, stopVars
  <1>2. CASE CancelFlag(c)
    BY <1>2 DEF CancelFlag, LockFree, stopVars
  <1>3. CASE CancelMark(c) \/ CancelKill(c)
    BY <1>3 DEF CancelMark, CancelKill, ClientWrites, stopVars
  <1>4. CASE CancelWrite(c)
    BY <1>4 DEF CancelWrite, Return, ClientWrites, stopVars
  <1>5. CASE SubmitCheck(c) \/ SubmitRate(c) \/ SubmitInsert(c) \/ ClearWindows(c)
    BY <1>5 DEF SubmitCheck, SubmitRate, SubmitInsert, ClearWindows, Quiet, stopVars
  <1>6. CASE StopNext(c)
    BY <1>6 DEF StopNext, Quiet, stopVars
  <1>7. CASE StopRelease(c)
    BY <1>7 DEF StopRelease
  <1>8. CASE StopPersist(c) \/ ClearPersist(c)
    BY <1>8 DEF StopPersist, ClearPersist, SetStopRow
  <1>9. CASE EmergencyStop(c)
    BY <1>9 DEF EmergencyStop
  <1>10. CASE StopClear(c) \/ Submit(c)
    BY <1>10 DEF StopClear, Submit, ReadJob, Quiet, stopVars
  <1>11. CASE \E j \in Jobs : Pause(c, j) \/ Resume(c, j) \/ Cancel(c, j) \/ Retry(c, j)
    BY <1>11 DEF Pause, Resume, Cancel, ReadForCancel, Retry, ReadJob, Quiet, stopVars
  <1>12. QED
    BY <1>1, <1>2, <1>3, <1>4, <1>5, <1>6, <1>7, <1>8, <1>9, <1>10, <1>11
       DEF CallStep, NewCall

\* The stop flag of an instance that has a stop under way or about to be
\* persisted is up.
FlagInv ==
    \A c \in Clients :
        holder[Home[c]] = c \/ call[c] \in {"stopNext", "stopPersist"} => stopFlag[Home[c]]

RowInv ==
    \A i \in Instances :
        stopRow /\ phase[i] # "down" /\ (\A c \in Clients : call[c] # "clearPersist")
            => stopFlag[i]

\* Nobody resets the stop, or the one operator who does is the one who stops.
ResetsAlone == "clear" \notin Ops \/ \A c, d \in Clients : c = d

NoReset == "clear" \notin Ops => \A c \in Clients : call[c] # "clearPersist"

StopInv == HolderInv /\ FlagInv /\ RowInv /\ NoReset

LEMMA StopInvByClient ==
  ASSUME OneInstance, ResetsAlone, TypeOK, UpInv, StopInv,
         NEW c \in Clients, CallStep(c) \/ NewCall(c)
  PROVE  StopInv'
  <1> DEFINE i == Home[c]
  <1>0. /\ i \in Instances /\ \A k \in Instances : k = i
        /\ \A d \in Clients : Home[d] = i
    BY SchedulerAssumption DEF OneInstance
  <1>1. /\ phase' = phase /\ phase[i] = "up"
        /\ \A d \in Clients \ {c} : call'[d] = call[d]
    BY ClientsKeep DEF UpInv, bootVars
  <1>2. HolderInv'
    BY <1>0, <1>1, HolderByClient, StopVarsByClient, SchedulerAssumption DEF StopInv, HolderInv
  <1> USE DEF TypeOK, DataTypes, InstanceTypes, ClientTypes
  <1>3. CASE /\ UNCHANGED <<stopRow, stopFlag, holder>>
             /\ ~(EmergencyStop(c) \/ StopRelease(c) \/ StopClear(c))
             /\ ~(StopPersist(c) \/ ClearPersist(c))
    <2>1. call'[c] # "stopPersist" /\ (call'[c] = "stopNext" => \/ call[c] = "stopNext"
                                                               \/ holder[Home[c]] = c)
          /\ call'[c] # "clearPersist" /\ call[c] # "clearPersist"
      <3> USE SchedulerAssumption DEF ClientGoes
      <3>1. CASE PauseSignal(c) \/ ResumeSignal(c) \/ PauseWrite(c) \/ ResumeWrite(c)
        BY <3>1 DEF PauseSignal, ResumeSignal, PauseWrite, ResumeWrite, ClientWrites
      <3>2. CASE CancelFlag(c) \/ CancelMark(c) \/ CancelKill(c) \/ CancelWrite(c)
        BY <3>2 DEF CancelFlag, CancelMark, CancelKill, CancelWrite, Return, ClientWrites
      <3>3. CASE SubmitCheck(c) \/ SubmitRate(c) \/ SubmitInsert(c) \/ ClearWindows(c)
        BY <3>3 DEF SubmitCheck, SubmitRate, SubmitInsert, ClearWindows
      <3>4. CASE StopNext(c)
        BY <3>4 DEF StopNext
      <3>5. CASE Submit(c)
        BY <3>5 DEF Submit, ReadJob, CanCall
      <3>6. CASE \E j \in Jobs : Pause(c, j) \/ Resume(c, j) \/ Cancel(c, j) \/ Retry(c, j)
        BY <3>6 DEF Pause, Resume, Cancel, ReadForCancel, Retry, ReadJob, CanCall
      <3>7. QED
        BY <1>3, <3>1, <3>2, <3>3, <3>4, <3>5, <3>6 DEF CallStep, NewCall
    <2>2. QED
      BY <1>1, <1>2, <1>3, <2>1, SchedulerAssumption DEF StopInv, FlagInv, RowInv, NoReset
  <1>4. CASE EmergencyStop(c)
    BY <1>0, <1>1, <1>2, <1>4 DEF EmergencyStop, StopInv, FlagInv, RowInv, NoReset
  <1>5. CASE StopRelease(c)
    BY <1>0, <1>1, <1>2, <1>5, SchedulerAssumption
       DEF StopRelease, ClientGoes, StopInv, FlagInv, RowInv, NoReset
  <1>6. CASE StopClear(c)
    <2>1. \A d \in Clients : d = c
      BY <1>6 DEF StopClear, CanCall, ResetsAlone
    <2>2. call'[c] = "clearPersist" /\ call[c] = "idle" /\ holder' = holder /\ "clear" \in Ops
      BY <1>6 DEF StopClear, CanCall
    <2>3. holder'[i] # c
      BY <2>2 DEF StopInv, HolderInv, StopPoints
    <2>4. QED
      BY <1>0, <1>2, <2>1, <2>2, <2>3 DEF StopInv, FlagInv, RowInv, NoReset
  <1>7. CASE StopPersist(c)
    BY <1>0, <1>1, <1>2, <1>7
       DEF StopPersist, SetStopRow, ClientGoes, StopInv, FlagInv, RowInv, NoReset
  <1>8. CASE ClearPersist(c)
    BY <1>0, <1>1, <1>2, <1>8
       DEF ClearPersist, SetStopRow, ClientGoes, StopInv, FlagInv, RowInv, NoReset
  <1>9. QED
    BY <1>3, <1>4, <1>5, <1>6, <1>7, <1>8, StopVarsByClient

LEMMA StopInvStep ==
  ASSUME OneInstance, ResetsAlone, TypeOK, UpInv, StopInv, [Next]_vars
  PROVE  StopInv'
  <1> USE SchedulerAssumption
  <1>0. ASSUME UNCHANGED <<phase, stopRow, stopFlag, holder, call>>
        PROVE  StopInv'
    BY <1>0 DEF StopInv, HolderInv, FlagInv, RowInv, NoReset
  <1>1. ASSUME NEW i \in Instances, Boot(i)
        PROVE  StopInv'
    <2>1. /\ \A c \in Clients : call[c] = "idle" /\ Home[c] = i
          /\ \A k \in Instances : k = i
      BY <1>1 DEF Boot, UpInv, OneInstance
    <2>2. \A c \in Clients : holder[i] # c
      BY <2>1 DEF StopInv, HolderInv, StopPoints
    <2>3. call' = call /\ holder' = holder /\ stopRow' = stopRow /\ stopFlag'[i] = stopRow
      BY <1>1 DEF Boot, Restored, BootFrame, clientVars, TypeOK, InstanceTypes
    <2>4. QED
      BY <2>1, <2>2, <2>3 DEF StopInv, HolderInv, FlagInv, RowInv, NoReset
  <1>2. ASSUME NEW i \in Instances, BootStep(i)
        PROVE  StopInv'
    <2>1. UNCHANGED <<stopRow, stopFlag, holder, call>>
      BY <1>2 DEF BootStep, RecoverJob, BootDone, BootFrame, clientVars, stopVars
    <2>2. \A k \in Instances : phase'[k] # "down" => phase[k] # "down"
      BY <1>2 DEF BootStep, RecoverJob, BootDone, TypeOK, InstanceTypes
    <2>3. QED
      BY <2>1, <2>2 DEF StopInv, HolderInv, FlagInv, RowInv, NoReset
  <1>3. ASSUME NEW i \in Instances, Terminate(i)
        PROVE  StopInv'
    <2>1. /\ \A c \in Clients : call'[c] = "idle" /\ Home[c] = i
          /\ \A k \in Instances : k = i
      BY <1>3 DEF Terminate, OneInstance
    <2>2. holder'[i] = None /\ phase'[i] = "down"
      BY <1>3 DEF Terminate, TypeOK, InstanceTypes
    <2>3. QED
      BY <2>1, <2>2 DEF StopInv, HolderInv, FlagInv, RowInv, NoReset
  <1>4. ASSUME NEW i \in Instances, WorkerStep(i)
        PROVE  StopInv'
    BY <1>0, <1>4, WorkersKeep DEF stopVars, bootVars, clientVars
  <1>5. ASSUME NEW a \in Attempts, ThreadStep(a) \/ ToolExits(a)
        PROVE  StopInv'
    BY <1>0, <1>5, ThreadsKeep DEF stopVars, bootVars, clientVars
  <1>6. CASE UNCHANGED vars
    BY <1>0, <1>6 DEF vars, stopVars, bootVars, clientVars
  <1>7. QED
    BY <1>1, <1>2, <1>3, <1>4, <1>5, <1>6, StopInvByClient DEF Next

\* With one instance, and resets that do not overlap a stop of another client,
\* a persisted stop is in force whenever the instance is up, however often and
\* wherever it was killed before.
THEOREM StopSurvives ==
  ASSUME OneInstance, ResetsAlone
  PROVE  Spec => []StopSurvivesRestart
  <1>1. Init => StopInv
    BY SchedulerAssumption DEF Init, StopInv, HolderInv, FlagInv, RowInv, NoReset
  <1>2. TypeOK /\ UpInv /\ StopInv /\ [Next]_vars => StopInv'
    BY StopInvStep
  <1>3. StopInv => StopSurvivesRestart
    BY DEF StopInv, RowInv, StopSurvivesRestart
  <1>4. QED
    BY <1>1, <1>2, <1>3, TypeCorrect, UpInvariance, PTL DEF Spec

-----------------------------------------------------------------------------
(* What a stop leaves behind.  While it goes through its list, the QUEUED   *)
(* jobs are among those it has still to visit and the one it is writing.    *)

Queued == {j \in Jobs : state[j] = "QUEUED"}

ToVisit(c) ==
    /\ call[c] = "stopNext" => Queued \subseteq todo[c]
    /\ holder[Home[c]] = c /\ call[c] = "cancelWrite" => Queued \subseteq todo[c] \cup {arg[c]}

NoSchedule == \A i \in Instances : worker[i] \notin {"dueRate", "dueInsert"}

QueueInv == HolderInv /\ NoSchedule /\ \A c \in Clients : ToVisit(c)

\* One operator, no schedules, and a store that jobs.list() returns whole.
StopsAlone ==
    /\ \A c, d \in Clients : c = d
    /\ "schedule" \notin Ops
    /\ Cardinality(Jobs) <= ListLimit

\* With no more records than its limit, jobs.list() leaves none out.
LEMMA AllListed ==
  ASSUME Cardinality(Jobs) <= ListLimit, TypeOK
  PROVE  Listed = Existing
  <1>1. SUFFICES ASSUME NEW j \in Existing
                 PROVE  Cardinality({k \in Existing : createdAt[k] > createdAt[j]}) < ListLimit
    BY DEF Listed
  <1> DEFINE S == {k \in Existing : createdAt[k] > createdAt[j]}
  <1>2. S \subseteq Jobs /\ j \in Jobs /\ j \notin S
    BY DEF Existing, TypeOK, DataTypes
  <1>3. Cardinality(S) <= Cardinality(Jobs) /\ Cardinality(S) # Cardinality(Jobs)
    BY <1>2, FS_Subset, SchedulerAssumption
  <1>4. Cardinality(S) \in Nat /\ Cardinality(Jobs) \in Nat
    BY <1>2, FS_Subset, FS_CardinalityType, SchedulerAssumption
  <1>5. QED
    BY <1>3, <1>4, SchedulerAssumption

\* Threads, bootstraps and a worker without schedules queue nothing.
LEMMA NothingQueued ==
  ASSUME TypeOK, NoSchedule,
         \/ \E a \in Attempts : ThreadStep(a) \/ ToolExits(a)
         \/ \E i \in Instances : WorkerStep(i) \/ Boot(i) \/ BootStep(i) \/ Terminate(i)
  PROVE  Queued' \subseteq Queued
  <1>1. ASSUME NEW a \in Attempts, ThreadStep(a) \/ ToolExits(a)
        PROVE  Queued' \subseteq Queued
    <2> USE <1>1 DEF Queued, TypeOK, DataTypes, ThreadTypes
    <2>1. CASE Claim(a) \/ LaunchFails(a) \/ Finish(a) \/ CancelBeforeStart(a)
      BY <2>1 DEF Claim, LaunchFails, Finish, CancelBeforeStart, ThreadWrites, Verdict, SetState
    <2>2. CASE UNCHANGED state
      BY <2>2
    <2>3. QED
      BY <2>1, <2>2
         DEF ThreadStep, Start, Launch, Register, SeeCancel, SeeExit, SeeGarbled, SeeDeadline,
             LeavePoll, Recheck, Unregister, Raises, ToolExits
  <1>2. ASSUME NEW i \in Instances, WorkerStep(i)
        PROVE  Queued' \subseteq Queued
    <2>1. UNCHANGED state
      BY <1>2 DEF WorkerStep, Reap, ScheduleDue, ScheduleRate, ScheduleInsert, SchedulesDone,
                  SelectJob, SelectNothing, Spawn, WorkerGoes, WorkerAt, NoSchedule, jobVars
    <2>2. QED
      BY <2>1 DEF Queued
  <1>3. ASSUME NEW i \in Instances, Boot(i) \/ BootStep(i) \/ Terminate(i)
        PROVE  Queued' \subseteq Queued
    BY <1>3, InstanceGuarantees DEF InstanceGuarantee, Queued
  <1>4. QED
    BY <1>1, <1>2, <1>3

\* The stop itself lists every QUEUED job, and each visit takes one off.
LEMMA VisitsByClient ==
  ASSUME StopsAlone, TypeOK, QueueInv, NEW c \in Clients, CallStep(c) \/ NewCall(c)
  PROVE  ToVisit(c)'
  <1> USE SchedulerAssumption
      DEF QueueInv, HolderInv, StopPoints, ToVisit, Queued, TypeOK, DataTypes, InstanceTypes,
          ClientTypes, ClientGoes, CanCall
  <1>1. CASE PauseSignal(c) \/ ResumeSignal(c) \/ PauseWrite(c) \/ ResumeWrite(c)
    BY <1>1 DEF PauseSignal, ResumeSignal, PauseWrite, ResumeWrite, ClientWrites
  <1>2. CASE CancelFlag(c) \/ CancelMark(c)
    BY <1>2 DEF CancelFlag, CancelMark, ClientWrites
  <1>3. CASE CancelKill(c)
    BY <1>3 DEF CancelKill, Return
  <1>4. CASE CancelWrite(c)
    BY <1>4 DEF CancelWrite, Return, ClientWrites, SetState
  <1>5. CASE SubmitCheck(c) \/ SubmitRate(c) \/ SubmitInsert(c) \/ ClearWindows(c)
    BY <1>5 DEF SubmitCheck, SubmitRate, SubmitInsert, ClearWindows
  <1>6. CASE StopNext(c)
    <2>1. state' = state /\ holder' = holder /\ call[c] = "stopNext"
      BY <1>6 DEF StopNext, Quiet, jobVars, stopVars
    <2>2. PICK j \in todo[c] :
            /\ todo'[c] = todo[c] \ {j}
            /\ IF state[j] \in Terminal
               THEN call'[c] = "stopNext"
               ELSE arg'[c] = j /\ call'[c] \in {"cancelFlag", "cancelWrite"}
      BY <1>6 DEF StopNext
    <2>3. state[j] \in Terminal => j \notin Queued
      BY DEF Terminal
    <2>4. QED
      BY <2>1, <2>2, <2>3
  <1>7. CASE StopRelease(c) \/ StopPersist(c) \/ ClearPersist(c)
    BY <1>7 DEF StopRelease, StopPersist, ClearPersist, SetStopRow
  <1>8. CASE EmergencyStop(c)
    <2>1. todo'[c] = Stoppable /\ call'[c] = "stopNext" /\ state' = state
      BY <1>8 DEF EmergencyStop, jobVars
    <2>2. Queued \subseteq Stoppable
      BY AllListed DEF StopsAlone, Stoppable, Existing, Terminal
    <2>3. QED
      BY <2>1, <2>2
  <1>9. CASE StopClear(c) \/ Submit(c)
    BY <1>9 DEF StopClear, Submit, ReadJob
  <1>10. CASE \E j \in Jobs : Pause(c, j) \/ Resume(c, j) \/ Retry(c, j)
    BY <1>10 DEF Pause, Resume, Retry, ReadJob, Quiet, stopVars
  <1>11. CASE \E j \in Jobs : Cancel(c, j)
    <2>1. call[c] = "idle" /\ holder' = holder
      BY <1>11 DEF Cancel, ReadForCancel, ReadJob, Quiet, stopVars
    <2>2. call'[c] \in {"cancelFlag", "cancelWrite"}
      BY <1>11 DEF Cancel, ReadForCancel, ReadJob
    <2>3. QED
      BY <2>1, <2>2
  <1>12. QED
    BY <1>1, <1>2, <1>3, <1>4, <1>5, <1>6, <1>7, <1>8, <1>9, <1>10, <1>11
       DEF CallStep, NewCall

LEMMA NoScheduleStep ==
  ASSUME StopsAlone, TypeOK, NoSchedule, [Next]_vars
  PROVE  NoSchedule'
  <1> USE SchedulerAssumption DEF StopsAlone, NoSchedule, TypeOK, InstanceTypes
  <1>1. ASSUME NEW i \in Instances, WorkerStep(i)
        PROVE  NoSchedule'
    BY <1>1 DEF WorkerStep, Reap, ScheduleDue, ScheduleRate, ScheduleInsert, SchedulesDone,
                SelectJob, SelectNothing, Spawn, WorkerGoes, WorkerAt
  <1>2. ASSUME NEW i \in Instances, Boot(i) \/ BootStep(i) \/ Terminate(i)
        PROVE  NoSchedule'
    BY <1>2 DEF Boot, BootStep, RecoverJob, BootDone, BootFrame, Terminate, workerVars
  <1>3. ASSUME NEW a \in Attempts, ThreadStep(a) \/ ToolExits(a)
        PROVE  NoSchedule'
    BY <1>3, ThreadsKeep DEF workerVars
  <1>4. ASSUME NEW c \in Clients, CallStep(c) \/ NewCall(c)
        PROVE  NoSchedule'
    BY <1>4, ClientsGuarantee DEF ClientGuarantee
  <1>5. CASE UNCHANGED vars
    BY <1>5 DEF vars, workerVars
  <1>6. QED
    BY <1>1, <1>2, <1>3, <1>4, <1>5 DEF Next

LEMMA HolderStep ==
  ASSUME TypeOK, HolderInv, [Next]_vars
  PROVE  HolderInv'
  <1> USE SchedulerAssumption DEF HolderInv, TypeOK, InstanceTypes
  <1>0. ASSUME UNCHANGED <<holder, call>>
        PROVE  HolderInv'
    BY <1>0
  <1>1. ASSUME NEW i \in Instances, Boot(i) \/ BootStep(i)
        PROVE  HolderInv'
    BY <1>0, <1>1 DEF Boot, BootStep, RecoverJob, BootDone, BootFrame, clientVars, stopVars
  <1>2. ASSUME NEW i \in Instances, Terminate(i)
        PROVE  HolderInv'
    BY <1>2 DEF Terminate
  <1>3. ASSUME NEW i \in Instances, WorkerStep(i)
        PROVE  HolderInv'
    BY <1>0, <1>3, WorkersKeep DEF stopVars, clientVars
  <1>4. ASSUME NEW a \in Attempts, ThreadStep(a) \/ ToolExits(a)
        PROVE  HolderInv'
    BY <1>0, <1>4, ThreadsKeep DEF stopVars, clientVars
  <1>5. ASSUME NEW c \in Clients, CallStep(c) \/ NewCall(c)
        PROVE  HolderInv'
    <2>1. \A d \in Clients \ {c} : call'[d] = call[d]
      BY <1>5, ClientsKeep
    <2>2. holder'[Home[c]] = c => call'[c] \in StopPoints
      BY <1>5, HolderByClient DEF HolderInv
    <2>3. /\ \A i \in Instances \ {Home[c]} : holder'[i] = holder[i]
          /\ holder'[Home[c]] \in {holder[Home[c]], c, None}
      BY <1>5, StopVarsByClient
    <2>4. QED
      BY <2>1, <2>2, <2>3
  <1>6. CASE UNCHANGED vars
    BY <1>0, <1>6 DEF vars, stopVars, clientVars
  <1>7. QED
    BY <1>1, <1>2, <1>3, <1>4, <1>5, <1>6 DEF Next

LEMMA QueueStep ==
  ASSUME StopsAlone, TypeOK, QueueInv, [Next]_vars
  PROVE  QueueInv'
  <1> USE SchedulerAssumption
  <1>1. HolderInv' /\ NoSchedule'
    BY HolderStep, NoScheduleStep DEF QueueInv
  <1>2. ASSUME NEW c \in Clients
        PROVE  ToVisit(c)'
    <2>0. ASSUME UNCHANGED <<holder, call, todo, arg>>, Queued' \subseteq Queued
          PROVE  ToVisit(c)'
      BY <2>0 DEF QueueInv, ToVisit
    <2>1. ASSUME NEW i \in Instances, Boot(i) \/ BootStep(i)
          PROVE  ToVisit(c)'
      <3>1. Queued' \subseteq Queued
        BY <2>1, NothingQueued DEF QueueInv
      <3>2. QED
        BY <2>0, <2>1, <3>1
           DEF Boot, BootStep, RecoverJob, BootDone, BootFrame, clientVars, stopVars
    <2>2. ASSUME NEW i \in Instances, Terminate(i)
          PROVE  ToVisit(c)'
      <3>1. Queued' \subseteq Queued
        BY <2>2, NothingQueued DEF QueueInv
      <3>2. QED
        BY <2>2, <3>1 DEF Terminate, QueueInv, ToVisit, TypeOK, ClientTypes, InstanceTypes
    <2>3. ASSUME NEW i \in Instances, WorkerStep(i)
          PROVE  ToVisit(c)'
      BY <2>0, <2>3, NothingQueued, WorkersKeep DEF QueueInv, stopVars, clientVars
    <2>4. ASSUME NEW a \in Attempts, ThreadStep(a) \/ ToolExits(a)
          PROVE  ToVisit(c)'
      BY <2>0, <2>4, NothingQueued, ThreadsKeep DEF QueueInv, stopVars, clientVars
    <2>5. ASSUME NEW d \in Clients, CallStep(d) \/ NewCall(d)
          PROVE  ToVisit(c)'
      BY <2>5, VisitsByClient DEF StopsAlone
    <2>6. CASE UNCHANGED vars
      BY <2>0, <2>6 DEF vars, jobVars, stopVars, clientVars, Queued
    <2>7. QED
      BY <2>1, <2>2, <2>3, <2>4, <2>5, <2>6 DEF Next
  <1>3. QED
    BY <1>1, <1>2 DEF QueueInv

\* An emergency stop that no submission overlaps leaves no job QUEUED, whatever
\* the executor threads and the other instances do while it goes through its
\* list.
THEOREM StopEmptiesQueue ==
  ASSUME StopsAlone
  PROVE  Spec => StopLeavesNoneQueued
  <1>1. Init => QueueInv
    BY SchedulerAssumption DEF Init, QueueInv, HolderInv, NoSchedule, ToVisit
  <1>2. TypeOK /\ QueueInv /\ [Next]_vars => QueueInv'
    BY QueueStep
  <1>3. QueueInv => \A c \in Clients : StopRelease(c) => \A j \in Jobs : state[j] # "QUEUED"
    BY DEF QueueInv, ToVisit, Queued, StopRelease, ClientGoes
  <1>4. QED
    BY <1>1, <1>2, <1>3, TypeCorrect, PTL DEF Spec, StopLeavesNoneQueued

-----------------------------------------------------------------------------
(***************************************************************************)
(* The scheduler implements JobLifecycle, when nobody pauses, cancels or   *)
(* stops: one instance at a time with one slot, killed and bootstrapped    *)
(* again at any step, any number of clients, jobs and attempts.  The       *)
(* argument: one thread at most is alive; a job is QUEUED until its thread *)
(* claims it and RUNNING until the thread or a recovery settles it, so the *)
(* thread that launches is the first of its job.                           *)
(***************************************************************************)

\* No operation that interferes with a job after its submission.
Undisturbed == Ops \cap {"pause", "resume", "cancel", "stop"} = {}

OpenPoints == {"idle", "submitCheck", "submitRate", "submitInsert",
               "clearPersist", "clearWindows"}

CalmInv ==
    /\ \A c \in Clients : call[c] \in OpenPoints
    /\ \A i \in Instances : cancelFlags[i] = {}
    /\ \A i \in Instances : toFail[i] # {} => phase[i] = "recovering"
    /\ \A a \in Attempts : pc[a] # "cancelled" /\ outcome[a] # "cancelled"

\* What a client that does not interfere can do to jobs and tools.
LEMMA CalmClient ==
  ASSUME Undisturbed, TypeOK, CalmInv, NEW c \in Clients, CallStep(c) \/ NewCall(c)
  PROVE  /\ call'[c] \in OpenPoints
         /\ UNCHANGED <<cancelFlags, tool, threadVars, phase, toFail, threads, picked>>
         /\ state' = state \/ \E j \in Jobs : InsertJob(j)
  <1> USE DEF CalmInv, OpenPoints, Undisturbed, TypeOK, ClientTypes, ClientFrame, Quiet,
              ClientGoes, ReadJob, CanCall, jobVars, bootVars
  <1>1. CASE SubmitCheck(c) \/ SubmitRate(c) \/ SubmitInsert(c) \/ ClearWindows(c)
    BY <1>1 DEF SubmitCheck, SubmitRate, SubmitInsert, ClearWindows
  <1>2. CASE ClearPersist(c)
    BY <1>2 DEF ClearPersist, SetStopRow
  <1>3. CASE Submit(c) \/ StopClear(c)
    BY <1>3 DEF Submit, StopClear
  <1>4. CASE \E j \in Jobs : Retry(c, j)
    BY <1>4 DEF Retry
  <1>5. ~ \/ PauseSignal(c) \/ ResumeSignal(c) \/ PauseWrite(c) \/ ResumeWrite(c)
          \/ CancelFlag(c) \/ CancelMark(c) \/ CancelKill(c) \/ CancelWrite(c)
    BY DEF PauseSignal, ResumeSignal, PauseWrite, ResumeWrite, ClientWrites, CancelFlag,
           CancelMark, CancelKill, CancelWrite
  <1>6. ~ (StopNext(c) \/ StopRelease(c) \/ StopPersist(c))
    BY DEF StopNext, StopRelease, StopPersist, SetStopRow
  <1>7. ~ \/ EmergencyStop(c)
          \/ \E j \in Jobs : Pause(c, j) \/ Resume(c, j) \/ Cancel(c, j)
    BY DEF EmergencyStop, Pause, Resume, Cancel
  <1>8. QED
    BY <1>1, <1>2, <1>3, <1>4, <1>5, <1>6, <1>7 DEF CallStep, NewCall

\* Without a flag no thread becomes cancelled.
LEMMA CalmThread ==
  ASSUME TypeOK, CalmInv, NEW a \in Attempts, ThreadStep(a) \/ ToolExits(a)
  PROVE  \A b \in Attempts : pc'[b] # "cancelled" /\ outcome'[b] # "cancelled"
  <1> USE DEF TypeOK, ThreadTypes, CalmInv, ThreadAt
  <1>0. ~Flagged(a) \/ pc[a] = "idle"
    BY DEF Flagged
  <1>1. CASE Start(a) \/ SeeCancel(a) \/ Recheck(a)
    BY <1>0, <1>1 DEF Start, SeeCancel, LeavePoll, Recheck
  <1>2. CASE Launch(a) \/ Register(a) \/ Unregister(a) \/ Raises(a)
    BY <1>2 DEF Launch, Register, Unregister, Raises
  <1>3. CASE SeeExit(a) \/ SeeGarbled(a) \/ SeeDeadline(a) \/ ToolExits(a)
    BY <1>3 DEF SeeExit, SeeGarbled, SeeDeadline, LeavePoll, ToolExits
  <1>4. CASE Claim(a) \/ LaunchFails(a) \/ Finish(a) \/ CancelBeforeStart(a)
    BY <1>4 DEF Claim, LaunchFails, Finish, CancelBeforeStart, ThreadWrites
  <1>5. QED
    BY <1>1, <1>2, <1>3, <1>4 DEF ThreadStep

LEMMA CalmStep ==
  ASSUME Undisturbed, TypeOK, CalmInv, [Next]_vars
  PROVE  CalmInv'
  <1> USE DEF TypeOK, ThreadTypes, InstanceTypes, ClientTypes
  <1>1. ASSUME NEW i \in Instances, Boot(i) \/ BootStep(i)
        PROVE  CalmInv'
    BY <1>1 DEF Boot, BootStep, RecoverJob, BootDone, BootFrame, clientVars, memVars,
                threadVars, CalmInv
  <1>2. ASSUME NEW i \in Instances, Terminate(i)
        PROVE  CalmInv'
    BY <1>2 DEF Terminate, CalmInv, OpenPoints
  <1>3. ASSUME NEW i \in Instances, WorkerStep(i)
        PROVE  CalmInv'
    <2>1. call' = call /\ outcome' = outcome
      BY <1>3, WorkersKeep DEF clientVars
    <2>2. \A a \in Attempts : pc'[a] = pc[a] \/ pc'[a] = "start"
      BY <1>3, WorkerGuarantees DEF WorkerGuarantee
    <2>3. \A k \in Instances : cancelFlags'[k] \subseteq cancelFlags[k]
      <3>1. CASE Reap(i)
        BY <3>1 DEF Reap
      <3>2. CASE ~Reap(i)
        BY <1>3, <3>2 DEF WorkerStep, ScheduleDue, ScheduleRate, ScheduleInsert, SchedulesDone,
                          SelectJob, SelectNothing, Spawn, WorkerGoes, memVars
      <3>3. QED
        BY <3>1, <3>2
    <2>4. QED
      BY <1>3, <2>1, <2>2, <2>3, WorkersKeep DEF CalmInv, bootVars
  <1>4. ASSUME NEW a \in Attempts, ThreadStep(a) \/ ToolExits(a)
        PROVE  CalmInv'
    BY <1>4, ThreadsKeep, CalmThread DEF CalmInv, clientVars, bootVars
  <1>5. ASSUME NEW c \in Clients, CallStep(c) \/ NewCall(c)
        PROVE  CalmInv'
    <2>1. /\ call'[c] \in OpenPoints
          /\ UNCHANGED <<cancelFlags, phase, toFail, pc, outcome>>
      BY <1>5, CalmClient DEF threadVars
    <2>2. \A d \in Clients \ {c} : call'[d] = call[d]
      BY <1>5, ClientsKeep
    <2>3. QED
      BY <2>1, <2>2 DEF CalmInv
  <1>6. CASE UNCHANGED vars
    BY <1>6 DEF vars, clientVars, memVars, threadVars, bootVars, CalmInv
  <1>7. QED
    BY <1>1, <1>2, <1>3, <1>4, <1>5, <1>6 DEF Next

-----------------------------------------------------------------------------
(* One thread at a time.                                                   *)

OneSlot == OneInstance /\ MaxConcurrent = 1

LEMMA OneThread ==
  ASSUME OneSlot, TypeOK, SlotInv, TableInv
  PROVE  /\ \A a, b \in Attempts : LiveThread(a) /\ LiveThread(b) => a = b
         /\ \A i \in Instances, a \in Attempts : worker[i] = "spawn" => ~LiveThread(a)
  <1> USE DEF OneSlot, OneInstance
  <1>1. \A a \in Attempts : LiveThread(a) => /\ hostOf[a] \in Instances
                                             /\ jobOf[a] \in Used(hostOf[a])
    BY SchedulerAssumption DEF LiveThread, TypeOK, ThreadTypes, TableInv, Used
  <1>2. ASSUME NEW i \in Instances, NEW j \in Used(i)
        PROVE  Cardinality(Used(i)) = 1
    <2>1. Used(i) # {}
      BY <1>2
    <2>2. Cardinality(Used(i)) # 0
      BY <2>1, UsedFinite, FS_EmptySet
    <2>3. QED
      BY <2>2, UsedFinite DEF SlotInv
  <1>3. ASSUME NEW i \in Instances, NEW j \in Used(i), NEW k \in Used(i)
        PROVE  j = k
    <2>1. PICK x : Used(i) = {x}
      BY <1>2, FS_Singleton, UsedFinite
    <2>2. QED
      BY <2>1
  <1>4. ASSUME NEW a \in Attempts, NEW b \in Attempts, LiveThread(a), LiveThread(b)
        PROVE  a = b
    <2>1. hostOf[a] = hostOf[b]
      BY <1>1, <1>4
    <2>2. jobOf[a] = jobOf[b]
      BY <1>1, <1>3, <1>4, <2>1
    <2>3. QED
      BY <1>4, <2>1, <2>2 DEF TableInv
  <1>5. ASSUME NEW i \in Instances, NEW a \in Attempts, worker[i] = "spawn", LiveThread(a)
        PROVE  FALSE
    <2>1. hostOf[a] = i
      BY <1>1, <1>5
    <2>2. Cardinality(Used(i)) = 1
      BY <1>1, <1>2, <1>5, <2>1
    <2>3. QED
      BY <1>5, <2>2 DEF SlotInv
  <1>6. QED
    BY <1>4, <1>5

-----------------------------------------------------------------------------
(* The life of a job, told by its state, its thread and its tools.         *)

Unlaunched(j) == \A a \in Attempts : jobOf[a] = j => tool[a] = "none"

WaitInv ==
    /\ \A a \in Attempts : pc[a] \in {"start", "claim"} => state[jobOf[a]] = "QUEUED"
    /\ \A i \in Instances : worker[i] = "spawn" => state[picked[i]] = "QUEUED"
    /\ \A j \in Jobs : state[j] \in {"ABSENT", "QUEUED"} => Unlaunched(j)

RunInv ==
    /\ \A a \in Attempts : Executing(a) => state[jobOf[a]] = "RUNNING"
    /\ \A a \in Attempts : pc[a] = "launch" => Unlaunched(jobOf[a])
    /\ \A a \in Attempts : Executing(a) /\ pc[a] # "launch" => tool[a] # "none"
    /\ \A i \in Instances : \A j \in toFail[i] : state[j] = "RUNNING"

OneLaunch ==
    \A a, b \in Attempts :
        tool[a] # "none" /\ tool[b] # "none" /\ jobOf[a] = jobOf[b] => a = b

IdleInv == \A a \in Attempts : pc[a] = "idle" => tool[a] = "none"

LifeInv == WaitInv /\ RunInv /\ OneLaunch /\ IdleInv

\* The transitions of the abstract job, and the stutter, as one action.
LifeStep == Abstract!Next \/ UNCHANGED <<state, launches>>

SameLaunches ==
    \A a \in Attempts, j \in Jobs :
        (jobOf'[a] = j /\ tool'[a] # "none") <=> (jobOf[a] = j /\ tool[a] # "none")

LEMMA LaunchesKeep ==
  ASSUME SameLaunches
  PROVE  launches' = launches
  <1>1. ASSUME NEW j \in Jobs
        PROVE  {a \in Attempts : jobOf'[a] = j /\ tool'[a] # "none"}
                 = {a \in Attempts : jobOf[a] = j /\ tool[a] # "none"}
    BY DEF SameLaunches
  <1>2. QED
    BY <1>1 DEF launches

\* A job none of whose attempts launched counts none, one whose attempt did one.
LEMMA LaunchCount ==
  ASSUME OneLaunch, NEW j \in Jobs
  PROVE  /\ Unlaunched(j) => launches[j] = 0
         /\ (\E a \in Attempts : jobOf[a] = j /\ tool[a] # "none") => launches[j] = 1
  <1> DEFINE L == {a \in Attempts : jobOf[a] = j /\ tool[a] # "none"}
  <1>1. launches[j] = Cardinality(L)
    BY DEF launches
  <1>2. Unlaunched(j) => L = {}
    BY DEF Unlaunched
  <1>3. ASSUME NEW a \in Attempts, jobOf[a] = j, tool[a] # "none"
        PROVE  L = {a}
    BY <1>3 DEF OneLaunch
  <1> HIDE DEF L
  <1>4. ASSUME NEW a \in Attempts, jobOf[a] = j, tool[a] # "none"
        PROVE  launches[j] = 1
    BY <1>1, <1>3, <1>4, FS_Singleton
  <1>5. QED
    BY <1>1, <1>2, <1>4, FS_EmptySet

\* Whoever leaves jobs, tools and the threads' places alone changes nothing.
LEMMA LifeFrame ==
  ASSUME LifeInv, UNCHANGED <<state, jobOf, tool>>,
         \A a \in Attempts : pc'[a] = pc[a] \/ (pc[a] # "idle" /\ pc'[a] = "lost"),
         \A i \in Instances :
            \/ worker'[i] # "spawn"
            \/ worker[i] = "spawn" /\ picked'[i] = picked[i],
         \A i \in Instances : \A j \in toFail'[i] : state[j] = "RUNNING"
  PROVE  LifeInv' /\ LifeStep
  <1>1. LifeInv'
    BY DEF LifeInv, WaitInv, RunInv, OneLaunch, IdleInv, Executing, Unlaunched
  <1>2. SameLaunches
    BY DEF SameLaunches
  <1>3. QED
    BY <1>1, <1>2, LaunchesKeep DEF LifeStep

LEMMA LifeByInsert ==
  ASSUME TypeOK, LifeInv, NEW j \in Jobs, InsertJob(j),
         UNCHANGED <<pc, jobOf, tool, toFail>>,
         \A i \in Instances :
            \/ worker'[i] # "spawn"
            \/ worker[i] = "spawn" /\ picked'[i] = picked[i]
  PROVE  LifeInv' /\ LifeStep
  <1>1. /\ state[j] = "ABSENT" /\ state'[j] = "QUEUED"
        /\ \A k \in Jobs \ {j} : state'[k] = state[k]
        /\ state' = [state EXCEPT ![j] = "QUEUED"]
    BY DEF InsertJob, SetState, TypeOK, DataTypes
  <1>2. WaitInv'
    BY <1>1 DEF LifeInv, WaitInv, Unlaunched, TypeOK, ThreadTypes, InstanceTypes
  <1>3. RunInv'
    BY <1>1 DEF LifeInv, RunInv, Unlaunched, Executing, TypeOK, ThreadTypes, InstanceTypes
  <1>4. OneLaunch' /\ IdleInv'
    BY DEF LifeInv, OneLaunch, IdleInv
  <1>5. launches' = launches
    BY LaunchesKeep DEF SameLaunches
  <1>6. Abstract!Create(j)
    BY <1>1, <1>5 DEF Abstract!Create, Abstract!Move
  <1>7. QED
    BY <1>2, <1>3, <1>4, <1>6 DEF LifeInv, LifeStep, Abstract!Next

LEMMA LifeByInstance ==
  ASSUME OneSlot, TypeOK, UpInv, LifeInv,
         NEW i \in Instances, Boot(i) \/ BootStep(i) \/ Terminate(i)
  PROVE  LifeInv' /\ LifeStep
  <1>1. CASE Boot(i)
    BY <1>1, LifeFrame
       DEF Boot, BootFrame, workerVars, threadVars, jobVars, Interrupted, LifeInv, RunInv,
           TypeOK, InstanceTypes
  <1>2. CASE BootDone(i)
    BY <1>2, LifeFrame DEF BootDone, BootFrame, workerVars, threadVars, jobVars, LifeInv, RunInv
  <1>3. CASE Terminate(i)
    <2>1. \A a \in Attempts : pc'[a] = pc[a] \/ (pc[a] # "idle" /\ pc'[a] = "lost")
      BY <1>3, SchedulerAssumption DEF Terminate, TypeOK, ThreadTypes
    <2>2. UNCHANGED <<state, jobOf, tool>>
      BY <1>3 DEF Terminate, jobVars
    <2>3. \A k \in Instances : worker'[k] = "off" /\ toFail'[k] = {}
      BY <1>3 DEF Terminate, OneSlot, OneInstance, TypeOK, InstanceTypes
    <2>4. QED
      BY <2>1, <2>2, <2>3, LifeFrame
  <1>4. CASE RecoverJob(i)
    <2>1. PICK j \in toFail[i] : FailInterrupted(j) /\ toFail' = [toFail EXCEPT ![i] = @ \ {j}]
      BY <1>4 DEF RecoverJob
    <2>2. /\ UNCHANGED <<tool, pc, jobOf, worker, picked>>
          /\ phase[i] = "recovering"
      BY <1>4 DEF RecoverJob, BootFrame, threadVars, workerVars
    <2>3. /\ \A a \in Attempts : ~LiveThread(a)
          /\ worker[i] = "off"
      BY <2>2 DEF UpInv, OneSlot, OneInstance, LiveThread, TypeOK, ThreadTypes
    <2>4. /\ j \in Jobs /\ state[j] = "RUNNING" /\ state'[j] = "FAILED"
          /\ \A k \in Jobs \ {j} : state'[k] = state[k]
          /\ state' = [state EXCEPT ![j] = "FAILED"]
      BY <2>1 DEF LifeInv, RunInv, FailInterrupted, SetState, TypeOK, DataTypes, InstanceTypes
    <2>5. WaitInv'
      BY <2>2, <2>3, <2>4
         DEF LifeInv, WaitInv, Unlaunched, LiveThread, Ended, OneSlot, OneInstance
    <2>6. RunInv'
      <3>1. \A k \in Instances : \A l \in toFail'[k] : l \in Jobs /\ l # j /\ state[l] = "RUNNING"
        BY <2>1 DEF LifeInv, RunInv, OneSlot, OneInstance, TypeOK, InstanceTypes
      <3>2. QED
        BY <2>2, <2>3, <2>4, <3>1 DEF RunInv, Executing, LiveThread, Ended
    <2>7. OneLaunch' /\ IdleInv'
      BY <2>2 DEF LifeInv, OneLaunch, IdleInv
    <2>8. launches' = launches
      BY <2>2, LaunchesKeep DEF SameLaunches
    <2>9. Abstract!Fail(j)
      BY <2>4, <2>8 DEF Abstract!Fail, Abstract!Move
    <2>10. QED
      BY <2>4, <2>5, <2>6, <2>7, <2>9 DEF LifeInv, LifeStep, Abstract!Next
  <1>5. QED
    BY <1>1, <1>2, <1>3, <1>4 DEF BootStep

LEMMA LifeByWorker ==
  ASSUME TypeOK, LifeInv, NEW i \in Instances, WorkerStep(i)
  PROVE  LifeInv' /\ LifeStep
  <1> USE DEF TypeOK, InstanceTypes, WorkerAt, WorkerGoes, jobVars, memVars
  <1>0. UNCHANGED <<tool, toFail>>
    BY WorkersKeep DEF bootVars
  <1>1. CASE Reap(i) \/ ScheduleDue(i) \/ ScheduleRate(i) \/ SchedulesDone(i) \/ SelectNothing(i)
    <2>1. UNCHANGED <<state, jobOf, pc>>
      BY <1>1 DEF Reap, ScheduleDue, ScheduleRate, SchedulesDone, SelectNothing
    <2>2. \A k \in Instances : worker'[k] = worker[k] \/ worker'[k] # "spawn"
      BY <1>1 DEF Reap, ScheduleDue, ScheduleRate, SchedulesDone, SelectNothing
    <2>3. picked' = picked
      BY <1>1 DEF Reap, ScheduleDue, ScheduleRate, SchedulesDone, SelectNothing
    <2>4. QED
      BY <1>0, <2>1, <2>2, <2>3, LifeFrame DEF LifeInv, RunInv
  <1>2. CASE ScheduleInsert(i)
    BY <1>0, <1>2, LifeByInsert DEF ScheduleInsert
  <1>3. CASE SelectJob(i)
    <2>1. UNCHANGED <<state, jobOf, pc>>
      BY <1>3 DEF SelectJob
    <2>2. PICK j \in Jobs : state[j] = "QUEUED" /\ picked' = [picked EXCEPT ![i] = j]
      BY <1>3 DEF SelectJob, IsNext
    <2>3. \A k \in Instances : worker'[k] = "spawn" => state[picked'[k]] = "QUEUED"
      BY <1>3, <2>2 DEF SelectJob, LifeInv, WaitInv
    <2>4. LifeInv'
      BY <1>0, <2>1, <2>3
         DEF LifeInv, WaitInv, RunInv, OneLaunch, IdleInv, Executing, Unlaunched
    <2>5. QED
      BY <1>0, <2>1, <2>4, LaunchesKeep DEF SameLaunches, LifeStep
  <1>4. CASE Spawn(i)
    <2>1. PICK a \in Attempts :
            /\ pc[a] = "idle" /\ pc' = [pc EXCEPT ![a] = "start"]
            /\ jobOf' = [jobOf EXCEPT ![a] = picked[i]]
      BY <1>4 DEF Spawn
    <2>2. /\ a \in Attempts /\ pc'[a] = "start" /\ jobOf'[a] = picked[i]
          /\ \A b \in Attempts \ {a} : pc'[b] = pc[b] /\ jobOf'[b] = jobOf[b]
      BY <2>1 DEF ThreadTypes
    <2>3. /\ worker[i] = "spawn" /\ state' = state /\ picked' = [picked EXCEPT ![i] = None]
          /\ worker' = [worker EXCEPT ![i] = "reap"]
      BY <1>4 DEF Spawn
    <2>4. tool[a] = "none" /\ state[picked[i]] = "QUEUED"
      BY <2>1, <2>3 DEF LifeInv, IdleInv, WaitInv
    <2>5. WaitInv'
      <3>1. \A k \in Instances : worker'[k] = "spawn" => state'[picked'[k]] = "QUEUED"
        BY <2>3 DEF LifeInv, WaitInv
      <3>2. \A b \in Attempts : pc'[b] \in {"start", "claim"} => state'[jobOf'[b]] = "QUEUED"
        BY <2>2, <2>3, <2>4 DEF LifeInv, WaitInv
      <3>3. \A j \in Jobs : Unlaunched(j) => Unlaunched(j)'
        BY <1>0, <2>2, <2>4 DEF Unlaunched
      <3>4. QED
        BY <2>3, <3>1, <3>2, <3>3 DEF LifeInv, WaitInv
    <2>6. RunInv'
      <3>1. \A b \in Attempts : pc'[b] = "launch" => Unlaunched(jobOf[b])'
        BY <1>0, <2>2, <2>4 DEF LifeInv, RunInv, Unlaunched
      <3>2. \A b \in Attempts : Executing(b)' => b # a /\ Executing(b) /\ pc'[b] = pc[b]
        BY <2>2 DEF Executing
      <3>3. \A b \in Attempts : Executing(b)' => jobOf'[b] = jobOf[b]
        BY <2>2, <3>2
      <3>4. \A b \in Attempts : Executing(b)' => state'[jobOf'[b]] = "RUNNING"
        BY <2>3, <3>2, <3>3 DEF LifeInv, RunInv
      <3>5. \A b \in Attempts : Executing(b)' /\ pc'[b] # "launch" => tool'[b] # "none"
        BY <1>0, <3>2 DEF LifeInv, RunInv
      <3>6. \A k \in Instances : \A j \in toFail'[k] : state'[j] = "RUNNING"
        BY <1>0, <2>3 DEF LifeInv, RunInv
      <3>7. QED
        BY <3>1, <3>4, <3>5, <3>6 DEF RunInv
    <2>7. OneLaunch'
      BY <1>0, <2>2, <2>4 DEF LifeInv, OneLaunch
    <2>8. IdleInv'
      BY <1>0, <2>2, <2>4 DEF LifeInv, IdleInv
    <2>9. SameLaunches
      BY <1>0, <2>2, <2>4 DEF SameLaunches
    <2>10. QED
      BY <2>3, <2>5, <2>6, <2>7, <2>8, <2>9, LaunchesKeep DEF LifeInv, LifeStep
  <1>5. QED
    BY <1>1, <1>2, <1>3, <1>4 DEF WorkerStep

\* A thread that neither claims, nor launches, nor settles its job.
LEMMA LifeByQuietThread ==
  ASSUME TypeOK, LifeInv, NEW a \in Attempts,
         \/ Start(a) \/ Register(a) \/ SeeCancel(a) \/ SeeExit(a) \/ SeeDeadline(a)
         \/ SeeGarbled(a) \/ Recheck(a) \/ Unregister(a) \/ Raises(a) \/ ToolExits(a)
  PROVE  LifeInv' /\ LifeStep
  <1>0. /\ UNCHANGED <<jobOf, worker, picked, toFail>>
    BY ThreadsKeep DEF workerVars, bootVars, ThreadStep
  <1> USE DEF TypeOK, ThreadTypes, ThreadAt, LeavePoll, Kill, Alive
  <1>1. state' = state
    BY DEF Start, Register, SeeCancel, SeeExit, SeeDeadline, SeeGarbled, Recheck, Unregister,
           Raises, ToolExits
  <1>2. \A b \in Attempts : tool'[b] # "none" <=> tool[b] # "none"
    BY DEF Start, Register, SeeCancel, SeeExit, SeeDeadline, SeeGarbled, Recheck, Unregister,
           Raises, ToolExits
  <1>3. /\ \A b \in Attempts \ {a} : pc'[b] = pc[b]
        /\ \/ pc'[a] = pc[a]
           \/ pc[a] = "start" /\ pc'[a] \in {"claim", "cancelled"}
           \/ /\ pc[a] \in {"register", "poll", "recheck", "unregister"}
              /\ pc'[a] \in {"poll", "recheck", "unregister", "finish"}
           \/ pc'[a] = "raised"
    BY DEF Start, Register, SeeCancel, SeeExit, SeeDeadline, SeeGarbled, Recheck, Unregister,
           Raises, ToolExits
  <1>4. WaitInv'
    BY <1>0, <1>1, <1>2, <1>3 DEF LifeInv, WaitInv, Unlaunched
  <1>5. RunInv'
    BY <1>0, <1>1, <1>2, <1>3 DEF LifeInv, RunInv, Unlaunched, Executing
  <1>6. OneLaunch' /\ IdleInv'
    BY <1>0, <1>2, <1>3 DEF LifeInv, OneLaunch, IdleInv
  <1>7. launches' = launches
    BY <1>0, <1>2, LaunchesKeep DEF SameLaunches
  <1>8. QED
    BY <1>1, <1>4, <1>5, <1>6, <1>7 DEF LifeInv, LifeStep

\* The one thread alive claims its job, launches its tool, or settles the job.
LEMMA LifeByClaim ==
  ASSUME OneSlot, TypeOK, SlotInv, TableInv, LifeInv, NEW a \in Attempts, Claim(a)
  PROVE  LifeInv' /\ LifeStep
  <1> DEFINE j == jobOf[a]
  <1>0. UNCHANGED <<jobOf, worker, picked, toFail>>
    BY ThreadsKeep DEF workerVars, bootVars, ThreadStep
  <1>1. /\ pc[a] = "claim" /\ pc'[a] = "launch" /\ j \in Jobs /\ state[j] = "QUEUED"
        /\ \A b \in Attempts \ {a} : pc'[b] = pc[b] /\ ~LiveThread(b)
        /\ LiveThread(a)
    BY OneThread DEF Claim, ThreadWrites, ThreadAt, TypeOK, ThreadTypes, LifeInv, WaitInv,
                     LiveThread, Ended
  <1>2. /\ state' = [state EXCEPT ![j] = "RUNNING"] /\ tool' = tool /\ state'[j] = "RUNNING"
        /\ \A k \in Jobs \ {j} : state'[k] = state[k]
    BY <1>1 DEF Claim, ThreadWrites, SetState, TypeOK, DataTypes
  <1>3. \A i \in Instances : worker[i] # "spawn"
    BY <1>1, OneThread
  <1>4. WaitInv'
    BY <1>0, <1>1, <1>2, <1>3 DEF LifeInv, WaitInv, Unlaunched, LiveThread, Ended
  <1>5. RunInv'
    <2>1. Unlaunched(j)'
      BY <1>0, <1>1, <1>2 DEF LifeInv, WaitInv, Unlaunched
    <2>2. \A i \in Instances : \A k \in toFail'[i] : state'[k] = "RUNNING"
      BY <1>0, <1>2 DEF LifeInv, RunInv, TypeOK, InstanceTypes
    <2>3. QED
      BY <1>0, <1>1, <1>2, <2>1, <2>2 DEF RunInv, Executing, LiveThread, Ended
  <1>6. OneLaunch' /\ IdleInv'
    BY <1>0, <1>1, <1>2 DEF LifeInv, OneLaunch, IdleInv
  <1>7. launches' = launches
    BY <1>0, <1>2, LaunchesKeep DEF SameLaunches
  <1>8. Abstract!Run(j)
    BY <1>1, <1>2, <1>7 DEF Abstract!Run, Abstract!Move
  <1>9. QED
    BY <1>1, <1>4, <1>5, <1>6, <1>8 DEF LifeInv, LifeStep, Abstract!Next

LEMMA LifeByLaunch ==
  ASSUME OneSlot, TypeOK, SlotInv, TableInv, LifeInv, NEW a \in Attempts, Launch(a)
  PROVE  LifeInv' /\ LifeStep
  <1> DEFINE j == jobOf[a]
  <1>0. UNCHANGED <<jobOf, worker, picked, toFail>>
    BY ThreadsKeep DEF workerVars, bootVars, ThreadStep
  <1>1. /\ pc[a] = "launch" /\ pc'[a] = "register" /\ j \in Jobs /\ LiveThread(a)
        /\ \A b \in Attempts \ {a} : pc'[b] = pc[b] /\ ~LiveThread(b)
    BY OneThread DEF Launch, ThreadAt, TypeOK, ThreadTypes, LiveThread, Ended
  <1>2. /\ state' = state /\ tool'[a] = "running"
        /\ \A b \in Attempts \ {a} : tool'[b] = tool[b]
    BY DEF Launch, TypeOK, ThreadTypes
  <1>3. state[j] = "RUNNING" /\ Unlaunched(j)
    BY <1>1 DEF LifeInv, RunInv, Executing
  <1>4. WaitInv'
    BY <1>0, <1>1, <1>2, <1>3 DEF LifeInv, WaitInv, Unlaunched
  <1>5. RunInv'
    BY <1>0, <1>1, <1>2, <1>3 DEF LifeInv, RunInv, Executing, LiveThread, Ended, Unlaunched
  <1>6. OneLaunch' /\ IdleInv'
    BY <1>0, <1>1, <1>2, <1>3 DEF LifeInv, OneLaunch, IdleInv, Unlaunched
  <1>7. launches[j] = 0 /\ launches'[j] = 1
    <2>1. launches[j] = 0
      BY <1>1, <1>3, LaunchCount DEF LifeInv
    <2>2. {b \in Attempts : jobOf'[b] = j /\ tool'[b] # "none"} = {a}
      BY <1>0, <1>2, <1>3 DEF Unlaunched
    <2>3. launches'[j] = Cardinality({b \in Attempts : jobOf'[b] = j /\ tool'[b] # "none"})
      BY <1>1 DEF launches
    <2>4. QED
      BY <2>1, <2>2, <2>3, FS_Singleton
  <1>8. launches' = [launches EXCEPT ![j] = 1]
    <2>1. ASSUME NEW k \in Jobs \ {j}
          PROVE  {b \in Attempts : jobOf'[b] = k /\ tool'[b] # "none"}
                   = {b \in Attempts : jobOf[b] = k /\ tool[b] # "none"}
      BY <1>0, <1>2
    <2>2. \A k \in Jobs \ {j} : launches'[k] = launches[k]
      BY <2>1 DEF launches
    <2>3. launches \in [Jobs -> {launches[k] : k \in Jobs}] /\ DOMAIN launches' = Jobs
          /\ launches' = [k \in Jobs |-> launches'[k]] /\ launches = [k \in Jobs |-> launches[k]]
      BY DEF launches
    <2>4. QED
      BY <1>7, <2>2, <2>3
  <1>9. Abstract!Launch(j)
    BY <1>2, <1>3, <1>7, <1>8 DEF Abstract!Launch
  <1>10. QED
    BY <1>1, <1>4, <1>5, <1>6, <1>9 DEF LifeInv, LifeStep, Abstract!Next

LEMMA LifeBySettling ==
  ASSUME OneSlot, TypeOK, UpInv, SlotInv, TableInv, CalmInv, LifeInv,
         NEW a \in Attempts, LaunchFails(a) \/ Finish(a)
  PROVE  LifeInv' /\ LifeStep
  <1> DEFINE j == jobOf[a]
  <1>0. UNCHANGED <<jobOf, worker, picked, toFail>>
    BY ThreadsKeep DEF workerVars, bootVars, ThreadStep
  <1>1. /\ pc[a] \in {"launch", "finish"} /\ pc'[a] = "done" /\ j \in Jobs /\ LiveThread(a)
        /\ \A b \in Attempts \ {a} : pc'[b] = pc[b] /\ ~LiveThread(b)
    BY OneThread
       DEF LaunchFails, Finish, ThreadWrites, ThreadAt, TypeOK, ThreadTypes, LiveThread, Ended
  <1>2. \E s \in {"FAILED", "COMPLETED"} :
           /\ state' = [state EXCEPT ![j] = s] /\ tool' = tool
           /\ s = "COMPLETED" => pc[a] = "finish"
    BY DEF LaunchFails, Finish, ThreadWrites, ThreadAt, SetState, Verdict, CalmInv
  <1>3. PICK s \in {"FAILED", "COMPLETED"} :
           /\ state' = [state EXCEPT ![j] = s] /\ tool' = tool
           /\ s = "COMPLETED" => pc[a] = "finish"
    BY <1>2
  <1>4. state[j] = "RUNNING" /\ state'[j] = s /\ \A k \in Jobs \ {j} : state'[k] = state[k]
    BY <1>1, <1>3 DEF LifeInv, RunInv, Executing, TypeOK, DataTypes
  <1>5. \A i \in Instances : worker[i] # "spawn" /\ toFail[i] = {}
    <2>1. \A i \in Instances : phase[i] = "up"
      BY <1>1 DEF UpInv, OneSlot, OneInstance, TypeOK, ThreadTypes, LiveThread
    <2>2. QED
      BY <1>1, <2>1, OneThread DEF CalmInv
  <1>6. WaitInv'
    BY <1>0, <1>1, <1>3, <1>4, <1>5 DEF LifeInv, WaitInv, Unlaunched, LiveThread, Ended
  <1>7. RunInv'
    BY <1>0, <1>1, <1>3, <1>4, <1>5 DEF LifeInv, RunInv, Executing, LiveThread, Ended
  <1>8. OneLaunch' /\ IdleInv'
    BY <1>0, <1>1, <1>3 DEF LifeInv, OneLaunch, IdleInv
  <1>9. launches' = launches
    BY <1>0, <1>3, LaunchesKeep DEF SameLaunches
  <1>10. s = "COMPLETED" => launches[j] = 1
    BY <1>1, <1>3, LaunchCount DEF LifeInv, RunInv, Executing
  <1>11. Abstract!Fail(j) \/ Abstract!Complete(j)
    BY <1>3, <1>4, <1>9, <1>10 DEF Abstract!Fail, Abstract!Complete, Abstract!Move
  <1>12. QED
    BY <1>1, <1>6, <1>7, <1>8, <1>11 DEF LifeInv, LifeStep, Abstract!Next

\* Every step of the scheduler is a step of the abstract job, or none.
LEMMA LifeByAll ==
  ASSUME OneSlot, Undisturbed, TypeOK, UpInv, SlotInv, TableInv, CalmInv, LifeInv,
         [Next]_vars
  PROVE  LifeInv' /\ LifeStep
  <1>1. ASSUME NEW i \in Instances, Boot(i) \/ BootStep(i) \/ Terminate(i)
        PROVE  LifeInv' /\ LifeStep
    BY <1>1, LifeByInstance
  <1>2. ASSUME NEW i \in Instances, WorkerStep(i)
        PROVE  LifeInv' /\ LifeStep
    BY <1>2, LifeByWorker
  <1>3. ASSUME NEW a \in Attempts, ThreadStep(a) \/ ToolExits(a)
        PROVE  LifeInv' /\ LifeStep
    <2>1. ~CancelBeforeStart(a)
      BY DEF CancelBeforeStart, ThreadWrites, ThreadAt, CalmInv
    <2>2. QED
      BY <1>3, <2>1, LifeByQuietThread, LifeByClaim, LifeByLaunch, LifeBySettling DEF ThreadStep
  <1>4. ASSUME NEW c \in Clients, CallStep(c) \/ NewCall(c)
        PROVE  LifeInv' /\ LifeStep
    <2>1. UNCHANGED <<pc, jobOf, tool, toFail, picked>>
      BY <1>4, CalmClient DEF threadVars
    <2>2. \A i \in Instances : worker'[i] # "spawn" \/ worker[i] = "spawn"
      BY <1>4, ClientsGuarantee DEF ClientGuarantee
    <2>3. state' = state \/ \E j \in Jobs : InsertJob(j)
      BY <1>4, CalmClient
    <2>4. QED
      BY <2>1, <2>2, <2>3, LifeFrame, LifeByInsert DEF LifeInv, RunInv
  <1>5. CASE UNCHANGED vars
    BY <1>5, LifeFrame DEF vars, jobVars, threadVars, workerVars, bootVars, LifeInv, RunInv
  <1>6. QED
    BY <1>1, <1>2, <1>3, <1>4, <1>5 DEF Next

\* With one instance at a time, one slot, and nobody who pauses, cancels or
\* stops, the scheduler implements the life of a job, however often it is
\* killed and bootstrapped again: the tool of a job is launched at most once.
THEOREM LifecycleImplemented ==
  ASSUME OneSlot, Undisturbed
  PROVE  Spec => ImplementsLifecycle
  <1>1. Init => Abstract!Init /\ CalmInv /\ LifeInv
    <2> SUFFICES ASSUME Init PROVE Abstract!Init /\ CalmInv /\ LifeInv
      OBVIOUS
    <2>1. CalmInv
      BY DEF Init, CalmInv, OpenPoints
    <2>2. LifeInv
      BY DEF Init, LifeInv, WaitInv, RunInv, OneLaunch, IdleInv, Executing, Unlaunched
    <2>3. \A j \in Jobs : Unlaunched(j)
      BY DEF Init, Unlaunched
    <2>4. launches = [j \in Jobs |-> 0]
      BY <2>2, <2>3, LaunchCount DEF LifeInv, launches
    <2>5. QED
      BY <2>1, <2>2, <2>4 DEF Init, Abstract!Init
  <1>2. /\ TypeOK /\ UpInv /\ SlotInv /\ TableInv /\ CalmInv /\ LifeInv
        /\ [Next]_vars
        => CalmInv' /\ LifeInv' /\ [Abstract!Next]_(Abstract!vars)
    BY LifeByAll, CalmStep DEF LifeStep, Abstract!vars
  <1>3. Spec => []TableInv
    BY TableInvariance DEF OneSlot
  <1>4. QED
    BY <1>1, <1>2, <1>3, TypeCorrect, UpInvariance, SlotInvariance,
       PTL DEF Spec, ImplementsLifecycle, Abstract!Spec
=============================================================================
