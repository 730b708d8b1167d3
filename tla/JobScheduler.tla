---------------------------- MODULE JobScheduler ----------------------------
(***************************************************************************)
(* The central job scheduler of KSEC: ksec/scheduler/service.py and the    *)
(* job repository it writes through, ksec/jobs/models.py.                  *)
(*                                                                         *)
(* One INSTANCE is one operating-system process that has bootstrapped a    *)
(* Scheduler object (every `ksec` command, the API server, the dashboard). *)
(* Instances share the SQLite file and nothing else.  Inside an instance   *)
(* run: the worker thread (_loop), one thread per ATTEMPT to execute a job *)
(* (_execute), and the CLIENTS that call submit, retry, pause, resume,     *)
(* cancel, emergency_stop and emergency_stop_clear.  Each attempt may      *)
(* launch a TOOL, a child process that outlives a dead instance.           *)
(*                                                                         *)
(* The database connection runs in autocommit mode, so every SQL statement *)
(* is one atomic step, and so is every region under Scheduler._lock.  The  *)
(* only holder that keeps the lock across several steps is emergency_stop. *)
(***************************************************************************)
EXTENDS Integers, FiniteSets

CONSTANTS
    Instances,      \* processes that may host a Scheduler object
    Clients,        \* callers of the public operations
    Home,           \* Home[c]: the instance client c calls into
    Jobs,           \* identities of job records
    Priority,       \* Priority[j]: the job's priority column
    Attempts,       \* identities of executor threads (bounds their number)
    MaxConcurrent,  \* config.max_concurrent_jobs
    ListLimit,      \* default LIMIT of JobRepository.list
    MaxBoots,       \* bound on the number of bootstraps in a behaviour
    Ops,            \* operations that may be called in this configuration
    None

AllOps == {"submit", "retry", "pause", "resume", "cancel", "stop", "clear",
           "schedule", "terminate", "raise"}

ASSUME SchedulerAssumption ==
    /\ Home \in [Clients -> Instances]
    /\ Priority \in [Jobs -> Int]
    /\ IsFiniteSet(Jobs)
    /\ MaxConcurrent \in Nat \ {0}
    /\ ListLimit \in Nat
    /\ MaxBoots \in Nat
    /\ Ops \subseteq AllOps
    /\ None \notin Jobs \cup Attempts \cup Clients \cup Instances

VARIABLES
    state,       \* jobs.state, "ABSENT" before the row is inserted
    createdAt,   \* jobs.created_at, as a rank
    stopRow,     \* the emergency_stop row of system_state exists
    phase,       \* life of each instance
    toFail,      \* ids mark_interrupted has read and not yet failed
    stopFlag,    \* Scheduler._emergency_stop
    holder,      \* client holding Scheduler._lock across steps, or None
    worker,      \* where the worker thread is
    picked,      \* job the worker has selected
    threads,     \* Scheduler._threads
    procs,       \* Scheduler._procs
    cancelFlags, \* Scheduler._cancel_flags, as the set of flagged jobs
    pc,          \* where each attempt's thread is
    jobOf,       \* the job an attempt executes
    hostOf,      \* the instance it runs in
    outcome,     \* why its polling loop ended
    tool,        \* the child process of an attempt
    call,        \* where each client is in the operation it called
    arg,         \* the job that operation is about
    todo,        \* jobs emergency_stop has listed and not yet visited
    boots,       \* number of bootstraps so far (bound)
    asked        \* history: jobs whose cancellation was asked for

jobVars    == <<state, createdAt>>
stopVars   == <<stopRow, stopFlag, holder>>
bootVars   == <<phase, toFail, boots>>
workerVars == <<worker, picked, threads>>
memVars    == <<procs, cancelFlags>>
threadVars == <<pc, jobOf, hostOf, outcome>>
clientVars == <<call, arg, todo, asked>>
vars == <<jobVars, stopVars, bootVars, workerVars, memVars, threadVars, tool,
          clientVars>>

-----------------------------------------------------------------------------
JobStates == {"QUEUED", "VALIDATING", "READY", "RUNNING", "PAUSED",
              "CANCELLING", "CANCELLED", "COMPLETED", "FAILED",
              "RECOVERING", "RETRYING"}
Terminal  == {"COMPLETED", "FAILED", "CANCELLED"}
Waiting   == {"QUEUED", "READY", "VALIDATING"}

Existing   == {j \in Jobs : state[j] # "ABSENT"}
Alive      == {"running", "stopped"}
Ended      == {"done", "raised"}
LockFree(i) == holder[i] = None
Used(i)    == {j \in Jobs : threads[i][j] # None}

SetState(j, s) == state' = [state EXCEPT ![j] = s]

KillRunningOnly(a) == tool' = [tool EXCEPT ![a] = IF @ = "running" THEN "killed"
                                                                   ELSE @]
\* proc.kill(): a signal to a process that is already gone does nothing.
Kill(a) == tool' = [tool EXCEPT ![a] = IF @ \in Alive THEN "killed" ELSE @]

\* proc.poll() is None, then the signal, for the tracked process of a job.
Signal(i, j, from, to) ==
    LET a == procs[i][j]
    IN  tool' = IF a # None /\ tool[a] = from
                THEN [tool EXCEPT ![a] = to]
                ELSE tool

Init ==
    /\ state = [j \in Jobs |-> "ABSENT"]
    /\ createdAt = [j \in Jobs |-> 0]
    /\ stopRow = FALSE
    /\ phase = [i \in Instances |-> "down"]
    /\ toFail = [i \in Instances |-> {}]
    /\ stopFlag = [i \in Instances |-> FALSE]
    /\ holder = [i \in Instances |-> None]
    /\ worker = [i \in Instances |-> "off"]
    /\ picked = [i \in Instances |-> None]
    /\ threads = [i \in Instances |-> [j \in Jobs |-> None]]
    /\ procs = [i \in Instances |-> [j \in Jobs |-> None]]
    /\ cancelFlags = [i \in Instances |-> {}]
    /\ pc = [a \in Attempts |-> "idle"]
    /\ jobOf = [a \in Attempts |-> None]
    /\ hostOf = [a \in Attempts |-> None]
    /\ outcome = [a \in Attempts |-> "none"]
    /\ tool = [a \in Attempts |-> "none"]
    /\ call = [c \in Clients |-> "idle"]
    /\ arg = [c \in Clients |-> None]
    /\ todo = [c \in Clients |-> {}]
    /\ boots = 0
    /\ asked = {}

(* Bounds: a submission starts only while a job identity is left for it, a  *)
(* selection only while an attempt is.                                     *)
Submitting == {c \in Clients : call[c] \in {"submitCheck", "submitRate",
                                            "submitInsert"}}
Firing == {i \in Instances : worker[i] \in {"dueRate", "dueInsert"}}
JobLeft == Cardinality(Submitting) + Cardinality(Firing)
              < Cardinality(Jobs \ Existing)
AttemptLeft == Cardinality({i \in Instances : worker[i] = "spawn"})
                  < Cardinality({a \in Attempts : pc[a] = "idle"})

-----------------------------------------------------------------------------
(* Bootstrap, recovery and death of an instance.                           *)

BootFrame == UNCHANGED <<workerVars, memVars, threadVars, tool, clientVars>>

NotRestored(i) == FALSE
\* _restore_stop
Restored(i) == stopRow

NoneInterrupted == {}
\* the SELECT of mark_interrupted
Interrupted == {j \in Jobs : state[j] = "RUNNING"}

\* Scheduler.__init__ restores the persisted stop, then recover() reads the
\* jobs that are RUNNING.
Boot(i) ==
    /\ phase[i] = "down"
    /\ boots < MaxBoots
    /\ boots' = boots + 1
    /\ phase' = [phase EXCEPT ![i] = "recovering"]
    /\ toFail' = [toFail EXCEPT ![i] = Interrupted]
    /\ stopFlag' = [stopFlag EXCEPT ![i] = Restored(i)]
    /\ BootFrame /\ UNCHANGED <<jobVars, stopRow, holder>>

Requeue(j) == SetState(j, "QUEUED")
FailInterrupted(j) == SetState(j, "FAILED")

\* mark_interrupted: one UPDATE for each id it has read.
RecoverJob(i) ==
    /\ phase[i] = "recovering"
    /\ \E j \in toFail[i] :
          /\ FailInterrupted(j)
          /\ toFail' = [toFail EXCEPT ![i] = @ \ {j}]
    /\ BootFrame /\ UNCHANGED <<createdAt, stopVars, phase, boots>>

BootDone(i) ==
    /\ phase[i] = "recovering"
    /\ toFail[i] = {}
    /\ phase' = [phase EXCEPT ![i] = "up"]
    /\ BootFrame /\ UNCHANGED <<jobVars, stopVars, toFail, boots>>

\* The process exits or is killed: its memory and its (daemon) threads are
\* gone, the tools they launched are not.
Terminate(i) ==
    /\ "terminate" \in Ops
    /\ phase[i] # "down"
    /\ phase' = [phase EXCEPT ![i] = "down"]
    /\ toFail' = [toFail EXCEPT ![i] = {}]
    /\ stopFlag' = [stopFlag EXCEPT ![i] = FALSE]
    /\ holder' = [holder EXCEPT ![i] = None]
    /\ worker' = [worker EXCEPT ![i] = "off"]
    /\ picked' = [picked EXCEPT ![i] = None]
    /\ threads' = [threads EXCEPT ![i] = [j \in Jobs |-> None]]
    /\ procs' = [procs EXCEPT ![i] = [j \in Jobs |-> None]]
    /\ cancelFlags' = [cancelFlags EXCEPT ![i] = {}]
    /\ pc' = [a \in Attempts |->
                IF hostOf[a] = i /\ pc[a] \notin Ended THEN "lost" ELSE pc[a]]
    /\ call' = [c \in Clients |-> IF Home[c] = i THEN "idle" ELSE call[c]]
    /\ arg' = [c \in Clients |-> IF Home[c] = i THEN None ELSE arg[c]]
    /\ todo' = [c \in Clients |-> IF Home[c] = i THEN {} ELSE todo[c]]
    /\ outcome' = [a \in Attempts |->
                     IF hostOf[a] = i THEN "none" ELSE outcome[a]]
    /\ UNCHANGED <<jobVars, stopRow, boots, jobOf, hostOf, tool, asked>>

-----------------------------------------------------------------------------
(* The worker thread: _loop, _reap and _run_due_schedules.                 *)

WorkerFrame == UNCHANGED <<stopVars, bootVars, outcome, tool, clientVars>>

DeadNever(i) == {}
DeadOrAlive(i) == Used(i)
\* threads that are no longer alive
Dead(i) == {j \in Used(i) : pc[threads[i][j]] \in Ended}

Reap(i) ==
    /\ worker[i] = "reap"
    /\ LockFree(i)
    /\ threads' = [threads EXCEPT ![i] =
                     [j \in Jobs |-> IF j \in Dead(i) THEN None ELSE @[j]]]
    /\ procs' = [procs EXCEPT ![i] =
                     [j \in Jobs |-> IF j \in Dead(i) THEN None ELSE @[j]]]
    /\ cancelFlags' = [cancelFlags EXCEPT ![i] = @ \ Dead(i)]
    /\ worker' = [worker EXCEPT ![i] = "schedules"]
    /\ WorkerFrame /\ UNCHANGED <<jobVars, picked, pc, jobOf, hostOf>>

WorkerAt(i, from, to) ==
    /\ worker[i] = from
    /\ worker' = [worker EXCEPT ![i] = to]
    /\ WorkerFrame
WorkerGoes(i, from, to) ==
    /\ WorkerAt(i, from, to)
    /\ UNCHANGED <<jobVars, picked, threads, memVars, pc, jobOf, hostOf>>

\* A schedule is due.  submit() may refuse it, stopped or rate limited: the
\* loop goes on to the next one and nothing has changed.
ScheduleDue(i) ==
    /\ "schedule" \in Ops /\ JobLeft
    /\ ~stopFlag[i]
    /\ WorkerGoes(i, "schedules", "dueRate")

ScheduleRate(i) ==
    /\ LockFree(i)
    /\ WorkerGoes(i, "dueRate", "dueInsert")

\* JobRepository.create; now_utc has microseconds, so ranks are distinct.
InsertJob(j) ==
    /\ state[j] = "ABSENT"
    /\ SetState(j, "QUEUED")
    /\ createdAt' = [createdAt EXCEPT ![j] = 1 + Cardinality(Existing)]

ScheduleInsert(i) ==
    /\ WorkerAt(i, "dueInsert", "schedules")
    /\ \E j \in Jobs : InsertJob(j)
    /\ UNCHANGED <<picked, threads, memVars, pc, jobOf, hostOf>>

SchedulesDone(i) == WorkerGoes(i, "schedules", "select")

\* ORDER BY priority DESC, created_at ASC LIMIT 1
Precedes(j, k) ==
    \/ Priority[j] > Priority[k]
    \/ Priority[j] = Priority[k] /\ createdAt[j] <= createdAt[k]
IsNext(j) ==
    /\ state[j] = "QUEUED"
    /\ \A k \in Jobs : state[k] = "QUEUED" => Precedes(j, k)

SlotFreeOffByOne(i) == Cardinality(Used(i)) <= MaxConcurrent
SlotFree(i) == Cardinality(Used(i)) < MaxConcurrent

SelectJob(i) ==
    /\ WorkerAt(i, "select", "spawn")
    /\ LockFree(i)
    /\ SlotFree(i) /\ AttemptLeft
    /\ \E j \in Jobs : IsNext(j) /\ picked' = [picked EXCEPT ![i] = j]
    /\ UNCHANGED <<jobVars, threads, memVars, pc, jobOf, hostOf>>

SelectNothing(i) ==
    /\ WorkerGoes(i, "select", "reap")
    /\ LockFree(i)
    /\ \/ ~SlotFree(i)
       \/ \A j \in Jobs : state[j] # "QUEUED"
       \/ ~AttemptLeft

\* Registers and starts the thread; an older thread of the same job that is
\* still in the table is overwritten.
Spawn(i) ==
    /\ WorkerAt(i, "spawn", "reap")
    /\ LockFree(i)
    /\ \E a \in Attempts :
          /\ pc[a] = "idle"
          /\ pc' = [pc EXCEPT ![a] = "start"]
          /\ jobOf' = [jobOf EXCEPT ![a] = picked[i]]
          /\ hostOf' = [hostOf EXCEPT ![a] = i]
          /\ threads' = [threads EXCEPT ![i][picked[i]] = a]
    /\ picked' = [picked EXCEPT ![i] = None]
    /\ UNCHANGED <<jobVars, memVars>>

WorkerStep(i) ==
    \/ Reap(i)         \/ ScheduleDue(i)   \/ ScheduleRate(i)
    \/ ScheduleInsert(i) \/ SchedulesDone(i)
    \/ SelectJob(i)    \/ SelectNothing(i) \/ Spawn(i)

-----------------------------------------------------------------------------
(* An executor thread: _execute.                                           *)

ThreadAt(a, from, to) ==
    /\ pc[a] = from
    /\ pc' = [pc EXCEPT ![a] = to]
ThreadFrame == UNCHANGED <<createdAt, stopVars, bootVars, workerVars, jobOf,
                           hostOf, clientVars>>
Flagged(a) == jobOf[a] \in cancelFlags[hostOf[a]]

\* jobs.set_state by the thread: an UPDATE that does not look at the state.
ThreadWrites(a, from, s, to) ==
    /\ ThreadAt(a, from, to)
    /\ SetState(jobOf[a], s)
    /\ outcome' = [outcome EXCEPT ![a] = "none"]
    /\ ThreadFrame /\ UNCHANGED <<memVars, tool>>

\* _is_cancelled before anything else
Start(a) ==
    /\ ThreadAt(a, "start", IF Flagged(a) THEN "cancelled" ELSE "claim")
    /\ LockFree(hostOf[a])
    /\ ThreadFrame /\ UNCHANGED <<state, memVars, outcome, tool>>

CancelBeforeStart(a) == ThreadWrites(a, "cancelled", "CANCELLED", "done")

\* Whatever was written since the selection is lost.
Claim(a) == ThreadWrites(a, "claim", "RUNNING", "launch")

LaunchFailsSilently(a) ==
    /\ ThreadAt(a, "launch", "done")
    /\ ThreadFrame /\ UNCHANGED <<state, memVars, outcome, tool>>
\* No adapter, plugin gate, build_command error, empty command or OSError.
LaunchFails(a) == ThreadWrites(a, "launch", "FAILED", "done")

Launch(a) ==
    /\ ThreadAt(a, "launch", "register")
    /\ tool' = [tool EXCEPT ![a] = "running"]
    /\ ThreadFrame /\ UNCHANGED <<state, memVars, outcome>>

Register(a) ==
    /\ ThreadAt(a, "register", "poll")
    /\ LockFree(hostOf[a])
    /\ procs' = [procs EXCEPT ![hostOf[a]][jobOf[a]] = a]
    /\ ThreadFrame /\ UNCHANGED <<state, cancelFlags, outcome, tool>>

LeavePoll(a, why, to) ==
    /\ ThreadAt(a, "poll", to)
    /\ outcome' = [outcome EXCEPT ![a] = why]
    /\ ThreadFrame /\ UNCHANGED <<state, memVars>>

SeeCancel(a) ==
    /\ LeavePoll(a, "cancelled", "unregister")
    /\ LockFree(hostOf[a])
    /\ Flagged(a)
    /\ Kill(a)

\* communicate() returns
SeeExit(a) ==
    /\ LeavePoll(a, "exited", "recheck")
    /\ tool[a] \notin Alive
    /\ UNCHANGED tool

SeeDeadline(a) ==
    /\ LeavePoll(a, "timedOut", "recheck")
    /\ Kill(a)

\* communicate() cannot decode the output and raises; `finally` still runs.
SeeGarbled(a) ==
    /\ "raise" \in Ops
    /\ LeavePoll(a, "garbled", "unregister")
    /\ tool[a] \notin Alive
    /\ UNCHANGED tool

\* "A cancel may have raced with communicate() returning; re-check."
Recheck(a) ==
    /\ ThreadAt(a, "recheck", "unregister")
    /\ LockFree(hostOf[a])
    /\ outcome' = [outcome EXCEPT ![a] = IF Flagged(a) THEN "cancelled"
                                                       ELSE @]
    /\ ThreadFrame /\ UNCHANGED <<state, memVars, tool>>

Unregister(a) ==
    /\ ThreadAt(a, "unregister", "finish")
    /\ LockFree(hostOf[a])
    /\ procs' = [procs EXCEPT ![hostOf[a]][jobOf[a]] = None]
    /\ ThreadFrame /\ UNCHANGED <<state, cancelFlags, outcome, tool>>

VerdictUnlisted(a) == IF outcome[a] = "timedOut" THEN "TIMED_OUT" ELSE "FAILED"
VerdictAsCancelled(a) == IF outcome[a] = "exited" THEN "FAILED" ELSE "CANCELLED"
VerdictIgnoresCode(a) == IF outcome[a] = "exited" THEN "COMPLETED" ELSE "FAILED"
Verdict(a) ==
    CASE outcome[a] = "cancelled" -> "CANCELLED"
      [] outcome[a] = "timedOut"  -> "FAILED"
      [] OTHER -> IF tool[a] = "exit0" THEN "COMPLETED" ELSE "FAILED"

Finish(a) == outcome[a] # "garbled" /\ ThreadWrites(a, "finish", Verdict(a), "done")

\* Only KSECError and OSError are caught: an option build_command cannot
\* convert, undecodable output or a parser error ends the thread, and nothing
\* is written to the job.
Raises(a) ==
    /\ "raise" \in Ops
    /\ \/ ThreadAt(a, "launch", "raised")
       \/ /\ ThreadAt(a, "finish", "raised")
          /\ outcome[a] = "garbled" \/ (outcome[a] = "exited" /\ tool[a] = "exit0")
    /\ outcome' = [outcome EXCEPT ![a] = "none"]
    /\ ThreadFrame /\ UNCHANGED <<state, memVars, tool>>

ThreadStep(a) ==
    \/ Start(a)     \/ CancelBeforeStart(a) \/ Claim(a)
    \/ LaunchFails(a) \/ Launch(a)          \/ Register(a)
    \/ SeeCancel(a) \/ SeeExit(a)           \/ SeeDeadline(a)
    \/ SeeGarbled(a) \/ Recheck(a)          \/ Unregister(a)
    \/ Finish(a)    \/ Raises(a)

\* The tool ends by itself, with or without an instance watching it.
ToolExits(a) ==
    /\ tool[a] = "running"
    /\ \E code \in {"exit0", "exit1"} : tool' = [tool EXCEPT ![a] = code]
    /\ ThreadFrame /\ UNCHANGED <<state, memVars, pc, outcome>>

-----------------------------------------------------------------------------
(* The operations clients call.  Every one reads the job first and writes  *)
(* what it decided in a later step.                                        *)

ClientFrame == UNCHANGED <<bootVars, picked, threads, procs, threadVars>>
Quiet == UNCHANGED <<jobVars, stopVars, worker, cancelFlags, tool>>

CanCall(c, op) ==
    /\ op \in Ops
    /\ call[c] = "idle"
    /\ phase[Home[c]] = "up"

ClientGoes(c, from, to) ==
    /\ call[c] = from
    /\ call' = [call EXCEPT ![c] = to]
    /\ arg' = [arg EXCEPT ![c] = IF to = "idle" THEN None ELSE @]
    /\ UNCHANGED <<todo, asked>>

\* A step of client c that writes the job it is about and goes on to `to'.
ClientWrites(c, from, s, to) ==
    /\ ClientGoes(c, from, to)
    /\ SetState(arg[c], s)
    /\ ClientFrame /\ UNCHANGED <<createdAt, stopVars, worker>>
    /\ UNCHANGED <<cancelFlags, tool>>

ReadJob(c, j, next) ==
    /\ call' = [call EXCEPT ![c] = next]
    /\ arg' = [arg EXCEPT ![c] = j]
    /\ ClientFrame /\ Quiet /\ UNCHANGED todo

Pause(c, j) ==
    /\ CanCall(c, "pause")
    /\ \/ state[j] = "RUNNING"  /\ ReadJob(c, j, "pauseSignal")
       \/ state[j] \in Waiting  /\ ReadJob(c, j, "pauseWrite")
    /\ UNCHANGED asked
PauseSignal(c) ==
    /\ ClientGoes(c, "pauseSignal", "pauseWrite")
    /\ Signal(Home[c], arg[c], "running", "stopped")
    /\ ClientFrame /\ UNCHANGED <<jobVars, stopVars, worker, cancelFlags>>
PauseWrite(c) == ClientWrites(c, "pauseWrite", "PAUSED", "idle")

Resume(c, j) ==
    /\ CanCall(c, "resume")
    /\ state[j] = "PAUSED"
    /\ ReadJob(c, j, "resumeSignal")
    /\ UNCHANGED asked
ResumeSignal(c) ==
    /\ ClientGoes(c, "resumeSignal", "resumeWrite")
    /\ Signal(Home[c], arg[c], "stopped", "running")
    /\ ClientFrame /\ UNCHANGED <<jobVars, stopVars, worker, cancelFlags>>
ResumeWrite(c) == ClientWrites(c, "resumeWrite", "QUEUED", "idle")

\* cancel() called directly returns to the caller; called by emergency_stop
\* it returns into its loop.
Return(c) == IF holder[Home[c]] = c THEN "stopNext" ELSE "idle"

ReadForCancel(c, j) ==
    /\ asked' = asked \cup {j}
    /\ ReadJob(c, j, IF state[j] = "RUNNING" THEN "cancelFlag"
                                             ELSE "cancelWrite")

Cancel(c, j) ==
    /\ CanCall(c, "cancel")
    /\ state[j] \notin Terminal \cup {"ABSENT"}
    /\ ReadForCancel(c, j)

\* Acquires Scheduler._lock.  It is not reentrant: a client that comes here
\* from emergency_stop holds it already and waits for itself.
CancelFlag(c) ==
    /\ LockFree(Home[c])
    /\ ClientGoes(c, "cancelFlag", "cancelMark")
    /\ cancelFlags' = [cancelFlags EXCEPT ![Home[c]] = @ \cup {arg[c]}]
    /\ ClientFrame /\ UNCHANGED <<jobVars, stopVars, worker, tool>>
CancelMark(c) == ClientWrites(c, "cancelMark", "CANCELLING", "cancelKill")
CancelKill(c) ==
    /\ ClientGoes(c, "cancelKill", Return(c))
    /\ LET a == procs[Home[c]][arg[c]]
       IN  IF a = None THEN UNCHANGED tool ELSE Kill(a)
    /\ ClientFrame /\ UNCHANGED <<jobVars, stopVars, worker, cancelFlags>>
CancelWrite(c) == ClientWrites(c, "cancelWrite", "CANCELLED", Return(c))

Submit(c) ==
    /\ CanCall(c, "submit") /\ JobLeft
    /\ ~stopFlag[Home[c]]
    /\ ReadJob(c, None, "submitRate")
    /\ UNCHANGED asked
Retry(c, j) ==
    /\ CanCall(c, "retry") /\ JobLeft
    /\ state[j] \in Terminal
    /\ ReadJob(c, j, "submitCheck")
    /\ UNCHANGED asked
SubmitCheck(c) ==
    /\ ClientGoes(c, "submitCheck",
                IF stopFlag[Home[c]] THEN "idle" ELSE "submitRate")
    /\ ClientFrame /\ Quiet
\* The two lock regions that check and then record the submission, or refuse
\* it; the windows they keep are those of RateLimiter.
SubmitRate(c) ==
    /\ LockFree(Home[c])
    /\ \E to \in {"submitInsert", "idle"} : ClientGoes(c, "submitRate", to)
    /\ ClientFrame /\ Quiet
\* create(), then start(): the first submission starts the worker thread.
SubmitInsert(c) ==
    /\ ClientGoes(c, "submitInsert", "idle")
    /\ \E j \in Jobs : InsertJob(j)
    /\ worker' = [worker EXCEPT ![Home[c]] = IF @ = "off" THEN "reap" ELSE @]
    /\ ClientFrame /\ UNCHANGED <<stopVars, cancelFlags, tool>>

\* jobs.list(): the newest ListLimit records.
Listed ==
    {j \in Existing :
        Cardinality({k \in Existing : createdAt[k] > createdAt[j]}) < ListLimit}

StoppableRunning == {j \in Listed : state[j] = "RUNNING"}
Stoppable == {j \in Listed : state[j] \notin Terminal}

EmergencyStop(c) ==
    /\ CanCall(c, "stop")
    /\ LockFree(Home[c])
    /\ holder' = [holder EXCEPT ![Home[c]] = c]
    /\ stopFlag' = [stopFlag EXCEPT ![Home[c]] = TRUE]
    /\ todo' = [todo EXCEPT ![c] = Stoppable]
    /\ call' = [call EXCEPT ![c] = "stopNext"]
    /\ ClientFrame /\ UNCHANGED <<jobVars, stopRow, worker, cancelFlags>>
    /\ UNCHANGED <<tool, arg, asked>>

\* self.cancel(job.id) for the next listed job, newest first.
StopNext(c) ==
    /\ call[c] = "stopNext"
    /\ \E j \in todo[c] :
          /\ \A k \in todo[c] : createdAt[k] <= createdAt[j]
          /\ todo' = [todo EXCEPT ![c] = @ \ {j}]
          /\ IF state[j] \in Terminal
             THEN UNCHANGED <<call, arg, asked>>
             ELSE /\ asked' = asked \cup {j}
                  /\ arg' = [arg EXCEPT ![c] = j]
                  /\ call' = [call EXCEPT ![c] =
                                IF state[j] = "RUNNING" THEN "cancelFlag"
                                                        ELSE "cancelWrite"]
    /\ ClientFrame /\ Quiet

StopRelease(c) ==
    /\ todo[c] = {}
    /\ ClientGoes(c, "stopNext", "stopPersist")
    /\ holder' = [holder EXCEPT ![Home[c]] = None]
    /\ ClientFrame /\ UNCHANGED <<jobVars, stopRow, stopFlag, worker>>
    /\ UNCHANGED <<cancelFlags, tool>>

SetStopRow(c, from, value, to) ==
    /\ ClientGoes(c, from, to)
    /\ stopRow' = value
    /\ ClientFrame /\ UNCHANGED <<jobVars, stopFlag, holder, worker>>
    /\ UNCHANGED <<cancelFlags, tool>>
StopPersist(c) == SetStopRow(c, "stopPersist", TRUE, "idle")

StopClear(c) ==
    /\ CanCall(c, "clear")
    /\ call' = [call EXCEPT ![c] = "clearPersist"]
    /\ stopFlag' = [stopFlag EXCEPT ![Home[c]] = FALSE]
    /\ ClientFrame /\ UNCHANGED <<jobVars, stopRow, holder, worker>>
    /\ UNCHANGED <<cancelFlags, tool, arg, todo, asked>>
ClearPersist(c) == SetStopRow(c, "clearPersist", FALSE, "clearWindows")
\* Under the lock, the rate windows of RateLimiter are emptied.
ClearWindows(c) ==
    /\ LockFree(Home[c])
    /\ ClientGoes(c, "clearWindows", "idle")
    /\ ClientFrame /\ Quiet

\* Steps of a call that has begun.
CallStep(c) ==
    \/ PauseSignal(c)  \/ PauseWrite(c)
    \/ ResumeSignal(c) \/ ResumeWrite(c)
    \/ CancelFlag(c)   \/ CancelMark(c)  \/ CancelKill(c) \/ CancelWrite(c)
    \/ SubmitCheck(c)  \/ SubmitRate(c)  \/ SubmitInsert(c)
    \/ StopNext(c)     \/ StopRelease(c) \/ StopPersist(c)
    \/ ClearPersist(c) \/ ClearWindows(c)

NewCall(c) ==
    \/ \E j \in Jobs : Pause(c, j) \/ Resume(c, j) \/ Cancel(c, j) \/ Retry(c, j)
    \/ Submit(c) \/ EmergencyStop(c) \/ StopClear(c)

-----------------------------------------------------------------------------
BootStep(i) == RecoverJob(i) \/ BootDone(i)

Next ==
    \/ \E i \in Instances : Boot(i) \/ BootStep(i) \/ Terminate(i) \/ WorkerStep(i)
    \/ \E a \in Attempts : ThreadStep(a) \/ ToolExits(a)
    \/ \E c \in Clients : CallStep(c) \/ NewCall(c)

Spec == Init /\ [][Next]_vars

(***************************************************************************)
(* Threads and begun calls keep running: the worker wakes at least every   *)
(* 0.2s, polling ends at the deadline, bootstrap is straight-line code.    *)
(* Nothing is assumed of the tools (they may hang) nor of the operators    *)
(* (they need never start an instance or call anything).                   *)
(***************************************************************************)
Fairness ==
    /\ \A i \in Instances : WF_vars(BootStep(i)) /\ WF_vars(WorkerStep(i))
    /\ \A a \in Attempts : WF_vars(ThreadStep(a))
    /\ \A c \in Clients : WF_vars(CallStep(c))

FairSpec == Spec /\ Fairness

-----------------------------------------------------------------------------
ThreadPoints == {"idle", "start", "cancelled", "claim", "launch", "register",
                 "poll", "recheck", "unregister", "finish", "done", "raised", "lost"}
ClientPoints == {"idle", "pauseSignal", "pauseWrite", "resumeSignal",
                 "resumeWrite", "cancelFlag", "cancelMark", "cancelKill",
                 "cancelWrite", "submitCheck", "submitRate", "submitInsert",
                 "stopNext", "stopPersist", "clearPersist", "clearWindows"}
WorkerPoints == {"off", "reap", "schedules", "dueRate", "dueInsert",
                 "select", "spawn"}

DataTypes ==
    /\ state \in [Jobs -> JobStates \cup {"ABSENT"}]
    /\ createdAt \in [Jobs -> Nat]
    /\ stopRow \in BOOLEAN
    /\ boots \in Nat
    /\ asked \in SUBSET Jobs

InstanceTypes ==
    /\ phase \in [Instances -> {"down", "recovering", "up"}]
    /\ toFail \in [Instances -> SUBSET Jobs]
    /\ stopFlag \in [Instances -> BOOLEAN]
    /\ holder \in [Instances -> Clients \cup {None}]
    /\ worker \in [Instances -> WorkerPoints]
    /\ picked \in [Instances -> Jobs \cup {None}]
    /\ threads \in [Instances -> [Jobs -> Attempts \cup {None}]]
    /\ procs \in [Instances -> [Jobs -> Attempts \cup {None}]]
    /\ cancelFlags \in [Instances -> SUBSET Jobs]
    /\ \A i \in Instances : worker[i] = "spawn" => picked[i] \in Jobs

ThreadTypes ==
    /\ pc \in [Attempts -> ThreadPoints]
    /\ jobOf \in [Attempts -> Jobs \cup {None}]
    /\ hostOf \in [Attempts -> Instances \cup {None}]
    /\ outcome \in [Attempts -> {"none", "exited", "timedOut", "garbled",
                                "cancelled"}]
    /\ tool \in [Attempts -> {"none", "running", "stopped", "exit0", "exit1",
                              "killed"}]
    /\ \A a \in Attempts :
          IF pc[a] = "idle" THEN hostOf[a] = None
                            ELSE jobOf[a] \in Jobs /\ hostOf[a] \in Instances

ClientTypes ==
    /\ call \in [Clients -> ClientPoints]
    /\ arg \in [Clients -> Jobs \cup {None}]
    /\ todo \in [Clients -> SUBSET Jobs]
    /\ \A c \in Clients :
          call[c] \in {"pauseSignal", "pauseWrite", "resumeSignal",
                       "resumeWrite", "cancelFlag", "cancelMark",
                       "cancelKill", "cancelWrite"} => arg[c] \in Jobs

\* Every variable stays in its type; in particular a thread that is running
\* has a job and an instance, and a client that is about to write has a job.
TypeOK == DataTypes /\ InstanceTypes /\ ThreadTypes /\ ClientTypes
=============================================================================
