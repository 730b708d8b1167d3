--------------------------- MODULE WorkflowEngine ---------------------------
(***************************************************************************)
(* One run of a workflow: WorkflowEngine.run of ksec/workflows/engine.py.  *)
(* The steps are numbered in the order that StepOrder establishes.  For    *)
(* each step the run asks the policy, submits a job, waits for it, submits *)
(* another one while retries are left, and hands the entities of a         *)
(* COMPLETED job to the correlation.                                       *)
(*                                                                         *)
(* The jobs are those of JobScheduler, reduced to what a run can see: a    *)
(* thread that has picked a job writes RUNNING and later a verdict,        *)
(* whatever was written meanwhile; other terminals pause, resume, cancel   *)
(* and recover jobs, each with a write that was decided on an earlier read.*)
(***************************************************************************)
EXTENDS Integers, FiniteSets

CONSTANTS
    N,         \* number of steps
    Retry,     \* Retry[s]: the retries of step s
    Executors  \* threads of any terminal, each executing a job at a time

Steps == 1..N
Jobs  == {j \in Steps \X (0..10) : j[2] <= Retry[j[1]]}

ASSUME WorkflowAssumption ==
    /\ N \in Nat
    /\ Retry \in [Steps -> 0..10]

VARIABLES
    status,    \* workflow_runs.status, "absent" before the row is inserted
    recorded,  \* workflow_runs.steps_completed
    pc,        \* where run() is, "dead" when its process has died
    step,      \* the step it is at
    attempts,  \* its retries so far
    outcomes,  \* steps with the outcome "completed"
    job,       \* jobs.state of each job, "none" before it is submitted
    thread,    \* what each executor does with which job, or Idle
    ingested,  \* jobs whose entities became assets
    allowed,   \* scope and role permit the steps
    succeeded, \* history: jobs that were COMPLETED at some time
    late       \* history: jobs submitted after the permission was withdrawn

runVars == <<status, recorded, pc, step, attempts, outcomes>>
jobVars == <<job, thread, succeeded>>
vars == <<runVars, jobVars, ingested, allowed, late>>

Terminal == {"COMPLETED", "FAILED", "CANCELLED"}
current  == <<step, attempts>>

Idle == [at |-> "idle", job |-> <<0, 0>>]
At(place, j) == [at |-> place, job |-> j]

Init ==
    /\ status = "absent" /\ recorded = 0 /\ pc = "start"
    /\ step = 1 /\ attempts = 0 /\ outcomes = {}
    /\ job = [j \in Jobs |-> "none"]
    /\ thread = [x \in Executors |-> Idle]
    /\ ingested = {} /\ allowed = TRUE
    /\ succeeded = {} /\ late = {}

-----------------------------------------------------------------------------
Start ==
    /\ pc = "start"
    /\ status' = "running"
    /\ pc' = "evaluate"
    /\ UNCHANGED <<recorded, step, attempts, outcomes, jobVars, ingested,
                   allowed, late>>

PermittedAtStart == allowed \/ step > 1
\* policy.evaluate reads the scope and the roles of this moment
Permitted == allowed

Evaluate ==
    /\ pc = "evaluate" /\ step <= N
    /\ pc' = IF Permitted THEN "submit" ELSE "fail"
    /\ attempts' = 0
    /\ UNCHANGED <<status, recorded, step, outcomes, jobVars, ingested,
                   allowed, late>>

\* submit() raises: rate limit, emergency stop
Refused ==
    /\ pc = "submit"
    /\ pc' = "fail"
    /\ UNCHANGED <<status, recorded, step, attempts, outcomes, jobVars,
                   ingested, allowed, late>>

Submit ==
    /\ pc = "submit"
    /\ job' = [job EXCEPT ![current] = "QUEUED"]
    /\ late' = IF allowed THEN late ELSE late \cup {current}
    /\ pc' = "wait"
    /\ UNCHANGED <<status, recorded, step, attempts, outcomes, thread,
                   succeeded, ingested, allowed>>

\* not (COMPLETED or attempts >= max_retries)
MoreRetries == job[current] # "COMPLETED" /\ attempts < Retry[step]

\* wait_for returns a terminal record, and the job is submitted again
Again ==
    /\ pc = "wait" /\ job[current] \in Terminal
    /\ MoreRetries
    /\ attempts' = attempts + 1
    /\ pc' = "submit"
    /\ UNCHANGED <<status, recorded, step, outcomes, jobVars, ingested,
                   allowed, late>>

SucceededAnyhow == TRUE
Succeeded == job[current] = "COMPLETED"

\* the last attempt counts; its entities are registered before the outcome
Settle ==
    /\ pc = "wait" /\ job[current] \in Terminal
    /\ ~MoreRetries
    /\ IF Succeeded
       THEN ingested' = ingested \cup {current} /\ pc' = "settled"
       ELSE pc' = "fail" /\ UNCHANGED ingested
    /\ UNCHANGED <<status, recorded, step, attempts, outcomes, jobVars,
                   allowed, late>>

NextStep ==
    /\ pc = "settled"
    /\ outcomes' = outcomes \cup {step}
    /\ step' = step + 1
    /\ pc' = "evaluate"
    /\ UNCHANGED <<status, recorded, attempts, jobVars, ingested, allowed, late>>

\* registering an entity raises
IngestFails ==
    /\ pc = "settled"
    /\ pc' = "fail"
    /\ UNCHANGED <<status, recorded, step, attempts, outcomes, jobVars,
                   ingested, allowed, late>>

TimesOutNever == FALSE
\* wait_for raises after 300 seconds, whatever the job does later
TimesOut == job[current] \notin Terminal

Timeout ==
    /\ pc = "wait" /\ TimesOut
    /\ pc' = "fail"
    /\ UNCHANGED <<status, recorded, step, attempts, outcomes, jobVars,
                   ingested, allowed, late>>

\* _finish
Finish(verdict) ==
    /\ status' = verdict
    /\ recorded' = Cardinality(outcomes)
    /\ pc' = "over"
    /\ UNCHANGED <<step, attempts, outcomes, jobVars, ingested, allowed, late>>

Complete == pc = "evaluate" /\ step > N /\ Finish("completed")
Fail == pc = "fail" /\ Finish("failed")

EngineStep ==
    \/ Start \/ Evaluate \/ Refused \/ Submit \/ Again \/ Settle \/ NextStep
    \/ IngestFails \/ Timeout \/ Complete \/ Fail

-----------------------------------------------------------------------------
(* The threads that execute the jobs, and other terminals.                 *)

JobFrame == UNCHANGED <<runVars, ingested, allowed, late>>

Pick(j, x) ==
    /\ job[j] = "QUEUED" /\ thread[x] = Idle
    /\ thread' = [thread EXCEPT ![x] = At("picked", j)]
    /\ JobFrame /\ UNCHANGED <<job, succeeded>>

Claim(j, x) ==
    /\ thread[x] = At("picked", j)
    /\ thread' = [thread EXCEPT ![x] = At("executing", j)]
    /\ job' = [job EXCEPT ![j] = "RUNNING"]
    /\ JobFrame /\ UNCHANGED succeeded

Verdict(j, x, v) ==
    /\ thread[x] = At("executing", j)
    /\ thread' = [thread EXCEPT ![x] = Idle]
    /\ job' = [job EXCEPT ![j] = v]
    /\ succeeded' = IF v = "COMPLETED" THEN succeeded \cup {j} ELSE succeeded
    /\ JobFrame

\* pause, resume, cancel, and the recovery of a terminal that starts: no guard,
\* for the state they were decided on may be gone. CANCELLING stands for PAUSED
\* too: neither is picked by a worker nor ends the wait.
Disturb(j) ==
    /\ job[j] # "none"
    /\ \E s \in {"QUEUED", "CANCELLING", "CANCELLED", "FAILED"} :
          job' = [job EXCEPT ![j] = s]
    /\ JobFrame /\ UNCHANGED <<thread, succeeded>>

Revoke ==
    /\ allowed
    /\ allowed' = FALSE
    /\ UNCHANGED <<runVars, jobVars, ingested, late>>

\* The process dies: nobody writes the end of the run.
Crash ==
    /\ pc \notin {"start", "over", "dead"}
    /\ pc' = "dead"
    /\ UNCHANGED <<status, recorded, step, attempts, outcomes, jobVars, ingested,
                   allowed, late>>

\* Jobs are followed as long as the run reads them.
JobStep(j) ==
    /\ pc \notin {"over", "dead"}
    /\ \/ Disturb(j)
       \/ \E x \in Executors :
             \/ Pick(j, x) \/ Claim(j, x)
             \/ \E v \in Terminal : Verdict(j, x, v)

Next == EngineStep \/ Revoke \/ Crash \/ \E j \in Jobs : JobStep(j)

\* run() is straight-line code with bounded waits; nothing is assumed of jobs.
Spec == Init /\ [][Next]_vars /\ WF_vars(EngineStep)

-----------------------------------------------------------------------------
StepSucceeded(s) == \E a \in 0..Retry[s] : <<s, a>> \in succeeded

\* A run is recorded as completed exactly when it counts all its steps, and
\* then each of them had a job that was COMPLETED, whatever other terminals
\* wrote over the jobs' states before and afterwards.
CompletedRunIsComplete ==
    /\ status = "completed" => \A s \in Steps : StepSucceeded(s)
    /\ status \in {"completed", "failed"} => (status = "completed" <=> recorded = N)

\* A job of a step is submitted only after a job of every earlier step, and so
\* of every step it depends on, was COMPLETED.
StepsInOrder ==
    \A j \in Jobs : job[j] # "none" => \A s \in 1..(j[1] - 1) : StepSucceeded(s)

\* Assets are registered only from jobs that were COMPLETED.
IngestedSucceeded == ingested \subseteq succeeded

\* Once the permission is withdrawn the run goes no further than the step it
\* is at: what it still submits are the attempts of that one step.
RevocationStopsRun == \A j, k \in late : j[1] = k[1]

\* A run ends, though its tools hang, its jobs are cancelled or left behind by
\* other terminals and its permission is withdrawn, unless its process dies.
RunEnds == (status = "running") ~> (status \in {"completed", "failed"} \/ pc = "dead")
=============================================================================
