------------------------------ MODULE JobSafety ------------------------------
(***************************************************************************)
(* What is stated of JobScheduler: the properties that hold, then the      *)
(* statements of the repository's documents that the code does not keep.   *)
(***************************************************************************)
EXTENDS JobScheduler

LiveThread(a) == pc[a] \notin Ended \cup {"idle", "lost"}

\* A thread that has set its job RUNNING and will still write its verdict.
Executing(a) == pc[a] \in {"launch", "register", "poll", "recheck",
                           "unregister", "finish"}

\* A job is RUNNING only while some thread is executing it, or after such a
\* thread died with its instance or of an exception: whatever is written in
\* between by clients, by recovery or by a second thread of the same job, no
\* ordinary exit of _execute leaves the job RUNNING behind.
RunningIsBacked ==
    \A j \in Jobs : state[j] = "RUNNING" =>
        \E a \in Attempts : jobOf[a] = j /\ (Executing(a) \/ pc[a] \in {"lost", "raised"})

\* A job is COMPLETED only if one of its own tool runs exited with code 0:
\* no pause, cancel, timeout, crash or recovery turns an unknown outcome into
\* a success (specs/07-workflow-scheduler.md, "90. UNKNOWN EXECUTION STATE").
CompletedMeansSuccess ==
    \A j \in Jobs : state[j] = "COMPLETED" =>
        \E a \in Attempts : jobOf[a] = j /\ tool[a] = "exit0"

\* A tool that is still alive, suspended or not, has a thread of its instance
\* polling it (or about to), unless that instance died: no way out of the
\* polling loop of _execute leaves the tool behind.
LiveToolIsPolled ==
    \A a \in Attempts : tool[a] \in Alive => pc[a] \in {"register", "poll", "lost"}

\* A job is reported CANCELLED only if its cancellation was asked for, by
\* cancel() or by emergency_stop(); flags left behind by a cancel that lost
\* its race never cancel another job.
CancelledWasAsked ==
    \A j \in Jobs : state[j] \in {"CANCELLED", "CANCELLING"} => j \in asked

\* The thread table never exceeds max_concurrent_jobs, although the worker
\* counts and registers under two separate acquisitions of the lock.
SlotsRespected ==
    \A i \in Instances : Cardinality(Used(i)) <= MaxConcurrent

\* A cancellation that reached an executing thread is not forgotten before the
\* thread has acted on it, or died with its instance; holds as long as a job
\* has one thread (one slot), because _reap drops the flag with the thread.
CancelSticks ==
    [][\A a \in Attempts :
          Executing(a) /\ pc[a] \notin {"unregister", "finish"} /\ Flagged(a) =>
              \/ Flagged(a)'
              \/ outcome'[a] = "cancelled"
              \/ pc'[a] \in Ended \cup {"lost"}]_vars

Alone(i) == \A k \in Instances \ {i} : phase[k] = "down"

\* A persisted emergency stop is in force in the instance that is up, however
\* often it was killed in between and at whatever step (README.md:86, "blocks
\* new submissions persistently (survives restarts)"), until a reset begins.
StopSurvivesRestart ==
    \A i \in Instances :
        /\ stopRow /\ phase[i] = "up" /\ Alone(i)
        /\ \A c \in Clients : call[c] # "clearPersist"
        => stopFlag[i]

\* When an instance finishes its bootstrap while no other instance is alive,
\* no job is RUNNING any more (docs/user-guide.md:315, "Jobs interrupted by a
\* crash are marked FAILED on the next start").
RecoveryLeavesNoneRunning ==
    [][\A i \in Instances :
          BootDone(i) /\ Alone(i) => \A j \in Jobs : state[j] # "RUNNING"]_vars

\* When emergency_stop has gone through its list and is about to persist the
\* flag, no job is left QUEUED behind it (README.md:86, "cancels every
\* non-terminal job"), as long as nobody submits or resumes meanwhile.
StopLeavesNoneQueued ==
    [][\A c \in Clients : StopRelease(c) => \A j \in Jobs : state[j] # "QUEUED"]_vars

\* An instance has died; a thread of the job has ended in an exception.
SomeCrash == boots > Cardinality({i \in Instances : phase[i] # "down"})
Raised(j) == \E a \in Attempts : jobOf[a] = j /\ pc[a] = "raised"

\* Every job that is submitted is eventually settled, when nobody pauses,
\* cancels or stops, unless the process dies or its own thread raises: slots
\* are reaped, threads of other jobs that raised included, the queue is
\* drained, and hung tools end at their deadline.
JobsAreSettled ==
    \A j \in Jobs :
        (state[j] = "QUEUED") ~> (state[j] \in Terminal \/ Raised(j) \/ SomeCrash)

\* Without control operations, with one instance at a time and one slot, the
\* scheduler implements the abstract life of a job, crashes included.
launches == [j \in Jobs |->
                Cardinality({a \in Attempts : jobOf[a] = j /\ tool[a] # "none"})]
Abstract == INSTANCE JobLifecycle WITH state <- state, launches <- launches
ImplementsLifecycle == Abstract!Spec

-----------------------------------------------------------------------------
(* Statements of the documents, each checked in a run of its own.          *)

\* docs/user-guide.md:1061: an emergency stop that has begun completes.
StopCompletes ==
    \A c \in Clients : (call[c] = "stopNext") ~> (call[c] = "idle")

\* docs/user-guide.md:314: pause and resume stop and continue the process; a
\* job never has two tools alive at once.
OneToolPerJob ==
    \A a, b \in Attempts :
        a # b /\ tool[a] \in Alive /\ tool[b] \in Alive => jobOf[a] # jobOf[b]

\* jobs/models.py:139: recovery concerns "jobs left RUNNING by a previous
\* process": a job whose executor is alive is not marked interrupted.
RecoverySparesLiveJobs ==
    [][\A i \in Instances, a \in Attempts :
          RecoverJob(i) /\ LiveThread(a) /\ state[jobOf[a]] = "RUNNING"
              => state'[jobOf[a]] = "RUNNING"]_vars
=============================================================================
