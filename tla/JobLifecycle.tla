---------------------------- MODULE JobLifecycle ----------------------------
(***************************************************************************)
(* What the job manager promises of a job that nobody pauses or cancels    *)
(* (the states of ksec/jobs/models.py, without the means): a job waits,    *)
(* runs, and is settled once; its tool is launched at most once, ever; and *)
(* only a job whose tool was launched can be COMPLETED.  A job that was    *)
(* interrupted is settled as FAILED and stays so.                          *)
(***************************************************************************)
EXTENDS Naturals

CONSTANT Jobs

VARIABLES state, launches
vars == <<state, launches>>

Init ==
    /\ state = [j \in Jobs |-> "ABSENT"]
    /\ launches = [j \in Jobs |-> 0]

Move(j, from, to) ==
    /\ state[j] = from
    /\ state' = [state EXCEPT ![j] = to]
    /\ UNCHANGED launches

Create(j)   == Move(j, "ABSENT", "QUEUED")
Run(j)      == Move(j, "QUEUED", "RUNNING")
Fail(j)     == Move(j, "RUNNING", "FAILED")
Complete(j) == launches[j] = 1 /\ Move(j, "RUNNING", "COMPLETED")

\* The thread of a job that was failed by a recovery cannot launch any more:
\* recovery runs only once the thread is gone.
Launch(j) ==
    /\ state[j] = "RUNNING"
    /\ launches[j] = 0
    /\ launches' = [launches EXCEPT ![j] = 1]
    /\ UNCHANGED state

Next == \E j \in Jobs : Create(j) \/ Run(j) \/ Fail(j) \/ Complete(j) \/ Launch(j)

Spec == Init /\ [][Next]_vars
=============================================================================
