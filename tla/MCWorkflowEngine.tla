-------------------------- MODULE MCWorkflowEngine --------------------------
(***************************************************************************)
(* Instances of the two halves of WorkflowEngine.run for TLC: the order of *)
(* the steps, and their execution, of which only the first is retried.     *)
(* What a behaviour is about is fixed in its initial state, so that the    *)
(* state spaces add up instead of multiplying: the order, a run that is    *)
(* revoked or killed over jobs of one executor ("run"), or one whose jobs  *)
(* two executors execute at the same time ("race").                        *)
(***************************************************************************)
EXTENDS WorkflowEngine, StepOrder

VARIABLE half

RetryFirst == [s \in Steps |-> IF s = 1 THEN 1 ELSE 0]

NoOrder ==
    /\ mode = "validate" /\ named = [s \in Positions |-> s]
    /\ deps = [s \in Positions |-> {}] /\ indegree = [s \in Positions |-> 0]
    /\ ready = Positions /\ popped = {} /\ forced = {}

MCInit ==
    /\ half \in {"order", "run", "race"}
    /\ Init
    /\ IF half = "order" THEN OrderInit ELSE NoOrder

Ordering == half = "order" /\ OrderNext /\ UNCHANGED <<vars, half>>

Focus ==
    \/ half = "run" /\ Cardinality({x \in Executors : thread'[x] # Idle}) <= 1
    \/ half = "race" /\ allowed' /\ pc' # "dead"

MCNext == (Next /\ Focus /\ UNCHANGED <<orderVars, half>>) \/ Ordering

\* Both halves are straight-line code with bounded waits.
Engine == (half # "order" /\ EngineStep /\ UNCHANGED <<orderVars, half>>) \/ Ordering

MCSpec ==
    MCInit /\ [][MCNext]_<<vars, orderVars, half>> /\ WF_<<vars, orderVars, half>>(Engine)
=============================================================================
