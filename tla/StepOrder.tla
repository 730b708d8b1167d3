----------------------------- MODULE StepOrder -----------------------------
(***************************************************************************)
(* Dependencies between workflow steps.  The same loop (Kahn's algorithm)  *)
(* is written twice in the code: WorkflowStore._has_cycle                  *)
(* (ksec/workflows/store.py) decides whether a definition is accepted, on  *)
(* the NAMES of the steps, and WorkflowEngine._topological_order           *)
(* (ksec/workflows/engine.py) orders the STEPS of the accepted definition. *)
(*                                                                         *)
(* A step without a name is called stepK after its position K, and a name  *)
(* that another step was given explicitly is not refused: two steps may    *)
(* share a name.  A dependency names the last of them.                     *)
(***************************************************************************)
EXTENDS Integers, FiniteSets

CONSTANT Size   \* number of steps

ASSUME StepAssumption == Size \in Nat

Positions == 1..Size

VARIABLES
    mode,      \* "validate" (_has_cycle) or "run" (_topological_order)
    named,     \* named[s]: the step that the name of s denotes
    deps,      \* deps[s]: the steps that the known names in depends_on denote
    indegree,
    ready,     \* the queue; which end is popped does not matter here
    popped,    \* nodes taken from the queue
    forced     \* steps appended by the fallback of _topological_order

orderVars == <<mode, named, deps, indegree, ready, popped, forced>>
graph == <<mode, named, deps>>

\* by_name and resolved: later steps win; at most one of two steps with the
\* same name has it explicitly, so no three steps share one.
Namings == {f \in [Positions -> Positions] :
              /\ \A s \in Positions : f[s] >= s /\ f[f[s]] = f[s]
              /\ \A s, t \in Positions : s # t /\ f[s] = f[t] => s = f[s] \/ t = f[t]}

\* what a step is in the graph: its name for the validator, itself for the engine
Node(s) == IF mode = "validate" THEN named[s] ELSE s
Nodes == {Node(s) : s \in Positions}

\* the dependencies that node v waits for, one for each step it stands for
Edges(v) == {e \in Positions \X Positions : Node(e[1]) = v /\ e[2] \in deps[e[1]]}
EdgesFrom(u, v) == {e \in Edges(v) : e[2] = u}

OrderInit ==
    /\ mode \in {"validate", "run"}
    /\ named \in Namings
    /\ deps \in [Positions -> SUBSET {named[s] : s \in Positions}]
    /\ indegree = [v \in Positions |-> Cardinality(Edges(v))]
    /\ ready = {v \in Nodes : indegree[v] = 0}
    /\ popped = {}
    /\ forced = {}

NewlyReadyAny(u) == {v \in Nodes : EdgesFrom(u, v) # {}}
NewlyReadyBelow(u) == {v \in Nodes : EdgesFrom(u, v) # {} /\ indegree'[v] < 0}
\* "if indegree[nxt] == 0" after the decrements
NewlyReady(u) == {v \in Nodes : EdgesFrom(u, v) # {} /\ indegree'[v] = 0}

Pop(u) ==
    /\ u \in ready
    /\ indegree' = [v \in Positions |-> indegree[v] - Cardinality(EdgesFrom(u, v))]
    /\ ready' = (ready \ {u}) \cup NewlyReady(u)
    /\ popped' = popped \cup {u}
    /\ UNCHANGED <<graph, forced>>

AppendNothing(s) == mode = "run" /\ s \in {}
\* "a safe fallback so nothing is skipped": what is left, by position
AppendRest(s) ==
    /\ mode = "run"
    /\ ready = {}
    /\ s \notin popped \cup forced
    /\ \A t \in Positions \ (popped \cup forced) : s <= t
    /\ forced' = forced \cup {s}
    /\ UNCHANGED <<graph, indegree, ready, popped>>

OrderNext == \E s \in Positions : Pop(s) \/ AppendRest(s)

OrderSpec == OrderInit /\ [][OrderNext]_orderVars /\ WF_orderVars(OrderNext)

-----------------------------------------------------------------------------
\* Reference: the dependencies of the steps, as the engine reads them, and of
\* the names, as a user does, have no cycle.
AcyclicSteps ==
    \E rank \in [Positions -> Positions] : \A s \in Positions : \A d \in deps[s] : rank[d] < rank[s]
AcyclicNames ==
    \E rank \in [Positions -> Positions] :
        \A s \in Positions : \A d \in deps[s] : rank[d] < rank[named[s]]

\* A step is taken only after every step it depends on, and never before one
\* of several steps that wait for it, in any graph, cyclic ones included.
DependenciesFirst ==
    \A s \in Positions : Node(s) \in popped => deps[s] \subseteq popped

\* The validator accepts exactly the definitions whose names have no cycle.
ValidatorIsExact ==
    mode = "validate" /\ ready = {} => (popped = Nodes <=> AcyclicNames)

\* The engine appends a step out of order only if its graph has a cycle, and
\* then the validator, which looks at another graph, has refused it.
ForcedOnlyOnCycle == forced # {} => ~AcyclicSteps /\ ~AcyclicNames

\* Whatever the graph, the loop ends, and the engine has emitted every step.
EveryStepIsEmitted == (mode = "run") ~> (ready = {} /\ popped \cup forced = Positions)
=============================================================================
