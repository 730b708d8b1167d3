--------------------------- MODULE WorkflowProofs ---------------------------
(***************************************************************************)
(* The workflow engine: the order in which it visits the steps (StepOrder) *)
(* and what it promises of a run (WorkflowEngine).                         *)
(***************************************************************************)
EXTENDS StepOrder, WorkflowEngine, FiniteSetTheorems, WellFoundedInduction, TLAPS

-----------------------------------------------------------------------------
(***************************************************************************)
(* The two loops of StepOrder are correct for any number of steps, any     *)
(* naming and any dependencies.  The strengthening says what the counters  *)
(* count: the edges into a node whose other end has not been popped.       *)
(***************************************************************************)

Waiting(v) == {e \in Edges(v) : e[2] \notin popped}

GraphTypes ==
    /\ mode \in {"validate", "run"}
    /\ named \in [Positions -> Positions]
    /\ \A s \in Positions : named[named[s]] = named[s]
    /\ deps \in [Positions -> SUBSET {named[s] : s \in Positions}]

LoopTypes ==
    /\ indegree \in [Positions -> Int]
    /\ ready \in SUBSET Nodes
    /\ popped \in SUBSET Nodes
    /\ forced \in SUBSET Positions

CountersAreRight == \A v \in Positions : indegree[v] = Cardinality(Waiting(v))
ZeroIsQueued == \A v \in Nodes : indegree[v] = 0 <=> v \in ready \cup popped
PoppedOnce == ready \cap popped = {}

LoopInv == GraphTypes /\ LoopTypes /\ CountersAreRight /\ ZeroIsQueued /\ PoppedOnce

LEMMA NodesAreSteps ==
  ASSUME GraphTypes
  PROVE  /\ \A s \in Positions : Node(s) \in Positions /\ Node(s) \in Nodes /\ named[s] \in Nodes
         /\ Nodes \subseteq Positions
         /\ \A s \in Positions : deps[s] \subseteq Nodes
  BY DEF GraphTypes, Node, Nodes

LEMMA EdgesAreFinite ==
  ASSUME NEW v
  PROVE  /\ IsFiniteSet(Edges(v))
         /\ \A S \in SUBSET Edges(v) : IsFiniteSet(S) /\ Cardinality(S) \in Nat
  <1>1. IsFiniteSet(Positions)
    BY StepAssumption, FS_Interval DEF Positions
  <1>2. IsFiniteSet(Positions \X Positions)
    BY <1>1, FS_Product
  <1>3. Edges(v) \in SUBSET (Positions \X Positions)
    BY DEF Edges
  <1>4. IsFiniteSet(Edges(v))
    BY <1>2, <1>3, FS_Subset
  <1> QED
    BY <1>4, FS_Subset, FS_CardinalityType

\* A counter is zero exactly when all the dependencies of its node are popped.
LEMMA ZeroMeansNoneWaiting ==
  ASSUME LoopInv, NEW v \in Positions
  PROVE  indegree[v] = 0 <=> Waiting(v) = {}
  <1>1. Waiting(v) \in SUBSET Edges(v)
    BY DEF Waiting
  <1>2. IsFiniteSet(Waiting(v))
    BY <1>1, EdgesAreFinite
  <1> QED
    BY <1>2, FS_EmptySet DEF LoopInv, CountersAreRight

LEMMA NoneWaitingMeansPopped ==
  ASSUME GraphTypes, NEW s \in Positions, Waiting(Node(s)) = {}
  PROVE  deps[s] \subseteq popped
  <1>1. SUFFICES ASSUME NEW d \in deps[s] PROVE d \in popped
    OBVIOUS
  <1>2. d \in Positions
    BY NodesAreSteps
  <1>3. <<s, d>> \in Edges(Node(s))
    BY <1>2 DEF Edges
  <1> QED
    BY <1>3 DEF Waiting

LEMMA InitLoop == OrderInit => LoopInv
  <1> SUFFICES ASSUME OrderInit PROVE LoopInv
    OBVIOUS
  <1>1. GraphTypes
    BY DEF OrderInit, GraphTypes, Namings
  <1>2. \A v \in Positions : Waiting(v) = Edges(v)
    BY DEF Waiting, OrderInit
  <1>3. \A v \in Positions : indegree[v] = Cardinality(Edges(v))
    BY DEF OrderInit
  <1>4. \A v \in Positions : Cardinality(Edges(v)) \in Nat
    BY EdgesAreFinite
  <1>5. LoopTypes
    BY <1>1, <1>4, NodesAreSteps DEF OrderInit, LoopTypes
  <1>6. CountersAreRight
    BY <1>2, <1>3 DEF CountersAreRight
  <1>7. ZeroIsQueued /\ PoppedOnce
    BY DEF OrderInit, ZeroIsQueued, PoppedOnce
  <1> QED
    BY <1>1, <1>5, <1>6, <1>7 DEF LoopInv

LEMMA GraphIsConstant ==
  ASSUME [OrderNext]_orderVars, GraphTypes
  PROVE  /\ GraphTypes' /\ graph' = graph
         /\ Nodes' = Nodes
         /\ \A s \in Positions : Node(s)' = Node(s)
         /\ \A v : Edges(v)' = Edges(v)
         /\ \A u, v : EdgesFrom(u, v)' = EdgesFrom(u, v)
  <1>1. graph' = graph
    BY DEF OrderNext, Pop, AppendRest, orderVars, graph
  <1>2. mode' = mode /\ named' = named /\ deps' = deps
    BY <1>1 DEF graph
  <1> QED
    BY <1>1, <1>2 DEF GraphTypes, Nodes, Node, Edges, EdgesFrom

LEMMA PopLoop ==
  ASSUME LoopInv, NEW u \in Positions, Pop(u)
  PROVE  LoopInv'
  <1>1. /\ GraphTypes' /\ Nodes' = Nodes
        /\ \A v : Edges(v)' = Edges(v)
    BY GraphIsConstant DEF LoopInv, OrderNext
  <1>2. u \in Nodes /\ u \notin popped /\ popped' = popped \cup {u}
    BY DEF LoopInv, LoopTypes, PoppedOnce, Pop
  <1>3. ASSUME NEW v \in Positions
        PROVE  /\ EdgesFrom(u, v) \in SUBSET Waiting(v)
               /\ Waiting(v)' = Waiting(v) \ EdgesFrom(u, v)
               /\ IsFiniteSet(Waiting(v))
               /\ Cardinality(Waiting(v)) \in Nat
               /\ Cardinality(EdgesFrom(u, v)) \in Nat
               /\ Cardinality(Waiting(v)') = indegree[v] - Cardinality(EdgesFrom(u, v))
    <2>1. EdgesFrom(u, v) \in SUBSET Waiting(v)
      BY <1>2 DEF EdgesFrom, Waiting
    <2>2. Waiting(v)' = Waiting(v) \ EdgesFrom(u, v)
      BY <1>1, <1>2 DEF EdgesFrom, Waiting
    <2>3. Waiting(v) \in SUBSET Edges(v) /\ EdgesFrom(u, v) \in SUBSET Edges(v)
      BY DEF Waiting, EdgesFrom
    <2>4. /\ IsFiniteSet(Waiting(v)) /\ Cardinality(Waiting(v)) \in Nat
          /\ Cardinality(EdgesFrom(u, v)) \in Nat
      BY <2>3, EdgesAreFinite
    <2>5. Waiting(v) \cap EdgesFrom(u, v) = EdgesFrom(u, v)
      BY <2>1
    <2>6. Cardinality(Waiting(v) \ EdgesFrom(u, v))
             = Cardinality(Waiting(v)) - Cardinality(EdgesFrom(u, v))
      BY <2>4, <2>5, FS_Difference
    <2>7. indegree[v] = Cardinality(Waiting(v))
      BY DEF LoopInv, CountersAreRight
    <2> QED
      BY <2>1, <2>2, <2>4, <2>6, <2>7
  <1>4. indegree' = [v \in Positions |-> indegree[v] - Cardinality(EdgesFrom(u, v))]
    BY DEF Pop
  <1>5. LoopTypes'
    <2>1. indegree' \in [Positions -> Int]
      BY <1>3, <1>4 DEF LoopInv, LoopTypes
    <2>2. ready' \in SUBSET Nodes
      BY DEF Pop, NewlyReady, LoopInv, LoopTypes
    <2> QED
      BY <1>1, <1>2, <2>1, <2>2 DEF LoopInv, LoopTypes, Pop
  <1>6. CountersAreRight'
    BY <1>3, <1>4 DEF CountersAreRight
  <1>7. ASSUME NEW v \in Nodes, EdgesFrom(u, v) # {}
        PROVE  v \notin ready \cup popped
    <2>1. v \in Positions
      BY NodesAreSteps DEF LoopInv
    <2>2. Waiting(v) # {}
      BY <1>3, <1>7, <2>1
    <2> QED
      BY <2>1, <2>2, ZeroMeansNoneWaiting DEF LoopInv, ZeroIsQueued
  <1>8. ASSUME NEW v \in Nodes, EdgesFrom(u, v) = {}
        PROVE  indegree'[v] = indegree[v]
    <2>1. v \in Positions
      BY NodesAreSteps DEF LoopInv
    <2>2. Cardinality(EdgesFrom(u, v)) = 0
      BY <1>8, FS_EmptySet
    <2> QED
      BY <1>4, <2>1, <2>2 DEF LoopInv, LoopTypes
  <1>9. ready' = (ready \ {u}) \cup NewlyReady(u)
    BY DEF Pop
  <1>10. ZeroIsQueued'
    <2>1. SUFFICES ASSUME NEW v \in Nodes
                   PROVE  indegree'[v] = 0 <=> v \in ready' \cup popped'
      BY <1>1 DEF ZeroIsQueued
    <2>2. CASE EdgesFrom(u, v) = {}
      <3>1. v \notin NewlyReady(u)
        BY <2>2 DEF NewlyReady
      <3>2. v \in ready' \cup popped' <=> v \in ready \cup popped
        BY <3>1, <1>2, <1>9 DEF Pop
      <3> QED
        BY <3>2, <1>8, <2>2 DEF LoopInv, ZeroIsQueued
    <2>3. CASE EdgesFrom(u, v) # {}
      <3>1. v \notin ready \cup popped /\ v # u
        BY <1>7, <2>3 DEF Pop
      <3>2. v \in NewlyReady(u) <=> indegree'[v] = 0
        BY <2>3 DEF NewlyReady
      <3> QED
        BY <3>1, <3>2, <1>2, <1>9
    <2> QED
      BY <2>2, <2>3
  <1>11. PoppedOnce'
    <2>1. \A v \in NewlyReady(u) : v \notin ready \cup popped
      BY <1>7 DEF NewlyReady
    <2>2. u \notin NewlyReady(u)
      BY <2>1 DEF Pop
    <2> QED
      BY <2>1, <2>2, <1>2, <1>9 DEF PoppedOnce, LoopInv
  <1> QED
    BY <1>1, <1>5, <1>6, <1>10, <1>11 DEF LoopInv

LEMMA AppendRestLoop ==
  ASSUME LoopInv, NEW s \in Positions, AppendRest(s)
  PROVE  LoopInv'
  <1>1. /\ GraphTypes' /\ Nodes' = Nodes
        /\ \A v : Edges(v)' = Edges(v)
    BY GraphIsConstant DEF LoopInv, OrderNext
  <1>2. UNCHANGED <<indegree, ready, popped>> /\ forced' = forced \cup {s}
    BY DEF AppendRest
  <1>3. \A v \in Positions : Waiting(v)' = Waiting(v)
    BY <1>1, <1>2 DEF Waiting
  <1> QED
    BY <1>1, <1>2, <1>3
    DEF LoopInv, LoopTypes, CountersAreRight, ZeroIsQueued, PoppedOnce

LEMMA StutterLoop ==
  ASSUME LoopInv, UNCHANGED orderVars
  PROVE  LoopInv'
  <1>1. /\ GraphTypes' /\ Nodes' = Nodes
        /\ \A v : Edges(v)' = Edges(v)
    BY GraphIsConstant DEF LoopInv
  <1>2. UNCHANGED <<indegree, ready, popped, forced>>
    BY DEF orderVars
  <1>3. \A v \in Positions : Waiting(v)' = Waiting(v)
    BY <1>1, <1>2 DEF Waiting
  <1> QED
    BY <1>1, <1>2, <1>3
    DEF LoopInv, LoopTypes, CountersAreRight, ZeroIsQueued, PoppedOnce

LEMMA LoopStep == LoopInv /\ [OrderNext]_orderVars => LoopInv'
  BY PopLoop, AppendRestLoop, StutterLoop DEF OrderNext

\* A step is taken only after every step it depends on, for any Size and any
\* graph: both loops of the code keep the dependencies.
THEOREM DependenciesAreFirst == OrderSpec => []DependenciesFirst
  <1>1. LoopInv => DependenciesFirst
    <2> SUFFICES ASSUME LoopInv, NEW s \in Positions, Node(s) \in popped
                 PROVE  deps[s] \subseteq popped
      BY DEF DependenciesFirst
    <2>1. Node(s) \in Positions /\ Node(s) \in Nodes
      BY NodesAreSteps DEF LoopInv
    <2>2. Waiting(Node(s)) = {}
      BY <2>1, ZeroMeansNoneWaiting DEF LoopInv, ZeroIsQueued
    <2> QED
      BY <2>2, NoneWaitingMeansPopped DEF LoopInv
  <1> QED
    BY <1>1, InitLoop, LoopStep, PTL DEF OrderSpec

-----------------------------------------------------------------------------
LEMMA SmallestRank ==
  ASSUME NEW T, T # {}, NEW rank, \A t \in T : rank[t] \in Nat
  PROVE  \E t \in T : \A u \in T : rank[t] <= rank[u]
  <1> DEFINE R == {rank[t] : t \in T}
  <1>1. \E x \in R : \A y \in R : ~ (<<y, x>> \in OpToRel(<, Nat))
    <2>1. R \subseteq Nat /\ R # {}
      OBVIOUS
    <2> QED
      BY ONLY <2>1, NatLessThanWellFounded, WFMin
  <1>2. PICK x \in R : \A y \in R : ~ (<<y, x>> \in OpToRel(<, Nat))
    BY <1>1
  <1>3. \A y \in R : ~ (y < x)
    BY <1>2 DEF OpToRel
  <1>4. PICK t \in T : rank[t] = x
    OBVIOUS
  <1>5. SUFFICES ASSUME NEW u \in T PROVE rank[t] <= rank[u]
    OBVIOUS
  <1>6. rank[u] \in R
    OBVIOUS
  <1>7. ~ (rank[u] < rank[t])
    BY <1>3, <1>4, <1>6
  <1>8. rank[u] \in Nat /\ rank[t] \in Nat
    OBVIOUS
  <1> HIDE DEF R
  <1> QED
    BY <1>7, <1>8

\* The graph a loop sees, that of the names or that of the steps, has no cycle.
Ranks(rank) == \A s \in Positions : \A d \in deps[s] : rank[d] < rank[Node(s)]
AcyclicNodes == \E rank \in [Positions -> Positions] : Ranks(rank)

\* The queue runs empty early only when there is a cycle: of the nodes left,
\* one of smallest rank would wait for nobody.
LEMMA EmptyQueueMeansAll ==
  ASSUME LoopInv, ready = {}, AcyclicNodes
  PROVE  popped = Nodes
  <1>1. PICK rank \in [Positions -> Positions] : Ranks(rank)
    BY DEF AcyclicNodes
  <1> DEFINE Left == Nodes \ popped
  <1>2. SUFFICES ASSUME Left # {} PROVE FALSE
    BY DEF LoopInv, LoopTypes
  <1>3. \A v \in Left : v \in Positions /\ rank[v] \in Nat
    BY NodesAreSteps DEF LoopInv, Positions
  <1>4. PICK v \in Left : \A u \in Left : rank[v] <= rank[u]
    <2> HIDE DEF Left
    <2> QED
      BY <1>2, <1>3, SmallestRank
  <1>5. indegree[v] # 0
    BY DEF LoopInv, ZeroIsQueued
  <1>6. PICK e \in Edges(v) : e[2] \notin popped
    BY <1>3, <1>5, ZeroMeansNoneWaiting DEF Waiting
  <1>7. e[1] \in Positions /\ Node(e[1]) = v /\ e[2] \in deps[e[1]]
    BY DEF Edges
  <1>8. e[2] \in Left
    BY <1>6, <1>7, NodesAreSteps DEF LoopInv
  <1>9. rank[e[2]] < rank[v]
    BY <1>1, <1>7 DEF Ranks
  <1>10. rank[v] <= rank[e[2]]
    BY <1>4, <1>8
  <1>11. rank[v] \in Nat /\ rank[e[2]] \in Nat
    BY <1>3, <1>8
  <1> HIDE DEF Left
  <1> QED
    BY <1>9, <1>10, <1>11

LEMMA NamesRankSteps ==
  ASSUME GraphTypes, AcyclicNames
  PROVE  AcyclicSteps
  <1>1. PICK rank \in [Positions -> Positions] :
          \A s \in Positions : \A d \in deps[s] : rank[d] < rank[named[s]]
    BY DEF AcyclicNames
  <1> DEFINE byName == [s \in Positions |-> rank[named[s]]]
  <1>2. byName \in [Positions -> Positions]
    BY DEF GraphTypes
  <1>3. ASSUME NEW s \in Positions, NEW d \in deps[s]
        PROVE  byName[d] < byName[s]
    <2>1. d \in Positions /\ named[d] = d
      BY DEF GraphTypes
    <2>2. byName[d] = rank[d] /\ byName[s] = rank[named[s]]
      BY <2>1
    <2> QED
      BY <1>1, <2>2
  <1> QED
    BY <1>2, <1>3 DEF AcyclicSteps

\* Once the fallback has begun, it is the engine's loop that has run dry.
ForcedInv == forced # {} => mode = "run" /\ ready = {} /\ popped # Nodes

LEMMA ForcedStep == LoopInv /\ ForcedInv /\ [OrderNext]_orderVars => ForcedInv'
  <1> SUFFICES ASSUME LoopInv, ForcedInv, [OrderNext]_orderVars PROVE ForcedInv'
    OBVIOUS
  <1>1. Nodes' = Nodes /\ mode' = mode
    BY GraphIsConstant DEF LoopInv, graph
  <1>2. ASSUME NEW u \in Positions, Pop(u) PROVE ForcedInv'
    BY <1>2 DEF Pop, ForcedInv
  <1>3. ASSUME NEW s \in Positions, AppendRest(s) PROVE ForcedInv'
    <2>1. s \in Nodes
      BY <1>3 DEF AppendRest, Nodes, Node
    <2> QED
      BY <1>1, <1>3, <2>1 DEF AppendRest, ForcedInv
  <1>4. CASE UNCHANGED orderVars
    BY <1>1, <1>4 DEF orderVars, ForcedInv
  <1> QED
    BY <1>2, <1>3, <1>4 DEF OrderNext

\* The engine appends a step out of order only if the dependencies have a
\* cycle, one that _has_cycle refuses: for any Size, naming and dependencies.
THEOREM FallbackNeedsCycle == OrderSpec => []ForcedOnlyOnCycle
  <1>1. OrderInit => ForcedInv
    BY DEF OrderInit, ForcedInv
  <1>2. LoopInv /\ ForcedInv => ForcedOnlyOnCycle
    <2> SUFFICES ASSUME LoopInv, ForcedInv, forced # {}
                 PROVE  ~AcyclicSteps /\ ~AcyclicNames
      BY DEF ForcedOnlyOnCycle
    <2>1. ~AcyclicNodes
      BY EmptyQueueMeansAll DEF ForcedInv
    <2>2. AcyclicSteps => AcyclicNodes
      BY DEF ForcedInv, AcyclicSteps, AcyclicNodes, Ranks, Node
    <2> QED
      BY <2>1, <2>2, NamesRankSteps DEF LoopInv
  <1> QED
    BY <1>1, <1>2, InitLoop, LoopStep, ForcedStep, PTL DEF OrderSpec

-----------------------------------------------------------------------------
\* What has been popped can be ranked in the order in which it was.
RanksPopped(rank) ==
    /\ \A s \in Positions : Node(s) \in popped =>
          \A d \in deps[s] : rank[d] < rank[Node(s)]
    /\ \A v \in popped : rank[v] <= Cardinality(popped)
RankInv == \E rank \in [Positions -> Positions] : RanksPopped(rank)

LEMMA NodesAreFinite ==
  ASSUME GraphTypes, NEW S \in SUBSET Nodes
  PROVE  IsFiniteSet(S) /\ Cardinality(S) \in Nat /\ Cardinality(S) <= Size
  <1>1. IsFiniteSet(Positions) /\ Cardinality(Positions) = Size
    BY StepAssumption, FS_Interval DEF Positions
  <1>2. S \in SUBSET Positions
    BY NodesAreSteps
  <1> QED
    BY <1>1, <1>2, FS_Subset, FS_CardinalityType

LEMMA PopRank ==
  ASSUME LoopInv, RankInv, NEW u \in Positions, Pop(u)
  PROVE  RankInv'
  <1>1. PICK rank \in [Positions -> Positions] : RanksPopped(rank)
    BY DEF RankInv
  <1>2. u \in Nodes /\ u \notin popped /\ popped' = popped \cup {u}
    BY DEF LoopInv, LoopTypes, PoppedOnce, Pop
  <1> DEFINE c == Cardinality(popped)
  <1>3. c \in Nat /\ Cardinality(popped') = c + 1 /\ c + 1 <= Size
    <2>1. popped \in SUBSET Nodes /\ popped \cup {u} \in SUBSET Nodes
      BY <1>2 DEF LoopInv, LoopTypes
    <2>2. IsFiniteSet(popped) /\ c \in Nat /\ Cardinality(popped \cup {u}) <= Size
      BY <2>1, NodesAreFinite DEF LoopInv
    <2>3. Cardinality(popped \cup {u}) = c + 1
      BY <1>2, <2>2, FS_AddElement
    <2> QED
      BY <1>2, <2>2, <2>3
  <1>4. PICK next \in [Positions -> Positions] : next = [rank EXCEPT ![u] = c + 1]
    <2> HIDE DEF c
    <2>1. c + 1 \in Positions
      BY <1>3, StepAssumption DEF Positions
    <2> QED
      BY <2>1
  <1>5. /\ \A s \in Positions : Node(s)' = Node(s)
        /\ deps' = deps
    BY GraphIsConstant DEF LoopInv, OrderNext, graph
  <1>6. \A v \in popped : v \in Positions /\ v # u
    BY <1>2, NodesAreSteps DEF LoopInv, LoopTypes
  <1>7. ASSUME NEW v \in popped'
        PROVE  next[v] <= Cardinality(popped')
    <2>1. CASE v = u
      BY <1>3, <1>4, <2>1
    <2>2. CASE v # u
      <3>1. v \in popped /\ v \in Positions
        BY <1>2, <1>6, <2>2
      <3>2. next[v] = rank[v] /\ rank[v] \in Nat
        BY <1>4, <2>2, <3>1 DEF Positions
      <3>3. rank[v] <= c
        BY <1>1, <3>1 DEF RanksPopped
      <3> HIDE DEF c
      <3> QED
        BY <1>3, <3>2, <3>3
    <2> QED
      BY <2>1, <2>2
  <1>8. ASSUME NEW s \in Positions, Node(s) \in popped', NEW d \in deps[s]
        PROVE  next[d] < next[Node(s)]
    <2>1. Node(s) \in Positions /\ Node(s) \in Nodes
      BY NodesAreSteps DEF LoopInv
    <2>2. Node(s) \in ready \cup popped
      BY <1>2, <1>8 DEF Pop
    <2>3. Waiting(Node(s)) = {}
      BY <2>1, <2>2, ZeroMeansNoneWaiting DEF LoopInv, ZeroIsQueued
    <2>4. d \in popped
      BY <2>3, NoneWaitingMeansPopped DEF LoopInv
    <2>5. d \in Positions /\ d # u /\ next[d] = rank[d] /\ rank[d] \in Nat /\ rank[d] <= c
      BY <1>1, <1>4, <1>6, <2>4 DEF RanksPopped, Positions
    <2>6. CASE Node(s) = u
      <3>1. next[Node(s)] = c + 1
        BY <1>4, <2>6
      <3> HIDE DEF c
      <3> QED
        BY <1>3, <2>5, <3>1
    <2>7. CASE Node(s) # u
      <3>1. Node(s) \in popped
        BY <1>2, <1>8, <2>7
      <3>2. next[Node(s)] = rank[Node(s)]
        BY <1>4, <2>1, <2>7
      <3>3. rank[d] < rank[Node(s)]
        BY <1>1, <3>1 DEF RanksPopped
      <3> HIDE DEF c
      <3> QED
        BY <2>5, <3>2, <3>3
    <2> QED
      BY <2>6, <2>7
  <1>9. \A s \in Positions : Node(s)' \in popped' =>
            \A d \in deps'[s] : next[d] < next[Node(s)']
    BY <1>5, <1>8
  <1> HIDE DEF c
  <1> QED
    BY <1>4, <1>7, <1>9 DEF RankInv, RanksPopped

LEMMA RankStep == LoopInv /\ RankInv /\ [OrderNext]_orderVars => RankInv'
  <1> SUFFICES ASSUME LoopInv, RankInv, [OrderNext]_orderVars PROVE RankInv'
    OBVIOUS
  <1>1. /\ \A s \in Positions : Node(s)' = Node(s)
        /\ deps' = deps
    BY GraphIsConstant DEF LoopInv, graph
  <1>2. ASSUME popped' = popped PROVE RankInv'
    BY <1>1, <1>2 DEF RankInv, RanksPopped
  <1>3. ASSUME NEW s \in Positions, AppendRest(s) PROVE RankInv'
    BY <1>2, <1>3 DEF AppendRest
  <1>4. CASE UNCHANGED orderVars
    BY <1>2, <1>4 DEF orderVars
  <1> QED
    BY <1>3, <1>4, PopRank DEF OrderNext

\* _has_cycle accepts exactly the definitions whose names have no cycle, for
\* any number of steps.
THEOREM CycleCheckIsExact == OrderSpec => []ValidatorIsExact
  <1>1. OrderInit => RankInv
    <2> SUFFICES ASSUME OrderInit PROVE RankInv
      OBVIOUS
    <2>1. [s \in Positions |-> s] \in [Positions -> Positions]
      OBVIOUS
    <2>2. popped = {}
      BY DEF OrderInit
    <2> QED
      BY <2>1, <2>2 DEF RankInv, RanksPopped
  <1>2. LoopInv /\ RankInv => ValidatorIsExact
    <2> SUFFICES ASSUME LoopInv, RankInv, mode = "validate", ready = {}
                 PROVE  popped = Nodes <=> AcyclicNames
      BY DEF ValidatorIsExact
    <2>1. AcyclicNames <=> AcyclicNodes
      BY DEF AcyclicNames, AcyclicNodes, Ranks, Node
    <2>2. ASSUME popped = Nodes PROVE AcyclicNodes
      BY <2>2, NodesAreSteps DEF RankInv, RanksPopped, AcyclicNodes, Ranks, LoopInv
    <2> QED
      BY <2>1, <2>2, EmptyQueueMeansAll
  <1> QED
    BY <1>1, <1>2, InitLoop, LoopStep, RankStep, PTL DEF OrderSpec

-----------------------------------------------------------------------------
(***************************************************************************)
(* What WorkflowEngine promises of a run, for any number of steps, retries *)
(* and executors.  The strengthening ties the point at which the run is to *)
(* the steps that have succeeded, and a job's state to its history.        *)
(***************************************************************************)

RunTypes ==
    /\ status \in {"absent", "running", "completed", "failed"}
    /\ recorded \in Nat
    /\ pc \in {"start", "evaluate", "submit", "wait", "settled", "fail", "over", "dead"}
    /\ step \in 1..(N + 1)
    /\ attempts \in Nat
    /\ allowed \in BOOLEAN

JobTypes ==
    /\ job \in [Jobs -> {"none", "QUEUED", "RUNNING", "CANCELLING"} \cup Terminal]
    /\ thread \in [Executors -> [at : {"idle", "picked", "executing"},
                                 job : Jobs \cup {<<0, 0>>}]]
    /\ succeeded \in SUBSET Jobs /\ ingested \in SUBSET Jobs /\ late \in SUBSET Jobs

\* The run is inside a step, and its current job is one of that step.
InsideStep ==
    /\ pc \in {"submit", "wait", "settled", "fail"} => step <= N
    /\ pc \in {"submit", "wait", "settled"} => attempts <= Retry[step]

\* Outcomes and successes up to the step the run is at.
Progress ==
    /\ outcomes = 1..(step - 1)
    /\ \A s \in 1..(step - 1) : StepSucceeded(s)
    /\ pc = "settled" => StepSucceeded(step)

\* Jobs are submitted in the order of the steps, and threads execute only
\* submitted jobs; COMPLETED is never invented.
JobHistory ==
    /\ \A j \in Jobs : job[j] # "none" => j[1] <= step
    /\ \A j \in Jobs : job[j] = "COMPLETED" => j \in succeeded
    /\ \A x \in Executors : thread[x].at # "idle" =>
          thread[x].job \in Jobs /\ job[thread[x].job] # "none"

\* After the revocation the run is at the step of the late jobs, or has just
\* left it and cannot enter the next one.
LateJobs ==
    /\ late # {} => ~allowed
    /\ \/ \A j \in late : j[1] = step
       \/ /\ \A j \in late : j[1] = step - 1
          /\ pc \in {"evaluate", "fail", "over", "dead"}

\* What _finish has written, and that nothing moves afterwards.
Record ==
    /\ status \in {"completed", "failed"} => pc = "over"
    /\ status = "completed" => step = N + 1 /\ recorded = N
    /\ status = "failed" => recorded < N

RunInv == /\ RunTypes /\ JobTypes /\ InsideStep /\ Progress /\ JobHistory
          /\ IngestedSucceeded /\ LateJobs /\ Record

-----------------------------------------------------------------------------
LEMMA CurrentIsJob ==
  ASSUME RunTypes, InsideStep, pc \in {"submit", "wait", "settled"}
  PROVE  step \in Steps /\ current \in Jobs /\ current[1] = step
  BY WorkflowAssumption DEF RunTypes, InsideStep, Steps, Jobs, current

\* A job that was COMPLETED makes its step a successful one.
LEMMA SuccessOfCurrent ==
  ASSUME RunTypes, InsideStep, pc \in {"submit", "wait", "settled"}, current \in succeeded
  PROVE  StepSucceeded(step)
  <1>1. step \in Steps /\ Retry[step] \in 0..10
    BY CurrentIsJob, WorkflowAssumption
  <1>2. attempts \in 0..Retry[step]
    BY <1>1 DEF RunTypes, InsideStep
  <1>3. <<step, attempts>> \in succeeded
    BY DEF current
  <1>4. QED
    BY <1>2, <1>3 DEF StepSucceeded

LEMMA OutcomesCounted ==
  ASSUME RunTypes, Progress
  PROVE  Cardinality(outcomes) = step - 1
  <1>1. step \in Int /\ step >= 1
    BY WorkflowAssumption DEF RunTypes
  <1>2. QED
    BY <1>1, FS_Interval DEF Progress

LEMMA SuccessGrows ==
  ASSUME NEW s, StepSucceeded(s), succeeded \subseteq succeeded'
  PROVE  StepSucceeded(s)'
  BY DEF StepSucceeded

LEMMA RunInvInit == Init => RunInv
  <1> SUFFICES ASSUME Init PROVE RunInv
    OBVIOUS
  <1> USE WorkflowAssumption DEF Init
  <1>1. RunTypes /\ InsideStep /\ Record
    BY DEF RunTypes, InsideStep, Record
  <1>2. JobTypes
    BY DEF JobTypes, Idle
  <1>3. Progress
    BY DEF Progress
  <1>4. JobHistory /\ IngestedSucceeded /\ LateJobs
    BY DEF JobHistory, Idle, IngestedSucceeded, LateJobs
  <1>5. QED
    BY <1>1, <1>2, <1>3, <1>4 DEF RunInv

-----------------------------------------------------------------------------
(* The run.                                                                *)

LEMMA EngineKeeps ==
  ASSUME RunInv, EngineStep
  PROVE  RunInv'
  <1> USE WorkflowAssumption DEF RunInv, runVars, jobVars
  <1>1. CASE Start
    <2>1. RunTypes' /\ InsideStep'
      BY <1>1, CurrentIsJob DEF Start, RunTypes, InsideStep, Steps
    <2>2. JobTypes' /\ IngestedSucceeded'
      BY <1>1, CurrentIsJob DEF Start, JobTypes, IngestedSucceeded
    <2>3. Progress'
      BY <1>1 DEF Start, Progress, RunTypes, StepSucceeded
    <2>4. JobHistory'
      BY <1>1 DEF Start, JobHistory
    <2>5. LateJobs' /\ Record'
      BY <1>1 DEF Start, LateJobs, Record, RunTypes
    <2>6. QED
      BY <2>1, <2>2, <2>3, <2>4, <2>5
  <1>2. CASE Evaluate
    <2>1. RunTypes' /\ InsideStep'
      BY <1>2, CurrentIsJob DEF Evaluate, Permitted, RunTypes, InsideStep, Steps
    <2>2. JobTypes' /\ IngestedSucceeded'
      BY <1>2, CurrentIsJob DEF Evaluate, Permitted, JobTypes, IngestedSucceeded
    <2>3. Progress'
      BY <1>2 DEF Evaluate, Permitted, Progress, RunTypes, StepSucceeded
    <2>4. JobHistory'
      BY <1>2 DEF Evaluate, Permitted, JobHistory
    <2>5. LateJobs' /\ Record'
      BY <1>2 DEF Evaluate, Permitted, LateJobs, Record, RunTypes
    <2>6. QED
      BY <2>1, <2>2, <2>3, <2>4, <2>5
  <1>3. CASE Refused
    <2>1. RunTypes' /\ InsideStep'
      BY <1>3, CurrentIsJob DEF Refused, RunTypes, InsideStep, Steps
    <2>2. JobTypes' /\ IngestedSucceeded'
      BY <1>3, CurrentIsJob DEF Refused, JobTypes, IngestedSucceeded
    <2>3. Progress'
      BY <1>3 DEF Refused, Progress, RunTypes, StepSucceeded
    <2>4. JobHistory'
      BY <1>3 DEF Refused, JobHistory
    <2>5. LateJobs' /\ Record'
      BY <1>3 DEF Refused, LateJobs, Record, RunTypes
    <2>6. QED
      BY <2>1, <2>2, <2>3, <2>4, <2>5
  <1>4. CASE Submit
    <2>1. RunTypes' /\ InsideStep'
      BY <1>4, CurrentIsJob DEF Submit, RunTypes, InsideStep, Steps
    <2>2. JobTypes' /\ IngestedSucceeded'
      BY <1>4, CurrentIsJob DEF Submit, JobTypes, IngestedSucceeded
    <2>3. Progress'
      BY <1>4 DEF Submit, Progress, RunTypes, StepSucceeded
    <2>4. JobHistory'
      BY <1>4, CurrentIsJob DEF Submit, JobHistory, JobTypes, RunTypes
    <2>5. LateJobs' /\ Record'
      BY <1>4, CurrentIsJob DEF Submit, LateJobs, Record, RunTypes
    <2>6. QED
      BY <2>1, <2>2, <2>3, <2>4, <2>5
  <1>5. CASE Again
    <2>1. RunTypes' /\ InsideStep'
      BY <1>5, CurrentIsJob DEF Again, MoreRetries, RunTypes, InsideStep, Steps
    <2>2. JobTypes' /\ IngestedSucceeded'
      BY <1>5, CurrentIsJob DEF Again, MoreRetries, JobTypes, IngestedSucceeded
    <2>3. Progress'
      BY <1>5 DEF Again, MoreRetries, Progress, RunTypes, StepSucceeded
    <2>4. JobHistory'
      BY <1>5 DEF Again, MoreRetries, JobHistory
    <2>5. LateJobs' /\ Record'
      BY <1>5 DEF Again, MoreRetries, LateJobs, Record, RunTypes
    <2>6. QED
      BY <2>1, <2>2, <2>3, <2>4, <2>5
  <1>6. CASE Settle
    <2>1. RunTypes' /\ InsideStep'
      BY <1>6, CurrentIsJob DEF Settle, Succeeded, RunTypes, InsideStep, Steps
    <2>2. JobTypes' /\ IngestedSucceeded'
      BY <1>6, CurrentIsJob DEF Settle, Succeeded, JobTypes, JobHistory, IngestedSucceeded
    <2>3. Progress'
      <3>1. pc' = "settled" => StepSucceeded(step)
        BY <1>6, SuccessOfCurrent, CurrentIsJob DEF Settle, Succeeded, JobHistory
      <3>2. QED
        BY <1>6, <3>1 DEF Settle, Progress, StepSucceeded
    <2>4. JobHistory'
      BY <1>6 DEF Settle, Succeeded, JobHistory
    <2>5. LateJobs' /\ Record'
      BY <1>6 DEF Settle, Succeeded, LateJobs, Record, RunTypes
    <2>6. QED
      BY <2>1, <2>2, <2>3, <2>4, <2>5
  <1>7. CASE NextStep
    <2>1. RunTypes' /\ InsideStep'
      BY <1>7, CurrentIsJob DEF NextStep, RunTypes, InsideStep, Steps
    <2>2. JobTypes' /\ IngestedSucceeded'
      BY <1>7, CurrentIsJob DEF NextStep, JobTypes, IngestedSucceeded
    <2>3. Progress'
      BY <1>7 DEF NextStep, Progress, RunTypes, StepSucceeded
    <2>4. JobHistory'
      BY <1>7 DEF NextStep, JobHistory, RunTypes, Jobs, Steps
    <2>5. LateJobs' /\ Record'
      BY <1>7 DEF NextStep, LateJobs, Record, RunTypes
    <2>6. QED
      BY <2>1, <2>2, <2>3, <2>4, <2>5
  <1>8. CASE IngestFails
    <2>1. RunTypes' /\ InsideStep'
      BY <1>8, CurrentIsJob DEF IngestFails, RunTypes, InsideStep, Steps
    <2>2. JobTypes' /\ IngestedSucceeded'
      BY <1>8, CurrentIsJob DEF IngestFails, JobTypes, IngestedSucceeded
    <2>3. Progress'
      BY <1>8 DEF IngestFails, Progress, RunTypes, StepSucceeded
    <2>4. JobHistory'
      BY <1>8 DEF IngestFails, JobHistory
    <2>5. LateJobs' /\ Record'
      BY <1>8 DEF IngestFails, LateJobs, Record, RunTypes
    <2>6. QED
      BY <2>1, <2>2, <2>3, <2>4, <2>5
  <1>9. CASE Timeout
    <2>1. RunTypes' /\ InsideStep'
      BY <1>9, CurrentIsJob DEF Timeout, RunTypes, InsideStep, Steps
    <2>2. JobTypes' /\ IngestedSucceeded'
      BY <1>9, CurrentIsJob DEF Timeout, JobTypes, IngestedSucceeded
    <2>3. Progress'
      BY <1>9 DEF Timeout, Progress, RunTypes, StepSucceeded
    <2>4. JobHistory'
      BY <1>9 DEF Timeout, JobHistory
    <2>5. LateJobs' /\ Record'
      BY <1>9 DEF Timeout, LateJobs, Record, RunTypes
    <2>6. QED
      BY <2>1, <2>2, <2>3, <2>4, <2>5
  <1>10. CASE Complete
    <2>1. RunTypes' /\ InsideStep'
      BY <1>10, OutcomesCounted DEF Complete, Finish, RunTypes, InsideStep, Steps
    <2>2. JobTypes' /\ IngestedSucceeded'
      BY <1>10, CurrentIsJob DEF Complete, Finish, JobTypes, IngestedSucceeded
    <2>3. Progress'
      BY <1>10 DEF Complete, Finish, Progress, RunTypes, StepSucceeded
    <2>4. JobHistory'
      BY <1>10 DEF Complete, Finish, JobHistory
    <2>5. LateJobs' /\ Record'
      BY <1>10, OutcomesCounted DEF Complete, Finish, InsideStep, LateJobs, Record, RunTypes
    <2>6. QED
      BY <2>1, <2>2, <2>3, <2>4, <2>5
  <1>11. CASE Fail
    <2>1. RunTypes' /\ InsideStep'
      BY <1>11, OutcomesCounted DEF Fail, Finish, RunTypes, InsideStep, Steps
    <2>2. JobTypes' /\ IngestedSucceeded'
      BY <1>11, CurrentIsJob DEF Fail, Finish, JobTypes, IngestedSucceeded
    <2>3. Progress'
      BY <1>11 DEF Fail, Finish, Progress, RunTypes, StepSucceeded
    <2>4. JobHistory'
      BY <1>11 DEF Fail, Finish, JobHistory
    <2>5. LateJobs' /\ Record'
      BY <1>11, OutcomesCounted DEF Fail, Finish, InsideStep, LateJobs, Record, RunTypes
    <2>6. QED
      BY <2>1, <2>2, <2>3, <2>4, <2>5
  <1>12. QED
    BY <1>1, <1>2, <1>3, <1>4, <1>5, <1>6, <1>7, <1>8, <1>9, <1>10, <1>11 DEF EngineStep

-----------------------------------------------------------------------------
(* The threads that execute the jobs, other terminals, and the death of the *)
(* process.                                                                *)

LEMMA JobsKeep ==
  ASSUME RunInv, NEW j \in Jobs, JobStep(j)
  PROVE  RunInv'
  <1> USE WorkflowAssumption DEF RunInv, JobFrame, runVars
  <1>1. RunTypes' /\ InsideStep' /\ LateJobs' /\ Record'
    BY DEF JobStep, Disturb, Pick, Claim, Verdict, RunTypes, InsideStep, LateJobs, Record
  <1>2. succeeded \subseteq succeeded' /\ UNCHANGED <<outcomes, step, pc, ingested>>
    BY DEF JobStep, Disturb, Pick, Claim, Verdict
  <1>3. Progress'
    <2>1. \A s : StepSucceeded(s) => StepSucceeded(s)'
      BY <1>2, SuccessGrows
    <2>2. QED
      BY <1>2, <2>1 DEF Progress
  <1>4. JobTypes' /\ JobHistory' /\ IngestedSucceeded'
    <2>1. CASE Disturb(j)
      BY <2>1 DEF Disturb, JobTypes, JobHistory, IngestedSucceeded, Terminal
    <2>2. ASSUME NEW x \in Executors, Pick(j, x)
          PROVE  JobTypes' /\ JobHistory' /\ IngestedSucceeded'
      BY <2>2 DEF Pick, At, JobTypes, JobHistory, IngestedSucceeded
    <2>3. ASSUME NEW x \in Executors, Claim(j, x)
          PROVE  JobTypes' /\ JobHistory' /\ IngestedSucceeded'
      BY <2>3 DEF Claim, At, JobTypes, JobHistory, IngestedSucceeded
    <2>4. ASSUME NEW x \in Executors, NEW v \in Terminal, Verdict(j, x, v)
          PROVE  JobTypes' /\ JobHistory' /\ IngestedSucceeded'
      BY <2>4 DEF Verdict, At, Idle, JobTypes, JobHistory, IngestedSucceeded, Terminal
    <2>5. QED
      BY <2>1, <2>2, <2>3, <2>4 DEF JobStep
  <1>5. QED
    BY <1>1, <1>3, <1>4

LEMMA OthersKeep ==
  ASSUME RunInv, Revoke \/ Crash \/ UNCHANGED vars
  PROVE  RunInv'
  <1> USE DEF RunInv, runVars, jobVars, vars
  <1>1. RunTypes' /\ JobTypes' /\ InsideStep' /\ IngestedSucceeded'
    BY DEF Revoke, Crash, RunTypes, JobTypes, InsideStep, IngestedSucceeded
  <1>2. Progress' /\ JobHistory'
    BY DEF Revoke, Crash, Progress, JobHistory, StepSucceeded
  <1>3. LateJobs' /\ Record'
    BY DEF Revoke, Crash, LateJobs, Record
  <1>4. QED
    BY <1>1, <1>2, <1>3

\* The strengthening is an invariant of every run.
THEOREM RunInvariant == Spec => []RunInv
  <1>1. RunInv /\ [Next]_vars => RunInv'
    BY EngineKeeps, JobsKeep, OthersKeep DEF Next
  <1>2. QED
    BY RunInvInit, <1>1, PTL DEF Spec

\* A run recorded as completed had a COMPLETED job for each of its steps, and
\* it alone counts all of them.
THEOREM CompletedRuns == Spec => []CompletedRunIsComplete
  <1>1. RunInv => CompletedRunIsComplete
    <2> SUFFICES ASSUME RunInv PROVE CompletedRunIsComplete
      OBVIOUS
    <2>1. status = "completed" => \A s \in Steps : StepSucceeded(s)
      BY WorkflowAssumption DEF RunInv, Record, Progress, Steps
    <2>2. status \in {"completed", "failed"} => (status = "completed" <=> recorded = N)
      BY WorkflowAssumption DEF RunInv, RunTypes, Record
    <2>3. QED
      BY <2>1, <2>2 DEF CompletedRunIsComplete
  <1>2. QED
    BY RunInvariant, <1>1, PTL

\* Steps are submitted only after all the earlier ones have succeeded.
THEOREM RunsInOrder == Spec => []StepsInOrder
  <1>1. RunInv => StepsInOrder
    <2> SUFFICES ASSUME RunInv, NEW j \in Jobs, job[j] # "none", NEW s \in 1..(j[1] - 1)
                 PROVE  StepSucceeded(s)
      BY DEF StepsInOrder
    <2>1. j[1] \in Int /\ j[1] <= step /\ step \in Int
      BY WorkflowAssumption DEF RunInv, RunTypes, JobHistory, Jobs, Steps
    <2>2. s \in 1..(step - 1)
      BY <2>1
    <2>3. QED
      BY <2>2 DEF RunInv, Progress
  <1>2. QED
    BY RunInvariant, <1>1, PTL

\* Only what a COMPLETED job has found becomes an asset.
THEOREM IngestionIsJustified == Spec => []IngestedSucceeded
  <1>1. RunInv => IngestedSucceeded
    BY DEF RunInv
  <1>2. QED
    BY RunInvariant, <1>1, PTL

\* A withdrawn permission is outlived by one step at most.
THEOREM RevocationStops == Spec => []RevocationStopsRun
  <1>1. RunInv => RevocationStopsRun
    BY DEF RunInv, LateJobs, RevocationStopsRun
  <1>2. QED
    BY RunInvariant, <1>1, PTL
=============================================================================
