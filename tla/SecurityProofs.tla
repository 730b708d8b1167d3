----------------------------- MODULE SecurityProofs -----------------------------
(***************************************************************************)
(* Theorems about ReportingSpec: SocPipeline, Casework, ThreatIntel and    *)
(* Reporting together, for any terminals, tables and bounds.               *)
(*                                                                         *)
(* Each family of commands has an invariant: its tables, what a stage may  *)
(* rely on, and what it may rely on while its command is quiet.  For each  *)
(* there is a lemma on one move, and the steps are taken family by family; *)
(* whatever a family does, the others see a terminal that moves Beside.    *)
(***************************************************************************)
EXTENDS Reporting, SocProofs, WellFoundedInduction

-----------------------------------------------------------------------------
(***************************************************************************)
(* Lists: what Ordered and SetToSeq choose.                                *)
(***************************************************************************)

LEMMA LeastOf ==
  ASSUME NEW B, B \subseteq Nat, B # {}
  PROVE  \E n \in B : \A m \in B : n <= m
  <1>1. B \subseteq Nat /\ B # {}
    OBVIOUS
  <1>2. \E n \in B : \A m \in B : ~ (<<m, n>> \in OpToRel(<, Nat))
    BY ONLY <1>1, NatLessThanWellFounded, WFMin
  <1>3. PICK n \in B : \A m \in B : ~ (<<m, n>> \in OpToRel(<, Nat))
    BY <1>2
  <1>4. \A m \in B : ~ (m < n)
    BY <1>3 DEF OpToRel
  <1>5. QED
    BY <1>4

IsOrder(S, order) ==
  /\ \A x, y \in S : <<x, y>> \in order \/ <<y, x>> \in order
  /\ \A x, y, z \in S : <<x, y>> \in order /\ <<y, z>> \in order => <<x, z>> \in order

IsListing(list, S, order) ==
  /\ list \in [1..Cardinality(S) -> S]
  /\ \A x \in S : \E k \in DOMAIN list : list[k] = x
  /\ \A j, k \in DOMAIN list : j < k => <<list[j], list[k]>> \in order

\* A set with no last member, or with no listing, has a smaller part of the kind.
LEMMA LastMember ==
  ASSUME NEW S, IsFiniteSet(S), S # {}, NEW order, IsOrder(S, order)
  PROVE  \E m \in S : \A x \in S : <<x, m>> \in order
  <1> DEFINE Tops(T) == \E m \in T : \A x \in T : <<x, m>> \in order
             B == {n \in Nat : \E T \in SUBSET S : T # {} /\ Cardinality(T) = n /\ ~ Tops(T)}
  <1>1. ASSUME B # {}
        PROVE  FALSE
    <2>1. PICK n \in B : \A m \in B : n <= m
      BY ONLY <1>1, LeastOf
    <2>2. PICK T \in SUBSET S : T # {} /\ Cardinality(T) = n /\ ~ Tops(T)
      BY <2>1
    <2>3. IsFiniteSet(T)
      BY FS_Subset
    <2>4. PICK x \in T : TRUE
      BY <2>2
    <2> DEFINE U == T \ {x}
    <2>5. IsFiniteSet(U) /\ Cardinality(U) = n - 1 /\ n - 1 \in Nat
      <3>1. IsFiniteSet(U) /\ Cardinality(U) = Cardinality(T) - 1
        BY ONLY <2>3, x \in T, FS_RemoveElement
      <3>2. Cardinality(U) \in Nat
        BY ONLY <3>1, FS_CardinalityType
      <3>3. QED
        BY <2>2, <3>1, <3>2
    <2>6. n \in Nat /\ ~ (n <= n - 1)
      BY <2>2, <2>3, FS_CardinalityType
    <2>7. U = {} \/ Tops(U)
      <3>1. PICK V : V = U
        OBVIOUS
      <3>2. V \in SUBSET S /\ Cardinality(V) \in Nat /\ Cardinality(V) = n - 1
        BY <2>5, <3>1
      <3>3. V = {} \/ Tops(V)
        <4>1. Cardinality(V) \notin B
          BY <2>1, <2>6, <3>2
        <4>2. QED
          BY <3>2, <4>1
      <3>4. QED
        BY <3>1, <3>3
    <2>8. CASE U = {}
      BY <2>2, <2>4, <2>8 DEF IsOrder
    <2>9. CASE Tops(U)
      <3>1. PICK m \in U : \A y \in U : <<y, m>> \in order
        BY <2>9
      <3>2. CASE <<x, m>> \in order
        BY <2>2, <3>1, <3>2
      <3>3. CASE <<m, x>> \in order
        <4>1. \A y \in U : <<y, x>> \in order
          BY <2>2, <2>4, <3>1, <3>3 DEF IsOrder
        <4>2. <<x, x>> \in order
          BY <2>4 DEF IsOrder
        <4>3. QED
          BY <2>2, <2>4, <4>1, <4>2
      <3>4. QED
        BY <2>2, <2>4, <3>1, <3>2, <3>3 DEF IsOrder
    <2>10. QED
      BY <2>7, <2>8, <2>9
  <1>2. Cardinality(S) \in Nat
    BY FS_CardinalityType
  <1>3. QED
    BY <1>1, <1>2

LEMMA HasListing ==
  ASSUME NEW S, IsFiniteSet(S), NEW order, IsOrder(S, order)
  PROVE  \E list : IsListing(list, S, order)
  <1> DEFINE B == {n \in Nat : \E T \in SUBSET S :
                     Cardinality(T) = n /\ ~ \E list : IsListing(list, T, order)}
  <1>1. ASSUME B # {}
        PROVE  FALSE
    <2>1. PICK n \in B : \A m \in B : n <= m
      BY ONLY <1>1, LeastOf
    <2>2. PICK T \in SUBSET S : Cardinality(T) = n /\ ~ \E list : IsListing(list, T, order)
      BY <2>1
    <2>3. IsFiniteSet(T) /\ IsOrder(T, order)
      BY FS_Subset DEF IsOrder
    <2>4. CASE T = {}
      <3>1. Cardinality(T) = 0 /\ 1..0 = {}
        BY <2>4, FS_EmptySet
      <3>2. IsListing([k \in 1..0 |-> k], T, order)
        BY <2>4, <3>1 DEF IsListing
      <3>3. QED
        BY <2>2, <3>2
    <2>5. CASE T # {}
      <3>1. PICK x \in T : \A y \in T : <<y, x>> \in order
        BY <2>3, <2>5, LastMember
      <3> DEFINE U == T \ {x}
      <3>2. /\ IsFiniteSet(U) /\ Cardinality(U) = n - 1 /\ n - 1 \in Nat
            /\ Cardinality(U) < n
        <4>1. IsFiniteSet(U) /\ Cardinality(U) = Cardinality(T) - 1
          BY ONLY <2>3, x \in T, FS_RemoveElement
        <4>2. Cardinality(U) \in Nat
          BY ONLY <4>1, FS_CardinalityType
        <4>3. QED
          BY <2>2, <4>1, <4>2
      <3>3. PICK list : IsListing(list, U, order)
        <4>1. n \in Nat /\ ~ (n <= n - 1)
          BY <2>2, <2>3, FS_CardinalityType
        <4>2. PICK V : V = U
          OBVIOUS
        <4>3. V \in SUBSET S /\ Cardinality(V) \in Nat /\ Cardinality(V) = n - 1
          BY <3>2, <4>2
        <4>4. Cardinality(V) \notin B
          BY <2>1, <4>1, <4>3
        <4>5. \E list : IsListing(list, V, order)
          BY <4>3, <4>4
        <4>6. QED
          BY <4>2, <4>5
      <3> DEFINE longer == [k \in 1..n |-> IF k = n THEN x ELSE list[k]]
      <3>4. list \in [1..(n - 1) -> U]
        BY <3>2, <3>3 DEF IsListing
      <3>5. \A k \in 1..n : k = n \/ k \in 1..(n - 1)
        BY <3>2
      <3>6. n \in 1..n /\ \A k \in 1..(n - 1) : k \in 1..n /\ k # n
        BY <3>2
      <3>7. longer \in [1..n -> T]
        BY <3>1, <3>4, <3>5
      <3>8. \A y \in T : \E k \in 1..n : longer[k] = y
        <4>1. longer[n] = x
          BY <3>6
        <4>2. \A y \in U : \E k \in 1..(n - 1) : list[k] = y
          BY <3>3, <3>4 DEF IsListing
        <4>3. \A k \in 1..(n - 1) : longer[k] = list[k]
          BY <3>6
        <4>4. QED
          BY <3>6, <4>1, <4>2, <4>3
      <3>9. \A j, k \in 1..n : j < k => <<longer[j], longer[k]>> \in order
        <4>1. ASSUME NEW j \in 1..n, NEW k \in 1..n, j < k
              PROVE  <<longer[j], longer[k]>> \in order
          <5>1. j \in 1..(n - 1) /\ longer[j] = list[j]
            BY <3>2, <3>5, <4>1
          <5>2. list[j] \in T
            BY <3>4, <5>1
          <5>3. CASE k = n
            BY <3>1, <5>1, <5>2, <5>3
          <5>4. CASE k \in 1..(n - 1)
            <6>1. longer[k] = list[k]
              BY <3>6, <5>4
            <6>2. <<list[j], list[k]>> \in order
              BY <3>3, <3>4, <4>1, <5>1, <5>4 DEF IsListing
            <6>3. QED
              BY <5>1, <6>1, <6>2
          <5>5. QED
            BY <3>5, <5>3, <5>4
        <4>2. QED
          BY <4>1
      <3> HIDE DEF longer
      <3>10. IsListing(longer, T, order)
        BY <2>2, <3>7, <3>8, <3>9 DEF IsListing
      <3>11. QED
        BY <2>2, <3>10
    <2>6. QED
      BY <2>4, <2>5
  <1>2. Cardinality(S) \in Nat
    BY FS_CardinalityType
  <1>3. QED
    BY <1>1, <1>2

\* A function from 1..n is a table.
LEMMA ListRows ==
  ASSUME NEW n \in Nat, NEW S, NEW list \in [1..n -> S]
  PROVE  Rows(list) /\ DOMAIN list = 1..n /\ Len(list) = n /\ \A k \in 1..n : list[k] \in S
  <1> DEFINE U == {list[k] : k \in DOMAIN list}
  <1>1. \A k \in 1..n : list[k] \in U
    OBVIOUS
  <1> HIDE DEF U
  <1>2. list \in [1..n -> U]
    BY <1>1
  <1>3. list \in Seq(U) /\ Len(list) = n
    BY <1>2
  <1>4. QED
    BY <1>3 DEF Rows, U

\* A query with ORDER BY returns every row, and no other, in that order.
LEMMA OrderedRows ==
  ASSUME NEW S, IsFiniteSet(S), NEW order, IsOrder(S, order)
  PROVE  /\ IsListing(Ordered(S, order), S, order) /\ Rows(Ordered(S, order))
         /\ DOMAIN Ordered(S, order) = 1..Cardinality(S) /\ Cardinality(S) \in Nat
         /\ \A k \in DOMAIN Ordered(S, order) : Ordered(S, order)[k] \in S
  <1>1. Cardinality(S) \in Nat
    BY FS_CardinalityType
  <1>2. PICK list : IsListing(list, S, order)
    BY HasListing
  <1>3. IsListing(Ordered(S, order), S, order)
    BY <1>2 DEF IsListing, Ordered
  <1>4. QED
    BY <1>1, <1>3, ListRows DEF IsListing

\* Row numbers come in their order, the first one first.
LEMMA ListedRows ==
  ASSUME NEW S, IsFiniteSet(S), S \subseteq Nat
  PROVE  /\ Rows(Listed(S)) /\ \A k \in DOMAIN Listed(S) : Listed(S)[k] \in S
         /\ S # {} => /\ 1 \in DOMAIN Listed(S)
                      /\ \A n \in S : Listed(S)[1] <= n
         /\ DOMAIN Listed(S) = 1..Cardinality(S)
  <1> DEFINE order == {pair \in S \X S : pair[1] <= pair[2]}
  <1>1. \A m, n : <<m, n>> \in order <=> m \in S /\ n \in S /\ m <= n
    OBVIOUS
  <1> HIDE DEF order
  <1>2. IsOrder(S, order)
    BY <1>1 DEF IsOrder
  <1>3. Listed(S) = Ordered(S, order)
    BY DEF Listed, order
  <1>4. /\ IsListing(Listed(S), S, order) /\ Rows(Listed(S))
        /\ DOMAIN Listed(S) = 1..Cardinality(S) /\ Cardinality(S) \in Nat
        /\ \A k \in DOMAIN Listed(S) : Listed(S)[k] \in S
    BY <1>2, <1>3, OrderedRows
  <1>5. ASSUME NEW n \in S
        PROVE  1 \in DOMAIN Listed(S) /\ Listed(S)[1] <= n
    <2>1. PICK k \in DOMAIN Listed(S) : Listed(S)[k] = n
      BY <1>4 DEF IsListing
    <2>2. 1 \in DOMAIN Listed(S) /\ (k = 1 \/ 1 < k)
      BY <1>4, <2>1
    <2>3. CASE k = 1
      BY <2>1, <2>2, <2>3
    <2>4. CASE 1 < k
      <3>1. <<Listed(S)[1], Listed(S)[k]>> \in order
        BY <1>4, <2>1, <2>2, <2>4 DEF IsListing
      <3>2. QED
        BY <1>1, <2>1, <2>2, <3>1
    <2>5. QED
      BY <2>2, <2>3, <2>4
  <1>6. QED
    BY <1>4, <1>5

\* SetToSeq lists the members of a finite set.
LEMMA SetToSeqRows ==
  ASSUME NEW S, IsFiniteSet(S)
  PROVE  /\ Rows(SetToSeq(S)) /\ DOMAIN SetToSeq(S) = 1..Cardinality(S)
         /\ \A k \in DOMAIN SetToSeq(S) : SetToSeq(S)[k] \in S
  <1>1. Cardinality(S) \in Nat /\ ExistsBijection(1..Cardinality(S), S)
    BY FS_CardinalityType
  <1>2. PICK f \in Bijection(1..Cardinality(S), S) : TRUE
    BY <1>1 DEF ExistsBijection
  <1>3. f \in [1..Cardinality(S) -> S] /\ IsInjective(f)
    BY <1>2 DEF Bijection, Injection, IsInjective
  <1>4. SetToSeq(S) \in [1..Cardinality(S) -> S]
    BY <1>3 DEF SetToSeq
  <1>5. QED
    BY <1>1, <1>4, ListRows

\* The rest of a list.
LEMMA TailRows ==
  ASSUME NEW s, Rows(s), s # <<>>
  PROVE  /\ 1 \in DOMAIN s /\ Head(s) = s[1] /\ Rows(Tail(s))
         /\ \A k \in DOMAIN Tail(s) : k + 1 \in DOMAIN s /\ Tail(s)[k] = s[k + 1]
  <1> DEFINE T == {s[i] : i \in DOMAIN s}
  <1>1. s \in Seq(T)
    BY DEF Rows
  <1> HIDE DEF T
  <1>2. Len(s) \in Nat /\ Len(s) >= 1 /\ DOMAIN s = 1..Len(s)
    BY <1>1
  <1>3. /\ Tail(s) \in Seq(T) /\ Len(Tail(s)) = Len(s) - 1
        /\ \A k \in 1..(Len(s) - 1) : Tail(s)[k] = s[k + 1]
    BY <1>1, <1>2
  <1>4. DOMAIN Tail(s) = 1..(Len(s) - 1) /\ Len(s) - 1 \in Nat
    BY <1>2, <1>3
  <1>5. PICK t : t = Tail(s)
    OBVIOUS
  <1>6. Rows(t)
    <2>1. t \in Seq(T) /\ DOMAIN t = 1..Len(t) /\ Len(t) \in Nat
      BY <1>3, <1>4, <1>5
    <2>2. t \in [1..Len(t) -> T]
      BY <2>1
    <2>3. QED
      BY <2>1, <2>2, ListRows
  <1>7. 1 \in DOMAIN s /\ Head(s) = s[1]
    BY <1>1, <1>2
  <1>8. \A k \in DOMAIN Tail(s) : k + 1 \in DOMAIN s /\ Tail(s)[k] = s[k + 1]
    BY <1>2, <1>3, <1>4
  <1>9. QED
    BY <1>5, <1>6, <1>7, <1>8
-----------------------------------------------------------------------------
(***************************************************************************)
(* The invariants: for each family its tables, what one of its stages s    *)
(* carries, and what s has read and still holds when no other process has  *)
(* written since.                                                          *)
(***************************************************************************)

\* What a row on a screen claims has its record beside it.
Backed(row) ==
  /\ row.kind = "remediation" /\ row.status = "verified" => "verified" \in row.records
  /\ row.kind = "custody" /\ ~ row.early => row.chain # <<>> /\ row.chain[1] = "captured"
  /\ row.kind = "case" /\ ~ row.early => \E n \in DOMAIN row.log : row.log[n] = row.status
  /\ row.kind = "extracted" /\ row.alone => row.fresh = row.rows

BackedRows(list) == Rows(list) /\ \A k \in DOMAIN list : Backed(list[k])

ScreensOK ==
  /\ shown = [t \in Procs |-> shown[t]]
  /\ \A t \in Procs : \A k \in DOMAIN shown[t] : Backed(shown[t][k])

\* Findings, remediations and verifications.
Verified(r) ==
  \E v \in DOMAIN verifications : verifications[v] = [remediation |-> r, result |-> "verified"]

IsFinding(x) ==
  /\ DOMAIN x = {"status", "source", "engagement", "level"}
  /\ x.status \in FindingStatuses /\ x.engagement \in Engagements
  /\ x.level \in Info..Critical \cup {NONE}

FindingsOK == Rows(findings) /\ \A f \in DOMAIN findings : IsFinding(findings[f])

RemediationsOK ==
  /\ Rows(remediations) /\ Rows(verifications)
  /\ \A r \in DOMAIN remediations :
       /\ DOMAIN remediations[r] = {"finding", "status"}
       /\ remediations[r].finding \in DOMAIN findings
       /\ remediations[r].status = "verified" => Verified(r)
  /\ \A v \in DOMAIN verifications : verifications[v].remediation \in DOMAIN remediations

FindingStage(s) ==
  /\ s.at = "recorded" => /\ DOMAIN s = {"at", "r", "result"} /\ s.r \in DOMAIN remediations
                          /\ s.result = "verified" => Verified(s.r)
  /\ s.at = "verdict" => DOMAIN s = {"at", "f"} /\ s.f \in DOMAIN findings
  /\ s.at = "records" =>
       /\ DOMAIN s = {"at", "todo", "done", "status"}
       /\ Rows(s.todo) /\ \A k \in DOMAIN s.todo : s.todo[k] \in DOMAIN s.status
       /\ \A r \in DOMAIN s.status : s.status[r] = "verified" => Verified(r)
       /\ BackedRows(s.done)

FindingInv == FindingsOK /\ RemediationsOK /\ \A p \in Procs : FindingStage(proc[p])

\* Evidence and its custody.
First(e) ==
  \E k \in DOMAIN custody :
    /\ custody[k].evidence = e /\ custody[k].state = "captured"
    /\ \A j \in DOMAIN custody : j < k => custody[j].evidence # e

EvidenceOK ==
  /\ Rows(evidence) /\ Rows(custody)
  /\ \A e \in DOMAIN evidence : DOMAIN evidence[e] = {"engagement", "altered"}
  /\ \A k \in DOMAIN custody : custody[k].evidence \in DOMAIN evidence
  /\ cut \subseteq DOMAIN evidence

EvidenceStage(s) ==
  /\ s.at = "capture" => DOMAIN s = {"at", "e", "next"} /\ s.e \in DOMAIN evidence
  /\ s.at = "verified" => DOMAIN s = {"at", "e", "state"} /\ s.e \in DOMAIN evidence

\* Custody begins with the capture, or has not begun.
CustodyBegins ==
  /\ \A e \in DOMAIN evidence \ cut :
       IF \E p \in Procs : Capturing(p) = e THEN \A k \in DOMAIN custody : custody[k].evidence # e
       ELSE First(e)
  /\ \A p, q \in Procs : Capturing(p) # 0 /\ Capturing(q) = Capturing(p) => p = q

EvidenceInv == EvidenceOK /\ CustodyBegins /\ \A p \in Procs : EvidenceStage(proc[p])

\* Artifacts and timelines.
ForensicsOK ==
  /\ Rows(artifacts) /\ Rows(timeline)
  /\ \A a \in DOMAIN artifacts :
       /\ DOMAIN artifacts[a] = {"case", "evidence", "time", "details"}
       /\ artifacts[a].time \in Times
  /\ \A n \in DOMAIN timeline :
       timeline[n].artifact \in {0} \cup DOMAIN artifacts /\ timeline[n].time \in Times

ForensicStage(s) ==
  /\ s.at = "hash" => DOMAIN s = {"at", "a", "details"} /\ s.a \in DOMAIN artifacts
  /\ s.at = "export" => /\ DOMAIN s = {"at", "case", "rows"} /\ IsFiniteSet(s.rows)
                        /\ \A x \in s.rows : x.kind = "artifact" /\ x.time \in Times

ForensicQuiet(s) == s.at = "hash" => artifacts[s.a].details \subseteq s.details

ForensicInv ==
  /\ ForensicsOK
  /\ \A p \in Procs : ForensicStage(proc[p]) /\ (quiet[p] => ForensicQuiet(proc[p]))

\* Exercises.
ExercisesOK ==
  /\ Rows(exercises)
  /\ \A x \in DOMAIN exercises :
       /\ DOMAIN exercises[x] = {"status", "engagement", "red", "blue", "fired"}
       /\ exercises[x].status \in {"planned", "running", "completed", "gone"}

ExerciseStage(s) ==
  s.at \in {"run", "red", "blue", "complete"} => s.x \in DOMAIN exercises

ExerciseQuiet(s) == s.at = "run" => exercises[s.x].status # "completed"

ExerciseInv ==
  /\ ExercisesOK
  /\ \A p \in Procs : ExerciseStage(proc[p]) /\ (quiet[p] => ExerciseQuiet(proc[p]))

\* Indicators, and the findings that are reported after them.
IocsOK ==
  /\ Rows(iocs) /\ Rows(campaigns)
  /\ \A n \in DOMAIN iocs :
       /\ DOMAIN iocs[n] = {"type", "norm", "confidence", "source", "actor", "campaign"}
       /\ iocs[n].confidence \in Ranks /\ iocs[n].actor \in actors \cup {NONE}
       /\ Known(iocs[n]) = {n}
  /\ \A k \in DOMAIN campaigns : campaigns[k].actor \in actors \cup {NONE}

IsReport(s) ==
  \/ s = resting
  \/ /\ s.at = "report" /\ DOMAIN s = {"at", "todo", "engagement"} /\ s.engagement \in Engagements
     /\ Rows(s.todo) /\ s.todo # <<>> /\ \A k \in DOMAIN s.todo : s.todo[k] \notin CheckNames

IsRegistering(s) ==
  /\ DOMAIN s = {"at", "todo", "origin", "actor", "campaign", "fresh", "known", "rows", "next"}
  /\ Rows(s.todo) /\ \A k \in DOMAIN s.todo : s.todo[k].confidence \in Ranks
  /\ s.actor \in actors \cup {NONE} /\ s.fresh \in Nat /\ s.rows \in Nat /\ IsReport(s.next)

IocStage(s) ==
  /\ s.at = "report" => IsReport(s)
  /\ s.at = "capture" => \/ s.next = resting
                         \/ /\ s.next.at = "existed" /\ IsRegistering(s.next)
                            /\ s.next.fresh = s.next.rows
  /\ s.at \in {"existed", "find", "register", "refresh"} => IsRegistering(s)
  /\ s.at \in {"find", "register", "refresh"} => s.todo # <<>>
  /\ s.at = "refresh" => Known(Head(s.todo)) # {}

\* The indicators counted as new are those inserted, and one that will be.
IocQuiet(s) ==
  /\ s.at \in {"existed", "refresh"} => s.fresh = s.rows
  /\ s.at = "find" => s.fresh = s.rows + (IF Known(Head(s.todo)) = {} THEN 1 ELSE 0)
  /\ s.at = "register" => s.fresh = s.rows + 1 /\ Known(Head(s.todo)) = {}

IocInv == IocsOK /\ \A p \in Procs : IocStage(proc[p]) /\ (quiet[p] => IocQuiet(proc[p]))

\* Assets.
AssetsOK ==
  /\ Rows(assets)
  /\ \A n \in DOMAIN assets :
       /\ DOMAIN assets[n] = {"target", "engagement"} /\ assets[n].engagement \in Engagements
       /\ <<assets[n].target, assets[n].engagement>> \notin twins =>
            AssetRows(assets[n].target, assets[n].engagement) = {n}

AssetStage(s) ==
  s.at \in {"assets", "asset"} =>
    DOMAIN s = {"at", "todo", "engagement"} /\ s.engagement \in Engagements

AssetQuiet(s) == s.at = "asset" => AssetRows(Head(s.todo), s.engagement) = {}

AssetInv == AssetsOK /\ \A p \in Procs : AssetStage(proc[p]) /\ (quiet[p] => AssetQuiet(proc[p]))

\* Checks of an engagement.
ChecksOK ==
  \A f \in DOMAIN findings :
    LET x == findings[f] IN
    x.source \in CheckNames /\ x.engagement # NONE /\ <<x.source, x.engagement>> \notin twins
      => Duplicates(x.source, x.engagement) = {f}

CheckStage(s) ==
  s.at \in {"check", "found"} =>
    DOMAIN s = {"at", "todo", "target", "engagement"} /\ s.engagement \in Engagements

CheckQuiet(s) ==
  s.at = "found" /\ s.engagement # NONE /\ Head(s.todo)[1] \in CheckNames =>
    Duplicates(Head(s.todo)[1], s.engagement) = {}

CheckInv == ChecksOK /\ \A p \in Procs : CheckStage(proc[p]) /\ (quiet[p] => CheckQuiet(proc[p]))

\* Reports and exports.
OutwardStage(s) ==
  /\ s.at = "tables" => DOMAIN s = {"at", "todo", "then", "engagement", "format", "read"}
  /\ s.at = "case export" =>
       /\ DOMAIN s = {"at", "c", "status", "early"} /\ s.c \in DOMAIN cases
       /\ ~ s.early => \E n \in DOMAIN cases[s.c].log : cases[s.c].log[n] = s.status
  /\ s.at = "case rest" =>
       /\ DOMAIN s = {"at", "status", "early", "log"}
       /\ ~ s.early => \E n \in DOMAIN s.log : s.log[n] = s.status
  /\ s.at \in {"finding export", "evidence export"} =>
       DOMAIN s = {"at", "todo", "done"} /\ BackedRows(s.done)
  /\ s.at = "evidence export" =>
       Rows(s.todo) /\ \A k \in DOMAIN s.todo : s.todo[k] \in DOMAIN evidence

OutwardInv == \A p \in Procs : OutwardStage(proc[p])

SecurityInv ==
  /\ ScreensOK /\ FindingInv /\ EvidenceInv /\ ForensicInv /\ ExerciseInv
  /\ IocInv /\ AssetInv /\ CheckInv /\ OutwardInv
-----------------------------------------------------------------------------
(***************************************************************************)
(* One process moves.                                                      *)
(***************************************************************************)

SocPlaces == SocStages \cup {"idle"}

\* The timelines of the cases are only added to.
LogsGrow ==
  \A c \in DOMAIN cases :
    /\ c \in DOMAIN cases'
    /\ \A n \in DOMAIN cases[c].log :
         n \in DOMAIN cases'[c].log /\ cases'[c].log[n] = cases[c].log[n]

\* A step of the SOC: the process that moves is at a command of the SOC.
SocMove(p, s) ==
  p \in Procs /\ Moves(p, s) /\ proc[p].at \in SocPlaces /\ s.at \in SocPlaces

LEMMA LogsKept ==
  ASSUME UNCHANGED cases
  PROVE  LogsGrow
  BY DEF LogsGrow

LEMMA LogsExtend ==
  ASSUME SocTyped, NEW c \in DOMAIN cases, NEW entry, UNCHANGED events,
         cases' = Logged(cases, c, entry)
  PROVE  LogsGrow
  <1>1. /\ DOMAIN cases' = DOMAIN cases
        /\ \A d \in DOMAIN cases \ {c} : cases'[d] = cases[d]
        /\ cases'[c].log = Append(cases[c].log, entry)
    BY LoggedRow
  <1>2. Rows(cases[c].log)
    BY DEF SocTyped, CasesOK, IsCase
  <1>3. \A n \in DOMAIN cases[c].log :
          n \in DOMAIN cases'[c].log /\ cases'[c].log[n] = cases[c].log[n]
    <2>1. PICK log : log = cases[c].log
      OBVIOUS
    <2>2. /\ DOMAIN log = 1..Len(log) /\ Len(log) \in Nat
          /\ DOMAIN Append(log, entry) = 1..(Len(log) + 1)
          /\ \A n \in DOMAIN log : Append(log, entry)[n] = log[n]
      BY <1>2, <2>1, AppendRow
    <2>3. QED
      BY <1>1, <2>1, <2>2
  <1>4. QED
    BY <1>1, <1>3 DEF LogsGrow

\* A process that stays is a process that moves to where it is.
LEMMA Standing ==
  ASSUME SocTyped, UNCHANGED <<proc, quiet>>
  PROVE  SocMove(Feeder, proc[Feeder])
  <1>1. Feeder \in Procs
    BY FeederAssumption
  <1>2. Moves(Feeder, proc[Feeder])
    BY <1>1 DEF Moves, SocTyped, DeskOK
  <1>3. proc[Feeder].at \in SocPlaces
    BY <1>1 DEF SocTyped, Shapes, ShapeOf, SocPlaces, SocStages, RowStages
  <1>4. QED
    BY <1>1, <1>2, <1>3 DEF SocMove

LEMMA SocMoves ==
  ASSUME SocTyped, NEW p \in Procs, NEW s, proc[p].at \in SocPlaces, s.at \in SocPlaces,
         \/ Goes(p, s) /\ (UNCHANGED quiet \/ Updates(p) \/ quiet' = [quiet EXCEPT ![p] = TRUE])
         \/ Starts(p, s)
  PROVE  \E q, r : SocMove(q, r)
  BY MovesOne DEF SocMove

LEMMA AfterPlace ==
  ASSUME NEW p
  PROVE  After(p).at \in SocPlaces /\ resting.at = "idle" /\ "idle" \in SocPlaces
  BY DEF After, resting, SocPlaces, SocStages

LEMMA SocPipes ==
  ASSUME SocTyped, NEW p \in Procs, Pipes(p)
  PROVE  LogsGrow /\ \E q, r : SocMove(q, r)
  <1>1. ASSUME NEW s, Goes(p, s), UNCHANGED quiet, proc[p].at \in SocPlaces, s.at \in SocPlaces
        PROVE  \E q, r : SocMove(q, r)
    BY <1>1, SocMoves
  <1>2. ASSUME NEW s, Reaches(p, s), proc[p].at \in SocPlaces, s.at \in SocPlaces
        PROVE  LogsGrow /\ \E q, r : SocMove(q, r)
    BY <1>1, <1>2, LogsKept DEF Reaches, socRecords
  <1>3. CASE Lookup(p)
    <2>1. proc[p].at \in SocPlaces
      BY <1>3 DEF Lookup, SocPlaces, SocStages
    <2>2. PICK s : /\ Goes(p, s) /\ UNCHANGED <<socRecords, quiet>>
                   /\ s = After(p) \/ s.at = "insert"
      BY <1>3, ReadingSteps
    <2>3. s.at \in SocPlaces
      BY <2>2, AfterPlace DEF SocPlaces, SocStages
    <2>4. QED
      BY <1>1, <2>1, <2>2, <2>3, LogsKept DEF socRecords
  <1>4. CASE Correlate(p) \/ MatchRules(p) \/ ListWindowed(p)
    <2>1. PICK s : /\ Reaches(p, s) /\ s.at \in {"match", "windowed", "total"}
                   /\ proc[p].at \in {"correlate", "match", "windowed"}
      BY <1>4, WorkingSteps
    <2>2. QED
      BY <1>2, <2>1 DEF SocPlaces, SocStages
  <1>5. CASE (\E r \in RuleNames : CountTotal(p, r)) \/ Decide(p)
    <2>1. PICK s : /\ Reaches(p, s) /\ proc[p].at = "total"
                   /\ s = After(p) \/ s.at \in {"total", "before", "case", "alert"}
      BY <1>5, DecidingSteps
    <2>2. s.at \in SocPlaces /\ proc[p].at \in SocPlaces
      BY <2>1, AfterPlace DEF SocPlaces, SocStages
    <2>3. QED
      BY <1>2, <2>1, <2>2
  <1>6. CASE InsertEvent(p)
    <2>1. PICK s : s = After(p)
      OBVIOUS
    <2>2. PICK r : r = [at |-> "correlate", n |-> Len(events) + 1]
      OBVIOUS
    <2>3. /\ UNCHANGED <<cases, quiet>> /\ proc[p].at = "insert"
          /\ Goes(p, s) \/ Goes(p, r)
      BY <1>6, <2>1, <2>2, InsertSteps DEF Inserts, socRecords
    <2>4. s.at \in SocPlaces /\ r.at \in SocPlaces /\ proc[p].at \in SocPlaces
      BY <2>1, <2>2, <2>3, AfterPlace DEF SocPlaces, SocStages
    <2>5. QED
      BY <1>1, <2>3, <2>4, LogsKept
  <1>7. CASE CountBefore(p)
    <2>1. PICK s : Counts(p, s)
      BY <1>7, CountSteps
    <2>2. Goes(p, s) /\ UNCHANGED <<cases, quiet>> /\ s.at = "total" /\ proc[p].at = "before"
      BY <2>1 DEF Counts, stores
    <2>3. QED
      BY <1>1, <2>2, LogsKept DEF SocPlaces, SocStages
  <1>8. CASE OpenCase(p)
    <2>1. PICK s : Opens(p, s)
      BY <1>8, OpenSteps
    <2>2. LogsGrow
      BY <1>8, OpenSteps DEF LogsGrow
    <2>3. Goes(p, s) /\ UNCHANGED quiet /\ s.at = "timeline" /\ proc[p].at = "case"
      BY <1>8, <2>1 DEF Opens, OpenCase
    <2>4. QED
      BY <1>1, <2>2, <2>3 DEF SocPlaces, SocStages
  <1>9. CASE LogOpened(p)
    <2>1. PICK s : Tells(p, s)
      BY <1>9, TellSteps
    <2>2. Goes(p, s) /\ UNCHANGED quiet /\ s.at = "alert" /\ proc[p].at = "timeline"
      BY <1>9, <2>1 DEF Tells, LogOpened
    <2>3. proc[p].alert.case \in DOMAIN cases
      BY <2>2 DEF SocTyped, Shapes, ShapeOf
    <2>4. LogsGrow
      BY <1>9, <2>3, LogsExtend DEF LogOpened
    <2>5. QED
      BY <1>1, <2>2, <2>4 DEF SocPlaces, SocStages
  <1>10. CASE CreateAlert(p)
    <2>1. PICK s : s = After(p)
      OBVIOUS
    <2>2. Goes(p, s) /\ UNCHANGED <<cases, quiet>> /\ proc[p].at = "alert"
      BY <1>10, <2>1, AlertSteps DEF Alerted
    <2>3. s.at \in SocPlaces /\ proc[p].at \in SocPlaces
      BY <2>1, <2>2, AfterPlace DEF SocPlaces, SocStages
    <2>4. QED
      BY <1>1, <2>2, <2>3, LogsKept
  <1>11. QED
    BY <1>3, <1>4, <1>5, <1>6, <1>7, <1>8, <1>9, <1>10 DEF Pipes

LEMMA SocCommands ==
  ASSUME SocTyped, NEW t \in Terminals,
         \/ Begins(t) \/ SetStatus(t) \/ LinkCase(t) \/ RecordEvent(t)
         \/ \E r \in RuleNames : RuleSet(t, r)
         \/ \E c, status : Writes(t, c, status)
  PROVE  LogsGrow /\ \E q, r : SocMove(q, r)
  <1>1. t \in Procs
    BY DEF Terminals
  <1>2. PICK o : o = resting /\ o.at \in SocPlaces
    BY AfterPlace
  <1>3. proc[t] = resting => proc[t].at \in SocPlaces
    BY AfterPlace
  <1>4. CASE Begins(t)
    <2>1. PICK s : /\ Starts(t, s) /\ UNCHANGED socRecords
                   /\ s.at \in {"idle", "lookup", "stamp", "log"}
      BY <1>4, BeginSteps
    <2>2. proc[t] = resting /\ s.at \in SocPlaces
      BY <2>1 DEF Starts, SocPlaces, SocStages
    <2>3. QED
      BY <1>1, <1>3, <2>1, <2>2, SocMoves, LogsKept DEF socRecords
  <1>5. CASE SetStatus(t)
    <2>1. PICK s : Goes(t, s) /\ s.at \in {"idle", "link"}
      BY <1>5, StampSteps
    <2>2. Updates(t) /\ UNCHANGED cases /\ proc[t].at = "stamp"
      BY <1>5, StampSteps
    <2>3. QED
      BY <1>1, <2>1, <2>2, SocMoves, LogsKept DEF SocPlaces, SocStages
  <1>6. CASE LinkCase(t)
    <2>1. Goes(t, o) /\ Updates(t) /\ UNCHANGED cases /\ proc[t].at = "link"
      BY <1>2, <1>6, LinkSteps
    <2>2. proc[t].at \in SocPlaces
      BY <2>1 DEF SocPlaces, SocStages
    <2>3. QED
      BY <1>1, <1>2, <2>1, <2>2, SocMoves, LogsKept
  <1>7. CASE RecordEvent(t)
    <2>1. /\ proc[t].at = "log" /\ proc[t].case \in DOMAIN cases
          /\ cases' = Logged(cases, proc[t].case, proc[t].entry)
          /\ Goes(t, o) /\ UNCHANGED <<events, quiet>>
      BY <1>2, <1>7, RecordSteps
    <2>2. proc[t].at \in SocPlaces
      BY <2>1 DEF SocPlaces, SocStages
    <2>3. LogsGrow
      BY <2>1, LogsExtend
    <2>4. QED
      BY <1>1, <1>2, <2>1, <2>2, <2>3, SocMoves
  <1>8. CASE \E r \in RuleNames : RuleSet(t, r)
    <2>1. Starts(t, o) /\ UNCHANGED cases
      BY <1>2, <1>8 DEF RuleSet, Commands
    <2>2. proc[t] = resting
      BY <2>1 DEF Starts
    <2>3. QED
      BY <1>1, <1>2, <1>3, <2>1, <2>2, SocMoves, LogsKept
  <1>9. CASE \E c, status : Writes(t, c, status)
    <2>1. PICK c, status : Writes(t, c, status)
      BY <1>9
    <2>2. PICK s : s = Log(c, status)
      OBVIOUS
    <2>3. s.at \in SocPlaces
      BY <2>2 DEF Log, SocPlaces, SocStages
    <2>4. Starts(t, s)
      BY <2>1, <2>2 DEF Writes
    <2>5. proc[t] = resting
      BY <2>4 DEF Starts
    <2>6. LogsGrow
      BY <2>1 DEF Writes, LogsGrow
    <2>7. QED
      BY <1>1, <1>3, <2>3, <2>4, <2>5, <2>6, SocMoves
  <1>10. QED
    BY <1>4, <1>5, <1>6, <1>7, <1>8, <1>9

\* What the other families see of a step of the SOC.
LEMMA SocSteps ==
  ASSUME SocTyped, [SocNext]_socVars
  PROVE  LogsGrow /\ \E p, s : SocMove(p, s)
  <1>1. CASE UNCHANGED socVars \/ FileStep \/ WindowSlides
    <2>1. UNCHANGED <<cases, proc, quiet>>
      BY <1>1, FeederMoves, SlideWrites DEF socVars, socRecords, deskVars, stores
    <2>2. QED
      BY <2>1, LogsKept, Standing
  <1>2. CASE FeederStep
    <2>1. PICK s : /\ Goes(Feeder, s) /\ s.at \in {"idle", "reading", "lookup"}
                   /\ proc[Feeder].at \in {"idle", "reading"} /\ UNCHANGED <<cases, quiet>>
      BY <1>2, FeederMoves DEF stores
    <2>2. QED
      BY <2>1, FeederAssumption, SocMoves, LogsKept DEF SocPlaces, SocStages
  <1>3. ASSUME NEW p \in Procs, Fails(p), Raised(p) \/ Killed(p)
        PROVE  LogsGrow /\ \E q, s : SocMove(q, s)
    <2>1. PICK s : Goes(p, s) /\ (s = After(p) \/ s = resting)
      BY <1>3 DEF Fails
    <2>2. s.at \in SocPlaces
      BY <2>1, AfterPlace
    <2>3. proc[p].at \in SocPlaces
      BY <1>3, FailSteps DEF SocTyped, Shapes, ShapeOf, SocPlaces, SocStages, RowStages
    <2>4. quiet' = [quiet EXCEPT ![p] = TRUE] /\ Broken(p)
      BY <1>3 DEF Fails, Broken
    <2>5. LogsGrow
      BY <2>4, BrokenWrites DEF LogsGrow
    <2>6. QED
      BY <2>1, <2>2, <2>3, <2>4, <2>5, SocMoves
  <1>4. CASE SocNext
    BY <1>1, <1>2, <1>3, <1>4, Kinds, SocPipes, SocCommands
  <1>5. QED
    BY <1>1, <1>4

-----------------------------------------------------------------------------
(***************************************************************************)
(* Steps of the other components, and what each family sees of a move.     *)
(***************************************************************************)

\* A stage of a command that is none of the SOC's.
Foreign(s) ==
  /\ "at" \in DOMAIN s /\ s.at \notin SocStages /\ (s.at = "idle" => s = resting)
  /\ DOMAIN s \cap {"n", "line"} = {}

\* Terminal t goes on to stage s, or its command starts or ends there.
Turns(t, s) ==
  \/ Goes(t, s) /\ (UNCHANGED quiet \/ Updates(t)) /\ proc[t].at \notin SocStages \cup {"idle"}
  \/ Starts(t, s)
  \/ Ends(t) /\ proc[t].at \notin SocStages /\ s = resting

LEMMA RestingForeign == Foreign(resting) /\ resting.at = "idle"
  BY DEF Foreign, resting, SocStages

LEMMA TurnsBeside ==
  ASSUME SocTyped, NEW t \in Terminals, NEW s, Turns(t, s), Foreign(s), UNCHANGED socRecords
  PROVE  /\ Beside(t, s) /\ Moves(t, s) /\ t \in Procs
         /\ proc'[t] = s /\ \A q \in Procs \ {t} : proc'[q] = proc[q]
         /\ proc[t].at # "idle" /\ s # resting /\ quiet'[t] => quiet[t]
  <1>1. t \in Procs /\ t # Feeder
    BY DEF Terminals
  <1>2. \/ /\ Goes(t, s)
           /\ UNCHANGED quiet \/ Updates(t) \/ quiet' = [quiet EXCEPT ![t] = TRUE]
        \/ Starts(t, s)
    BY DEF Turns, Ends
  <1>3. Moves(t, s)
    BY <1>1, <1>2, MovesOne
  <1>4. ShapeOf(t, s)
    BY <1>1 DEF Foreign, ShapeOf, SocStages, RowStages
  <1>5. proc[t].at \notin SocStages /\ s.at \notin SocStages
    BY DEF Turns, Starts, Foreign, resting, SocStages
  <1>6. work' \in [Procs -> 0..MaxWork] /\ quiet' \in [Procs -> BOOLEAN]
    <2>1. SocTyped /\ work \in [Procs -> 0..MaxWork] /\ quiet \in [Procs -> BOOLEAN]
      BY DEF SocTyped, DeskOK
    <2>2. work' \in [Procs -> 0..MaxWork]
      BY <1>1, <1>2, <2>1, BoundsAssumption DEF Goes, Starts
    <2>3. quiet' \in [Procs -> BOOLEAN]
      BY <1>1, <1>2, <2>1 DEF Updates, Starts
    <2>4. QED
      BY <2>2, <2>3
  <1>7. proc' = [proc EXCEPT ![t] = s]
    BY <1>3 DEF Moves
  <1>8. Beside(t, s)
    BY <1>3, <1>4, <1>5, <1>6, <1>7 DEF Beside, Moves
  <1>9. ASSUME proc[t].at # "idle", s # resting, quiet'[t]
        PROVE  quiet[t]
    <2>1. proc[t] # resting
      BY <1>9 DEF resting
    <2>2. UNCHANGED quiet \/ Updates(t)
      BY <1>9, <2>1 DEF Turns, Starts
    <2>3. QED
      BY <1>1, <1>9, <2>1, <2>2 DEF Updates
  <1>10. proc'[t] = s /\ \A q \in Procs \ {t} : proc'[q] = proc[q]
    BY <1>1, <1>7 DEF SocTyped, DeskOK
  <1>11. QED
    BY <1>1, <1>3, <1>8, <1>9, <1>10

\* Two terminals are never the same process; a stage of another one stays.
LEMMA OthersStay ==
  ASSUME SocTyped, NEW p \in Procs, NEW s, Moves(p, s)
  PROVE  /\ proc'[p] = s
         /\ \A q \in Procs \ {p} : /\ proc'[q] = proc[q]
                                   /\ proc[q].at # "idle" /\ quiet'[q] => quiet[q]
  <1>1. \A q \in Procs : proc[q] = resting => proc[q].at = "idle"
    BY DEF resting
  <1>2. QED
    BY <1>1, OneMoves DEF Moves

\* No row of a finding is taken away, and no record of a verification.
FindingsGrow ==
  /\ DOMAIN findings \subseteq DOMAIN findings'
  /\ DOMAIN remediations \subseteq DOMAIN remediations'
  /\ \A r : Verified(r) => Verified(r)'

LEMMA FindingMove ==
  ASSUME SocTyped, FindingInv, NEW p \in Procs, NEW s, Moves(p, s),
         FindingsOK', RemediationsOK', FindingsGrow, FindingStage(s)'
  PROVE  FindingInv'
  <1>1. ASSUME NEW r, FindingStage(r)
        PROVE  FindingStage(r)'
    BY <1>1 DEF FindingStage, FindingsGrow
  <1>2. QED
    BY <1>1, OthersStay DEF FindingInv

LEMMA FindingStay ==
  ASSUME SocTyped, FindingInv, NEW p \in Procs, NEW s, Moves(p, s), UNCHANGED findingTables,
         FindingStage(s)
  PROVE  FindingInv'
  <1>1. FindingsOK' /\ RemediationsOK'
    BY DEF FindingInv, FindingsOK, RemediationsOK, IsFinding, Verified, findingTables
  <1>2. FindingStage(s)' /\ FindingsGrow
    BY DEF FindingStage, FindingsGrow, Verified, findingTables
  <1>3. QED
    BY <1>1, <1>2, FindingMove

LEMMA EvidenceMove ==
  ASSUME SocTyped, EvidenceInv, NEW p \in Procs, NEW s, Moves(p, s),
         EvidenceOK', CustodyBegins', DOMAIN evidence \subseteq DOMAIN evidence',
         EvidenceStage(s)'
  PROVE  EvidenceInv'
  <1>1. ASSUME NEW r, EvidenceStage(r)
        PROVE  EvidenceStage(r)'
    BY <1>1 DEF EvidenceStage
  <1>2. QED
    BY <1>1, OthersStay DEF EvidenceInv

\* What is being captured, before and after a move.
LEMMA CapturingMoves ==
  ASSUME SocTyped, NEW p \in Procs, NEW s, Moves(p, s)
  PROVE  /\ Capturing(p)' = IF s.at = "capture" THEN s.e ELSE 0
         /\ \A q \in Procs \ {p} : Capturing(q)' = Capturing(q)
  BY OthersStay DEF Capturing

LEMMA EvidenceStay ==
  ASSUME SocTyped, EvidenceInv, NEW p \in Procs, NEW s, Moves(p, s), UNCHANGED evidenceTables,
         EvidenceStage(s), s.at # "capture", proc[p].at # "capture"
  PROVE  EvidenceInv'
  <1>1. EvidenceOK'
    BY DEF EvidenceInv, EvidenceOK, evidenceTables
  <1>2. \A q \in Procs : Capturing(q)' = Capturing(q)
    BY CapturingMoves DEF Capturing
  <1>3. CustodyBegins'
    BY <1>2 DEF EvidenceInv, CustodyBegins, First, evidenceTables
  <1>4. EvidenceStage(s)'
    BY DEF EvidenceStage, evidenceTables
  <1>5. QED
    BY <1>1, <1>3, <1>4, EvidenceMove DEF evidenceTables

LEMMA ForensicMove ==
  ASSUME SocTyped, ForensicInv, NEW p \in Procs, NEW s, Moves(p, s), ForensicsOK',
         DOMAIN artifacts \subseteq DOMAIN artifacts',
         \/ Updates(p)
         \/ \A a \in DOMAIN artifacts : artifacts'[a].details = artifacts[a].details,
         ForensicStage(s)', quiet'[p] => ForensicQuiet(s)'
  PROVE  ForensicInv'
  <1>1. ASSUME NEW r, ForensicStage(r)
        PROVE  ForensicStage(r)'
    BY <1>1 DEF ForensicStage
  <1>2. ASSUME NEW q \in Procs \ {p}, quiet'[q]
        PROVE  ForensicQuiet(proc[q])'
    <2>1. proc'[q] = proc[q]
      BY OthersStay
    <2>2. CASE proc[q] = resting
      BY <2>1, <2>2 DEF ForensicQuiet, resting
    <2>3. CASE proc[q] # resting
      <3>1. quiet[q] /\ ~ Updates(p)
        BY <1>2, <2>3 DEF Moves, Updates
      <3>2. ForensicStage(proc[q]) /\ ForensicQuiet(proc[q])
        BY <3>1 DEF ForensicInv
      <3>3. QED
        BY <2>1, <3>1, <3>2 DEF ForensicStage, ForensicQuiet
    <2>4. QED
      BY <2>2, <2>3
  <1>3. QED
    BY <1>1, <1>2, OthersStay DEF ForensicInv

LEMMA ForensicStay ==
  ASSUME SocTyped, ForensicInv, NEW p \in Procs, NEW s, Moves(p, s), UNCHANGED forensicTables,
         ForensicStage(s), quiet'[p] => ForensicQuiet(s)
  PROVE  ForensicInv'
  <1>1. ForensicsOK'
    BY DEF ForensicInv, ForensicsOK, forensicTables
  <1>2. ForensicStage(s)' /\ (quiet'[p] => ForensicQuiet(s)')
    BY DEF ForensicStage, ForensicQuiet, forensicTables
  <1>3. QED
    BY <1>1, <1>2, ForensicMove DEF forensicTables

LEMMA ExerciseMove ==
  ASSUME SocTyped, ExerciseInv, NEW p \in Procs, NEW s, Moves(p, s), ExercisesOK',
         DOMAIN exercises \subseteq DOMAIN exercises',
         \/ Updates(p)
         \/ \A x \in DOMAIN exercises :
              exercises'[x].status = "completed" => exercises[x].status = "completed",
         ExerciseStage(s)', quiet'[p] => ExerciseQuiet(s)'
  PROVE  ExerciseInv'
  <1>1. ASSUME NEW r, ExerciseStage(r)
        PROVE  ExerciseStage(r)'
    BY <1>1 DEF ExerciseStage
  <1>2. ASSUME NEW q \in Procs \ {p}, quiet'[q]
        PROVE  ExerciseQuiet(proc[q])'
    <2>1. proc'[q] = proc[q]
      BY OthersStay
    <2>2. CASE proc[q] = resting
      BY <2>1, <2>2 DEF ExerciseQuiet, resting
    <2>3. CASE proc[q] # resting
      <3>1. quiet[q] /\ ~ Updates(p)
        BY <1>2, <2>3 DEF Moves, Updates
      <3>2. ExerciseStage(proc[q]) /\ ExerciseQuiet(proc[q])
        BY <3>1 DEF ExerciseInv
      <3>3. QED
        BY <2>1, <3>1, <3>2 DEF ExerciseStage, ExerciseQuiet
    <2>4. QED
      BY <2>2, <2>3
  <1>3. QED
    BY <1>1, <1>2, OthersStay DEF ExerciseInv

LEMMA ExerciseStay ==
  ASSUME SocTyped, ExerciseInv, NEW p \in Procs, NEW s, Moves(p, s), UNCHANGED exercises,
         ExerciseStage(s), quiet'[p] => ExerciseQuiet(s)
  PROVE  ExerciseInv'
  <1>1. ExercisesOK'
    BY DEF ExerciseInv, ExercisesOK
  <1>2. ExerciseStage(s)' /\ (quiet'[p] => ExerciseQuiet(s)')
    BY DEF ExerciseStage, ExerciseQuiet
  <1>3. QED
    BY <1>1, <1>2, ExerciseMove

\* Actors and indicators are never taken away; an insertion updates.
LEMMA IocMove ==
  ASSUME SocTyped, IocInv, NEW p \in Procs, NEW s, Moves(p, s), IocsOK',
         actors \subseteq actors', \A c : Known(c) \subseteq Known(c)',
         Updates(p) \/ \A c : Known(c)' = Known(c),
         IocStage(s)', quiet'[p] => IocQuiet(s)'
  PROVE  IocInv'
  <1>1. ASSUME NEW r, IocStage(r)
        PROVE  IocStage(r)'
    <2>1. \A x : IsRegistering(x) => IsRegistering(x)'
      BY DEF IsRegistering, IsReport
    <2>2. \A x : IsReport(x) => IsReport(x)'
      BY DEF IsReport
    <2>3. Known(Head(r.todo)) # {} => Known(Head(r.todo))' # {}
      OBVIOUS
    <2>4. QED
      BY <1>1, <2>1, <2>2, <2>3 DEF IocStage
  <1>2. ASSUME NEW q \in Procs \ {p}, quiet'[q]
        PROVE  IocQuiet(proc[q])'
    <2>1. proc'[q] = proc[q]
      BY OthersStay
    <2>2. CASE proc[q] = resting
      BY <2>1, <2>2 DEF IocQuiet, resting
    <2>3. CASE proc[q] # resting
      <3>1. quiet[q] /\ ~ Updates(p)
        BY <1>2, <2>3 DEF Moves, Updates
      <3>2. IocQuiet(proc[q])
        BY <3>1 DEF IocInv
      <3>3. \A c : Known(c)' = Known(c)
        BY <3>1
      <3>4. PICK r : r = proc[q]
        OBVIOUS
      <3>5. Known(Head(r.todo))' = Known(Head(r.todo))
        BY <3>3
      <3>6. QED
        BY <2>1, <3>2, <3>4, <3>5 DEF IocQuiet
    <2>4. QED
      BY <2>2, <2>3
  <1>3. QED
    BY <1>1, <1>2, OthersStay DEF IocInv

LEMMA IocStay ==
  ASSUME SocTyped, IocInv, NEW p \in Procs, NEW s, Moves(p, s),
         UNCHANGED <<iocs, actors, campaigns>>, IocStage(s), quiet'[p] => IocQuiet(s)
  PROVE  IocInv'
  <1>1. IocsOK'
    BY DEF IocInv, IocsOK, Known
  <1>2. \A c : Known(c)' = Known(c)
    BY DEF Known
  <1>3. IocStage(s)' /\ (quiet'[p] => IocQuiet(s)')
    BY DEF IocStage, IocQuiet, IsRegistering, IsReport, Known
  <1>4. QED
    BY <1>1, <1>2, <1>3, IocMove

LEMMA AssetMove ==
  ASSUME SocTyped, AssetInv, NEW p \in Procs, NEW s, Moves(p, s), AssetsOK',
         Updates(p) \/ UNCHANGED assets,
         AssetStage(s), quiet'[p] => AssetQuiet(s)'
  PROVE  AssetInv'
  <1>1. \A r : AssetStage(r)' = AssetStage(r)
    BY DEF AssetStage
  <1>2. ASSUME NEW q \in Procs \ {p}, quiet'[q]
        PROVE  AssetQuiet(proc[q])'
    <2>1. proc'[q] = proc[q]
      BY OthersStay
    <2>2. CASE proc[q] = resting
      BY <2>1, <2>2 DEF AssetQuiet, resting
    <2>3. CASE proc[q] # resting
      <3>1. quiet[q] /\ ~ Updates(p)
        BY <1>2, <2>3 DEF Moves, Updates
      <3>2. AssetQuiet(proc[q])
        BY <3>1 DEF AssetInv
      <3>3. QED
        BY <2>1, <3>1, <3>2 DEF AssetQuiet, AssetRows
    <2>4. QED
      BY <2>2, <2>3
  <1>3. QED
    BY <1>1, <1>2, OthersStay DEF AssetInv

LEMMA AssetStay ==
  ASSUME SocTyped, AssetInv, NEW p \in Procs, NEW s, Moves(p, s),
         UNCHANGED assets, twins \subseteq twins',
         AssetStage(s), quiet'[p] => AssetQuiet(s)
  PROVE  AssetInv'
  <1>1. AssetsOK'
    BY DEF AssetInv, AssetsOK, AssetRows
  <1>2. quiet'[p] => AssetQuiet(s)'
    BY DEF AssetQuiet, AssetRows
  <1>3. QED
    BY <1>1, <1>2, AssetMove

LEMMA CheckMove ==
  ASSUME SocTyped, CheckInv, NEW p \in Procs, NEW s, Moves(p, s), ChecksOK',
         Updates(p) \/ \A c \in CheckNames : \A g : Duplicates(c, g)' = Duplicates(c, g),
         CheckStage(s), quiet'[p] => CheckQuiet(s)'
  PROVE  CheckInv'
  <1>1. \A r : CheckStage(r)' = CheckStage(r)
    BY DEF CheckStage
  <1>2. ASSUME NEW q \in Procs \ {p}, quiet'[q]
        PROVE  CheckQuiet(proc[q])'
    <2>1. proc'[q] = proc[q]
      BY OthersStay
    <2>2. CASE proc[q] = resting
      BY <2>1, <2>2 DEF CheckQuiet, resting
    <2>3. CASE proc[q] # resting
      <3>1. quiet[q] /\ ~ Updates(p)
        BY <1>2, <2>3 DEF Moves, Updates
      <3>2. CheckQuiet(proc[q])
        BY <3>1 DEF CheckInv
      <3>3. \A c \in CheckNames : \A g : Duplicates(c, g)' = Duplicates(c, g)
        BY <3>1
      <3>4. PICK r : r = proc[q]
        OBVIOUS
      <3>5. Head(r.todo)[1] \in CheckNames =>
              Duplicates(Head(r.todo)[1], r.engagement)' = Duplicates(Head(r.todo)[1], r.engagement)
        BY <3>3
      <3>6. QED
        BY <2>1, <3>2, <3>4, <3>5 DEF CheckQuiet
    <2>4. QED
      BY <2>2, <2>3
  <1>3. QED
    BY <1>1, <1>2, OthersStay DEF CheckInv

\* The findings keep their titles, and a new one is of no check.
ChecksKept ==
  /\ \A f \in DOMAIN findings : /\ f \in DOMAIN findings'
                                /\ findings'[f].source = findings[f].source
                                /\ findings'[f].engagement = findings[f].engagement
  /\ \A f \in DOMAIN findings' \ DOMAIN findings : findings'[f].source \notin CheckNames

LEMMA CheckStay ==
  ASSUME SocTyped, CheckInv, NEW p \in Procs, NEW s, Moves(p, s), twins \subseteq twins',
         ChecksKept, CheckStage(s), quiet'[p] => CheckQuiet(s)
  PROVE  CheckInv'
  <1>1. \A c \in CheckNames : \A g : Duplicates(c, g)' = Duplicates(c, g)
    BY DEF Duplicates, ChecksKept
  <1>2. ChecksOK'
    <2>1. ASSUME NEW f \in DOMAIN findings', NEW c, NEW g, c = findings'[f].source,
                 g = findings'[f].engagement, c \in CheckNames, g # NONE, <<c, g>> \notin twins'
          PROVE  Duplicates(c, g)' = {f}
      <3>1. f \in DOMAIN findings /\ c = findings[f].source /\ g = findings[f].engagement
        BY <2>1 DEF ChecksKept
      <3>2. Duplicates(c, g) = {f}
        BY <2>1, <3>1 DEF CheckInv, ChecksOK
      <3>3. QED
        BY <1>1, <2>1, <3>2
    <2>2. QED
      BY <2>1 DEF ChecksOK
  <1>3. quiet'[p] => CheckQuiet(s)'
    BY <1>1 DEF CheckQuiet
  <1>4. QED
    BY <1>1, <1>2, <1>3, CheckMove

LEMMA OutwardMove ==
  ASSUME SocTyped, OutwardInv, NEW p \in Procs, NEW s, Moves(p, s), LogsGrow,
         DOMAIN evidence \subseteq DOMAIN evidence', OutwardStage(s)
  PROVE  OutwardInv'
  <1>1. ASSUME NEW r, OutwardStage(r)
        PROVE  OutwardStage(r)'
    BY <1>1 DEF OutwardStage, LogsGrow
  <1>2. QED
    BY <1>1, OthersStay DEF OutwardInv

\* One screen is written.
LEMMA ScreenMove ==
  ASSUME ScreensOK, NEW t \in Procs, NEW list,
         shown' = shown \/ shown' = [shown EXCEPT ![t] = list],
         \A k \in DOMAIN list : Backed(list[k])
  PROVE  ScreensOK'
  BY DEF ScreensOK, Backed

-----------------------------------------------------------------------------
(***************************************************************************)
(* Each family has its places; elsewhere, and with its tables as they are, *)
(* a move is nothing to it.                                                *)
(***************************************************************************)

FindingPlaces == {"recorded", "verdict", "records"}
EvidencePlaces == {"capture", "verified"}
ForensicPlaces == {"hash", "export"}
ExercisePlaces == {"run", "red", "blue", "complete"}
IocPlaces == {"capture", "existed", "find", "register", "refresh", "report"}
AssetPlaces == {"assets", "asset"}
CheckPlaces == {"check", "found"}
OutwardPlaces == {"tables", "case export", "case rest", "finding export", "evidence export"}

LEMMA Elsewhere ==
  ASSUME SocTyped, SecurityInv, NEW p \in Procs, NEW s, Moves(p, s)
  PROVE  /\ s.at \notin FindingPlaces /\ UNCHANGED findingTables => FindingInv'
         /\ s.at \notin EvidencePlaces /\ proc[p].at # "capture" /\ UNCHANGED evidenceTables
              => EvidenceInv'
         /\ s.at \notin ForensicPlaces /\ UNCHANGED forensicTables => ForensicInv'
         /\ s.at \notin ExercisePlaces /\ UNCHANGED exercises => ExerciseInv'
         /\ s.at \notin IocPlaces /\ UNCHANGED <<iocs, actors, campaigns>> => IocInv'
         /\ s.at \notin AssetPlaces /\ UNCHANGED assets /\ twins \subseteq twins' => AssetInv'
         /\ s.at \notin CheckPlaces /\ ChecksKept /\ twins \subseteq twins' => CheckInv'
         /\ s.at \notin OutwardPlaces /\ LogsGrow /\ DOMAIN evidence \subseteq DOMAIN evidence'
              => OutwardInv'
  <1>1. /\ FindingInv /\ EvidenceInv /\ ForensicInv /\ ExerciseInv
        /\ IocInv /\ AssetInv /\ CheckInv /\ OutwardInv
    BY DEF SecurityInv
  <1>2. s.at \notin FindingPlaces => FindingStage(s)
    BY DEF FindingStage, FindingPlaces
  <1>3. s.at \notin EvidencePlaces => EvidenceStage(s) /\ s.at # "capture"
    BY DEF EvidenceStage, EvidencePlaces
  <1>4. s.at \notin ForensicPlaces => ForensicStage(s) /\ ForensicQuiet(s)
    BY DEF ForensicStage, ForensicQuiet, ForensicPlaces
  <1>5. s.at \notin ExercisePlaces => ExerciseStage(s) /\ ExerciseQuiet(s)
    BY DEF ExerciseStage, ExerciseQuiet, ExercisePlaces
  <1>6. s.at \notin IocPlaces => IocStage(s) /\ IocQuiet(s)
    BY DEF IocStage, IocQuiet, IocPlaces
  <1>7. s.at \notin AssetPlaces => AssetStage(s) /\ AssetQuiet(s)
    BY DEF AssetStage, AssetQuiet, AssetPlaces
  <1>8. s.at \notin CheckPlaces => CheckStage(s) /\ CheckQuiet(s)
    BY DEF CheckStage, CheckQuiet, CheckPlaces
  <1>9. s.at \notin OutwardPlaces => OutwardStage(s)
    BY DEF OutwardStage, OutwardPlaces
  <1>10. s.at \notin FindingPlaces /\ UNCHANGED findingTables => FindingInv'
    BY <1>1, <1>2, FindingStay
  <1>11. s.at \notin EvidencePlaces /\ proc[p].at # "capture" /\ UNCHANGED evidenceTables
           => EvidenceInv'
    BY <1>1, <1>3, EvidenceStay
  <1>12. s.at \notin ForensicPlaces /\ UNCHANGED forensicTables => ForensicInv'
    BY <1>1, <1>4, ForensicStay
  <1>13. s.at \notin ExercisePlaces /\ UNCHANGED exercises => ExerciseInv'
    BY <1>1, <1>5, ExerciseStay
  <1>14. s.at \notin IocPlaces /\ UNCHANGED <<iocs, actors, campaigns>> => IocInv'
    BY <1>1, <1>6, IocStay
  <1>15. s.at \notin AssetPlaces /\ UNCHANGED assets /\ twins \subseteq twins' => AssetInv'
    BY <1>1, <1>7, AssetStay
  <1>16. s.at \notin CheckPlaces /\ ChecksKept /\ twins \subseteq twins' => CheckInv'
    BY <1>1, <1>8, CheckStay
  <1>17. s.at \notin OutwardPlaces /\ LogsGrow /\ DOMAIN evidence \subseteq DOMAIN evidence'
           => OutwardInv'
    BY <1>1, <1>9, OutwardMove
  <1>18. QED
    BY <1>10, <1>11, <1>12, <1>13, <1>14, <1>15, <1>16, <1>17

\* A terminal goes on at places of one kind, to nothing of the SOC.
Steps(t, s, places) ==
  /\ Turns(t, s) /\ Foreign(s) /\ UNCHANGED socRecords
  /\ s.at \in {"idle"} \cup places /\ proc[t].at \in {"idle"} \cup places

LEMMA StepsRest ==
  ASSUME NEW t \in Terminals, NEW places, UNCHANGED socRecords, places \cap SocStages = {}
  PROVE  /\ Commands(t) => Steps(t, resting, places)
         /\ \A s : Starts(t, s) /\ Foreign(s) /\ s.at \in places => Steps(t, s, places)
         /\ \A s : /\ Goes(t, s) /\ (UNCHANGED quiet \/ Updates(t))
                  /\ proc[t].at \in places \ {"idle"} /\ Foreign(s) /\ s.at \in {"idle"} \cup places
                  => Steps(t, s, places)
  <1>1. Foreign(resting) /\ resting.at = "idle"
    BY RestingForeign
  <1>2. \A s : Starts(t, s) => proc[t].at = "idle"
    BY DEF Starts, resting
  <1>3. QED
    BY <1>1, <1>2 DEF Steps, Turns, Commands

\* What the rows of a table are picked by.
LEMMA PickedRows ==
  ASSUME NEW table, Rows(table), NEW S, S \subseteq DOMAIN table
  PROVE  /\ IsFiniteSet(S) /\ S \subseteq Nat
         /\ Rows(Listed(S)) /\ \A k \in DOMAIN Listed(S) : Listed(S)[k] \in S
         /\ S # {} => /\ 1 \in DOMAIN Listed(S)
                      /\ \A n \in S : Listed(S)[1] <= n
         /\ DOMAIN Listed(S) = 1..Cardinality(S)
  <1>1. DOMAIN table = 1..Len(table) /\ Len(table) \in Nat
    BY DEF Rows
  <1>2. IsFiniteSet(1..Len(table))
    BY <1>1, FS_Interval
  <1>3. IsFiniteSet(S) /\ S \subseteq Nat
    BY <1>1, <1>2, FS_Subset
  <1>4. QED
    BY <1>3, ListedRows

LEMMA NoRows == BackedRows(<<>>)
  <1>1. Rows(<<>>)
    BY EmptySeq DEF Rows
  <1>2. QED
    BY <1>1 DEF BackedRows

LEMMA OneRow ==
  ASSUME NEW x
  PROVE  Rows(<<x>>) /\ DOMAIN <<x>> = {1} /\ <<x>>[1] = x /\ Head(<<x>>) = x /\ <<x>> # <<>>
         /\ Tail(<<x>>) = <<>>
  BY DEF Rows

LEMMA MoreRows ==
  ASSUME NEW list, BackedRows(list), NEW row, Backed(row)
  PROVE  BackedRows(Append(list, row))
  BY AppendRow DEF BackedRows

-----------------------------------------------------------------------------
(***************************************************************************)
(* Findings.                                                               *)
(***************************************************************************)

LEMMA RiskLevels ==
  ASSUME NEW r
  PROVE  CalculateRisk(r) \in Info..Critical
  BY DEF CalculateRisk, RiskLevel, Info, Low, Medium, High, Critical

LEMMA NewFinding ==
  ASSUME FindingsOK, NEW x, IsFinding(x), findings' = Append(findings, x)
  PROVE  /\ FindingsOK' /\ DOMAIN findings \subseteq DOMAIN findings'
         /\ \A f \in DOMAIN findings : findings'[f] = findings[f]
         /\ \A f \in DOMAIN findings' \ DOMAIN findings : f = Len(findings) + 1 /\ findings'[f] = x
         /\ Len(findings) + 1 \in DOMAIN findings' \ DOMAIN findings
  <1>1. Rows(findings)
    BY DEF FindingsOK
  <1>2. /\ Rows(findings') /\ Len(findings) \in Nat /\ DOMAIN findings = 1..Len(findings)
        /\ DOMAIN findings' = 1..(Len(findings) + 1)
        /\ \A f \in DOMAIN findings : findings'[f] = findings[f]
        /\ findings'[Len(findings) + 1] = x
    BY <1>1, AppendRow
  <1>3. \A f \in 1..(Len(findings) + 1) : f \in 1..Len(findings) \/ f = Len(findings) + 1
    BY <1>2
  <1>4. FindingsOK'
    BY <1>2, <1>3 DEF FindingsOK, IsFinding
  <1>5. QED
    BY <1>2, <1>3, <1>4

LEMMA FindingStatus ==
  ASSUME FindingsOK, NEW f \in DOMAIN findings, NEW status \in FindingStatuses,
         SetFindingStatus(f, status)
  PROVE  FindingsOK' /\ DOMAIN findings' = DOMAIN findings /\ ChecksKept
  <1>1. PICK x : x = [findings[f] EXCEPT !.status = status]
    OBVIOUS
  <1>2. findings' = [findings EXCEPT ![f] = x]
    BY <1>1 DEF SetFindingStatus
  <1>3. /\ Rows(findings') /\ DOMAIN findings' = DOMAIN findings
        /\ \A g \in DOMAIN findings : findings'[g] = IF g = f THEN x ELSE findings[g]
    BY <1>2, UpdateRow DEF FindingsOK
  <1>4. IsFinding(findings[f])
    BY DEF FindingsOK
  <1>5. IsFinding(x) /\ x.source = findings[f].source /\ x.engagement = findings[f].engagement
    BY <1>1, <1>4 DEF IsFinding
  <1>6. FindingsOK'
    BY <1>3, <1>5 DEF FindingsOK, IsFinding
  <1>7. QED
    BY <1>3, <1>5, <1>6 DEF ChecksKept

\* The finding of a remediation is there, however many findings there are.
LEMMA RemediationsStay ==
  ASSUME RemediationsOK, UNCHANGED <<remediations, verifications>>,
         DOMAIN findings \subseteq DOMAIN findings'
  PROVE  RemediationsOK' /\ FindingsGrow
  BY DEF RemediationsOK, FindingsGrow, Verified

LEMMA NewRemediation ==
  ASSUME RemediationsOK, NEW f \in DOMAIN findings, UNCHANGED <<findings, verifications>>,
         remediations' = Append(remediations, [finding |-> f, status |-> "open"])
  PROVE  RemediationsOK' /\ FindingsGrow
  <1>1. PICK x : x = [finding |-> f, status |-> "open"]
    OBVIOUS
  <1>2. /\ Rows(remediations') /\ Len(remediations) \in Nat
        /\ DOMAIN remediations = 1..Len(remediations)
        /\ DOMAIN remediations' = 1..(Len(remediations) + 1)
        /\ \A r \in DOMAIN remediations : remediations'[r] = remediations[r]
        /\ remediations'[Len(remediations) + 1] = x
    BY <1>1, AppendRow DEF RemediationsOK
  <1>3. /\ \A r \in DOMAIN remediations' : r \in DOMAIN remediations \/ remediations'[r] = x
        /\ DOMAIN remediations \subseteq DOMAIN remediations'
    BY <1>2
  <1>4. \A r : Verified(r)' <=> Verified(r)
    BY DEF Verified
  <1>5. DOMAIN x = {"finding", "status"} /\ x.finding = f /\ x.status = "open"
    BY <1>1
  <1>6. RemediationsOK'
    BY <1>2, <1>3, <1>4, <1>5 DEF RemediationsOK
  <1>7. QED
    BY <1>3, <1>4, <1>6 DEF FindingsGrow

LEMMA RemediationStatus ==
  ASSUME RemediationsOK, NEW r \in DOMAIN remediations, NEW status,
         status = "verified" => Verified(r), UNCHANGED <<findings, verifications>>,
         remediations' = [remediations EXCEPT ![r].status = status]
  PROVE  RemediationsOK' /\ FindingsGrow
  <1>1. PICK x : x = [remediations[r] EXCEPT !.status = status]
    OBVIOUS
  <1>2. /\ Rows(remediations') /\ DOMAIN remediations' = DOMAIN remediations
        /\ \A q \in DOMAIN remediations :
             remediations'[q] = IF q = r THEN x ELSE remediations[q]
    BY <1>1, UpdateRow DEF RemediationsOK
  <1>3. \A q : Verified(q)' <=> Verified(q)
    BY DEF Verified
  <1>4. DOMAIN x = {"finding", "status"} /\ x.finding = remediations[r].finding /\ x.status = status
    BY <1>1 DEF RemediationsOK
  <1>5. RemediationsOK'
    BY <1>2, <1>3, <1>4 DEF RemediationsOK
  <1>6. QED
    BY <1>2, <1>3, <1>5 DEF FindingsGrow

LEMMA NewVerification ==
  ASSUME RemediationsOK, NEW r \in DOMAIN remediations, NEW result,
         UNCHANGED <<findings, remediations>>,
         verifications' = Append(verifications, [remediation |-> r, result |-> result])
  PROVE  RemediationsOK' /\ FindingsGrow /\ (result = "verified" => Verified(r)')
  <1>1. PICK x : x = [remediation |-> r, result |-> result]
    OBVIOUS
  <1>2. /\ Rows(verifications') /\ Len(verifications) \in Nat
        /\ DOMAIN verifications = 1..Len(verifications)
        /\ DOMAIN verifications' = 1..(Len(verifications) + 1)
        /\ \A v \in DOMAIN verifications : verifications'[v] = verifications[v]
        /\ verifications'[Len(verifications) + 1] = x
    BY <1>1, AppendRow DEF RemediationsOK
  <1>3. /\ \A v \in DOMAIN verifications' : v \in DOMAIN verifications \/ verifications'[v] = x
        /\ DOMAIN verifications \subseteq DOMAIN verifications'
        /\ Len(verifications) + 1 \in DOMAIN verifications'
    BY <1>2
  <1>4. \A q : Verified(q) => Verified(q)'
    BY <1>2, <1>3 DEF Verified
  <1>5. result = "verified" => Verified(r)'
    BY <1>1, <1>2, <1>3 DEF Verified
  <1>6. x.remediation = r
    BY <1>1
  <1>7. RemediationsOK'
    BY <1>2, <1>3, <1>4, <1>6 DEF RemediationsOK
  <1>8. QED
    BY <1>4, <1>5, <1>7 DEF FindingsGrow

\* What a step of this family does.
FindingMoves(t) ==
  /\ \E s : Steps(t, s, FindingPlaces)
  /\ FindingInv' /\ ScreensOK' /\ ChecksKept

LEMMA FindingMoved ==
  ASSUME SocTyped, FindingInv, NEW t \in Terminals, NEW s, Steps(t, s, FindingPlaces),
         FindingsOK', RemediationsOK', FindingsGrow, FindingStage(s)', ScreensOK', ChecksKept
  PROVE  FindingMoves(t)
  BY TurnsBeside, FindingMove DEF Steps, FindingMoves

LEMMA FindingCreates ==
  ASSUME SocTyped, FindingInv, ScreensOK, NEW t \in Terminals,
         \/ \E g \in Engagements, risk \in RiskInputs \cup {NONE} : FindingCreate(t, g, risk)
         \/ \E f \in DOMAIN findings, status \in FindingStatuses : FindingUpdate(t, f, status)
         \/ \E f \in DOMAIN findings : FindingRemediate(t, f)
  PROVE  FindingMoves(t)
  <1>1. FindingsOK /\ RemediationsOK
    BY DEF FindingInv
  <1>2. UNCHANGED <<socRecords, shown>> /\ Commands(t)
    BY DEF FindingCreate, FindingUpdate, FindingRemediate
  <1>3. Steps(t, resting, FindingPlaces)
    BY <1>2, StepsRest DEF FindingPlaces, SocStages
  <1>4. FindingStage(resting)'
    BY DEF FindingStage, resting
  <1>5. ScreensOK'
    BY <1>2 DEF ScreensOK, Backed
  <1>6. ASSUME NEW g \in Engagements, NEW risk, FindingCreate(t, g, risk)
        PROVE  FindingsOK' /\ RemediationsOK' /\ FindingsGrow /\ ChecksKept
    <2>1. PICK level : level = IF risk = NONE THEN NONE ELSE CalculateRisk(risk)
      OBVIOUS
    <2>2. PICK x : x = Finding("cli", g, level)
      OBVIOUS
    <2>3. level \in Info..Critical \cup {NONE}
      BY <2>1, RiskLevels
    <2>4. IsFinding(x) /\ x.source = "cli" /\ "cli" \notin CheckNames
      BY <2>2, <2>3 DEF Finding, IsFinding, FindingStatuses, CheckNames
    <2>5. findings' = Append(findings, x) /\ UNCHANGED <<remediations, verifications>>
      BY <1>6, <2>1, <2>2 DEF FindingCreate
    <2>6. FindingsOK' /\ DOMAIN findings \subseteq DOMAIN findings'
      BY <1>1, <2>4, <2>5, NewFinding
    <2>7. ChecksKept
      BY <1>1, <2>4, <2>5, NewFinding DEF ChecksKept
    <2>8. QED
      BY <1>1, <2>5, <2>6, <2>7, RemediationsStay
  <1>7. ASSUME NEW f \in DOMAIN findings, NEW status \in FindingStatuses,
               FindingUpdate(t, f, status)
        PROVE  FindingsOK' /\ RemediationsOK' /\ FindingsGrow /\ ChecksKept
    <2>1. SetFindingStatus(f, status) /\ UNCHANGED <<remediations, verifications>>
      BY <1>7 DEF FindingUpdate
    <2>2. QED
      BY <1>1, <2>1, FindingStatus, RemediationsStay
  <1>8. ASSUME NEW f \in DOMAIN findings, FindingRemediate(t, f)
        PROVE  FindingsOK' /\ RemediationsOK' /\ FindingsGrow /\ ChecksKept
    <2>1. /\ remediations' = Append(remediations, [finding |-> f, status |-> "open"])
          /\ UNCHANGED <<findings, verifications>>
      BY <1>8 DEF FindingRemediate
    <2>2. FindingsOK' /\ ChecksKept
      BY <1>1, <2>1 DEF FindingsOK, IsFinding, ChecksKept
    <2>3. QED
      BY <1>1, <2>1, <2>2, NewRemediation
  <1>9. FindingsOK' /\ RemediationsOK' /\ FindingsGrow /\ ChecksKept
    BY <1>6, <1>7, <1>8
  <1>10. QED
    BY <1>3, <1>4, <1>5, <1>9, FindingMoved

LEMMA FindingVerifies ==
  ASSUME SocTyped, FindingInv, ScreensOK, NEW t \in Terminals,
         \/ \E r \in DOMAIN remediations, result \in {"verified", "failed", "inconclusive"} :
              FindingVerify(t, r, result)
         \/ UpdateRemediation(t) \/ VerifyFinding(t)
  PROVE  FindingMoves(t)
  <1>1. FindingsOK /\ RemediationsOK /\ FindingStage(proc[t])
    BY DEF FindingInv, Terminals
  <1>2. UNCHANGED <<socRecords, shown>>
    BY DEF FindingVerify, UpdateRemediation, VerifyFinding
  <1>3. ScreensOK'
    BY <1>2 DEF ScreensOK, Backed
  <1>4. FindingPlaces \cap SocStages = {}
    BY DEF FindingPlaces, SocStages
  <1>5. FindingStage(resting)' /\ Foreign(resting) /\ resting.at = "idle"
    BY RestingForeign DEF FindingStage, resting
  <1>6. UNCHANGED findings => FindingsOK' /\ ChecksKept
    BY <1>1 DEF FindingsOK, IsFinding, ChecksKept
  <1>7. ASSUME NEW r \in DOMAIN remediations, NEW result, FindingVerify(t, r, result)
        PROVE  FindingMoves(t)
    <2>1. PICK s : s = [at |-> "recorded", r |-> r, result |-> result]
      OBVIOUS
    <2>2. Starts(t, s) /\ UNCHANGED <<findings, remediations>>
      BY <1>7, <2>1 DEF FindingVerify
    <2>3. Foreign(s) /\ s.at \in FindingPlaces
      BY <2>1 DEF Foreign, SocStages, FindingPlaces
    <2>4. Steps(t, s, FindingPlaces)
      BY <1>2, <1>4, <2>2, <2>3, StepsRest
    <2>5. RemediationsOK' /\ FindingsGrow /\ (result = "verified" => Verified(r)')
      BY <1>1, <1>7, NewVerification DEF FindingVerify
    <2>6. FindingStage(s)'
      BY <2>1, <2>2, <2>5 DEF FindingStage
    <2>7. QED
      BY <1>3, <1>6, <2>2, <2>4, <2>5, <2>6, FindingMoved
  <1>8. CASE UpdateRemediation(t)
    <2>1. PICK r : r = proc[t].r
      OBVIOUS
    <2>2. /\ proc[t].at = "recorded" /\ r \in DOMAIN remediations
          /\ proc[t].result = "verified" => Verified(r)
          /\ remediations[r].finding \in DOMAIN findings
          /\ UNCHANGED <<findings, verifications, quiet>>
      BY <1>1, <1>8, <2>1 DEF UpdateRemediation, FindingStage, RemediationsOK
    <2>3. ASSUME NEW s, Goes(t, s), Foreign(s), s.at \in {"idle"} \cup FindingPlaces
          PROVE  Steps(t, s, FindingPlaces)
      BY <1>2, <1>4, <2>2, <2>3, StepsRest DEF FindingPlaces
    <2>4. CASE proc[t].result = "verified"
      <3>1. PICK s : s = [at |-> "verdict", f |-> remediations[r].finding]
        OBVIOUS
      <3>2. Goes(t, s) /\ remediations' = [remediations EXCEPT ![r].status = "verified"]
        BY <1>8, <2>1, <2>4, <3>1 DEF UpdateRemediation
      <3>3. Foreign(s) /\ s.at \in FindingPlaces
        BY <3>1 DEF Foreign, SocStages, FindingPlaces
      <3>4. RemediationsOK' /\ FindingsGrow
        BY <1>1, <2>2, <2>4, <3>2, RemediationStatus
      <3>5. FindingStage(s)'
        BY <2>2, <3>1 DEF FindingStage
      <3>6. QED
        BY <1>3, <1>6, <2>2, <2>3, <3>2, <3>3, <3>4, <3>5, FindingMoved
    <2>5. CASE proc[t].result = "failed"
      <3>1. Goes(t, resting) /\ remediations' = [remediations EXCEPT ![r].status = "in_progress"]
        BY <1>8, <2>1, <2>5 DEF UpdateRemediation
      <3>2. RemediationsOK' /\ FindingsGrow
        BY <1>1, <2>2, <3>1, RemediationStatus
      <3>3. QED
        BY <1>3, <1>5, <1>6, <2>2, <2>3, <3>1, <3>2, FindingMoved
    <2>6. CASE proc[t].result \notin {"verified", "failed"}
      <3>1. Goes(t, resting) /\ UNCHANGED remediations
        BY <1>8, <2>6 DEF UpdateRemediation
      <3>2. RemediationsOK' /\ FindingsGrow
        BY <1>1, <2>2, <3>1, RemediationsStay
      <3>3. QED
        BY <1>3, <1>5, <1>6, <2>2, <2>3, <3>1, <3>2, FindingMoved
    <2>7. QED
      BY <2>4, <2>5, <2>6
  <1>9. CASE VerifyFinding(t)
    <2>1. PICK f : f = proc[t].f
      OBVIOUS
    <2>2. /\ proc[t].at = "verdict" /\ f \in DOMAIN findings /\ SetFindingStatus(f, "verified")
          /\ Goes(t, resting) /\ UNCHANGED <<remediations, verifications, quiet>>
      BY <1>1, <1>9, <2>1 DEF VerifyFinding, FindingStage
    <2>3. FindingsOK' /\ DOMAIN findings' = DOMAIN findings /\ ChecksKept
      BY <1>1, <2>2, FindingStatus DEF FindingStatuses
    <2>4. RemediationsOK' /\ FindingsGrow
      BY <1>1, <2>2, <2>3, RemediationsStay
    <2>5. Steps(t, resting, FindingPlaces)
      BY <1>2, <1>4, <1>5, <2>2, StepsRest DEF FindingPlaces
    <2>6. QED
      BY <1>3, <1>5, <2>3, <2>4, <2>5, FindingMoved
  <1>10. QED
    BY <1>7, <1>8, <1>9

LEMMA FindingReads ==
  ASSUME SocTyped, FindingInv, ScreensOK, NEW t \in Terminals,
         (\E f \in DOMAIN findings : FindingRemediations(t, f)) \/ ReadVerifications(t)
  PROVE  FindingMoves(t)
  <1>1. FindingsOK /\ RemediationsOK /\ FindingStage(proc[t]) /\ t \in Procs
    BY DEF FindingInv, Terminals
  <1>2. UNCHANGED <<socRecords, findings, remediations, verifications>>
    BY DEF FindingRemediations, ReadVerifications, findingTables
  <1>3. FindingPlaces \cap SocStages = {}
    BY DEF FindingPlaces, SocStages
  <1>4. FindingsOK' /\ RemediationsOK' /\ FindingsGrow /\ ChecksKept
    BY <1>1, <1>2, RemediationsStay DEF FindingsOK, IsFinding, ChecksKept
  <1>5. \A s : FindingStage(s) => FindingStage(s)'
    BY <1>2 DEF FindingStage, Verified
  <1>6. ASSUME NEW f \in DOMAIN findings, FindingRemediations(t, f)
        PROVE  FindingMoves(t)
    <2>1. PICK S : S = {r \in DOMAIN remediations : remediations[r].finding = f}
      OBVIOUS
    <2>2. PICK status : status = [r \in DOMAIN remediations |-> remediations[r].status]
      OBVIOUS
    <2>3. PICK todo : todo = Listed(S)
      OBVIOUS
    <2>4. Rows(todo) /\ \A k \in DOMAIN todo : todo[k] \in DOMAIN remediations
      <3>1. S \subseteq DOMAIN remediations /\ Rows(remediations)
        BY <1>1, <2>1 DEF RemediationsOK
      <3>2. Rows(todo) /\ \A k \in DOMAIN todo : todo[k] \in S
        BY <2>3, <3>1, PickedRows
      <3>3. QED
        BY <3>1, <3>2
    <2>5. PICK s : s = [at |-> "records", todo |-> todo, done |-> <<>>, status |-> status]
      OBVIOUS
    <2>6. Starts(t, s) /\ UNCHANGED shown
      BY <1>6, <2>1, <2>2, <2>3, <2>5 DEF FindingRemediations
    <2>7. Foreign(s) /\ s.at \in FindingPlaces
      BY <2>5 DEF Foreign, SocStages, FindingPlaces
    <2>8. FindingStage(s)
      <3>1. DOMAIN status = DOMAIN remediations
        BY <2>2
      <3>2. \A r \in DOMAIN remediations : status[r] = "verified" => Verified(r)
        BY <1>1, <2>2 DEF RemediationsOK
      <3>3. QED
        BY <2>4, <2>5, <3>1, <3>2, NoRows DEF FindingStage
    <2>9. ScreensOK'
      BY <2>6 DEF ScreensOK, Backed
    <2>10. Steps(t, s, FindingPlaces)
      BY <1>2, <1>3, <2>6, <2>7, StepsRest
    <2>11. QED
      BY <1>4, <1>5, <2>8, <2>9, <2>10, FindingMoved
  <1>7. CASE ReadVerifications(t)
    <2>1. /\ proc[t].at = "records" /\ UNCHANGED quiet
          /\ DOMAIN proc[t] = {"at", "todo", "done", "status"}
          /\ Rows(proc[t].todo) /\ BackedRows(proc[t].done)
          /\ \A k \in DOMAIN proc[t].todo : proc[t].todo[k] \in DOMAIN proc[t].status
          /\ \A r \in DOMAIN proc[t].status : proc[t].status[r] = "verified" => Verified(r)
      BY <1>1, <1>7 DEF ReadVerifications, FindingStage
    <2>2. ASSUME NEW s, Goes(t, s), Foreign(s), s.at \in {"idle"} \cup FindingPlaces
          PROVE  Steps(t, s, FindingPlaces)
      BY <1>2, <1>3, <2>1, <2>2, StepsRest DEF FindingPlaces
    <2>3. CASE proc[t].todo = <<>>
      <3>1. Goes(t, resting) /\ shown' = [shown EXCEPT ![t] = proc[t].done]
        BY <1>7, <2>3 DEF ReadVerifications
      <3>2. ScreensOK'
        BY <1>1, <2>1, <3>1, ScreenMove DEF BackedRows
      <3>3. Foreign(resting) /\ resting.at = "idle" /\ FindingStage(resting)'
        BY RestingForeign DEF FindingStage, resting
      <3>4. QED
        BY <1>4, <2>2, <3>1, <3>2, <3>3, FindingMoved
    <2>4. CASE proc[t].todo # <<>>
      <3>1. PICK r : r = Head(proc[t].todo)
        OBVIOUS
      <3>2. PICK row : row = [kind |-> "remediation", status |-> proc[t].status[r],
                      records |-> {verifications[v].result : v \in
                        {v \in DOMAIN verifications : verifications[v].remediation = r}}]
        OBVIOUS
      <3>3. PICK s : s = [proc[t] EXCEPT !.todo = Tail(@), !.done = Append(@, row)]
        OBVIOUS
      <3>4. Goes(t, s) /\ UNCHANGED shown
        BY <1>7, <2>4, <3>1, <3>2, <3>3 DEF ReadVerifications
      <3>5. /\ DOMAIN s = {"at", "todo", "done", "status"} /\ s.at = "records"
            /\ s.todo = Tail(proc[t].todo) /\ s.done = Append(proc[t].done, row)
            /\ s.status = proc[t].status
        BY <2>1, <3>3
      <3>6. /\ r \in DOMAIN proc[t].status /\ Rows(s.todo)
            /\ \A k \in DOMAIN s.todo : s.todo[k] \in DOMAIN s.status
        <4>1. /\ 1 \in DOMAIN proc[t].todo /\ r = proc[t].todo[1] /\ Rows(s.todo)
              /\ \A k \in DOMAIN s.todo : k + 1 \in DOMAIN proc[t].todo
                                          /\ s.todo[k] = proc[t].todo[k + 1]
          BY <2>1, <2>4, <3>1, <3>5, TailRows
        <4>2. QED
          BY <2>1, <3>5, <4>1
      <3>7. Backed(row)
        <4>1. row.kind = "remediation" /\ row.status = proc[t].status[r]
          BY <3>2
        <4>2. Verified(r) => "verified" \in row.records
          BY <3>2 DEF Verified
        <4>3. QED
          BY <2>1, <3>6, <4>1, <4>2 DEF Backed
      <3>8. FindingStage(s)
        BY <2>1, <3>5, <3>6, <3>7, MoreRows DEF FindingStage
      <3>9. ScreensOK'
        BY <3>4 DEF ScreensOK, Backed
      <3>10. Foreign(s) /\ s.at \in FindingPlaces
        BY <3>5 DEF Foreign, SocStages, FindingPlaces
      <3>11. QED
        BY <1>4, <1>5, <2>2, <3>4, <3>8, <3>9, <3>10, FindingMoved
    <2>5. QED
      BY <2>3, <2>4
  <1>8. QED
    BY <1>6, <1>7

LEMMA FindingSteps ==
  ASSUME SocTyped, FindingInv, ScreensOK, NEW t \in Terminals, FindingStep(t)
  PROVE  FindingMoves(t) /\ UNCHANGED <<evidenceTables, forensicTables, exercises>>
  <1>1. FindingMoves(t)
    BY FindingCreates, FindingVerifies, FindingReads DEF FindingStep
  <1>2. UNCHANGED <<evidenceTables, forensicTables, exercises>>
    BY DEF FindingStep, FindingCreate, FindingUpdate, FindingRemediate, FindingRemediations,
           FindingVerify, UpdateRemediation, VerifyFinding, ReadVerifications
  <1>3. QED
    BY <1>1, <1>2

-----------------------------------------------------------------------------
(***************************************************************************)
(* Evidence and its custody.                                               *)
(***************************************************************************)

LEMMA Captures ==
  ASSUME EvidenceInv
  PROVE  /\ 0 \notin DOMAIN evidence
         /\ \A p \in Procs : /\ Capturing(p) \in {0} \cup DOMAIN evidence
                             /\ Capturing(p) # 0 <=> proc[p].at = "capture"
  <1>1. 0 \notin DOMAIN evidence
    BY DEF EvidenceInv, EvidenceOK, Rows
  <1>2. QED
    BY <1>1 DEF EvidenceInv, EvidenceStage, Capturing

\* A row of custody goes to evidence that nobody is capturing, that was cut, or
\* is the record of the capture itself.
LEMMA CustodyAppends ==
  ASSUME SocTyped, EvidenceInv, NEW p \in Procs, NEW s, Moves(p, s), s.at # "capture",
         NEW e \in DOMAIN evidence, NEW state,
         custody' = Append(custody, [evidence |-> e, state |-> state]), UNCHANGED evidence,
         cut \subseteq cut', cut' \subseteq DOMAIN evidence,
         \/ Capturing(p) = 0 /\ ((\E q \in Procs : Capturing(q) = e) => e \in cut')
         \/ Capturing(p) = e /\ state = "captured"
  PROVE  EvidenceOK' /\ CustodyBegins'
  <1>1. EvidenceOK /\ CustodyBegins
    BY DEF EvidenceInv
  <1>2. PICK row : row = [evidence |-> e, state |-> state]
    OBVIOUS
  <1>3. /\ Rows(custody') /\ Len(custody) \in Nat /\ DOMAIN custody = 1..Len(custody)
        /\ DOMAIN custody' = 1..(Len(custody) + 1)
        /\ \A k \in DOMAIN custody : custody'[k] = custody[k]
        /\ custody'[Len(custody) + 1] = row
    BY <1>1, <1>2, AppendRow DEF EvidenceOK
  <1>4. row.evidence = e /\ row.state = state
    BY <1>2
  <1>5. \A k \in DOMAIN custody' :
          k \in DOMAIN custody \/ (k = Len(custody) + 1 /\ custody'[k] = row)
    BY <1>3
  <1>6. EvidenceOK'
    BY <1>1, <1>3, <1>4, <1>5 DEF EvidenceOK
  <1>7. /\ Capturing(p)' = 0 /\ 0 \notin DOMAIN evidence
        /\ \A q \in Procs \ {p} : Capturing(q)' = Capturing(q)
        /\ \A q \in Procs : Capturing(q) \in {0} \cup DOMAIN evidence
    BY Captures, CapturingMoves
  <1>8. ASSUME NEW d, First(d)
        PROVE  First(d)'
    <2>1. PICK k \in DOMAIN custody :
            /\ custody[k].evidence = d /\ custody[k].state = "captured"
            /\ \A j \in DOMAIN custody : j < k => custody[j].evidence # d
      BY <1>8 DEF First
    <2>2. k \in DOMAIN custody' /\ custody'[k] = custody[k]
      BY <1>3
    <2>3. ASSUME NEW j \in DOMAIN custody', j < k
          PROVE  custody'[j].evidence # d
      <3>1. j \in DOMAIN custody
        BY <1>3, <2>3
      <3>2. QED
        BY <1>3, <2>1, <2>3, <3>1
    <2>4. QED
      BY <2>1, <2>2, <2>3 DEF First
  <1>9. ASSUME NEW d \in DOMAIN evidence \ cut', NEW q \in Procs, Capturing(q)' = d
        PROVE  \A k \in DOMAIN custody' : custody'[k].evidence # d
    <2>1. q # p /\ Capturing(q) = d
      BY <1>7, <1>9
    <2>2. d \in DOMAIN evidence \ cut
      OBVIOUS
    <2>3. \A k \in DOMAIN custody : custody[k].evidence # d
      BY <1>1, <2>1, <2>2 DEF CustodyBegins
    <2>4. d # e
      <3>1. CASE Capturing(p) = 0 /\ ((\E r \in Procs : Capturing(r) = e) => e \in cut')
        BY <1>9, <2>1, <3>1
      <3>2. CASE Capturing(p) = e
        BY <1>1, <1>7, <2>1, <3>2 DEF CustodyBegins
      <3>3. QED
        BY <3>1, <3>2
    <2>5. QED
      BY <1>3, <1>4, <1>5, <2>3, <2>4
  <1>10. ASSUME NEW d \in DOMAIN evidence \ cut', ~ \E q \in Procs : Capturing(q)' = d
         PROVE  First(d)'
    <2>1. d \in DOMAIN evidence \ cut
      OBVIOUS
    <2>2. CASE \E q \in Procs : Capturing(q) = d
      <3>1. Capturing(p) = d
        BY <1>7, <1>10, <2>2
      <3>2. d = e /\ state = "captured"
        BY <1>7, <3>1
      <3>3. \A k \in DOMAIN custody : custody[k].evidence # d
        BY <1>1, <2>1, <2>2 DEF CustodyBegins
      <3>4. PICK k : k = Len(custody) + 1
        OBVIOUS
      <3>5. k \in DOMAIN custody' /\ custody'[k].evidence = d /\ custody'[k].state = "captured"
        BY <1>3, <1>4, <3>2, <3>4
      <3>6. \A j \in DOMAIN custody' : j < k => custody'[j].evidence # d
        BY <1>3, <1>5, <3>3, <3>4
      <3>7. QED
        BY <3>5, <3>6 DEF First
    <2>3. CASE ~ \E q \in Procs : Capturing(q) = d
      <3>1. First(d)
        BY <1>1, <2>1, <2>3 DEF CustodyBegins
      <3>2. QED
        BY <1>8, <3>1
    <2>4. QED
      BY <2>2, <2>3
  <1>11. \A q, r \in Procs : Capturing(q)' # 0 /\ Capturing(r)' = Capturing(q)' => q = r
    BY <1>1, <1>7 DEF CustodyBegins
  <1>12. CustodyBegins'
    BY <1>9, <1>10, <1>11 DEF CustodyBegins
  <1>13. QED
    BY <1>6, <1>12

\* New evidence has no custody, and one process captures it.
LEMMA EvidenceAppends ==
  ASSUME SocTyped, EvidenceInv, NEW t \in Procs, NEW s, Moves(t, s), proc[t].at # "capture",
         NEW g, evidence' = Append(evidence, [engagement |-> g, altered |-> FALSE]),
         UNCHANGED <<custody, cut>>, DOMAIN s = {"at", "e", "next"},
         s.at = "capture", s.e = Len(evidence) + 1
  PROVE  EvidenceInv' /\ DOMAIN evidence \subseteq DOMAIN evidence'
  <1>1. EvidenceOK /\ CustodyBegins
    BY DEF EvidenceInv
  <1>2. PICK row : row = [engagement |-> g, altered |-> FALSE]
    OBVIOUS
  <1>3. /\ Rows(evidence') /\ Len(evidence) \in Nat /\ DOMAIN evidence = 1..Len(evidence)
        /\ DOMAIN evidence' = 1..(Len(evidence) + 1)
        /\ \A e \in DOMAIN evidence : evidence'[e] = evidence[e]
        /\ evidence'[Len(evidence) + 1] = row
    BY <1>1, <1>2, AppendRow DEF EvidenceOK
  <1>4. PICK n : n = Len(evidence) + 1
    OBVIOUS
  <1>5. /\ n \in DOMAIN evidence' \ DOMAIN evidence /\ n # 0
        /\ \A e \in DOMAIN evidence' : e \in DOMAIN evidence \/ e = n
        /\ DOMAIN evidence \subseteq DOMAIN evidence'
    BY <1>3, <1>4
  <1>6. EvidenceOK'
    BY <1>1, <1>2, <1>3, <1>4, <1>5 DEF EvidenceOK
  <1>7. /\ Capturing(t)' = n /\ Capturing(t) = 0
        /\ \A q \in Procs \ {t} : Capturing(q)' = Capturing(q)
        /\ \A q \in Procs : Capturing(q) \in {0} \cup DOMAIN evidence
    BY <1>4, Captures, CapturingMoves
  <1>8. \A e \in DOMAIN evidence :
          (\E q \in Procs : Capturing(q)' = e) <=> (\E q \in Procs : Capturing(q) = e)
    <2>1. \A e \in DOMAIN evidence : e # 0 /\ e # n
      BY <1>3, <1>4
    <2>2. QED
      BY <1>7, <2>1
  <1>9. \A k \in DOMAIN custody : custody[k].evidence # n
    BY <1>1, <1>5 DEF EvidenceOK
  <1>10. \A d : First(d)' <=> First(d)
    BY DEF First
  <1>11. CustodyBegins'
    <2>1. ASSUME NEW e \in DOMAIN evidence' \ cut'
          PROVE  IF \E q \in Procs : Capturing(q)' = e
                 THEN \A k \in DOMAIN custody' : custody'[k].evidence # e
                 ELSE First(e)'
      <3>1. CASE e = n
        BY <1>7, <1>9, <3>1
      <3>2. CASE e \in DOMAIN evidence
        BY <1>1, <1>8, <1>10, <3>2 DEF CustodyBegins
      <3>3. QED
        BY <1>5, <3>1, <3>2
    <2>2. \A q, r \in Procs : Capturing(q)' # 0 /\ Capturing(r)' = Capturing(q)' => q = r
      BY <1>1, <1>5, <1>7 DEF CustodyBegins
    <2>3. QED
      BY <2>1, <2>2 DEF CustodyBegins
  <1>12. EvidenceStage(s)'
    BY <1>4, <1>5 DEF EvidenceStage
  <1>13. QED
    BY <1>5, <1>6, <1>11, <1>12, EvidenceMove

\* The capture of what a killed command was adding is cut.
LEMMA EvidenceCuts ==
  ASSUME SocTyped, EvidenceInv, NEW t \in Procs, Moves(t, resting),
         cut' = cut \cup ({Capturing(t)} \ {0}), UNCHANGED <<evidence, custody>>
  PROVE  EvidenceInv'
  <1>1. EvidenceOK /\ CustodyBegins
    BY DEF EvidenceInv
  <1>2. Capturing(t)' = 0
    BY CapturingMoves DEF resting
  <1>3. /\ \A q \in Procs \ {t} : Capturing(q)' = Capturing(q)
        /\ \A q \in Procs : Capturing(q) \in {0} \cup DOMAIN evidence
        /\ 0 \notin DOMAIN evidence
    BY Captures, CapturingMoves
  <1>4. EvidenceOK'
    BY <1>1, <1>3 DEF EvidenceOK
  <1>5. \A e \in DOMAIN evidence \ cut' : Capturing(t) # e /\ e # 0 /\ e \in DOMAIN evidence \ cut
    BY <1>3
  <1>6. \A e \in DOMAIN evidence \ cut' :
          (\E q \in Procs : Capturing(q)' = e) <=> (\E q \in Procs : Capturing(q) = e)
    BY <1>2, <1>3, <1>5
  <1>7. \A d : First(d)' <=> First(d)
    BY DEF First
  <1>8. \A q, r \in Procs : Capturing(q)' # 0 /\ Capturing(r)' = Capturing(q)' => q = r
    BY <1>1, <1>2, <1>3 DEF CustodyBegins
  <1>9. CustodyBegins'
    BY <1>1, <1>5, <1>6, <1>7, <1>8 DEF CustodyBegins
  <1>10. EvidenceStage(resting)'
    BY DEF EvidenceStage, resting
  <1>11. QED
    BY <1>4, <1>9, <1>10, EvidenceMove

\* What a step of this family does; a capture may be followed by indicators.
EvidenceMoves(t, s) ==
  /\ Steps(t, s, EvidencePlaces \cup {"existed"}) /\ IocStage(s) /\ IocQuiet(s)
  /\ EvidenceInv' /\ DOMAIN evidence \subseteq DOMAIN evidence'

LEMMA EvidenceSteps ==
  ASSUME SocTyped, EvidenceInv, IocInv, NEW t \in Terminals, EvidenceStep(t)
  PROVE  /\ \E s : EvidenceMoves(t, s)
         /\ UNCHANGED <<findingTables, forensicTables, exercises, shown>>
  <1>1. EvidenceOK /\ EvidenceStage(proc[t]) /\ IocStage(proc[t]) /\ t \in Procs
    BY DEF EvidenceInv, IocInv, Terminals
  <1>2. UNCHANGED <<findingTables, forensicTables, exercises, shown, socRecords>>
    BY DEF EvidenceStep, EvidenceAdd, EvidenceVerify, RecordCapture, RecordVerified
  <1>3. PICK places : places = EvidencePlaces \cup {"existed"}
    OBVIOUS
  <1>4. places \cap SocStages = {} /\ "idle" \notin places
    BY <1>3 DEF EvidencePlaces, SocStages
  <1>5. ASSUME NEW g \in Engagements, EvidenceAdd(t, g)
        PROVE  \E s : EvidenceMoves(t, s)
    <2>1. PICK s : s = [at |-> "capture", e |-> Len(evidence) + 1, next |-> resting]
      OBVIOUS
    <2>2. /\ evidence' = Append(evidence, [engagement |-> g, altered |-> FALSE])
          /\ Starts(t, s) /\ UNCHANGED <<custody, cut>>
      BY <1>5, <2>1 DEF EvidenceAdd, AddEvidence
    <2>3. /\ Foreign(s) /\ s.at \in places /\ DOMAIN s = {"at", "e", "next"}
          /\ s.at = "capture" /\ s.e = Len(evidence) + 1 /\ s.next = resting
      BY <1>3, <2>1 DEF Foreign, SocStages, EvidencePlaces
    <2>4. Steps(t, s, places)
      BY <1>2, <1>4, <2>2, <2>3, StepsRest
    <2>5. Moves(t, s) /\ proc[t].at # "capture"
      BY <2>2, <2>4, TurnsBeside DEF Steps, Starts, resting
    <2>6. EvidenceInv' /\ DOMAIN evidence \subseteq DOMAIN evidence'
      BY <1>1, <2>2, <2>3, <2>5, EvidenceAppends
    <2>7. IocStage(s) /\ IocQuiet(s)
      BY <2>3 DEF IocStage, IocQuiet
    <2>8. QED
      BY <1>3, <2>4, <2>6, <2>7 DEF EvidenceMoves
  <1>6. ASSUME NEW e \in DOMAIN evidence, EvidenceVerify(t, e)
        PROVE  \E s : EvidenceMoves(t, s)
    <2>1. PICK s : s = [at |-> "verified", e |-> e,
                state |-> IF evidence[e].altered THEN "integrity_failure" ELSE "verified"]
      OBVIOUS
    <2>2. Starts(t, s) /\ UNCHANGED evidenceTables
      BY <1>6, <2>1 DEF EvidenceVerify
    <2>3. /\ Foreign(s) /\ s.at \in places /\ DOMAIN s = {"at", "e", "state"} /\ s.e = e
          /\ s.at = "verified"
      BY <1>3, <2>1 DEF Foreign, SocStages, EvidencePlaces
    <2>4. Steps(t, s, places)
      BY <1>2, <1>4, <2>2, <2>3, StepsRest
    <2>5. Moves(t, s) /\ proc[t].at # "capture"
      BY <2>2, <2>4, TurnsBeside DEF Steps, Starts, resting
    <2>6. EvidenceStage(s) /\ IocStage(s) /\ IocQuiet(s)
      BY <2>3 DEF EvidenceStage, IocStage, IocQuiet
    <2>7. EvidenceInv'
      BY <1>1, <2>2, <2>3, <2>5, <2>6, EvidenceStay
    <2>8. QED
      BY <1>3, <2>2, <2>4, <2>6, <2>7 DEF EvidenceMoves, evidenceTables
  <1>7. CASE RecordCapture(t)
    <2>1. PICK s : s = proc[t].next
      OBVIOUS
    <2>2. PICK e : e = proc[t].e
      OBVIOUS
    <2>3. /\ proc[t].at = "capture" /\ Goes(t, s) /\ UNCHANGED <<evidence, cut, quiet>>
          /\ custody' = Append(custody, [evidence |-> e, state |-> "captured"])
          /\ e \in DOMAIN evidence
      BY <1>1, <1>7, <2>1, <2>2 DEF RecordCapture, EvidenceStage
    <2>4. s = resting \/ (s.at = "existed" /\ IsRegistering(s) /\ s.fresh = s.rows)
      BY <1>1, <2>1, <2>3 DEF IocStage
    <2>5. s.at \in {"idle", "existed"}
      BY <2>4, RestingForeign
    <2>6. Foreign(s) /\ s.at # "capture" /\ EvidenceStage(s)' /\ IocStage(s) /\ IocQuiet(s)
      <3>1. CASE s = resting
        BY <3>1, RestingForeign DEF EvidenceStage, IocStage, IocQuiet, resting
      <3>2. CASE s.at = "existed" /\ IsRegistering(s) /\ s.fresh = s.rows
        <4>1. Foreign(s)
          BY <3>2 DEF IsRegistering, Foreign, SocStages
        <4>2. EvidenceStage(s)' /\ IocStage(s) /\ IocQuiet(s)
          BY <3>2 DEF EvidenceStage, IocStage, IocQuiet
        <4>3. QED
          BY <3>2, <4>1, <4>2
      <3>3. QED
        BY <2>4, <3>1, <3>2
    <2>7. Steps(t, s, places)
      BY <1>2, <1>3, <1>4, <2>3, <2>5, <2>6, StepsRest DEF EvidencePlaces
    <2>8. Moves(t, s)
      BY <2>7, TurnsBeside DEF Steps
    <2>9. Capturing(t) = e
      BY <2>2, <2>3 DEF Capturing
    <2>10. EvidenceOK' /\ CustodyBegins'
      BY <1>1, <2>3, <2>6, <2>8, <2>9, CustodyAppends DEF EvidenceOK
    <2>11. EvidenceInv'
      BY <1>1, <2>3, <2>6, <2>8, <2>10, EvidenceMove
    <2>12. DOMAIN evidence \subseteq DOMAIN evidence' /\ IocStage(s) /\ IocQuiet(s)
      BY <2>3, <2>6
    <2>13. EvidenceMoves(t, s)
      BY <1>3, <2>7, <2>11, <2>12 DEF EvidenceMoves
    <2>14. QED
      BY <1>2, <2>13
  <1>8. CASE RecordVerified(t)
    <2>1. PICK e : e = proc[t].e
      OBVIOUS
    <2>2. PICK state : state = proc[t].state
      OBVIOUS
    <2>3. /\ proc[t].at = "verified" /\ Goes(t, resting) /\ UNCHANGED <<evidence, quiet>>
          /\ custody' = Append(custody, [evidence |-> e, state |-> state])
          /\ cut' = cut \cup ({Capturing(p) : p \in Procs} \cap {e}) /\ e \in DOMAIN evidence
      BY <1>1, <1>8, <2>1, <2>2 DEF RecordVerified, EvidenceStage
    <2>4. Steps(t, resting, places)
      BY <1>2, <1>3, <1>4, <2>3, RestingForeign, StepsRest DEF EvidencePlaces
    <2>5. Moves(t, resting) /\ resting.at # "capture"
      BY <2>4, TurnsBeside DEF Steps, resting
    <2>6. Capturing(t) = 0
      BY <2>3 DEF Capturing
    <2>7. /\ cut \subseteq cut' /\ cut' \subseteq DOMAIN evidence
          /\ (\E q \in Procs : Capturing(q) = e) => e \in cut'
      BY <1>1, <2>3 DEF EvidenceOK
    <2>8. EvidenceOK' /\ CustodyBegins'
      BY <1>1, <2>3, <2>5, <2>6, <2>7, CustodyAppends
    <2>9. EvidenceStage(resting)' /\ IocStage(resting) /\ IocQuiet(resting)
      BY DEF EvidenceStage, IocStage, IocQuiet, resting
    <2>10. EvidenceInv'
      BY <1>1, <2>3, <2>5, <2>8, <2>9, EvidenceMove
    <2>11. DOMAIN evidence \subseteq DOMAIN evidence'
      BY <2>3
    <2>12. EvidenceMoves(t, resting)
      BY <1>3, <2>4, <2>9, <2>10, <2>11 DEF EvidenceMoves
    <2>13. QED
      BY <1>2, <2>12
  <1>9. QED
    BY <1>2, <1>5, <1>6, <1>7, <1>8 DEF EvidenceStep

\* Content changed behind the program's back: who captures what stays.
LEMMA AlterSteps ==
  ASSUME SocTyped, EvidenceInv, NEW e \in DOMAIN evidence, Alter(e)
  PROVE  /\ EvidenceInv' /\ DOMAIN evidence' = DOMAIN evidence
         /\ UNCHANGED <<findingTables, forensicTables, exercises, shown, socVars>>
  <1>1. PICK x : x = [evidence[e] EXCEPT !.altered = TRUE]
    OBVIOUS
  <1>2. EvidenceOK
    BY DEF EvidenceInv
  <1>3. /\ evidence' = [evidence EXCEPT ![e] = x] /\ UNCHANGED <<custody, cut, proc>>
        /\ UNCHANGED <<findingTables, forensicTables, exercises, shown, socVars>>
    BY <1>1 DEF Alter, socVars, deskVars
  <1>4. /\ Rows(evidence') /\ DOMAIN evidence' = DOMAIN evidence
        /\ \A d \in DOMAIN evidence : evidence'[d] = IF d = e THEN x ELSE evidence[d]
    BY <1>2, <1>3, UpdateRow DEF EvidenceOK
  <1>5. DOMAIN x = {"engagement", "altered"}
    BY <1>1, <1>2 DEF EvidenceOK
  <1>6. EvidenceOK'
    BY <1>2, <1>3, <1>4, <1>5 DEF EvidenceOK
  <1>7. CustodyBegins'
    <2>1. \A q \in Procs : Capturing(q)' = Capturing(q)
      BY <1>3 DEF Capturing
    <2>2. \A d : First(d)' <=> First(d)
      BY <1>3 DEF First
    <2>3. QED
      BY <1>3, <1>4, <2>1, <2>2 DEF EvidenceInv, CustodyBegins
  <1>8. \A p \in Procs : EvidenceStage(proc[p])'
    BY <1>3, <1>4 DEF EvidenceInv, EvidenceStage
  <1>9. QED
    BY <1>3, <1>4, <1>6, <1>7, <1>8 DEF EvidenceInv

-----------------------------------------------------------------------------
(***************************************************************************)
(* Forensics.                                                              *)
(***************************************************************************)

\* What a step of this family does.
ForensicMoves(t) ==
  (\E s : Steps(t, s, ForensicPlaces)) /\ ForensicInv' /\ ScreensOK'

LEMMA ForensicMoved ==
  ASSUME SocTyped, ForensicInv, NEW t \in Terminals, NEW s, Steps(t, s, ForensicPlaces),
         ForensicsOK', DOMAIN artifacts \subseteq DOMAIN artifacts',
         \/ Updates(t)
         \/ \A a \in DOMAIN artifacts : artifacts'[a].details = artifacts[a].details,
         ForensicStage(s)', quiet'[t] => ForensicQuiet(s)', ScreensOK'
  PROVE  ForensicMoves(t)
  BY TurnsBeside, ForensicMove DEF Steps, ForensicMoves

LEMMA ForensicWrites ==
  ASSUME SocTyped, ForensicInv, ScreensOK, NEW t \in Terminals,
         \/ \E c, e : \E at \in Times : ArtifactAdd(t, c, e, at) \/ EventAdd(t, c, e, at)
         \/ RecordHash(t)
  PROVE  ForensicMoves(t)
  <1>1. ForensicsOK /\ ForensicStage(proc[t])
    BY DEF ForensicInv, Terminals
  <1>2. UNCHANGED <<socRecords, shown>>
    BY DEF ArtifactAdd, EventAdd, RecordHash
  <1>3. ScreensOK'
    BY <1>2 DEF ScreensOK, Backed
  <1>4. ForensicPlaces \cap SocStages = {}
    BY DEF ForensicPlaces, SocStages
  <1>5. ForensicStage(resting)' /\ ForensicQuiet(resting)'
    BY DEF ForensicStage, ForensicQuiet, resting
  <1>6. ASSUME NEW c, NEW e, NEW at \in Times, ArtifactAdd(t, c, e, at)
        PROVE  ForensicMoves(t)
    <2>1. PICK x : x = [case |-> c, evidence |-> e, time |-> at, details |-> {}]
      OBVIOUS
    <2>2. artifacts' = Append(artifacts, x) /\ UNCHANGED timeline /\ Commands(t)
      BY <1>6, <2>1 DEF ArtifactAdd
    <2>3. /\ Rows(artifacts') /\ Len(artifacts) \in Nat /\ DOMAIN artifacts = 1..Len(artifacts)
          /\ DOMAIN artifacts' = 1..(Len(artifacts) + 1)
          /\ \A a \in DOMAIN artifacts : artifacts'[a] = artifacts[a]
          /\ artifacts'[Len(artifacts) + 1] = x
      BY <1>1, <2>2, AppendRow DEF ForensicsOK
    <2>4. /\ DOMAIN artifacts \subseteq DOMAIN artifacts'
          /\ \A a \in DOMAIN artifacts' : a \in DOMAIN artifacts \/ artifacts'[a] = x
      BY <2>3
    <2>5. DOMAIN x = {"case", "evidence", "time", "details"} /\ x.time \in Times
      BY <2>1
    <2>6. ForensicsOK'
      BY <1>1, <2>2, <2>3, <2>4, <2>5 DEF ForensicsOK
    <2>7. Steps(t, resting, ForensicPlaces)
      BY <1>2, <1>4, <2>2, StepsRest
    <2>8. QED
      BY <1>3, <1>5, <2>3, <2>4, <2>6, <2>7, ForensicMoved
  <1>7. ASSUME NEW c, NEW a, NEW at \in Times, EventAdd(t, c, a, at)
        PROVE  ForensicMoves(t)
    <2>1. PICK x : x = [case |-> c, artifact |-> a, time |-> at]
      OBVIOUS
    <2>2. /\ timeline' = Append(timeline, x) /\ UNCHANGED artifacts /\ Commands(t)
          /\ a \in {0} \cup DOMAIN artifacts
      BY <1>7, <2>1 DEF EventAdd
    <2>3. /\ Rows(timeline') /\ Len(timeline) \in Nat /\ DOMAIN timeline = 1..Len(timeline)
          /\ DOMAIN timeline' = 1..(Len(timeline) + 1)
          /\ \A n \in DOMAIN timeline : timeline'[n] = timeline[n]
          /\ timeline'[Len(timeline) + 1] = x
      BY <1>1, <2>2, AppendRow DEF ForensicsOK
    <2>4. \A n \in DOMAIN timeline' : n \in DOMAIN timeline \/ timeline'[n] = x
      BY <2>3
    <2>5. x.artifact = a /\ x.time \in Times
      BY <2>1
    <2>6. ForensicsOK'
      BY <1>1, <2>2, <2>3, <2>4, <2>5 DEF ForensicsOK
    <2>7. Steps(t, resting, ForensicPlaces)
      BY <1>2, <1>4, <2>2, StepsRest
    <2>8. QED
      BY <1>3, <1>5, <2>2, <2>6, <2>7, ForensicMoved
  <1>8. CASE RecordHash(t)
    <2>1. PICK a : a = proc[t].a
      OBVIOUS
    <2>2. PICK x : x = [artifacts[a] EXCEPT !.details = proc[t].details]
      OBVIOUS
    <2>3. /\ proc[t].at = "hash" /\ a \in DOMAIN artifacts
          /\ Goes(t, resting) /\ Updates(t) /\ UNCHANGED timeline
      BY <1>1, <1>8, <2>1 DEF RecordHash, ForensicStage
    <2>4. artifacts' = [artifacts EXCEPT ![a] = x]
      BY <1>8, <2>1, <2>2 DEF RecordHash
    <2>5. /\ Rows(artifacts') /\ DOMAIN artifacts' = DOMAIN artifacts
          /\ \A b \in DOMAIN artifacts : artifacts'[b] = IF b = a THEN x ELSE artifacts[b]
      BY <1>1, <2>3, <2>4, UpdateRow DEF ForensicsOK
    <2>6. DOMAIN x = {"case", "evidence", "time", "details"} /\ x.time \in Times
      BY <1>1, <2>2, <2>3 DEF ForensicsOK
    <2>7. ForensicsOK'
      BY <1>1, <2>3, <2>5, <2>6 DEF ForensicsOK
    <2>8. Steps(t, resting, ForensicPlaces)
      BY <1>2, <1>4, <2>3, RestingForeign, StepsRest DEF ForensicPlaces
    <2>9. QED
      BY <1>3, <1>5, <2>3, <2>5, <2>7, <2>8, ForensicMoved
  <1>9. QED
    BY <1>6, <1>7, <1>8

\* The chronology of artifacts and events has nothing but them.
LEMMA ChronologyRows ==
  ASSUME NEW rows, IsFiniteSet(rows),
         \A x \in rows : x.kind \in {"artifact", "event"} /\ x.time \in Times
  PROVE  \A k \in DOMAIN Chronology(rows) : Chronology(rows)[k] \in rows
  <1> DEFINE before(x, y) == \/ x.time.wall < y.time.wall
                             \/ /\ x.time.wall = y.time.wall
                                /\ x.kind = "artifact" \/ y.kind = "event"
             order == {pair \in rows \X rows :
                         LET x == pair[1] y == pair[2] IN
                         \/ x.time.wall < y.time.wall
                         \/ x.time.wall = y.time.wall /\ (x.kind = "artifact" \/ y.kind = "event")}
  <1>1. \A x, y : <<x, y>> \in order <=> x \in rows /\ y \in rows /\ before(x, y)
    OBVIOUS
  <1>2. Chronology(rows) = Ordered(rows, order)
    BY DEF Chronology
  <1> HIDE DEF order
  <1>3. \A x \in rows : x.time.wall \in Nat /\ (x.kind = "event" <=> x.kind # "artifact")
    BY TimesAssumption
  <1>4. \A x, y \in rows : before(x, y) \/ before(y, x)
    BY <1>3
  <1>5. \A x, y, z \in rows : before(x, y) /\ before(y, z) => before(x, z)
    BY <1>3
  <1> HIDE DEF before
  <1>6. IsOrder(rows, order)
    BY <1>1, <1>4, <1>5 DEF IsOrder
  <1>7. QED
    BY <1>2, <1>6, OrderedRows

\* The rows made of some rows of a table are as finite as they are.
LEMMA FewRows ==
  ASSUME NEW table, Rows(table), NEW S, S \subseteq DOMAIN table, NEW f
  PROVE  IsFiniteSet({f[n] : n \in S})
  <1>1. IsFiniteSet(S)
    BY PickedRows
  <1>2. PICK T : T = {f[n] : n \in S}
    OBVIOUS
  <1>3. PICK g : g = [n \in S |-> f[n]]
    OBVIOUS
  <1>4. g \in [S -> T] /\ \A x \in T : \E n \in S : g[n] = x
    BY <1>2, <1>3
  <1>5. g \in Surjection(S, T)
    BY <1>4 DEF Surjection
  <1>6. QED
    BY <1>1, <1>2, <1>5, FS_Surjection

LEMMA ForensicReads ==
  ASSUME SocTyped, ForensicInv, ScreensOK, NEW t \in Terminals,
         \/ \E a \in DOMAIN artifacts, block \in Blocks : ArtifactHash(t, a, block)
         \/ \E c \in DOMAIN cases : DfirExport(t, c)
         \/ ExportEvents(t)
  PROVE  ForensicMoves(t)
  <1>1. ForensicsOK /\ ForensicStage(proc[t]) /\ t \in Procs
    BY DEF ForensicInv, Terminals
  <1>2. UNCHANGED <<socRecords, artifacts, timeline>>
    BY DEF ArtifactHash, DfirExport, ExportEvents, forensicTables
  <1>3. ForensicPlaces \cap SocStages = {}
    BY DEF ForensicPlaces, SocStages
  <1>4. ForensicsOK'
    BY <1>1, <1>2 DEF ForensicsOK
  <1>5. ASSUME NEW s, Starts(t, s), Foreign(s), s.at \in ForensicPlaces, UNCHANGED shown,
               ForensicStage(s), ForensicQuiet(s)
        PROVE  ForensicMoves(t)
    <2>1. Steps(t, s, ForensicPlaces)
      BY <1>2, <1>3, <1>5, StepsRest
    <2>2. ForensicStage(s)' /\ ForensicQuiet(s)' /\ ScreensOK'
      BY <1>2, <1>5 DEF ForensicStage, ForensicQuiet, ScreensOK, Backed
    <2>3. QED
      BY <1>2, <1>4, <2>1, <2>2, ForensicMoved
  <1>6. ASSUME NEW a \in DOMAIN artifacts, NEW block, ArtifactHash(t, a, block)
        PROVE  ForensicMoves(t)
    <2>1. PICK s : s = [at |-> "hash", a |-> a, details |-> artifacts[a].details \cup {block}]
      OBVIOUS
    <2>2. Starts(t, s) /\ UNCHANGED shown
      BY <1>6, <2>1 DEF ArtifactHash
    <2>3. Foreign(s) /\ s.at \in ForensicPlaces /\ ForensicStage(s) /\ ForensicQuiet(s)
      BY <2>1 DEF Foreign, SocStages, ForensicPlaces, ForensicStage, ForensicQuiet
    <2>4. QED
      BY <1>5, <2>2, <2>3
  <1>7. ASSUME NEW c \in DOMAIN cases, DfirExport(t, c)
        PROVE  ForensicMoves(t)
    <2>1. PICK S : S = {a \in DOMAIN artifacts : artifacts[a].case = c}
      OBVIOUS
    <2>2. PICK f : f = [a \in S |-> [kind |-> "artifact", ref |-> a, name |-> a,
                                    time |-> artifacts[a].time]]
      OBVIOUS
    <2>3. PICK rows : rows = {f[a] : a \in S}
      OBVIOUS
    <2>4. rows = {[kind |-> "artifact", ref |-> a, name |-> a, time |-> artifacts[a].time] :
                    a \in {a \in DOMAIN artifacts : artifacts[a].case = c}}
      BY <2>1, <2>2, <2>3
    <2>5. IsFiniteSet(rows)
      BY <1>1, <2>1, <2>3, FewRows DEF ForensicsOK
    <2>6. \A x \in rows : x.kind = "artifact" /\ x.time \in Times
      BY <1>1, <2>1, <2>2, <2>3 DEF ForensicsOK
    <2>7. PICK s : s = [at |-> "export", case |-> c, rows |-> rows]
      OBVIOUS
    <2>8. Starts(t, s) /\ UNCHANGED shown
      BY <1>7, <2>4, <2>7 DEF DfirExport
    <2>9. Foreign(s) /\ s.at \in ForensicPlaces /\ ForensicStage(s) /\ ForensicQuiet(s)
      BY <2>5, <2>6, <2>7 DEF Foreign, SocStages, ForensicPlaces, ForensicStage, ForensicQuiet
    <2>10. QED
      BY <1>5, <2>8, <2>9
  <1>8. CASE ExportEvents(t)
    <2>1. PICK S : S = {n \in DOMAIN timeline : timeline[n].case = proc[t].case}
      OBVIOUS
    <2>2. PICK f : f = [n \in S |-> [kind |-> "event", ref |-> n, name |-> timeline[n].artifact,
                                    time |-> timeline[n].time]]
      OBVIOUS
    <2>3. PICK rows : rows = {f[n] : n \in S}
      OBVIOUS
    <2>4. rows = {[kind |-> "event", ref |-> n, name |-> timeline[n].artifact,
                   time |-> timeline[n].time] :
                    n \in {n \in DOMAIN timeline : timeline[n].case = proc[t].case}}
      BY <2>1, <2>2, <2>3
    <2>5. IsFiniteSet(rows)
      BY <1>1, <2>1, <2>3, FewRows DEF ForensicsOK
    <2>6. \A x \in rows : x.kind = "event" /\ x.time \in Times
      BY <1>1, <2>1, <2>2, <2>3 DEF ForensicsOK
    <2>7. PICK all : all = proc[t].rows \cup rows
      OBVIOUS
    <2>8. /\ proc[t].at = "export" /\ Goes(t, resting) /\ UNCHANGED quiet
          /\ shown' = [shown EXCEPT ![t] = Chronology(all)]
      BY <1>8, <2>4, <2>7 DEF ExportEvents
    <2>9. /\ IsFiniteSet(proc[t].rows)
          /\ \A x \in proc[t].rows : x.kind = "artifact" /\ x.time \in Times
      BY <1>1, <2>8 DEF ForensicStage
    <2>10. IsFiniteSet(all) /\ \A x \in all : x.kind \in {"artifact", "event"} /\ x.time \in Times
      BY <2>5, <2>6, <2>7, <2>9, FS_Union
    <2>11. PICK list : list = Chronology(all)
      OBVIOUS
    <2>12. \A k \in DOMAIN list : list[k] \in all
      BY <2>10, <2>11, ChronologyRows
    <2>13. \A k \in DOMAIN list : Backed(list[k])
      <3>1. \A x \in all : x.kind \in {"artifact", "event"} => Backed(x)
        BY DEF Backed
      <3>2. QED
        BY <2>10, <2>12, <3>1
    <2>14. ScreensOK'
      BY <1>1, <2>8, <2>11, <2>13, ScreenMove
    <2>15. Steps(t, resting, ForensicPlaces)
      BY <1>2, <1>3, <2>8, RestingForeign, StepsRest DEF ForensicPlaces
    <2>16. ForensicStage(resting)' /\ ForensicQuiet(resting)'
      BY DEF ForensicStage, ForensicQuiet, resting
    <2>17. QED
      BY <1>2, <1>4, <2>14, <2>15, <2>16, ForensicMoved
  <1>9. QED
    BY <1>6, <1>7, <1>8

LEMMA ForensicSteps ==
  ASSUME SocTyped, ForensicInv, ScreensOK, NEW t \in Terminals, ForensicStep(t)
  PROVE  ForensicMoves(t) /\ UNCHANGED <<findingTables, evidenceTables, exercises>>
  <1>1. ForensicMoves(t)
    BY ForensicWrites, ForensicReads DEF ForensicStep
  <1>2. UNCHANGED <<findingTables, evidenceTables, exercises>>
    BY DEF ForensicStep, ArtifactAdd, EventAdd, ArtifactHash, DfirExport, RecordHash, ExportEvents
  <1>3. QED
    BY <1>1, <1>2

-----------------------------------------------------------------------------
(***************************************************************************)
(* Exercises.                                                              *)
(***************************************************************************)

\* What a step of this family does.
ExerciseMoves(t) ==
  (\E s : Steps(t, s, ExercisePlaces)) /\ ExerciseInv' /\ ScreensOK'

LEMMA ExerciseMoved ==
  ASSUME SocTyped, ExerciseInv, NEW t \in Terminals, NEW s, Steps(t, s, ExercisePlaces),
         ExercisesOK', DOMAIN exercises \subseteq DOMAIN exercises',
         \/ Updates(t)
         \/ \A x \in DOMAIN exercises :
              exercises'[x].status = "completed" => exercises[x].status = "completed",
         ExerciseStage(s)', quiet'[t] => ExerciseQuiet(s)', ScreensOK'
  PROVE  ExerciseMoves(t)
  BY TurnsBeside, ExerciseMove DEF Steps, ExerciseMoves

\* An exercise is written: the others stay.
LEMMA ExerciseRow ==
  ASSUME ExercisesOK, NEW x \in DOMAIN exercises, NEW row,
         DOMAIN row = {"status", "engagement", "red", "blue", "fired"},
         row.status \in {"planned", "running", "completed", "gone"},
         exercises' = [exercises EXCEPT ![x] = row]
  PROVE  /\ ExercisesOK' /\ DOMAIN exercises' = DOMAIN exercises
         /\ \A y \in DOMAIN exercises : exercises'[y] = IF y = x THEN row ELSE exercises[y]
  <1>1. /\ Rows(exercises') /\ DOMAIN exercises' = DOMAIN exercises
        /\ \A y \in DOMAIN exercises : exercises'[y] = IF y = x THEN row ELSE exercises[y]
    BY UpdateRow DEF ExercisesOK
  <1>2. QED
    BY <1>1 DEF ExercisesOK

LEMMA ExerciseWrites ==
  ASSUME SocTyped, ExerciseInv, ScreensOK, NEW t \in Terminals,
         \/ \E g \in Engagements : ExerciseNew(t, g)
         \/ \E x \in DOMAIN exercises : ExerciseDelete(t, x)
         \/ SetRunning(t) \/ SetCompleted(t)
  PROVE  ExerciseMoves(t)
  <1>1. ExercisesOK /\ ExerciseStage(proc[t])
    BY DEF ExerciseInv, Terminals
  <1>2. UNCHANGED <<socRecords, shown>>
    BY DEF ExerciseNew, ExerciseDelete, SetRunning, SetCompleted
  <1>3. ScreensOK'
    BY <1>2 DEF ScreensOK, Backed
  <1>4. ExercisePlaces \cap SocStages = {}
    BY DEF ExercisePlaces, SocStages
  <1>5. ExerciseStage(resting)' /\ ExerciseQuiet(resting)'
    BY DEF ExerciseStage, ExerciseQuiet, resting
  <1>6. ASSUME NEW g \in Engagements, ExerciseNew(t, g)
        PROVE  ExerciseMoves(t)
    <2>1. PICK row : row = Exercise(g)
      OBVIOUS
    <2>2. exercises' = Append(exercises, row) /\ Commands(t)
      BY <1>6, <2>1 DEF ExerciseNew
    <2>3. /\ Rows(exercises') /\ Len(exercises) \in Nat /\ DOMAIN exercises = 1..Len(exercises)
          /\ DOMAIN exercises' = 1..(Len(exercises) + 1)
          /\ \A y \in DOMAIN exercises : exercises'[y] = exercises[y]
          /\ exercises'[Len(exercises) + 1] = row
      BY <1>1, <2>2, AppendRow DEF ExercisesOK
    <2>4. /\ DOMAIN exercises \subseteq DOMAIN exercises'
          /\ \A y \in DOMAIN exercises' : y \in DOMAIN exercises \/ exercises'[y] = row
      BY <2>3
    <2>5. DOMAIN row = {"status", "engagement", "red", "blue", "fired"} /\ row.status = "planned"
      BY <2>1 DEF Exercise
    <2>6. ExercisesOK'
      BY <1>1, <2>3, <2>4, <2>5 DEF ExercisesOK
    <2>7. Steps(t, resting, ExercisePlaces)
      BY <1>2, <1>4, <2>2, StepsRest
    <2>8. QED
      BY <1>3, <1>5, <2>3, <2>4, <2>6, <2>7, ExerciseMoved
  <1>7. ASSUME NEW x \in DOMAIN exercises, ExerciseDelete(t, x)
        PROVE  ExerciseMoves(t)
    <2>1. PICK row : row = [exercises[x] EXCEPT !.status = "gone"]
      OBVIOUS
    <2>2. exercises' = [exercises EXCEPT ![x] = row] /\ Commands(t)
      BY <1>7, <2>1 DEF ExerciseDelete
    <2>3. DOMAIN row = {"status", "engagement", "red", "blue", "fired"} /\ row.status = "gone"
      BY <1>1, <2>1 DEF ExercisesOK
    <2>4. /\ ExercisesOK' /\ DOMAIN exercises' = DOMAIN exercises
          /\ \A y \in DOMAIN exercises : exercises'[y] = IF y = x THEN row ELSE exercises[y]
      BY <1>1, <2>2, <2>3, ExerciseRow
    <2>5. Steps(t, resting, ExercisePlaces)
      BY <1>2, <1>4, <2>2, StepsRest
    <2>6. QED
      BY <1>3, <1>5, <2>3, <2>4, <2>5, ExerciseMoved
  <1>8. ASSUME proc[t].at \in {"run", "complete"}, Goes(t, resting), Updates(t), NEW row,
               DOMAIN row = {"status", "engagement", "red", "blue", "fired"},
               row.status \in {"planned", "running", "completed", "gone"},
               exercises' = [exercises EXCEPT ![proc[t].x] = row]
        PROVE  ExerciseMoves(t)
    <2>1. proc[t].x \in DOMAIN exercises
      BY <1>1, <1>8 DEF ExerciseStage
    <2>2. ExercisesOK' /\ DOMAIN exercises' = DOMAIN exercises
      BY <1>1, <1>8, <2>1, ExerciseRow
    <2>3. Steps(t, resting, ExercisePlaces)
      BY <1>2, <1>4, <1>8, RestingForeign, StepsRest DEF ExercisePlaces
    <2>4. QED
      BY <1>3, <1>5, <1>8, <2>2, <2>3, ExerciseMoved
  <1>9. CASE SetRunning(t)
    <2>1. PICK x : x = proc[t].x
      OBVIOUS
    <2>2. PICK row : row = [exercises[x] EXCEPT !.status = IF @ = "gone" THEN "gone" ELSE "running"]
      OBVIOUS
    <2>3. /\ proc[t].at = "run" /\ Goes(t, resting) /\ Updates(t) /\ x \in DOMAIN exercises
          /\ exercises' = [exercises EXCEPT ![x] = row]
      BY <1>1, <1>9, <2>1, <2>2 DEF SetRunning, ExerciseStage
    <2>4. /\ DOMAIN row = {"status", "engagement", "red", "blue", "fired"}
          /\ row.status \in {"planned", "running", "completed", "gone"}
      BY <1>1, <2>2, <2>3 DEF ExercisesOK
    <2>5. QED
      BY <1>8, <2>1, <2>3, <2>4
  <1>10. CASE SetCompleted(t)
    <2>1. PICK x : x = proc[t].x
      OBVIOUS
    <2>2. PICK q : q = proc[t]
      OBVIOUS
    <2>3. PICK row : row = IF exercises[x].status = "gone" THEN exercises[x]
                           ELSE [exercises[x] EXCEPT !.status = "completed", !.red = q.red,
                                                     !.blue = q.blue, !.fired = q.fired]
      OBVIOUS
    <2>4. /\ proc[t].at = "complete" /\ Goes(t, resting) /\ Updates(t) /\ x \in DOMAIN exercises
          /\ exercises' = [exercises EXCEPT ![x] = row]
      BY <1>1, <1>10, <2>1, <2>2, <2>3 DEF SetCompleted, ExerciseStage
    <2>5. /\ DOMAIN row = {"status", "engagement", "red", "blue", "fired"}
          /\ row.status \in {"planned", "running", "completed", "gone"}
      BY <1>1, <2>3, <2>4 DEF ExercisesOK
    <2>6. QED
      BY <1>8, <2>1, <2>4, <2>5
  <1>11. QED
    BY <1>6, <1>7, <1>9, <1>10

LEMMA ExerciseReads ==
  ASSUME SocTyped, ExerciseInv, ScreensOK, NEW t \in Terminals,
         \/ \E x \in DOMAIN exercises :
              ExerciseStart(t, x) \/ ExerciseComplete(t, x) \/ ExerciseShow(t, x)
         \/ CountRed(t) \/ CountBlue(t)
  PROVE  ExerciseMoves(t)
  <1>1. ExercisesOK /\ ExerciseStage(proc[t]) /\ t \in Procs
    BY DEF ExerciseInv, Terminals
  <1>2. UNCHANGED <<socRecords, exercises>>
    BY DEF ExerciseStart, ExerciseComplete, ExerciseShow, CountRed, CountBlue
  <1>3. ExercisePlaces \cap SocStages = {}
    BY DEF ExercisePlaces, SocStages
  <1>4. ExercisesOK'
    BY <1>1, <1>2 DEF ExercisesOK
  <1>5. ASSUME NEW s, Steps(t, s, ExercisePlaces), UNCHANGED shown, ExerciseStage(s),
               ExerciseQuiet(s)
        PROVE  ExerciseMoves(t)
    <2>1. ExerciseStage(s)' /\ ExerciseQuiet(s)' /\ ScreensOK'
      BY <1>2, <1>5 DEF ExerciseStage, ExerciseQuiet, ScreensOK, Backed
    <2>2. QED
      BY <1>2, <1>4, <1>5, <2>1, ExerciseMoved
  <1>6. ASSUME NEW x \in DOMAIN exercises, ExerciseStart(t, x)
        PROVE  ExerciseMoves(t)
    <2>1. PICK s : s = [at |-> "run", x |-> x]
      OBVIOUS
    <2>2. Starts(t, s) /\ UNCHANGED shown /\ exercises[x].status # "completed"
      BY <1>6, <2>1 DEF ExerciseStart, Startable
    <2>3. Foreign(s) /\ s.at \in ExercisePlaces /\ ExerciseStage(s) /\ ExerciseQuiet(s)
      BY <2>1, <2>2 DEF Foreign, SocStages, ExercisePlaces, ExerciseStage, ExerciseQuiet
    <2>4. QED
      BY <1>2, <1>3, <1>5, <2>2, <2>3, StepsRest
  <1>7. ASSUME NEW x \in DOMAIN exercises, ExerciseComplete(t, x)
        PROVE  ExerciseMoves(t)
    <2>1. PICK s : s = [at |-> "red", x |-> x, engagement |-> exercises[x].engagement]
      OBVIOUS
    <2>2. Starts(t, s) /\ UNCHANGED shown
      BY <1>7, <2>1 DEF ExerciseComplete
    <2>3. Foreign(s) /\ s.at \in ExercisePlaces /\ ExerciseStage(s) /\ ExerciseQuiet(s)
      BY <2>1 DEF Foreign, SocStages, ExercisePlaces, ExerciseStage, ExerciseQuiet
    <2>4. QED
      BY <1>2, <1>3, <1>5, <2>2, <2>3, StepsRest
  <1>8. ASSUME NEW x \in DOMAIN exercises, ExerciseShow(t, x)
        PROVE  ExerciseMoves(t)
    <2>1. PICK list : list = <<[kind |-> "exercise", verdict |-> Verdict(x)]>>
      OBVIOUS
    <2>2. Commands(t) /\ shown' = [shown EXCEPT ![t] = list]
      BY <1>8, <2>1 DEF ExerciseShow
    <2>3. \A k \in DOMAIN list : Backed(list[k])
      BY <2>1 DEF Backed
    <2>4. ScreensOK'
      BY <1>1, <2>2, <2>3, ScreenMove
    <2>5. ExerciseStage(resting)' /\ ExerciseQuiet(resting)'
      BY DEF ExerciseStage, ExerciseQuiet, resting
    <2>6. Steps(t, resting, ExercisePlaces)
      BY <1>2, <1>3, <2>2, StepsRest
    <2>7. QED
      BY <1>2, <1>4, <2>4, <2>5, <2>6, ExerciseMoved
  <1>9. CASE CountRed(t)
    <2>1. PICK red : red = Cardinality({f \in DOMAIN findings :
                             proc[t].engagement \in {NONE, findings[f].engagement}})
      OBVIOUS
    <2>2. PICK s : s = [at |-> "blue", x |-> proc[t].x, red |-> red]
      OBVIOUS
    <2>3. proc[t].at = "red" /\ Goes(t, s) /\ UNCHANGED <<shown, quiet>>
      BY <1>9, <2>1, <2>2 DEF CountRed
    <2>4. Foreign(s) /\ s.at \in ExercisePlaces /\ ExerciseStage(s) /\ ExerciseQuiet(s)
      BY <1>1, <2>2, <2>3 DEF Foreign, SocStages, ExercisePlaces, ExerciseStage, ExerciseQuiet
    <2>5. Steps(t, s, ExercisePlaces)
      BY <1>2, <1>3, <2>3, <2>4, StepsRest DEF ExercisePlaces
    <2>6. QED
      BY <1>5, <2>3, <2>4, <2>5
  <1>10. CASE CountBlue(t)
    <2>1. PICK blue : blue = Cardinality({a \in DOMAIN alerts : alerts[a].status # "closed"})
      OBVIOUS
    <2>2. PICK fired : fired = Cardinality({a \in DOMAIN alerts : alerts[a].rule # NONE})
      OBVIOUS
    <2>3. PICK s : s = [at |-> "complete", x |-> proc[t].x, red |-> proc[t].red, blue |-> blue,
                        fired |-> fired]
      OBVIOUS
    <2>4. proc[t].at = "blue" /\ Goes(t, s) /\ UNCHANGED <<shown, quiet>>
      BY <1>10, <2>1, <2>2, <2>3 DEF CountBlue
    <2>5. Foreign(s) /\ s.at \in ExercisePlaces /\ ExerciseStage(s) /\ ExerciseQuiet(s)
      BY <1>1, <2>3, <2>4 DEF Foreign, SocStages, ExercisePlaces, ExerciseStage, ExerciseQuiet
    <2>6. Steps(t, s, ExercisePlaces)
      BY <1>2, <1>3, <2>4, <2>5, StepsRest DEF ExercisePlaces
    <2>7. QED
      BY <1>5, <2>4, <2>5, <2>6
  <1>11. QED
    BY <1>6, <1>7, <1>8, <1>9, <1>10

LEMMA ExerciseSteps ==
  ASSUME SocTyped, ExerciseInv, ScreensOK, NEW t \in Terminals, ExerciseStep(t)
  PROVE  ExerciseMoves(t) /\ UNCHANGED <<findingTables, evidenceTables, forensicTables>>
  <1>1. ExerciseMoves(t)
    BY ExerciseWrites, ExerciseReads DEF ExerciseStep
  <1>2. UNCHANGED <<findingTables, evidenceTables, forensicTables>>
    BY DEF ExerciseStep, ExerciseNew, ExerciseStart, ExerciseComplete, ExerciseDelete,
           ExerciseShow, SetRunning, CountRed, CountBlue, SetCompleted
  <1>3. QED
    BY <1>1, <1>2

-----------------------------------------------------------------------------
(***************************************************************************)
(* Indicators and the library.                                             *)
(***************************************************************************)

\* One list after another.
LEMMA ConcatRows ==
  ASSUME NEW s, Rows(s), NEW t, Rows(t)
  PROVE  /\ Rows(s \o t)
         /\ \A k \in DOMAIN (s \o t) : \/ \E i \in DOMAIN s : (s \o t)[k] = s[i]
                                       \/ \E i \in DOMAIN t : (s \o t)[k] = t[i]
  <1>1. PICK u : u = s \o t
    OBVIOUS
  <1>2. PICK T : T = {s[i] : i \in DOMAIN s} \cup {t[i] : i \in DOMAIN t}
    OBVIOUS
  <1>3. s \in Seq(T) /\ t \in Seq(T)
    BY <1>2, SeqMonotonic DEF Rows
  <1>4. /\ u \in Seq(T) /\ Len(u) = Len(s) + Len(t) /\ Len(s) \in Nat /\ Len(t) \in Nat
        /\ DOMAIN s = 1..Len(s) /\ DOMAIN t = 1..Len(t)
    BY <1>1, <1>3
  <1>5. Len(u) \in Nat /\ DOMAIN u = 1..Len(u) /\ u \in [1..Len(u) -> T]
    BY <1>4
  <1>6. Rows(u) /\ \A k \in DOMAIN u : u[k] \in T
    BY <1>5, ListRows
  <1>7. QED
    BY <1>1, <1>2, <1>6

\* What an extraction finds is a list of candidates of known confidence.
LEMMA ExtractedRows ==
  ASSUME NEW x \in Extracts
  PROVE  Rows(Extracted(x)) /\ \A k \in DOMAIN Extracted(x) : Extracted(x)[k].confidence \in Ranks
  <1>1. ASSUME NEW found, IsFiniteSet(found), \A c \in found : c.confidence \in Ranks
        PROVE  Rows(Dedupe(found)) /\ \A k \in DOMAIN Dedupe(found) :
                                        Dedupe(found)[k].confidence \in Ranks
    <2>1. PICK S : S = {c \in found : ~ \E d \in found : d.type = c.type /\ d.norm = c.norm
                                                         /\ Above(d.confidence, c.confidence)}
      OBVIOUS
    <2>2. Dedupe(found) = SetToSeq(S)
      BY <2>1 DEF Dedupe
    <2>3. IsFiniteSet(S) /\ \A c \in S : c.confidence \in Ranks
      BY <1>1, <2>1, FS_Subset
    <2>4. QED
      BY <2>2, <2>3, SetToSeqRows
  <1>2. /\ IsFiniteSet(x.entities) /\ IsFiniteSet(x.text)
        /\ \A c \in x.entities \cup x.text : c.confidence \in Ranks
    BY ExtractsAssumption
  <1>3. PICK a : a = Dedupe(x.entities)
    OBVIOUS
  <1>4. PICK b : b = Dedupe(x.text)
    OBVIOUS
  <1>5. /\ Rows(a) /\ \A k \in DOMAIN a : a[k].confidence \in Ranks
        /\ Rows(b) /\ \A k \in DOMAIN b : b[k].confidence \in Ranks
    BY <1>1, <1>2, <1>3, <1>4
  <1>6. Extracted(x) = a \o b
    BY <1>3, <1>4 DEF Extracted
  <1>7. QED
    BY <1>5, <1>6, ConcatRows

\* A command that starts to register.
LEMMA RegisteringStage ==
  ASSUME NEW todo, Rows(todo), \A k \in DOMAIN todo : todo[k].confidence \in Ranks,
         NEW origin, NEW links_, links_.actor \in actors \cup {NONE}, NEW next, IsReport(next),
         NEW s, s = Registering(todo, origin, links_, next)
  PROVE  /\ IsRegistering(s) /\ s.at = "existed" /\ s.fresh = s.rows /\ s.todo = todo
         /\ s.next = next /\ Foreign(s) /\ IocStage(s) /\ IocQuiet(s)
  <1>1. IsRegistering(s) /\ s.at = "existed" /\ s.fresh = s.rows /\ s.todo = todo /\ s.next = next
    BY DEF Registering, IsRegistering
  <1>2. Foreign(s)
    BY <1>1 DEF IsRegistering, Foreign, SocStages
  <1>3. IocStage(s) /\ IocQuiet(s)
    BY <1>1 DEF IocStage, IocQuiet
  <1>4. QED
    BY <1>1, <1>2, <1>3

\* What a step of this family does.
IocMoves(t) ==
  (\E s : Steps(t, s, IocPlaces \ {"capture"})) /\ IocInv' /\ ScreensOK'

LEMMA IocMoved ==
  ASSUME SocTyped, IocInv, NEW t \in Terminals, NEW s, Steps(t, s, IocPlaces \ {"capture"}),
         IocsOK', actors \subseteq actors', \A c : Known(c) \subseteq Known(c)',
         Updates(t) \/ \A c : Known(c)' = Known(c),
         IocStage(s)', quiet'[t] => IocQuiet(s)', ScreensOK'
  PROVE  IocMoves(t)
  BY TurnsBeside, IocMove DEF Steps, IocMoves

LEMMA IocStarts ==
  ASSUME SocTyped, IocInv, ScreensOK, NEW t \in Terminals, NEW s, Starts(t, s),
         IsRegistering(s), s.at = "existed", Foreign(s), IocStage(s), IocQuiet(s),
         UNCHANGED <<iocs, actors, campaigns, shown, socRecords>>
  PROVE  IocMoves(t)
  <1>1. Steps(t, s, IocPlaces \ {"capture"})
    BY StepsRest DEF IocPlaces, SocStages
  <1>2. Moves(t, s) /\ t \in Procs
    BY <1>1, TurnsBeside DEF Steps
  <1>3. IocInv'
    BY <1>2, IocStay
  <1>4. ScreensOK'
    BY DEF ScreensOK, Backed
  <1>5. QED
    BY <1>1, <1>3, <1>4 DEF IocMoves

LEMMA IocBegins ==
  ASSUME SocTyped, IocInv, ScreensOK, NEW t \in Terminals,
         \/ \E c \in Candidates : \E actor, campaign : IocAdd(t, c, actor, campaign)
         \/ \E x \in Extracts : IocExtract(t, x)
  PROVE  IocMoves(t)
  <1>1. UNCHANGED <<iocs, actors, campaigns, shown, socRecords>>
    BY DEF IocAdd, IocExtract, intelRecords, caseworkRecords
  <1>2. IsReport(resting)
    BY DEF IsReport
  <1>3. ASSUME NEW c \in Candidates, NEW actor, NEW campaign, IocAdd(t, c, actor, campaign)
        PROVE  IocMoves(t)
    <2>1. PICK todo : todo = <<c>>
      OBVIOUS
    <2>2. c.confidence \in Ranks
      BY DEF Candidates, Candidate
    <2>3. Rows(todo) /\ \A k \in DOMAIN todo : todo[k].confidence \in Ranks
      BY <2>1, <2>2, OneRow
    <2>4. PICK links_ : links_ = [actor |-> actor, campaign |-> campaign]
      OBVIOUS
    <2>5. PICK s : s = Registering(todo, "cli", links_, resting)
      OBVIOUS
    <2>6. Starts(t, s) /\ links_.actor \in actors \cup {NONE}
      BY <1>3, <2>1, <2>4, <2>5 DEF IocAdd
    <2>7. IsRegistering(s) /\ s.at = "existed" /\ Foreign(s) /\ IocStage(s) /\ IocQuiet(s)
      BY <1>2, <2>3, <2>5, <2>6, RegisteringStage
    <2>8. QED
      BY <1>1, <2>6, <2>7, IocStarts
  <1>4. ASSUME NEW x \in Extracts, IocExtract(t, x)
        PROVE  IocMoves(t)
    <2>1. PICK todo : todo = Extracted(x)
      OBVIOUS
    <2>2. Rows(todo) /\ \A k \in DOMAIN todo : todo[k].confidence \in Ranks
      BY <2>1, ExtractedRows
    <2>3. PICK s : s = Registering(todo, "extract", noLinks, resting)
      OBVIOUS
    <2>4. Starts(t, s) /\ noLinks.actor \in actors \cup {NONE}
      BY <1>4, <2>1, <2>3 DEF IocExtract, noLinks
    <2>5. IsRegistering(s) /\ s.at = "existed" /\ Foreign(s) /\ IocStage(s) /\ IocQuiet(s)
      BY <1>2, <2>2, <2>3, <2>4, RegisteringStage
    <2>6. QED
      BY <1>1, <2>4, <2>5, IocStarts
  <1>5. QED
    BY <1>3, <1>4

\* What a command that registers holds.
LEMMA RegisteringHolds ==
  ASSUME SocTyped, IocInv, NEW t \in Terminals,
         proc[t].at \in {"existed", "find", "register", "refresh"}
  PROVE  /\ IocsOK /\ t \in Procs /\ IsRegistering(proc[t])
         /\ proc[t].at # "existed" => proc[t].todo # <<>>
         /\ proc[t].at = "refresh" => Known(Head(proc[t].todo)) # {}
         /\ quiet[t] => IocQuiet(proc[t])
  BY DEF IocInv, IocStage, Terminals

\* It goes on to a stage like its own.
LEMMA RegisteringSteps ==
  ASSUME SocTyped, NEW t \in Terminals, NEW s, IsRegistering(proc[t]), IsRegistering(s),
         proc[t].at \in {"existed", "find", "register", "refresh"},
         s.at \in {"existed", "find", "register", "refresh"},
         Goes(t, s), UNCHANGED quiet \/ Updates(t), UNCHANGED socRecords
  PROVE  Steps(t, s, IocPlaces \ {"capture"})
  <1>1. Foreign(s)
    BY DEF IsRegistering, Foreign, SocStages
  <1>2. QED
    BY <1>1, StepsRest DEF IocPlaces, SocStages

LEMMA IocLooks ==
  ASSUME SocTyped, IocInv, ScreensOK, NEW t \in Terminals, CountExisting(t) \/ FindIoc(t)
  PROVE  IocMoves(t)
  <1>1. UNCHANGED <<iocs, actors, campaigns, shown, socRecords, quiet>>
    BY DEF CountExisting, FindIoc, intelRecords, caseworkRecords
  <1>2. proc[t].at \in {"existed", "find"} /\ proc[t].todo # <<>>
    BY RegisteringHolds DEF CountExisting, FindIoc
  <1>3. t \in Procs /\ IsRegistering(proc[t]) /\ (quiet[t] => IocQuiet(proc[t]))
    BY <1>2, RegisteringHolds
  <1>4. ASSUME NEW s, Goes(t, s), IsRegistering(s), s.at \in {"find", "register", "refresh"},
               s.todo # <<>>, s.at = "refresh" => Known(Head(s.todo)) # {},
               quiet[t] => IocQuiet(s)
        PROVE  IocMoves(t)
    <2>1. Steps(t, s, IocPlaces \ {"capture"})
      BY <1>1, <1>2, <1>3, <1>4, RegisteringSteps
    <2>2. Moves(t, s)
      BY <2>1, TurnsBeside DEF Steps
    <2>3. IocStage(s)
      BY <1>4 DEF IocStage
    <2>4. IocInv'
      BY <1>1, <1>3, <1>4, <2>2, <2>3, IocStay
    <2>5. ScreensOK'
      BY <1>1 DEF ScreensOK, Backed
    <2>6. QED
      BY <2>1, <2>4, <2>5 DEF IocMoves
  <1>5. PICK c : c = Head(proc[t].todo)
    OBVIOUS
  <1>6. CASE CountExisting(t)
    <2>1. PICK s : s = IF Known(c) = {} THEN [proc[t] EXCEPT !.at = "find", !.fresh = @ + 1]
                       ELSE [proc[t] EXCEPT !.at = "find", !.known = @ + 1]
      OBVIOUS
    <2>2. Goes(t, s) /\ proc[t].at = "existed"
      BY <1>5, <1>6, <2>1 DEF CountExisting
    <2>3. /\ DOMAIN s = DOMAIN proc[t] /\ s.at = "find" /\ s.todo = proc[t].todo
          /\ s.actor = proc[t].actor /\ s.rows = proc[t].rows /\ s.next = proc[t].next
      BY <1>3, <2>1 DEF IsRegistering
    <2>4. /\ Known(c) = {} => s.fresh = proc[t].fresh + 1
          /\ Known(c) # {} => s.fresh = proc[t].fresh
      BY <1>3, <2>1 DEF IsRegistering
    <2>5. IsRegistering(s)
      BY <1>3, <2>3, <2>4 DEF IsRegistering
    <2>6. Head(s.todo) = c
      BY <1>5, <2>3
    <2>7. quiet[t] => proc[t].fresh = proc[t].rows
      BY <1>3, <2>2 DEF IocQuiet
    <2>8. quiet[t] => IocQuiet(s)
      <3>1. CASE Known(c) = {}
        BY <2>3, <2>4, <2>6, <2>7, <3>1 DEF IocQuiet
      <3>2. CASE Known(c) # {}
        <4>1. proc[t].rows \in Nat
          BY <1>3 DEF IsRegistering
        <4>2. QED
          BY <2>3, <2>4, <2>6, <2>7, <3>2, <4>1 DEF IocQuiet
      <3>3. QED
        BY <3>1, <3>2
    <2>9. QED
      BY <1>2, <1>4, <2>2, <2>3, <2>5, <2>8
  <1>7. CASE FindIoc(t)
    <2>1. PICK s : s = [proc[t] EXCEPT !.at = IF Known(c) = {} THEN "register" ELSE "refresh"]
      OBVIOUS
    <2>2. Goes(t, s) /\ proc[t].at = "find"
      BY <1>5, <1>7, <2>1 DEF FindIoc
    <2>3. /\ DOMAIN s = DOMAIN proc[t] /\ s.at = (IF Known(c) = {} THEN "register" ELSE "refresh")
          /\ s.todo = proc[t].todo /\ s.actor = proc[t].actor /\ s.rows = proc[t].rows
          /\ s.next = proc[t].next /\ s.fresh = proc[t].fresh
      BY <1>3, <2>1 DEF IsRegistering
    <2>4. IsRegistering(s)
      BY <1>3, <2>3 DEF IsRegistering
    <2>5. Head(s.todo) = c
      BY <1>5, <2>3
    <2>6. s.rows \in Nat /\ s.fresh \in Nat
      BY <2>4 DEF IsRegistering
    <2>7. quiet[t] => s.fresh = s.rows + (IF Known(c) = {} THEN 1 ELSE 0)
      BY <1>3, <1>5, <2>2, <2>3 DEF IocQuiet
    <2>8. quiet[t] => IocQuiet(s)
      BY <2>3, <2>5, <2>6, <2>7 DEF IocQuiet
    <2>9. s.at = "refresh" => Known(Head(s.todo)) # {}
      BY <2>3, <2>5
    <2>10. QED
      BY <1>2, <1>4, <2>2, <2>3, <2>4, <2>8, <2>9
  <1>8. QED
    BY <1>6, <1>7

\* The next candidate.
LEMMA RestStage ==
  ASSUME SocTyped, IocInv, NEW t \in Terminals, proc[t].at \in {"register", "refresh"}
  PROVE  /\ DOMAIN Rest(t) = DOMAIN proc[t] /\ Rest(t).at = "existed"
         /\ Rest(t).fresh = proc[t].fresh /\ Rest(t).rows = proc[t].rows
         /\ IsRegistering(Rest(t))
  <1>1. IsRegistering(proc[t]) /\ proc[t].todo # <<>>
    BY RegisteringHolds
  <1>2. PICK todo : todo = proc[t].todo
    OBVIOUS
  <1>3. PICK s : s = Rest(t)
    OBVIOUS
  <1>4. /\ DOMAIN s = DOMAIN proc[t] /\ s.at = "existed" /\ s.todo = Tail(todo)
        /\ s.fresh = proc[t].fresh /\ s.rows = proc[t].rows
        /\ s.actor = proc[t].actor /\ s.next = proc[t].next
    BY <1>1, <1>2, <1>3 DEF Rest, IsRegistering
  <1>5. /\ Rows(Tail(todo))
        /\ \A k \in DOMAIN Tail(todo) : k + 1 \in DOMAIN todo /\ Tail(todo)[k] = todo[k + 1]
    BY <1>1, <1>2, TailRows DEF IsRegistering
  <1>6. Rows(s.todo) /\ \A k \in DOMAIN s.todo : s.todo[k].confidence \in Ranks
    BY <1>1, <1>2, <1>4, <1>5 DEF IsRegistering
  <1>7. IsRegistering(s)
    BY <1>1, <1>4, <1>6 DEF IsRegistering
  <1>8. QED
    BY <1>3, <1>4, <1>7

LEMMA IocRefreshes ==
  ASSUME SocTyped, IocInv, ScreensOK, NEW t \in Terminals, RefreshIoc(t)
  PROVE  IocMoves(t)
  <1>1. proc[t].at = "refresh" /\ Updates(t) /\ UNCHANGED <<actors, campaigns, shown, socRecords>>
    BY DEF RefreshIoc, library, caseworkRecords
  <1>2. /\ IocsOK /\ t \in Procs /\ IsRegistering(proc[t]) /\ Known(Head(proc[t].todo)) # {}
        /\ quiet[t] => IocQuiet(proc[t])
    BY <1>1, RegisteringHolds
  <1>3. PICK n : n = CHOOSE m \in Known(Head(proc[t].todo)) : TRUE
    OBVIOUS
  <1>4. n \in DOMAIN iocs
    BY <1>2, <1>3 DEF Known
  <1>5. PICK x : x = Refreshed(iocs[n], proc[t])
    OBVIOUS
  <1>6. iocs' = [iocs EXCEPT ![n] = x]
    BY <1>3, <1>5 DEF RefreshIoc
  <1>7. /\ DOMAIN iocs[n] = {"type", "norm", "confidence", "source", "actor", "campaign"}
        /\ iocs[n].confidence \in Ranks /\ iocs[n].actor \in actors \cup {NONE}
    BY <1>2, <1>4 DEF IocsOK
  <1>8. /\ DOMAIN x = DOMAIN iocs[n] /\ x.type = iocs[n].type /\ x.norm = iocs[n].norm
        /\ x.confidence \in Ranks /\ x.actor \in actors \cup {NONE}
    BY <1>2, <1>5, <1>7 DEF IsRegistering, Refreshed
  <1>9. /\ Rows(iocs') /\ DOMAIN iocs' = DOMAIN iocs
        /\ \A m \in DOMAIN iocs : iocs'[m] = IF m = n THEN x ELSE iocs[m]
    BY <1>2, <1>4, <1>6, UpdateRow DEF IocsOK
  <1>10. \A m \in DOMAIN iocs : iocs'[m].type = iocs[m].type /\ iocs'[m].norm = iocs[m].norm
    BY <1>8, <1>9
  <1>11. \A c : Known(c)' = Known(c)
    BY <1>9, <1>10 DEF Known
  <1>12. IocsOK'
    <2>1. \A m \in DOMAIN iocs : Known(iocs[m]) = {m}
      BY <1>2 DEF IocsOK
    <2>2. \A m \in DOMAIN iocs :
            {k \in DOMAIN iocs' : iocs'[k].type = iocs'[m].type /\ iocs'[k].norm = iocs'[m].norm}
              = {m}
      BY <1>9, <1>10, <2>1 DEF Known
    <2>3. \A m \in DOMAIN iocs :
            /\ DOMAIN iocs'[m] = {"type", "norm", "confidence", "source", "actor", "campaign"}
            /\ iocs'[m].confidence \in Ranks /\ iocs'[m].actor \in actors \cup {NONE}
      BY <1>2, <1>7, <1>8, <1>9 DEF IocsOK
    <2>4. QED
      BY <1>1, <1>2, <1>9, <2>2, <2>3 DEF IocsOK, Known
  <1>13. PICK s : s = Rest(t)
    OBVIOUS
  <1>14. /\ IsRegistering(s) /\ s.at = "existed" /\ s.fresh = proc[t].fresh
         /\ s.rows = proc[t].rows
    BY <1>1, <1>13, RestStage
  <1>15. Goes(t, s)
    BY <1>13 DEF RefreshIoc
  <1>16. Steps(t, s, IocPlaces \ {"capture"})
    BY <1>1, <1>2, <1>14, <1>15, RegisteringSteps
  <1>17. quiet'[t] => quiet[t]
    <2>1. proc[t] # resting
      BY <1>1 DEF resting
    <2>2. quiet'[t] = (proc[t] = resting \/ (t = t /\ quiet[t]))
      BY <1>1, <1>2 DEF Updates
    <2>3. QED
      BY <2>1, <2>2
  <1>18. IocStage(s)' /\ (quiet'[t] => IocQuiet(s)')
    <2>1. IsRegistering(s)'
      BY <1>1, <1>14 DEF IsRegistering, IsReport
    <2>2. IocStage(s)'
      BY <1>14, <2>1 DEF IocStage
    <2>3. quiet'[t] => s.fresh = s.rows
      BY <1>1, <1>2, <1>14, <1>17 DEF IocQuiet
    <2>4. QED
      BY <1>14, <2>2, <2>3 DEF IocQuiet
  <1>19. ScreensOK'
    BY <1>1 DEF ScreensOK, Backed
  <1>20. QED
    BY <1>1, <1>11, <1>12, <1>16, <1>18, <1>19, IocMoved

LEMMA IocInserts ==
  ASSUME SocTyped, IocInv, ScreensOK, NEW t \in Terminals, InsertIoc(t)
  PROVE  IocMoves(t)
  <1>1. proc[t].at = "register" /\ UNCHANGED <<actors, campaigns, shown, socRecords>>
    BY DEF InsertIoc, library, caseworkRecords
  <1>2. /\ IocsOK /\ t \in Procs /\ IsRegistering(proc[t]) /\ proc[t].todo # <<>>
        /\ quiet[t] => IocQuiet(proc[t])
    BY <1>1, RegisteringHolds
  <1>3. ScreensOK'
    BY <1>1 DEF ScreensOK, Backed
  <1>4. PICK c : c = Head(proc[t].todo)
    OBVIOUS
  <1>5. CASE Known(c) # {}
    <2>1. Goes(t, resting) /\ UNCHANGED <<iocs, quiet>>
      BY <1>4, <1>5 DEF InsertIoc
    <2>2. Steps(t, resting, IocPlaces \ {"capture"})
      BY <1>1, <2>1, RestingForeign, StepsRest DEF IocPlaces, SocStages
    <2>3. Moves(t, resting) /\ IocStage(resting) /\ IocQuiet(resting)
      BY <2>2, TurnsBeside DEF Steps, IocStage, IsReport, IocQuiet, resting
    <2>4. IocInv'
      BY <1>1, <1>2, <2>1, <2>3, IocStay
    <2>5. QED
      BY <1>3, <2>2, <2>4 DEF IocMoves
  <1>6. CASE Known(c) = {}
    <2>1. PICK x : x = [type |-> c.type, norm |-> c.norm, confidence |-> c.confidence,
                        source |-> proc[t].origin, actor |-> proc[t].actor,
                        campaign |-> proc[t].campaign]
      OBVIOUS
    <2>2. PICK s : s = [Rest(t) EXCEPT !.rows = @ + 1]
      OBVIOUS
    <2>3. iocs' = Append(iocs, x) /\ Goes(t, s) /\ Updates(t)
      BY <1>4, <1>6, <2>1, <2>2 DEF InsertIoc
    <2>4. /\ Rows(iocs') /\ Len(iocs) \in Nat /\ DOMAIN iocs = 1..Len(iocs)
          /\ DOMAIN iocs' = 1..(Len(iocs) + 1)
          /\ \A m \in DOMAIN iocs : iocs'[m] = iocs[m]
          /\ iocs'[Len(iocs) + 1] = x
      BY <1>2, <2>3, AppendRow DEF IocsOK
    <2>5. PICK n : n = Len(iocs) + 1
      OBVIOUS
    <2>6. /\ n \in DOMAIN iocs' \ DOMAIN iocs /\ iocs'[n] = x /\ DOMAIN iocs \subseteq DOMAIN iocs'
          /\ \A m \in DOMAIN iocs' : m \in DOMAIN iocs \/ m = n
      BY <2>4, <2>5
    <2>7. c.confidence \in Ranks
      <3>1. 1 \in DOMAIN proc[t].todo /\ c = proc[t].todo[1]
        BY <1>2, <1>4, TailRows DEF IsRegistering
      <3>2. QED
        BY <1>2, <3>1 DEF IsRegistering
    <2>8. /\ DOMAIN x = {"type", "norm", "confidence", "source", "actor", "campaign"}
          /\ x.type = c.type /\ x.norm = c.norm
          /\ x.confidence \in Ranks /\ x.actor \in actors \cup {NONE}
      BY <1>2, <2>1, <2>7 DEF IsRegistering
    <2>9. \A d : Known(d) \subseteq Known(d)'
      BY <2>4, <2>6 DEF Known
    <2>10. \A m \in DOMAIN iocs : ~ (iocs[m].type = c.type /\ iocs[m].norm = c.norm)
      BY <1>6 DEF Known
    <2>11. IocsOK'
      <3>1. \A m \in DOMAIN iocs : Known(iocs[m]) = {m}
        BY <1>2 DEF IocsOK
      <3>2. \A m \in DOMAIN iocs' :
              {k \in DOMAIN iocs' : iocs'[k].type = iocs'[m].type /\ iocs'[k].norm = iocs'[m].norm}
                = {m}
        <4>1. ASSUME NEW m \in DOMAIN iocs', NEW k \in DOMAIN iocs',
                     iocs'[k].type = iocs'[m].type, iocs'[k].norm = iocs'[m].norm
              PROVE  k = m
          <5>1. CASE m \in DOMAIN iocs /\ k \in DOMAIN iocs
            <6>1. k \in Known(iocs[m])
              BY <2>4, <4>1, <5>1 DEF Known
            <6>2. QED
              BY <3>1, <5>1, <6>1
          <5>2. CASE m = n /\ k \in DOMAIN iocs
            BY <2>4, <2>6, <2>8, <2>10, <4>1, <5>2
          <5>3. CASE k = n /\ m \in DOMAIN iocs
            BY <2>4, <2>6, <2>8, <2>10, <4>1, <5>3
          <5>4. QED
            BY <2>6, <5>1, <5>2, <5>3
        <4>2. QED
          BY <4>1
      <3>3. \A m \in DOMAIN iocs' :
              /\ DOMAIN iocs'[m] = {"type", "norm", "confidence", "source", "actor", "campaign"}
              /\ iocs'[m].confidence \in Ranks /\ iocs'[m].actor \in actors \cup {NONE}
        BY <1>2, <2>4, <2>6, <2>8 DEF IocsOK
      <3>4. QED
        BY <1>1, <1>2, <2>4, <3>2, <3>3 DEF IocsOK, Known
    <2>12. /\ IsRegistering(Rest(t)) /\ Rest(t).at = "existed"
           /\ Rest(t).fresh = proc[t].fresh /\ Rest(t).rows = proc[t].rows
      BY <1>1, RestStage
    <2>13. PICK q : q = Rest(t)
      OBVIOUS
    <2>14. s = [q EXCEPT !.rows = @ + 1] /\ IsRegistering(q) /\ q.at = "existed"
           /\ q.fresh = proc[t].fresh /\ q.rows = proc[t].rows
      BY <2>2, <2>12, <2>13
    <2>15. /\ DOMAIN s = DOMAIN q /\ s.at = "existed" /\ s.fresh = q.fresh /\ s.rows = q.rows + 1
           /\ s.todo = q.todo /\ s.actor = q.actor /\ s.next = q.next
      BY <2>14 DEF IsRegistering
    <2>16. IsRegistering(s) /\ IsRegistering(s)'
      BY <1>1, <2>14, <2>15 DEF IsRegistering, IsReport
    <2>17. Steps(t, s, IocPlaces \ {"capture"})
      BY <1>1, <1>2, <2>3, <2>15, <2>16, RegisteringSteps
    <2>18. quiet'[t] => quiet[t]
      <3>1. proc[t] # resting
        BY <1>1 DEF resting
      <3>2. quiet'[t] = (proc[t] = resting \/ (t = t /\ quiet[t]))
        BY <1>2, <2>3 DEF Updates
      <3>3. QED
        BY <3>1, <3>2
    <2>19. quiet'[t] => IocQuiet(s)'
      <3>1. quiet'[t] => proc[t].fresh = proc[t].rows + 1
        BY <1>1, <1>2, <2>18 DEF IocQuiet
      <3>2. QED
        BY <2>14, <2>15, <3>1 DEF IocQuiet
    <2>20. IocStage(s)'
      BY <2>15, <2>16 DEF IocStage
    <2>21. QED
      BY <1>1, <1>3, <2>3, <2>9, <2>11, <2>17, <2>19, <2>20, IocMoved
  <1>7. QED
    BY <1>5, <1>6

LEMMA IocEnds ==
  ASSUME SocTyped, IocInv, ScreensOK, NEW t \in Terminals, Registered(t)
  PROVE  IocMoves(t)
  <1>1. PICK s : s = proc[t].next
    OBVIOUS
  <1>2. /\ proc[t].at = "existed" /\ Goes(t, s)
        /\ UNCHANGED <<iocs, actors, campaigns, socRecords, quiet>>
    BY <1>1 DEF Registered, intelRecords
  <1>3. t \in Procs /\ IsRegistering(proc[t]) /\ (quiet[t] => proc[t].fresh = proc[t].rows)
    BY <1>2, RegisteringHolds DEF IocQuiet
  <1>4. IsReport(s)
    BY <1>1, <1>3 DEF IsRegistering
  <1>5. Foreign(s) /\ s.at \in {"idle", "report"} /\ IocStage(s) /\ IocQuiet(s)
    <2>1. CASE s = resting
      BY <2>1, RestingForeign DEF IocStage, IocQuiet, resting
    <2>2. CASE s # resting
      BY <1>4, <2>2 DEF IsReport, Foreign, SocStages, IocStage, IocQuiet
    <2>3. QED
      BY <2>1, <2>2
  <1>6. Steps(t, s, IocPlaces \ {"capture"})
    BY <1>2, <1>5, StepsRest DEF IocPlaces, SocStages
  <1>7. Moves(t, s)
    BY <1>6, TurnsBeside DEF Steps
  <1>8. IocInv'
    BY <1>2, <1>3, <1>5, <1>7, IocStay
  <1>9. ScreensOK'
    <2>1. PICK row : row = [kind |-> "extracted", fresh |-> proc[t].fresh,
                            known |-> proc[t].known, rows |-> proc[t].rows, alone |-> quiet[t]]
      OBVIOUS
    <2>2. PICK list : list = <<row>>
      OBVIOUS
    <2>3. shown' = shown \/ shown' = [shown EXCEPT ![t] = list]
      BY <2>1, <2>2 DEF Registered
    <2>4. Backed(row)
      BY <1>3, <2>1 DEF Backed
    <2>5. \A k \in DOMAIN list : Backed(list[k])
      BY <2>2, <2>4, OneRow
    <2>6. QED
      BY <1>3, <2>3, <2>5, ScreenMove
  <1>10. QED
    BY <1>6, <1>8, <1>9 DEF IocMoves

LEMMA IocSteps ==
  ASSUME SocTyped, IocInv, ScreensOK, NEW t \in Terminals, IocStep(t)
  PROVE  IocMoves(t) /\ UNCHANGED <<assets, twins, findingTables, evidenceTables,
                                    forensicTables, exercises>>
  <1>1. IocMoves(t)
    BY IocBegins, IocLooks, IocRefreshes, IocInserts, IocEnds DEF IocStep
  <1>2. UNCHANGED <<assets, twins, findingTables, evidenceTables, forensicTables, exercises>>
    BY DEF IocStep, IocAdd, IocExtract, CountExisting, FindIoc, RefreshIoc, InsertIoc, Registered,
           intelRecords, caseworkRecords, findingTables, evidenceTables, forensicTables
  <1>3. QED
    BY <1>1, <1>2

\* The library: names are added, and a campaign is of an actor there is.
LEMMA LibrarySteps ==
  ASSUME SocTyped, IocInv, ScreensOK, NEW t \in Terminals, LibraryStep(t)
  PROVE  IocMoves(t) /\ UNCHANGED <<assets, twins, findingTables, evidenceTables,
                                    forensicTables, exercises>>
  <1>1. IocsOK /\ t \in Procs
    BY DEF IocInv, Terminals
  <1>2. /\ Commands(t) /\ UNCHANGED <<socRecords, iocs, assets, twins>>
        /\ UNCHANGED <<findingTables, evidenceTables, forensicTables, exercises>>
    BY DEF LibraryStep, ActorAdd, CampaignAdd, TtpAdd, LinkTtp, IocCorrelate, IocEnrich, Shows,
           intelRecords, caseworkRecords, findingTables, evidenceTables, forensicTables
  <1>3. Steps(t, resting, IocPlaces \ {"capture"})
    BY <1>2, StepsRest DEF IocPlaces, SocStages
  <1>4. \A c : Known(c)' = Known(c)
    BY <1>2 DEF Known
  <1>5. IocStage(resting)' /\ IocQuiet(resting)'
    BY DEF IocStage, IocQuiet, resting
  <1>6. ScreensOK'
    <2>1. ASSUME NEW screen, Shows(t, screen), Backed(screen)
          PROVE  ScreensOK'
      <3>1. PICK list : list = <<screen>>
        OBVIOUS
      <3>2. shown' = [shown EXCEPT ![t] = list] /\ \A k \in DOMAIN list : Backed(list[k])
        BY <2>1, <3>1, OneRow DEF Shows
      <3>3. QED
        BY <1>1, <3>2, ScreenMove
    <2>2. ASSUME NEW value, IocCorrelate(t, value)
          PROVE  ScreensOK'
      <3>1. PICK row : row = [kind |-> "matches", iocs |-> Correlated(value)]
        OBVIOUS
      <3>2. QED
        BY <2>1, <2>2, <3>1 DEF IocCorrelate, Backed
    <2>3. ASSUME NEW n, IocEnrich(t, n)
          PROVE  ScreensOK'
      <3>1. PICK techniques : techniques = {l[2] : l \in {l \in links : l[1] = iocs[n].campaign}}
        OBVIOUS
      <3>2. PICK row : row = [kind |-> "enriched", actor |-> iocs[n].actor,
                              campaign |-> iocs[n].campaign, ttps |-> techniques]
        OBVIOUS
      <3>3. Shows(t, row)
        BY <2>3, <3>1, <3>2 DEF IocEnrich
      <3>4. QED
        BY <2>1, <3>2, <3>3 DEF Backed
    <2>4. UNCHANGED shown => ScreensOK'
      BY DEF ScreensOK, Backed
    <2>5. QED
      BY <2>2, <2>3, <2>4 DEF LibraryStep, ActorAdd, CampaignAdd, TtpAdd, LinkTtp, caseworkRecords
  <1>7. IocsOK' /\ actors \subseteq actors'
    <2>1. ASSUME actors \subseteq actors', UNCHANGED campaigns
          PROVE  IocsOK'
      BY <1>1, <1>2, <1>4, <2>1 DEF IocsOK
    <2>2. ASSUME NEW name, NEW actor, CampaignAdd(t, name, actor)
          PROVE  IocsOK' /\ actors \subseteq actors'
      <3>1. PICK x : x = [name |-> name, actor |-> actor]
        OBVIOUS
      <3>2. campaigns' = Append(campaigns, x) /\ UNCHANGED actors /\ actor \in actors \cup {NONE}
        BY <2>2, <3>1 DEF CampaignAdd
      <3>3. /\ Rows(campaigns') /\ Len(campaigns) \in Nat /\ DOMAIN campaigns = 1..Len(campaigns)
            /\ DOMAIN campaigns' = 1..(Len(campaigns) + 1)
            /\ \A k \in DOMAIN campaigns : campaigns'[k] = campaigns[k]
            /\ campaigns'[Len(campaigns) + 1] = x
        BY <1>1, <3>2, AppendRow DEF IocsOK
      <3>4. \A k \in DOMAIN campaigns' : k \in DOMAIN campaigns \/ campaigns'[k] = x
        BY <3>3
      <3>5. x.actor = actor
        BY <3>1
      <3>6. QED
        BY <1>1, <1>2, <1>4, <3>2, <3>3, <3>4, <3>5 DEF IocsOK
    <2>3. ASSUME NEW name, ActorAdd(t, name)
          PROVE  actors \subseteq actors' /\ UNCHANGED campaigns
      BY <2>3 DEF ActorAdd
    <2>4. ASSUME NEW technique, TtpAdd(t, technique) \/ \E k : LinkTtp(t, k, technique)
          PROVE  UNCHANGED <<actors, campaigns>>
      BY <2>4 DEF TtpAdd, LinkTtp
    <2>5. ASSUME NEW x, IocCorrelate(t, x) \/ IocEnrich(t, x)
          PROVE  UNCHANGED <<actors, campaigns>>
      BY <2>5 DEF IocCorrelate, IocEnrich, Shows, intelRecords
    <2>6. QED
      BY <2>1, <2>2, <2>3, <2>4, <2>5 DEF LibraryStep
  <1>8. QED
    BY <1>2, <1>3, <1>4, <1>5, <1>6, <1>7, IocMoved

-----------------------------------------------------------------------------
(***************************************************************************)
(* Assets.                                                                 *)
(***************************************************************************)

AssetMoves(t) == (\E s : Steps(t, s, AssetPlaces)) /\ AssetInv' /\ twins \subseteq twins'

LEMMA AssetLooks ==
  ASSUME SocTyped, AssetInv, NEW t \in Terminals,
         \/ \E todo : \E g \in Engagements : IngestEntities(t, todo, g)
         \/ FindAsset(t) \/ AssetDone(t)
  PROVE  AssetMoves(t)
  <1>1. UNCHANGED <<assets, twins, socRecords>>
    BY DEF IngestEntities, FindAsset, AssetDone, intelRecords
  <1>2. t \in Procs /\ AssetStage(proc[t]) /\ (quiet[t] => AssetQuiet(proc[t]))
    BY DEF AssetInv, Terminals
  <1>3. ASSUME NEW s, Steps(t, s, AssetPlaces), AssetStage(s), quiet'[t] => AssetQuiet(s)
        PROVE  AssetMoves(t)
    <2>1. Moves(t, s)
      BY <1>1, <1>3, TurnsBeside DEF Steps
    <2>2. AssetInv'
      BY <1>1, <1>2, <1>3, <2>1, AssetStay
    <2>3. QED
      BY <1>1, <1>3, <2>2 DEF AssetMoves
  <1>4. AssetPlaces \cap SocStages = {} /\ "idle" \notin AssetPlaces
    BY DEF AssetPlaces, SocStages
  <1>5. ASSUME NEW todo, NEW g \in Engagements, IngestEntities(t, todo, g)
        PROVE  AssetMoves(t)
    <2>1. PICK s : s = [at |-> "assets", todo |-> todo, engagement |-> g]
      OBVIOUS
    <2>2. Starts(t, s) /\ Foreign(s) /\ s.at \in AssetPlaces
      BY <1>5, <2>1 DEF IngestEntities, Foreign, SocStages, AssetPlaces
    <2>3. AssetStage(s) /\ AssetQuiet(s)
      BY <2>1 DEF AssetStage, AssetQuiet
    <2>4. Steps(t, s, AssetPlaces)
      BY <1>1, <1>4, <2>2, StepsRest
    <2>5. QED
      BY <1>3, <2>3, <2>4
  <1>6. CASE FindAsset(t)
    <2>1. PICK s : s = IF AssetRows(Head(proc[t].todo), proc[t].engagement) = {}
                       THEN [proc[t] EXCEPT !.at = "asset"]
                       ELSE [proc[t] EXCEPT !.todo = Tail(@)]
      OBVIOUS
    <2>2. proc[t].at = "assets" /\ Goes(t, s) /\ UNCHANGED quiet
      BY <1>6, <2>1 DEF FindAsset
    <2>3. DOMAIN proc[t] = {"at", "todo", "engagement"} /\ proc[t].engagement \in Engagements
      BY <1>2, <2>2 DEF AssetStage
    <2>4. /\ DOMAIN s = {"at", "todo", "engagement"} /\ s.engagement = proc[t].engagement
          /\ s.at \in {"assets", "asset"}
          /\ s.at = "asset" => /\ s.todo = proc[t].todo
                               /\ AssetRows(Head(proc[t].todo), proc[t].engagement) = {}
      BY <2>1, <2>2, <2>3
    <2>5. AssetStage(s) /\ AssetQuiet(s)
      BY <2>3, <2>4 DEF AssetStage, AssetQuiet
    <2>6. Foreign(s) /\ s.at \in AssetPlaces /\ proc[t].at \in AssetPlaces \ {"idle"}
      BY <2>2, <2>4 DEF Foreign, SocStages, AssetPlaces
    <2>7. Steps(t, s, AssetPlaces)
      BY <1>1, <1>4, <2>2, <2>6, StepsRest
    <2>8. QED
      BY <1>3, <2>5, <2>7
  <1>7. CASE AssetDone(t)
    <2>1. Goes(t, resting) /\ UNCHANGED quiet /\ proc[t].at \in AssetPlaces \ {"idle"}
      BY <1>7 DEF AssetDone, AssetPlaces
    <2>2. Steps(t, resting, AssetPlaces)
      BY <1>1, <1>4, <2>1, StepsRest, RestingForeign
    <2>3. QED
      BY <1>3, <2>2 DEF AssetStage, AssetQuiet, resting
  <1>8. QED
    BY <1>5, <1>6, <1>7

\* A row written by a command that was alone is the first of its kind.
LEMMA AssetRegisters ==
  ASSUME SocTyped, AssetInv, NEW t \in Terminals, RegisterAsset(t)
  PROVE  AssetMoves(t)
  <1>1. UNCHANGED socRecords /\ proc[t].at = "asset" /\ proc[t].at \in AssetPlaces \ {"idle"}
    BY DEF RegisterAsset, AssetPlaces
  <1>2. t \in Procs /\ AssetsOK /\ AssetStage(proc[t]) /\ (quiet[t] => AssetQuiet(proc[t]))
    BY DEF AssetInv, Terminals
  <1>3. DOMAIN proc[t] = {"at", "todo", "engagement"} /\ proc[t].engagement \in Engagements
    BY <1>1, <1>2 DEF AssetStage
  <1>4. AssetPlaces \cap SocStages = {} /\ "idle" \notin AssetPlaces
    BY DEF AssetPlaces, SocStages
  <1>5. PICK target, g : target = Head(proc[t].todo) /\ g = proc[t].engagement
    OBVIOUS
  <1>6. CASE AssetRows(target, g) # {} /\ g # NONE
    <2>1. Goes(t, resting) /\ UNCHANGED <<assets, twins, quiet>>
      BY <1>5, <1>6 DEF RegisterAsset
    <2>2. Steps(t, resting, AssetPlaces)
      BY <1>1, <1>4, <2>1, StepsRest, RestingForeign
    <2>3. Moves(t, resting) /\ AssetStage(resting) /\ AssetQuiet(resting)
      BY <1>1, <2>2, TurnsBeside DEF Steps, AssetStage, AssetQuiet, resting
    <2>4. AssetInv'
      BY <1>2, <2>1, <2>3, AssetStay
    <2>5. QED
      BY <2>1, <2>2, <2>4 DEF AssetMoves
  <1>7. CASE ~ (AssetRows(target, g) # {} /\ g # NONE)
    <2>1. PICK x : x = [target |-> target, engagement |-> g]
      OBVIOUS
    <2>2. PICK s : s = [proc[t] EXCEPT !.at = "assets", !.todo = Tail(@)]
      OBVIOUS
    <2>3. /\ assets' = Append(assets, x) /\ Goes(t, s) /\ Updates(t)
          /\ twins' = IF quiet[t] THEN twins ELSE twins \cup {<<target, g>>}
      BY <1>5, <1>7, <2>1, <2>2 DEF RegisterAsset
    <2>4. DOMAIN s = {"at", "todo", "engagement"} /\ s.at = "assets" /\ s.engagement = g
      BY <1>3, <1>5, <2>2
    <2>5. Foreign(s) /\ s.at \in AssetPlaces /\ AssetStage(s) /\ AssetQuiet(s)'
      BY <1>3, <1>5, <2>4 DEF Foreign, SocStages, AssetPlaces, AssetStage, AssetQuiet
    <2>6. Steps(t, s, AssetPlaces)
      BY <1>1, <1>4, <2>3, <2>5, StepsRest
    <2>7. Moves(t, s)
      BY <1>1, <2>6, TurnsBeside DEF Steps
    <2>8. PICK n : n = Len(assets) + 1
      OBVIOUS
    <2>9. /\ Rows(assets') /\ n \in DOMAIN assets' \ DOMAIN assets /\ assets'[n] = x
          /\ \A m \in DOMAIN assets' : m \in DOMAIN assets \/ m = n
          /\ \A m \in DOMAIN assets : m \in DOMAIN assets' /\ assets'[m] = assets[m]
      BY <1>2, <2>3, <2>8, AppendRow DEF AssetsOK, Rows
    <2>10. /\ x.target = target /\ x.engagement = g /\ DOMAIN x = {"target", "engagement"}
           /\ \A u, v : x = [target |-> u, engagement |-> v] <=> u = target /\ v = g
      BY <2>1
    <2>11. twins \subseteq twins' /\ (<<target, g>> \notin twins' => AssetRows(target, g) = {})
      <3>1. quiet[t] => AssetRows(target, g) = {}
        BY <1>1, <1>2, <1>5 DEF AssetQuiet
      <3>2. QED
        BY <2>3, <3>1
    <2>12. AssetRows(target, g)' = AssetRows(target, g) \cup {n}
      BY <2>9, <2>10 DEF AssetRows
    <2>13. \A u, v : u # target \/ v # g => AssetRows(u, v)' = AssetRows(u, v)
      BY <2>9, <2>10 DEF AssetRows
    <2>14. ASSUME NEW m \in DOMAIN assets', NEW u, NEW v, u = assets'[m].target,
                  v = assets'[m].engagement, <<u, v>> \notin twins'
           PROVE  AssetRows(u, v)' = {m}
      <3>1. CASE m = n
        BY <2>9, <2>10, <2>11, <2>12, <2>14, <3>1
      <3>2. CASE m # n
        <4>1. m \in DOMAIN assets /\ assets'[m] = assets[m]
          BY <2>9, <3>2
        <4>2. AssetRows(u, v) = {m}
          BY <1>2, <2>11, <2>14, <4>1 DEF AssetsOK
        <4>3. u # target \/ v # g
          BY <2>11, <2>14, <4>2
        <4>4. QED
          BY <2>13, <4>2, <4>3
      <3>3. QED
        BY <3>1, <3>2
    <2>15. \A m \in DOMAIN assets' :
             DOMAIN assets'[m] = {"target", "engagement"} /\ assets'[m].engagement \in Engagements
      BY <1>2, <1>3, <1>5, <2>9, <2>10 DEF AssetsOK
    <2>16. AssetsOK'
      BY <2>9, <2>14, <2>15 DEF AssetsOK
    <2>17. AssetInv'
      BY <1>2, <2>3, <2>5, <2>7, <2>16, AssetMove
    <2>18. QED
      BY <2>6, <2>11, <2>17 DEF AssetMoves
  <1>8. QED
    BY <1>6, <1>7

LEMMA AssetSteps ==
  ASSUME SocTyped, AssetInv, NEW t \in Terminals, AssetStep(t)
  PROVE  AssetMoves(t) /\ UNCHANGED <<iocs, actors, campaigns, caseworkRecords>>
  <1>1. AssetMoves(t)
    BY AssetLooks, AssetRegisters DEF AssetStep
  <1>2. UNCHANGED <<iocs, actors, campaigns, caseworkRecords>>
    <2>1. FindAsset(t) \/ RegisterAsset(t) \/ AssetDone(t)
            => UNCHANGED <<iocs, actors, campaigns, caseworkRecords>>
      BY DEF FindAsset, RegisterAsset, AssetDone, intelRecords, library
    <2>2. \A todo, g : IngestEntities(t, todo, g)
            => UNCHANGED <<iocs, actors, campaigns, caseworkRecords>>
      BY DEF IngestEntities, intelRecords
    <2>3. QED
      BY <2>1, <2>2 DEF AssetStep
  <1>3. QED
    BY <1>1, <1>2

-----------------------------------------------------------------------------
(***************************************************************************)
(* Analyses that write findings.                                           *)
(***************************************************************************)

CheckMoves(t) ==
  (\E s : Steps(t, s, CheckPlaces)) /\ CheckInv' /\ FindingInv' /\ twins \subseteq twins'

ReportMoves(t) == (\E s : Steps(t, s, {"report"})) /\ IocInv' /\ FindingInv' /\ ChecksKept

SampleMoves(t) ==
  /\ \E s : Steps(t, s, {"capture"})
  /\ IocInv' /\ EvidenceInv' /\ DOMAIN evidence \subseteq DOMAIN evidence'

\* A new finding is nothing to the stages of the others.
LEMMA FindingAppends ==
  ASSUME SocTyped, FindingInv, NEW t \in Procs, NEW s, Moves(t, s), s.at \notin FindingPlaces,
         NEW x, IsFinding(x), findings' = Append(findings, x),
         UNCHANGED <<remediations, verifications>>
  PROVE  FindingInv'
  <1>1. FindingsOK /\ RemediationsOK
    BY DEF FindingInv
  <1>2. FindingsOK' /\ RemediationsOK' /\ FindingsGrow
    BY <1>1, NewFinding, RemediationsStay
  <1>3. FindingStage(s)'
    BY DEF FindingStage, FindingPlaces
  <1>4. QED
    BY <1>2, <1>3, FindingMove

LEMMA CheckLooks ==
  ASSUME SocTyped, FindingInv, CheckInv, NEW t \in Terminals,
         \/ \E target : \E g \in Engagements : VulnCheck(t, target, g)
         \/ FindDuplicate(t) \/ VulnDone(t)
  PROVE  CheckMoves(t)
  <1>1. UNCHANGED <<findingTables, twins, socRecords>>
    BY DEF VulnCheck, FindDuplicate, VulnDone, intelRecords, caseworkRecords, findingTables
  <1>2. t \in Procs /\ CheckStage(proc[t]) /\ (quiet[t] => CheckQuiet(proc[t]))
    BY DEF CheckInv, Terminals
  <1>3. ASSUME NEW s, Steps(t, s, CheckPlaces), CheckStage(s), quiet'[t] => CheckQuiet(s)
        PROVE  CheckMoves(t)
    <2>1. Moves(t, s)
      BY <1>1, <1>3, TurnsBeside DEF Steps
    <2>2. ChecksKept /\ twins \subseteq twins'
      BY <1>1 DEF ChecksKept, findingTables
    <2>3. CheckInv'
      BY <1>2, <1>3, <2>1, <2>2, CheckStay
    <2>4. FindingStage(s)
      BY <1>3 DEF FindingStage, Steps, CheckPlaces
    <2>5. FindingInv'
      BY <1>1, <1>2, <2>1, <2>4, FindingStay
    <2>6. QED
      BY <1>3, <2>2, <2>3, <2>5 DEF CheckMoves
  <1>4. CheckPlaces \cap SocStages = {} /\ "idle" \notin CheckPlaces
    BY DEF CheckPlaces, SocStages
  <1>5. ASSUME NEW target, NEW g \in Engagements, VulnCheck(t, target, g)
        PROVE  CheckMoves(t)
    <2>1. PICK s : s = [at |-> "check", todo |-> SetToSeq(RunChecks(TargetRef(target))),
                        target |-> target, engagement |-> g]
      OBVIOUS
    <2>2. Starts(t, s)
      BY <1>5, <2>1 DEF VulnCheck
    <2>3. /\ DOMAIN s = {"at", "todo", "target", "engagement"} /\ s.at = "check"
          /\ s.engagement \in Engagements
      BY <2>1
    <2>4. Foreign(s) /\ s.at \in CheckPlaces /\ CheckStage(s) /\ CheckQuiet(s)
      BY <2>3 DEF Foreign, SocStages, CheckPlaces, CheckStage, CheckQuiet
    <2>5. Steps(t, s, CheckPlaces)
      BY <1>1, <1>4, <2>2, <2>4, StepsRest
    <2>6. QED
      BY <1>3, <2>4, <2>5
  <1>6. CASE FindDuplicate(t)
    <2>1. PICK c, g : c = Head(proc[t].todo)[1] /\ g = proc[t].engagement
      OBVIOUS
    <2>2. PICK s : s = IF g # NONE /\ Duplicates(c, g) # {}
                       THEN [proc[t] EXCEPT !.todo = Tail(@)] ELSE [proc[t] EXCEPT !.at = "found"]
      OBVIOUS
    <2>3. proc[t].at = "check" /\ Goes(t, s) /\ UNCHANGED quiet
      BY <1>6, <2>1, <2>2 DEF FindDuplicate
    <2>4. /\ DOMAIN proc[t] = {"at", "todo", "target", "engagement"}
          /\ proc[t].engagement \in Engagements
      BY <1>2, <2>3 DEF CheckStage
    <2>5. /\ DOMAIN s = {"at", "todo", "target", "engagement"} /\ s.engagement = g
          /\ s.at \in {"check", "found"}
          /\ s.at = "found" => s.todo = proc[t].todo /\ ~ (g # NONE /\ Duplicates(c, g) # {})
      BY <2>1, <2>2, <2>3, <2>4
    <2>6. CheckStage(s) /\ CheckQuiet(s)
      BY <2>1, <2>4, <2>5 DEF CheckStage, CheckQuiet
    <2>7. Foreign(s) /\ s.at \in CheckPlaces /\ proc[t].at \in CheckPlaces \ {"idle"}
      BY <2>3, <2>5 DEF Foreign, SocStages, CheckPlaces
    <2>8. Steps(t, s, CheckPlaces)
      BY <1>1, <1>4, <2>3, <2>7, StepsRest
    <2>9. QED
      BY <1>3, <2>6, <2>8
  <1>7. CASE VulnDone(t)
    <2>1. Goes(t, resting) /\ UNCHANGED quiet /\ proc[t].at \in CheckPlaces \ {"idle"}
      BY <1>7 DEF VulnDone, CheckPlaces
    <2>2. Steps(t, resting, CheckPlaces)
      BY <1>1, <1>4, <2>1, StepsRest, RestingForeign
    <2>3. QED
      BY <1>3, <2>2 DEF CheckStage, CheckQuiet, resting
  <1>8. QED
    BY <1>5, <1>6, <1>7

\* The first finding of its check in its engagement, if the command was alone.
LEMMA CheckRecords ==
  ASSUME SocTyped, FindingInv, CheckInv, NEW t \in Terminals, RecordOutcome(t)
  PROVE  CheckMoves(t)
  <1>1. /\ proc[t].at = "found" /\ proc[t].at \in CheckPlaces \ {"idle"} /\ Updates(t)
        /\ UNCHANGED <<remediations, verifications, socRecords>>
    BY DEF RecordOutcome, CheckPlaces
  <1>2. /\ t \in Procs /\ ChecksOK /\ CheckStage(proc[t]) /\ (quiet[t] => CheckQuiet(proc[t]))
        /\ FindingsOK
    BY DEF CheckInv, FindingInv, Terminals
  <1>3. /\ DOMAIN proc[t] = {"at", "todo", "target", "engagement"}
        /\ proc[t].engagement \in Engagements
    BY <1>1, <1>2 DEF CheckStage
  <1>4. CheckPlaces \cap SocStages = {} /\ "idle" \notin CheckPlaces
    BY DEF CheckPlaces, SocStages
  <1>5. PICK c, g, level : /\ c = Head(proc[t].todo)[1] /\ g = proc[t].engagement
                           /\ level = OutcomeRisk(Head(proc[t].todo), proc[t].target)
    OBVIOUS
  <1>6. PICK x : x = Finding(c, g, level)
    OBVIOUS
  <1>7. PICK s : s = [proc[t] EXCEPT !.at = "check", !.todo = Tail(@)]
    OBVIOUS
  <1>8. /\ findings' = Append(findings, x) /\ Goes(t, s)
        /\ twins' = IF quiet[t] THEN twins ELSE twins \cup {<<c, g>>}
    BY <1>5, <1>6, <1>7 DEF RecordOutcome
  <1>9. IsFinding(x) /\ x.source = c /\ x.engagement = g
    <2>1. level \in Info..Critical
      BY <1>5, RiskLevels DEF OutcomeRisk
    <2>2. QED
      BY <1>3, <1>5, <1>6, <2>1 DEF Finding, IsFinding, FindingStatuses
  <1>10. /\ DOMAIN s = {"at", "todo", "target", "engagement"} /\ s.at = "check"
         /\ s.engagement = g
    BY <1>3, <1>5, <1>7
  <1>11. Foreign(s) /\ s.at \in CheckPlaces /\ CheckStage(s) /\ CheckQuiet(s)'
    BY <1>3, <1>5, <1>10 DEF Foreign, SocStages, CheckPlaces, CheckStage, CheckQuiet
  <1>12. Steps(t, s, CheckPlaces)
    BY <1>1, <1>4, <1>8, <1>11, StepsRest
  <1>13. Moves(t, s)
    BY <1>1, <1>12, TurnsBeside DEF Steps
  <1>14. FindingInv'
    <2>1. s.at \notin FindingPlaces
      BY <1>10 DEF FindingPlaces
    <2>2. QED
      BY <1>1, <1>2, <1>8, <1>9, <1>13, <2>1, FindingAppends
  <1>15. PICK n : n = Len(findings) + 1
    OBVIOUS
  <1>16. /\ n \in DOMAIN findings' \ DOMAIN findings /\ findings'[n] = x
         /\ \A f \in DOMAIN findings' : f \in DOMAIN findings \/ f = n
         /\ \A f \in DOMAIN findings : f \in DOMAIN findings' /\ findings'[f] = findings[f]
    BY <1>2, <1>8, <1>9, <1>15, NewFinding
  <1>17. /\ twins \subseteq twins'
         /\ c \in CheckNames /\ g # NONE /\ <<c, g>> \notin twins' => Duplicates(c, g) = {}
    <2>1. quiet[t] /\ c \in CheckNames /\ g # NONE => Duplicates(c, g) = {}
      BY <1>1, <1>2, <1>5 DEF CheckQuiet
    <2>2. QED
      BY <1>8, <2>1
  <1>18. Duplicates(c, g)' = Duplicates(c, g) \cup {n}
    BY <1>9, <1>16 DEF Duplicates
  <1>19. \A u, v : u # c \/ v # g => Duplicates(u, v)' = Duplicates(u, v)
    BY <1>9, <1>16 DEF Duplicates
  <1>20. ASSUME NEW f \in DOMAIN findings', NEW u, NEW v, u = findings'[f].source,
                v = findings'[f].engagement, u \in CheckNames, v # NONE, <<u, v>> \notin twins'
         PROVE  Duplicates(u, v)' = {f}
    <2>1. CASE f = n
      BY <1>9, <1>16, <1>17, <1>18, <1>20, <2>1
    <2>2. CASE f # n
      <3>1. f \in DOMAIN findings /\ findings'[f] = findings[f]
        BY <1>16, <2>2
      <3>2. Duplicates(u, v) = {f}
        BY <1>2, <1>17, <1>20, <3>1 DEF ChecksOK
      <3>3. u # c \/ v # g
        BY <1>17, <1>20, <3>2
      <3>4. QED
        BY <1>19, <3>2, <3>3
    <2>3. QED
      BY <2>1, <2>2
  <1>21. ChecksOK'
    BY <1>20 DEF ChecksOK
  <1>22. CheckInv'
    BY <1>1, <1>2, <1>11, <1>13, <1>21, CheckMove
  <1>23. QED
    BY <1>12, <1>14, <1>17, <1>22 DEF CheckMoves

\* What is reported one by one, and is of no check.
LEMMA ReportStage ==
  ASSUME NEW todo, Rows(todo), \A k \in DOMAIN todo : todo[k] \notin CheckNames,
         NEW g \in Engagements, NEW s, s = Reporting(todo, g)
  PROVE  /\ IsReport(s) /\ Foreign(s) /\ s.at \in {"idle", "report"} /\ IocStage(s) /\ IocQuiet(s)
         /\ s # resting => s.at = "report"
  <1>1. IsReport(s)
    BY DEF Reporting, IsReport
  <1>2. CASE s = resting
    BY <1>1, <1>2, RestingForeign DEF IocStage, IocQuiet, resting
  <1>3. CASE s # resting
    BY <1>1, <1>3 DEF IsReport, Foreign, SocStages, IocStage, IocQuiet
  <1>4. QED
    BY <1>2, <1>3

LEMMA ReportStarts ==
  ASSUME SocTyped, FindingInv, IocInv, NEW t \in Terminals, NEW todo, Rows(todo),
         \A k \in DOMAIN todo : todo[k] \notin CheckNames, NEW g \in Engagements,
         Starts(t, Reporting(todo, g)), UNCHANGED <<intelRecords, caseworkRecords, socRecords>>
  PROVE  ReportMoves(t)
  <1>1. UNCHANGED <<findingTables, iocs, actors, campaigns>>
    BY DEF intelRecords, caseworkRecords, findingTables
  <1>2. PICK s : s = Reporting(todo, g)
    OBVIOUS
  <1>3. /\ Starts(t, s) /\ Foreign(s) /\ s.at \in {"idle", "report"}
        /\ IocStage(s) /\ IocQuiet(s)
    BY <1>2, ReportStage
  <1>4. Steps(t, s, {"report"})
    <2>1. proc[t].at = "idle"
      BY <1>3 DEF Starts, resting
    <2>2. QED
      BY <1>3, <2>1 DEF Steps, Turns
  <1>5. Moves(t, s) /\ t \in Procs
    BY <1>4, TurnsBeside DEF Steps
  <1>6. IocInv'
    BY <1>1, <1>3, <1>5, IocStay
  <1>7. FindingStage(s)
    BY <1>3 DEF FindingStage
  <1>8. FindingInv'
    BY <1>1, <1>5, <1>7, FindingStay
  <1>9. ChecksKept
    BY <1>1 DEF ChecksKept, findingTables
  <1>10. QED
    BY <1>4, <1>6, <1>8, <1>9 DEF ReportMoves

LEMMA ReportBegins ==
  ASSUME SocTyped, FindingInv, IocInv, NEW t \in Terminals,
         \/ \E host : EndpointCheck(t, host)
         \/ \E matches \in Exploits, g \in Engagements : ExploitMap(t, matches, g)
  PROVE  ReportMoves(t)
  <1>1. ASSUME NEW S, IsFiniteSet(S), S \cap CheckNames = {}, NEW g \in Engagements,
               Starts(t, Reporting(SetToSeq(S), g)),
               UNCHANGED <<intelRecords, caseworkRecords, socRecords>>
        PROVE  ReportMoves(t)
    <2>1. PICK todo : todo = SetToSeq(S)
      OBVIOUS
    <2>2. Rows(todo) /\ \A k \in DOMAIN todo : todo[k] \notin CheckNames
      BY <1>1, <2>1, SetToSeqRows
    <2>3. Starts(t, Reporting(todo, g))
      BY <1>1, <2>1
    <2>4. QED
      BY <1>1, <2>2, <2>3, ReportStarts
  <1>2. ASSUME NEW host, EndpointCheck(t, host)
        PROVE  ReportMoves(t)
    <2>1. PICK S : S = Observations(host)
      OBVIOUS
    <2>2. S \subseteq {"root_equivalent_accounts", "listening_socket_without_process",
                       "exposed_listening"}
      BY <2>1 DEF Observations
    <2>3. IsFiniteSet({"root_equivalent_accounts", "listening_socket_without_process",
                       "exposed_listening"})
      <3>1. IsFiniteSet({}) /\ IsFiniteSet({"root_equivalent_accounts"})
        BY FS_EmptySet, FS_Singleton
      <3>2. IsFiniteSet({"root_equivalent_accounts"} \cup {"listening_socket_without_process"})
        BY <3>1, FS_AddElement
      <3>3. IsFiniteSet(({"root_equivalent_accounts"} \cup {"listening_socket_without_process"})
                         \cup {"exposed_listening"})
        BY <3>2, FS_AddElement
      <3>4. QED
        BY <3>3
    <2>4. IsFiniteSet(S) /\ S \cap CheckNames = {}
      BY <2>2, <2>3, FS_Subset DEF CheckNames
    <2>5. Starts(t, Reporting(SetToSeq(S), NONE)) /\ NONE \in Engagements
      BY <1>2, <2>1, EngagementsAssumption DEF EndpointCheck
    <2>6. UNCHANGED <<intelRecords, caseworkRecords, socRecords>>
      BY <1>2 DEF EndpointCheck
    <2>7. QED
      BY <1>1, <2>4, <2>5, <2>6
  <1>3. ASSUME NEW matches \in Exploits, NEW g \in Engagements, ExploitMap(t, matches, g)
        PROVE  ReportMoves(t)
    <2>1. PICK M : M = {m \in matches : m.verified}
      OBVIOUS
    <2>2. PICK S : S = {m.edb : m \in M}
      OBVIOUS
    <2>3. IsFiniteSet(M) /\ \A m \in M : m.edb \notin CheckNames
      BY <2>1, ExploitsAssumption, FS_Subset
    <2>4. IsFiniteSet(S)
      <3>1. S \in SUBSET S /\ [m \in M |-> m.edb] \in Surjection(M, S)
        BY <2>2 DEF Surjection
      <3>2. QED
        BY <2>3, <3>1, FS_Surjection
    <2>5. S \cap CheckNames = {}
      BY <2>2, <2>3
    <2>6. Starts(t, Reporting(SetToSeq(S), g))
      BY <1>3, <2>1, <2>2 DEF ExploitMap
    <2>7. UNCHANGED <<intelRecords, caseworkRecords, socRecords>>
      BY <1>3 DEF ExploitMap
    <2>8. QED
      BY <1>1, <2>4, <2>5, <2>6, <2>7
  <1>4. QED
    BY <1>2, <1>3

LEMMA ReportWrites ==
  ASSUME SocTyped, FindingInv, IocInv, NEW t \in Terminals, ReportFinding(t)
  PROVE  ReportMoves(t)
  <1>1. /\ proc[t].at = "report" /\ UNCHANGED <<remediations, verifications, quiet, socRecords>>
        /\ UNCHANGED <<iocs, actors, campaigns>>
    BY DEF ReportFinding, intelRecords
  <1>2. t \in Procs /\ FindingsOK /\ IsReport(proc[t])
    BY <1>1 DEF FindingInv, IocInv, IocStage, Terminals
  <1>3. PICK todo, g : todo = proc[t].todo /\ g = proc[t].engagement
    OBVIOUS
  <1>4. /\ g \in Engagements /\ Rows(todo) /\ todo # <<>>
        /\ \A k \in DOMAIN todo : todo[k] \notin CheckNames
    BY <1>1, <1>2, <1>3 DEF IsReport, resting
  <1>5. Rows(Tail(todo)) /\ \A k \in DOMAIN Tail(todo) : Tail(todo)[k] \notin CheckNames
    BY <1>4, TailRows
  <1>6. PICK s : s = Reporting(Tail(todo), g)
    OBVIOUS
  <1>7. Foreign(s) /\ s.at \in {"idle", "report"} /\ IocStage(s) /\ IocQuiet(s)
    BY <1>4, <1>5, <1>6, ReportStage
  <1>8. PICK x : x = Finding(Head(todo), g, NONE)
    OBVIOUS
  <1>9. findings' = Append(findings, x) /\ Goes(t, s)
    BY <1>3, <1>6, <1>8 DEF ReportFinding
  <1>10. Head(todo) \notin CheckNames
    BY <1>4, TailRows
  <1>11. IsFinding(x) /\ x.source \notin CheckNames
    BY <1>4, <1>8, <1>10 DEF Finding, IsFinding, FindingStatuses
  <1>12. Steps(t, s, {"report"})
    BY <1>1, <1>7, <1>9 DEF Steps, Turns, SocStages
  <1>13. Moves(t, s)
    BY <1>1, <1>12, TurnsBeside DEF Steps
  <1>14. IocInv'
    BY <1>1, <1>2, <1>7, <1>13, IocStay
  <1>15. FindingInv'
    <2>1. s.at \notin FindingPlaces
      BY <1>7 DEF FindingPlaces
    <2>2. QED
      BY <1>1, <1>2, <1>9, <1>11, <1>13, <2>1, FindingAppends
  <1>16. ChecksKept
    BY <1>2, <1>9, <1>11, NewFinding DEF ChecksKept
  <1>17. QED
    BY <1>12, <1>14, <1>15, <1>16 DEF ReportMoves

\* A sample is evidence whose indicators are registered after its capture.
LEMMA SampleStarts ==
  ASSUME SocTyped, IocInv, EvidenceInv, NEW t \in Terminals, NEW v, NEW finding \in BOOLEAN,
         MalwareAnalyze(t, <<Candidate("HASH", v, "high")>>, finding)
  PROVE  SampleMoves(t)
  <1>1. /\ UNCHANGED <<iocs, actors, campaigns, custody, cut, socRecords>>
        /\ t \in Procs
    BY DEF MalwareAnalyze, intelRecords, Terminals
  <1>2. PICK c : c = Candidate("HASH", v, "high")
    OBVIOUS
  <1>3. PICK digests : digests = <<c>>
    OBVIOUS
  <1>4. Rows(digests) /\ \A k \in DOMAIN digests : digests[k].confidence \in Ranks
    BY <1>2, <1>3, OneRow DEF Candidate, Ranks
  <1>5. PICK titles : titles = IF finding THEN <<"ksec.malware">> ELSE <<>>
    OBVIOUS
  <1>6. Rows(titles) /\ \A k \in DOMAIN titles : titles[k] \notin CheckNames
    <2>1. "ksec.malware" \notin CheckNames
      BY DEF CheckNames
    <2>2. Rows(<<>>) /\ DOMAIN <<>> = {}
      BY NoRows DEF BackedRows
    <2>3. CASE finding
      <3>1. titles = <<"ksec.malware">>
        BY <1>5, <2>3
      <3>2. QED
        BY <2>1, <3>1, OneRow
    <2>4. CASE ~ finding
      BY <1>5, <2>2, <2>4
    <2>5. QED
      BY <2>3, <2>4
  <1>7. PICK report : report = Reporting(titles, NONE)
    OBVIOUS
  <1>8. IsReport(report)
    BY <1>6, <1>7, EngagementsAssumption, ReportStage
  <1>9. PICK next : next = Registering(digests, "malware", noLinks, report)
    OBVIOUS
  <1>10. noLinks.actor \in actors \cup {NONE}
    BY DEF noLinks
  <1>11. IsRegistering(next) /\ next.at = "existed" /\ next.fresh = next.rows
    BY <1>4, <1>8, <1>9, <1>10, RegisteringStage
  <1>12. PICK s : s = [at |-> "capture", e |-> Len(evidence) + 1, next |-> next]
    OBVIOUS
  <1>13. /\ evidence' = Append(evidence, [engagement |-> NONE, altered |-> FALSE])
         /\ Starts(t, s)
    BY <1>2, <1>3, <1>5, <1>7, <1>9, <1>12 DEF MalwareAnalyze, AddEvidence
  <1>14. /\ DOMAIN s = {"at", "e", "next"} /\ s.at = "capture" /\ s.e = Len(evidence) + 1
         /\ s.next = next
    BY <1>12
  <1>15. Foreign(s) /\ IocStage(s) /\ IocQuiet(s)
    BY <1>11, <1>14 DEF Foreign, SocStages, IocStage, IocQuiet
  <1>16. Steps(t, s, {"capture"})
    BY <1>1, <1>13, <1>14, <1>15 DEF Steps, Turns, Starts, resting
  <1>17. Moves(t, s) /\ proc[t].at # "capture"
    BY <1>1, <1>13, <1>16, TurnsBeside DEF Steps, Starts, resting
  <1>18. EvidenceInv' /\ DOMAIN evidence \subseteq DOMAIN evidence'
    BY <1>1, <1>13, <1>14, <1>17, EvidenceAppends
  <1>19. IocInv'
    BY <1>1, <1>15, <1>17, IocStay
  <1>20. QED
    BY <1>16, <1>18, <1>19 DEF SampleMoves

LEMMA AnalysisSteps ==
  ASSUME SocTyped, FindingInv, EvidenceInv, IocInv, CheckInv, NEW t \in Terminals,
         AnalysisStep(t)
  PROVE  /\ UNCHANGED <<assets, forensicTables, exercises, shown>>
         /\ \/ CheckMoves(t) /\ UNCHANGED <<evidenceTables, iocs, actors, campaigns>>
            \/ ReportMoves(t) /\ UNCHANGED <<evidenceTables, twins>>
            \/ SampleMoves(t) /\ UNCHANGED <<findingTables, twins>>
  <1>1. CASE \/ \E target \in DOMAIN Server, g \in Engagements : VulnCheck(t, target, g)
             \/ FindDuplicate(t) \/ VulnDone(t)
    <2>1. CheckMoves(t)
      BY <1>1, CheckLooks
    <2>2. /\ UNCHANGED <<assets, forensicTables, exercises, shown>>
          /\ UNCHANGED <<evidenceTables, iocs, actors, campaigns>>
      BY <1>1 DEF VulnCheck, FindDuplicate, VulnDone, intelRecords, caseworkRecords,
                  evidenceTables, forensicTables
    <2>3. QED
      BY <2>1, <2>2
  <1>2. CASE RecordOutcome(t)
    <2>1. CheckMoves(t)
      BY <1>2, CheckRecords
    <2>2. /\ UNCHANGED <<assets, forensicTables, exercises, shown>>
          /\ UNCHANGED <<evidenceTables, iocs, actors, campaigns>>
      BY <1>2 DEF RecordOutcome, library
    <2>3. QED
      BY <2>1, <2>2
  <1>3. CASE \/ \E host \in Hosts : EndpointCheck(t, host)
             \/ \E matches \in Exploits, g \in Engagements : ExploitMap(t, matches, g)
    <2>1. ReportMoves(t)
      BY <1>3, ReportBegins
    <2>2. UNCHANGED <<assets, forensicTables, exercises, shown, evidenceTables, twins>>
      BY <1>3 DEF EndpointCheck, ExploitMap, intelRecords, caseworkRecords, evidenceTables,
                  forensicTables
    <2>3. QED
      BY <2>1, <2>2
  <1>4. CASE ReportFinding(t)
    <2>1. ReportMoves(t)
      BY <1>4, ReportWrites
    <2>2. UNCHANGED <<assets, forensicTables, exercises, shown, evidenceTables, twins>>
      BY <1>4 DEF ReportFinding, intelRecords
    <2>3. QED
      BY <2>1, <2>2
  <1>5. ASSUME NEW v, NEW finding \in BOOLEAN,
               MalwareAnalyze(t, <<Candidate("HASH", v, "high")>>, finding)
        PROVE  /\ SampleMoves(t)
               /\ UNCHANGED <<assets, forensicTables, exercises, shown, findingTables, twins>>
    <2>1. SampleMoves(t)
      BY <1>5, SampleStarts
    <2>2. UNCHANGED <<assets, forensicTables, exercises, shown, findingTables, twins>>
      BY <1>5 DEF MalwareAnalyze, intelRecords
    <2>3. QED
      BY <2>1, <2>2
  <1>6. QED
    BY <1>1, <1>2, <1>3, <1>4, <1>5 DEF AnalysisStep

-----------------------------------------------------------------------------
(***************************************************************************)
(* Commands that are cut short, reports and exports.                       *)
(***************************************************************************)

LEMMA InterruptedSteps ==
  ASSUME SocTyped, EvidenceInv, NEW t \in Terminals, Interrupted(t)
  PROVE  /\ Turns(t, resting) /\ EvidenceInv'
         /\ UNCHANGED <<evidence, findingTables, forensicTables, exercises, shown, socRecords>>
  <1>1. /\ Turns(t, resting) /\ cut' = cut \cup ({Capturing(t)} \ {0})
        /\ UNCHANGED <<evidence, custody, findingTables, forensicTables, exercises, shown>>
        /\ UNCHANGED socRecords
    BY DEF Interrupted, Turns
  <1>2. Moves(t, resting) /\ t \in Procs
    BY <1>1, RestingForeign, TurnsBeside
  <1>3. EvidenceInv'
    BY <1>1, <1>2, EvidenceCuts
  <1>4. QED
    BY <1>1, <1>3

\* What a report or an export does; it writes no table but that of the reports.
OutwardMoves(t) ==
  (\E s : Steps(t, s, OutwardPlaces \cup {"file"})) /\ OutwardInv' /\ ScreensOK'

\* Rows that claim nothing.
LEMMA PlainRow ==
  ASSUME NEW row, row.kind \notin {"remediation", "custody", "case", "extracted"}
  PROVE  Backed(row)
  BY DEF Backed

LEMMA OutwardMoved ==
  ASSUME SocTyped, OutwardInv, ScreensOK, NEW t \in Terminals, NEW s, UNCHANGED records,
         \/ Starts(t, s)
         \/ Goes(t, s) /\ UNCHANGED quiet /\ proc[t].at \in OutwardPlaces \cup {"file"},
         Foreign(s), s.at \in {"idle", "file"} \cup OutwardPlaces, OutwardStage(s),
         NEW list, shown' = shown \/ shown' = [shown EXCEPT ![t] = list],
         \A k \in DOMAIN list : Backed(list[k])
  PROVE  OutwardMoves(t)
  <1>1. UNCHANGED <<socRecords, cases, evidence>> /\ t \in Procs
    BY DEF records, socRecords, evidenceTables, Terminals
  <1>2. Steps(t, s, OutwardPlaces \cup {"file"})
    <2>1. Starts(t, s) => proc[t].at = "idle"
      BY DEF Starts, resting
    <2>2. \A at \in OutwardPlaces \cup {"file"} : at \notin SocStages \cup {"idle"}
      BY DEF OutwardPlaces, SocStages
    <2>3. QED
      BY <1>1, <2>1, <2>2 DEF Steps, Turns
  <1>3. Moves(t, s)
    BY <1>1, <1>2, TurnsBeside DEF Steps
  <1>4. LogsGrow
    BY <1>1, LogsKept
  <1>5. OutwardInv'
    BY <1>1, <1>3, <1>4, OutwardMove
  <1>6. ScreensOK'
    BY <1>1, ScreenMove
  <1>7. QED
    BY <1>2, <1>5, <1>6 DEF OutwardMoves

\* One screen of a command that reads, or of one that ends.
LEMMA OutwardShows ==
  ASSUME SocTyped, OutwardInv, ScreensOK, NEW t \in Terminals, UNCHANGED records,
         \/ Commands(t)
         \/ Goes(t, resting) /\ UNCHANGED quiet /\ proc[t].at \in OutwardPlaces \cup {"file"},
         NEW list, shown' = [shown EXCEPT ![t] = list], \A k \in DOMAIN list : Backed(list[k])
  PROVE  OutwardMoves(t)
  <1>1. PICK s : s = resting
    OBVIOUS
  <1>2. Foreign(s) /\ s.at = "idle" /\ OutwardStage(s)
    BY <1>1, RestingForeign DEF OutwardStage
  <1>3. \/ Starts(t, s)
        \/ Goes(t, s) /\ UNCHANGED quiet /\ proc[t].at \in OutwardPlaces \cup {"file"}
    BY <1>1 DEF Commands
  <1>4. QED
    BY <1>2, <1>3, OutwardMoved

\* A stage that goes on with its screen as it is.
LEMMA OutwardGoes ==
  ASSUME SocTyped, OutwardInv, ScreensOK, NEW t \in Terminals, NEW s, UNCHANGED <<records, shown>>,
         \/ Starts(t, s)
         \/ Goes(t, s) /\ UNCHANGED quiet /\ proc[t].at \in OutwardPlaces \cup {"file"},
         Foreign(s), s.at \in {"idle", "file"} \cup OutwardPlaces, OutwardStage(s)
  PROVE  OutwardMoves(t)
  <1>1. \A k \in DOMAIN <<>> : Backed(<<>>[k])
    BY NoRows DEF BackedRows
  <1>2. PICK list : list = <<>>
    OBVIOUS
  <1>3. \A k \in DOMAIN list : Backed(list[k])
    BY <1>1, <1>2
  <1>4. QED
    BY <1>3, OutwardMoved

LEMMA ReportQueries ==
  ASSUME SocTyped, OutwardInv, ScreensOK, NEW t \in Terminals,
         \/ \E g, format, then : Queries(t, g, format, then)
         \/ ReadTable(t)
  PROVE  OutwardMoves(t)
  <1>1. UNCHANGED <<records, shown>>
    BY DEF Queries, ReadTable
  <1>2. ASSUME NEW s, DOMAIN s = {"at", "todo", "then", "engagement", "format", "read"},
               s.at = "tables",
               \/ Starts(t, s)
               \/ Goes(t, s) /\ UNCHANGED quiet /\ proc[t].at = "tables"
        PROVE  OutwardMoves(t)
    <2>1. Foreign(s) /\ s.at \in OutwardPlaces /\ OutwardStage(s)
      BY <1>2 DEF Foreign, SocStages, OutwardPlaces, OutwardStage
    <2>2. \/ Starts(t, s)
          \/ Goes(t, s) /\ UNCHANGED quiet /\ proc[t].at \in OutwardPlaces \cup {"file"}
      BY <1>2 DEF OutwardPlaces
    <2>3. QED
      BY <1>1, <2>1, <2>2, OutwardGoes
  <1>3. ASSUME NEW g, NEW format, NEW then, Queries(t, g, format, then)
        PROVE  OutwardMoves(t)
    <2>1. PICK read : read = [findings |-> FindingList(g)]
      OBVIOUS
    <2>2. PICK s : s = [at |-> "tables", todo |-> <<"assets", "evidence", "cases">>,
                        then |-> then, engagement |-> g, format |-> format, read |-> read]
      OBVIOUS
    <2>3. Starts(t, s)
      BY <1>3, <2>1, <2>2 DEF Queries
    <2>4. QED
      BY <1>2, <2>2, <2>3
  <1>4. CASE ReadTable(t)
    <2>1. PICK name, column : /\ name = Head(proc[t].todo)
                              /\ column = [x \in {name} |-> Table(name, proc[t].engagement)]
      OBVIOUS
    <2>2. PICK read : read = proc[t].read @@ column
      OBVIOUS
    <2>3. PICK s : s = [proc[t] EXCEPT !.todo = Tail(@), !.read = read]
      OBVIOUS
    <2>4. proc[t].at = "tables" /\ UNCHANGED quiet /\ Goes(t, s)
      BY <1>4, <2>1, <2>2, <2>3 DEF ReadTable
    <2>5. DOMAIN proc[t] = {"at", "todo", "then", "engagement", "format", "read"}
      BY <2>4 DEF OutwardInv, OutwardStage, Terminals
    <2>6. DOMAIN s = {"at", "todo", "then", "engagement", "format", "read"} /\ s.at = "tables"
      BY <2>3, <2>4, <2>5
    <2>7. QED
      BY <1>2, <2>4, <2>6
  <1>5. QED
    BY <1>3, <1>4

LEMMA ReportScreens ==
  ASSUME SocTyped, OutwardInv, ScreensOK, NEW t \in Terminals,
         \/ Render(t) \/ WriteReport(t) \/ ReportList(t)
         \/ \E n, format : ReportExport(t, n, format)
         \/ \E n : ReportShow(t, n)
         \/ \E g : ExportAssets(t, g)
  PROVE  OutwardMoves(t)
  <1>1. ASSUME NEW row, row.kind \notin {"remediation", "custody", "case", "extracted"},
               UNCHANGED records, shown' = [shown EXCEPT ![t] = <<row>>],
               \/ Commands(t)
               \/ Goes(t, resting) /\ UNCHANGED quiet /\ proc[t].at \in {"tables", "file"}
        PROVE  OutwardMoves(t)
    <2>1. PICK list : list = <<row>>
      OBVIOUS
    <2>2. shown' = [shown EXCEPT ![t] = list] /\ \A k \in DOMAIN list : Backed(list[k])
      BY <1>1, <2>1, PlainRow, OneRow
    <2>3. \/ Commands(t)
          \/ Goes(t, resting) /\ UNCHANGED quiet /\ proc[t].at \in OutwardPlaces \cup {"file"}
      BY <1>1 DEF OutwardPlaces
    <2>4. QED
      BY <1>1, <2>2, <2>3, OutwardShows
  <1>2. CASE Render(t)
    <2>1. PICK content : content = IF proc[t].format = "html" THEN RenderHtml(proc[t].read)
                                   ELSE RenderMarkdown(proc[t].read)
      OBVIOUS
    <2>2. PICK row : row = [kind |-> "preview", content |-> content]
      OBVIOUS
    <2>3. /\ proc[t].at = "tables" /\ Goes(t, resting) /\ UNCHANGED <<records, quiet>>
          /\ shown' = [shown EXCEPT ![t] = <<row>>]
      BY <1>2, <2>1, <2>2 DEF Render
    <2>4. row.kind \notin {"remediation", "custody", "case", "extracted"}
      BY <2>2
    <2>5. QED
      BY <1>1, <2>3, <2>4
  <1>3. \A n, format : \E row : /\ File(n, format) = <<row>>
                                /\ row.kind \notin {"remediation", "custody", "case", "extracted"}
    <2>1. TAKE n, format
    <2>2. PICK row : row = [kind |-> "file", format |-> format, content |-> reports[n].content]
      OBVIOUS
    <2>3. File(n, format) = <<row>>
      BY <2>2 DEF File
    <2>4. row.kind \notin {"remediation", "custody", "case", "extracted"}
      BY <2>2
    <2>5. QED
      BY <2>3, <2>4
  <1>4. CASE WriteReport(t)
    <2>1. PICK row : /\ File(proc[t].report, proc[t].format) = <<row>>
                     /\ row.kind \notin {"remediation", "custody", "case", "extracted"}
      BY <1>3
    <2>2. /\ proc[t].at = "file" /\ Goes(t, resting) /\ UNCHANGED <<records, quiet>>
          /\ shown' = [shown EXCEPT ![t] = <<row>>]
      BY <1>4, <2>1 DEF WriteReport
    <2>3. QED
      BY <1>1, <2>1, <2>2
  <1>5. ASSUME NEW n, NEW format, ReportExport(t, n, format)
        PROVE  OutwardMoves(t)
    <2>1. PICK row : /\ File(n, format) = <<row>>
                     /\ row.kind \notin {"remediation", "custody", "case", "extracted"}
      BY <1>3
    <2>2. Commands(t) /\ UNCHANGED records /\ shown' = [shown EXCEPT ![t] = <<row>>]
      BY <1>5, <2>1 DEF ReportExport, Displays
    <2>3. QED
      BY <1>1, <2>1, <2>2
  <1>6. CASE ReportList(t)
    <2>1. PICK formats : formats = [k \in DOMAIN reports |-> reports[Len(reports) + 1 - k].format]
      OBVIOUS
    <2>2. PICK row : row = [kind |-> "reports", formats |-> formats]
      OBVIOUS
    <2>3. Commands(t) /\ UNCHANGED records /\ shown' = [shown EXCEPT ![t] = <<row>>]
      BY <1>6, <2>1, <2>2 DEF ReportList, Displays
    <2>4. row.kind \notin {"remediation", "custody", "case", "extracted"}
      BY <2>2
    <2>5. QED
      BY <1>1, <2>3, <2>4
  <1>7. ASSUME NEW n, ReportShow(t, n)
        PROVE  OutwardMoves(t)
    <2>1. PICK row : row = [kind |-> "report", content |-> reports[n].content]
      OBVIOUS
    <2>2. Commands(t) /\ UNCHANGED records /\ shown' = [shown EXCEPT ![t] = <<row>>]
      BY <1>7, <2>1 DEF ReportShow, Displays
    <2>3. row.kind \notin {"remediation", "custody", "case", "extracted"}
      BY <2>1
    <2>4. QED
      BY <1>1, <2>2, <2>3
  <1>8. ASSUME NEW g, ExportAssets(t, g)
        PROVE  OutwardMoves(t)
    <2>1. PICK row : row = [kind |-> "assets", rows |-> AssetList(g)]
      OBVIOUS
    <2>2. Commands(t) /\ UNCHANGED records /\ shown' = [shown EXCEPT ![t] = <<row>>]
      BY <1>8, <2>1 DEF ExportAssets, Displays
    <2>3. row.kind \notin {"remediation", "custody", "case", "extracted"}
      BY <2>1
    <2>4. QED
      BY <1>1, <2>2, <2>3
  <1>9. QED
    BY <1>2, <1>4, <1>5, <1>6, <1>7, <1>8

LEMMA ReportSteps ==
  ASSUME SocTyped, OutwardInv, ScreensOK, NEW t \in Terminals, ReportStep(t)
  PROVE  OutwardMoves(t) /\ UNCHANGED records
  <1>1. CASE Generate(t)
    <2>1. PICK s : s = IF proc[t].then = "row" THEN resting
                       ELSE [at |-> "file", report |-> Len(reports) + 1, format |-> proc[t].format]
      OBVIOUS
    <2>2. proc[t].at = "tables" /\ Goes(t, s) /\ UNCHANGED <<records, shown, quiet>>
      BY <1>1, <2>1 DEF Generate
    <2>3. Foreign(s) /\ s.at \in {"idle", "file"} /\ OutwardStage(s)
      BY <2>1 DEF Foreign, SocStages, OutwardStage, resting
    <2>4. Goes(t, s) /\ UNCHANGED quiet /\ proc[t].at \in OutwardPlaces \cup {"file"}
      BY <2>2 DEF OutwardPlaces
    <2>5. QED
      BY <2>2, <2>3, <2>4, OutwardGoes
  <1>2. UNCHANGED records
    BY DEF ReportStep, ReportPreview, ReportCreate, Queries, ReportShow, ReportExport, ReportList,
           Displays, ReadTable, Render, Generate, WriteReport
  <1>3. QED
    BY <1>1, <1>2, ReportQueries, ReportScreens DEF ReportStep, ReportPreview, ReportCreate

\* The first record of a piece of evidence is the first entry of its custody.
LEMMA CustodyFirst ==
  ASSUME EvidenceOK, NEW e, First(e)
  PROVE  1 \in DOMAIN CustodyLog(e) /\ CustodyLog(e)[1].state = "captured"
  <1>1. PICK k \in DOMAIN custody : /\ custody[k].evidence = e /\ custody[k].state = "captured"
                                    /\ \A j \in DOMAIN custody : j < k => custody[j].evidence # e
    BY DEF First
  <1>2. PICK S : S = {j \in DOMAIN custody : custody[j].evidence = e}
    OBVIOUS
  <1>3. PICK rows : rows = Listed(S)
    OBVIOUS
  <1>4. Rows(custody) /\ S \subseteq DOMAIN custody /\ k \in S
    BY <1>1, <1>2 DEF EvidenceOK
  <1>5. /\ S \subseteq Nat /\ 1 \in DOMAIN rows /\ rows[1] \in S
        /\ \A n \in S : rows[1] <= n
    BY <1>3, <1>4, PickedRows
  <1>6. rows[1] = k
    <2>1. rows[1] <= k /\ ~ (rows[1] < k)
      BY <1>1, <1>2, <1>4, <1>5
    <2>2. rows[1] \in Nat /\ k \in Nat
      BY <1>4, <1>5
    <2>3. QED
      BY <2>1, <2>2
  <1>7. CustodyLog(e) = [j \in DOMAIN rows |-> custody[rows[j]]]
    BY <1>2, <1>3 DEF CustodyLog
  <1>8. QED
    BY <1>1, <1>5, <1>6, <1>7

LEMMA ExportCases ==
  ASSUME SocTyped, OutwardInv, ScreensOK, TimelineInv, NEW t \in Terminals,
         \/ \E c \in DOMAIN cases : ExportCase(t, c)
         \/ ExportTimeline(t) \/ ExportRest(t)
  PROVE  OutwardMoves(t)
  <1>1. UNCHANGED records /\ OutwardStage(proc[t])
    BY DEF ExportCase, ExportTimeline, ExportRest, Exporting, Continues, WritesOut, OutwardInv,
           Terminals
  <1>2. ASSUME NEW c \in DOMAIN cases, ExportCase(t, c)
        PROVE  OutwardMoves(t)
    <2>1. PICK early : early = (cases[c].split \/ Logging(c))
      OBVIOUS
    <2>2. PICK s : s = [at |-> "case export", c |-> c, status |-> cases[c].status,
                        early |-> early]
      OBVIOUS
    <2>3. Starts(t, s) /\ UNCHANGED <<records, shown>>
      BY <1>2, <2>1, <2>2 DEF ExportCase, Exporting
    <2>4. ~ early => \E n \in DOMAIN cases[c].log : cases[c].log[n] = cases[c].status
      BY <2>1 DEF TimelineInv
    <2>5. /\ DOMAIN s = {"at", "c", "status", "early"} /\ s.at = "case export" /\ s.c = c
          /\ s.status = cases[c].status /\ s.early = early
      BY <2>2
    <2>6. Foreign(s) /\ s.at \in OutwardPlaces /\ OutwardStage(s)
      BY <2>4, <2>5 DEF Foreign, SocStages, OutwardPlaces, OutwardStage
    <2>7. QED
      BY <2>3, <2>6, OutwardGoes
  <1>3. CASE ExportTimeline(t)
    <2>1. PICK log : log = cases[proc[t].c].log
      OBVIOUS
    <2>2. PICK s : s = [at |-> "case rest", status |-> proc[t].status, early |-> proc[t].early,
                        log |-> log]
      OBVIOUS
    <2>3. /\ proc[t].at = "case export" /\ proc[t].at \in OutwardPlaces \cup {"file"}
          /\ Goes(t, s) /\ UNCHANGED <<records, shown, quiet>>
      BY <1>3, <2>1, <2>2 DEF ExportTimeline, Continues, OutwardPlaces
    <2>4. /\ DOMAIN proc[t] = {"at", "c", "status", "early"}
          /\ ~ proc[t].early => \E n \in DOMAIN log : log[n] = proc[t].status
      BY <1>1, <2>1, <2>3 DEF OutwardStage
    <2>5. /\ DOMAIN s = {"at", "status", "early", "log"} /\ s.at = "case rest"
          /\ s.status = proc[t].status /\ s.early = proc[t].early /\ s.log = log
      BY <2>2
    <2>6. Foreign(s) /\ s.at \in OutwardPlaces /\ OutwardStage(s)
      BY <2>4, <2>5 DEF Foreign, SocStages, OutwardPlaces, OutwardStage
    <2>7. QED
      BY <2>3, <2>6, OutwardGoes
  <1>4. CASE ExportRest(t)
    <2>1. PICK row : row = [kind |-> "case", status |-> proc[t].status, early |-> proc[t].early,
                            log |-> proc[t].log, evidence |-> EvidenceList(NONE),
                            iocs |-> Len(iocs)]
      OBVIOUS
    <2>2. PICK list : list = <<row>>
      OBVIOUS
    <2>3. /\ proc[t].at = "case rest" /\ proc[t].at \in OutwardPlaces \cup {"file"}
          /\ Goes(t, resting) /\ UNCHANGED quiet /\ shown' = [shown EXCEPT ![t] = list]
      BY <1>4, <2>1, <2>2 DEF ExportRest, WritesOut, OutwardPlaces
    <2>4. ~ proc[t].early => \E n \in DOMAIN proc[t].log : proc[t].log[n] = proc[t].status
      BY <1>1, <2>3 DEF OutwardStage
    <2>5. Backed(row)
      BY <2>1, <2>4 DEF Backed
    <2>6. \A k \in DOMAIN list : Backed(list[k])
      BY <2>2, <2>5, OneRow
    <2>7. QED
      BY <1>1, <2>3, <2>6, OutwardShows
  <1>5. QED
    BY <1>2, <1>3, <1>4

LEMMA ExportLists ==
  ASSUME SocTyped, EvidenceInv, OutwardInv, ScreensOK, NEW t \in Terminals,
         \/ \E g : ExportFindings(t, g) \/ ExportEvidence(t, g)
         \/ ExportRemediations(t) \/ ExportCustody(t) \/ ExportDone(t)
  PROVE  OutwardMoves(t)
  <1>1. UNCHANGED records /\ OutwardStage(proc[t]) /\ EvidenceOK /\ CustodyBegins
    BY DEF ExportFindings, ExportEvidence, ExportRemediations, ExportCustody, ExportDone,
           Exporting, Continues, WritesOut, OutwardInv, EvidenceInv, Terminals
  <1>2. ASSUME NEW s, DOMAIN s = {"at", "todo", "done"}, BackedRows(s.done),
               s.at \in {"finding export", "evidence export"},
               s.at = "evidence export" =>
                 Rows(s.todo) /\ \A k \in DOMAIN s.todo : s.todo[k] \in DOMAIN evidence,
               \/ Starts(t, s)
               \/ /\ Goes(t, s) /\ UNCHANGED quiet
                  /\ proc[t].at \in {"finding export", "evidence export"},
               UNCHANGED shown
        PROVE  OutwardMoves(t)
    <2>1. Foreign(s) /\ s.at \in OutwardPlaces /\ OutwardStage(s)
      BY <1>2 DEF Foreign, SocStages, OutwardPlaces, OutwardStage
    <2>2. \/ Starts(t, s)
          \/ Goes(t, s) /\ UNCHANGED quiet /\ proc[t].at \in OutwardPlaces \cup {"file"}
      BY <1>2 DEF OutwardPlaces
    <2>3. QED
      BY <1>1, <1>2, <2>1, <2>2, OutwardGoes
  <1>3. ASSUME NEW g, ExportFindings(t, g)
        PROVE  OutwardMoves(t)
    <2>1. PICK s : s = [at |-> "finding export", todo |-> FindingList(g), done |-> <<>>]
      OBVIOUS
    <2>2. Starts(t, s) /\ UNCHANGED shown
      BY <1>3, <2>1 DEF ExportFindings, Exporting
    <2>3. DOMAIN s = {"at", "todo", "done"} /\ s.done = <<>> /\ s.at = "finding export"
      BY <2>1
    <2>4. QED
      BY <1>2, <2>2, <2>3, NoRows
  <1>4. ASSUME NEW g, ExportEvidence(t, g)
        PROVE  OutwardMoves(t)
    <2>1. PICK todo : todo = EvidenceList(g)
      OBVIOUS
    <2>2. PICK S : S = {n \in DOMAIN evidence : g \in {NONE, evidence[n].engagement}}
      OBVIOUS
    <2>3. todo = Listed(S)
      BY <2>1, <2>2 DEF EvidenceList, RowsOf
    <2>4. Rows(todo) /\ \A k \in DOMAIN todo : todo[k] \in DOMAIN evidence
      <3>1. Rows(evidence) /\ S \subseteq DOMAIN evidence
        BY <1>1, <2>2 DEF EvidenceOK
      <3>2. QED
        BY <2>3, <3>1, PickedRows
    <2>5. PICK s : s = [at |-> "evidence export", todo |-> todo, done |-> <<>>]
      OBVIOUS
    <2>6. Starts(t, s) /\ UNCHANGED shown
      BY <1>4, <2>1, <2>5 DEF ExportEvidence, Exporting
    <2>7. /\ DOMAIN s = {"at", "todo", "done"} /\ s.done = <<>> /\ s.todo = todo
          /\ s.at = "evidence export"
      BY <2>5
    <2>8. QED
      BY <1>2, <2>4, <2>6, <2>7, NoRows
  <1>5. CASE ExportRemediations(t)
    <2>1. PICK statuses : statuses = {remediations[r].status : r \in
            {r \in DOMAIN remediations : remediations[r].finding = Head(proc[t].todo).id}}
      OBVIOUS
    <2>2. PICK row : row = [kind |-> "finding", status |-> Head(proc[t].todo).status,
                            remediations |-> statuses]
      OBVIOUS
    <2>3. PICK s : s = [proc[t] EXCEPT !.todo = Tail(@), !.done = Append(@, row)]
      OBVIOUS
    <2>4. /\ proc[t].at = "finding export" /\ Goes(t, s) /\ UNCHANGED <<shown, quiet>>
      BY <1>5, <2>1, <2>2, <2>3 DEF ExportRemediations, Continues
    <2>5. DOMAIN proc[t] = {"at", "todo", "done"} /\ BackedRows(proc[t].done)
      BY <1>1, <2>4 DEF OutwardStage
    <2>6. /\ DOMAIN s = {"at", "todo", "done"} /\ s.at = "finding export"
          /\ s.done = Append(proc[t].done, row)
      BY <2>3, <2>4, <2>5
    <2>7. Backed(row)
      BY <2>2, PlainRow
    <2>8. BackedRows(s.done)
      BY <2>5, <2>6, <2>7, MoreRows
    <2>9. QED
      BY <1>2, <2>4, <2>6, <2>8
  <1>6. CASE ExportCustody(t)
    <2>1. PICK e, early : /\ e = Head(proc[t].todo)
                          /\ early = (e \in cut \/ \E p \in Procs : Capturing(p) = e)
      OBVIOUS
    <2>2. PICK chain : chain = [k \in DOMAIN CustodyLog(e) |-> CustodyLog(e)[k].state]
      OBVIOUS
    <2>3. PICK row : row = [kind |-> "custody", evidence |-> e, early |-> early, chain |-> chain]
      OBVIOUS
    <2>4. PICK s : s = [proc[t] EXCEPT !.todo = Tail(@), !.done = Append(@, row)]
      OBVIOUS
    <2>5. /\ proc[t].at = "evidence export" /\ proc[t].todo # <<>>
          /\ Goes(t, s) /\ UNCHANGED <<shown, quiet>>
      BY <1>6, <2>1, <2>2, <2>3, <2>4 DEF ExportCustody, Continues
    <2>6. /\ DOMAIN proc[t] = {"at", "todo", "done"} /\ BackedRows(proc[t].done)
          /\ Rows(proc[t].todo)
          /\ \A k \in DOMAIN proc[t].todo : proc[t].todo[k] \in DOMAIN evidence
      BY <1>1, <2>5 DEF OutwardStage
    <2>7. /\ DOMAIN s = {"at", "todo", "done"} /\ s.at = "evidence export"
          /\ s.done = Append(proc[t].done, row) /\ s.todo = Tail(proc[t].todo)
      BY <2>4, <2>5, <2>6
    <2>8. PICK todo : todo = proc[t].todo
      OBVIOUS
    <2>9. /\ e \in DOMAIN evidence /\ Rows(Tail(todo))
          /\ \A k \in DOMAIN Tail(todo) : Tail(todo)[k] \in DOMAIN evidence
      <3>1. /\ e = Head(todo) /\ todo # <<>> /\ Rows(todo)
            /\ \A k \in DOMAIN todo : todo[k] \in DOMAIN evidence
        BY <2>1, <2>5, <2>6, <2>8
      <3>2. QED
        BY <3>1, TailRows
    <2>10. Backed(row)
      <3>1. ~ early => First(e)
        BY <1>1, <2>1, <2>9 DEF CustodyBegins
      <3>2. ~ early => chain # <<>> /\ chain[1] = "captured"
        <4>1. ~ early => 1 \in DOMAIN chain /\ chain[1] = "captured"
          BY <1>1, <2>2, <3>1, CustodyFirst
        <4>2. DOMAIN <<>> = {}
          BY NoRows DEF BackedRows
        <4>3. QED
          BY <4>1, <4>2
      <3>3. QED
        BY <2>3, <3>2 DEF Backed
    <2>11. BackedRows(s.done)
      BY <2>6, <2>7, <2>10, MoreRows
    <2>12. QED
      BY <1>2, <2>5, <2>7, <2>8, <2>9, <2>11
  <1>7. CASE ExportDone(t)
    <2>1. PICK list : list = proc[t].done
      OBVIOUS
    <2>2. /\ proc[t].at \in {"finding export", "evidence export"} /\ Goes(t, resting)
          /\ shown' = [shown EXCEPT ![t] = list] /\ UNCHANGED quiet
      BY <1>7, <2>1 DEF ExportDone, WritesOut
    <2>3. \A k \in DOMAIN list : Backed(list[k])
      BY <1>1, <2>1, <2>2 DEF OutwardStage, BackedRows
    <2>4. proc[t].at \in OutwardPlaces \cup {"file"}
      BY <2>2 DEF OutwardPlaces
    <2>5. QED
      BY <1>1, <2>2, <2>3, <2>4, OutwardShows
  <1>8. QED
    BY <1>3, <1>4, <1>5, <1>6, <1>7

LEMMA ExportSteps ==
  ASSUME SocTyped, EvidenceInv, OutwardInv, ScreensOK, TimelineInv, NEW t \in Terminals,
         ExportStep(t)
  PROVE  OutwardMoves(t) /\ UNCHANGED records
  <1>1. UNCHANGED records
    BY DEF ExportStep, ExportFindings, ExportEvidence, ExportAssets, ExportCase, ExportTimeline,
           ExportRest, ExportRemediations, ExportCustody, ExportDone, Exporting, Continues,
           WritesOut, Displays
  <1>2. QED
    BY <1>1, ReportScreens, ExportCases, ExportLists DEF ExportStep
-----------------------------------------------------------------------------
(***************************************************************************)
(* The families together.                                                  *)
(***************************************************************************)

LEMMA StepsBeside ==
  ASSUME SocTyped, NEW t \in Terminals, NEW s, NEW places, Steps(t, s, places)
  PROVE  /\ Beside(t, s) /\ Moves(t, s) /\ t \in Procs /\ LogsGrow
         /\ s.at \in {"idle"} \cup places /\ proc[t].at \in {"idle"} \cup places
  <1>1. Turns(t, s) /\ Foreign(s) /\ UNCHANGED socRecords
    BY DEF Steps
  <1>2. Beside(t, s) /\ Moves(t, s) /\ t \in Procs
    BY <1>1, TurnsBeside
  <1>3. QED
    BY <1>1, <1>2, LogsKept DEF Steps, socRecords

LEMMA TablesKept ==
  /\ UNCHANGED findingTables => ChecksKept
  /\ UNCHANGED evidenceTables => DOMAIN evidence \subseteq DOMAIN evidence'
  /\ UNCHANGED twins => twins \subseteq twins'
  /\ UNCHANGED intelRecords => UNCHANGED <<iocs, actors, campaigns, assets, twins>>
  /\ UNCHANGED shown /\ ScreensOK => ScreensOK'
  BY DEF ChecksKept, findingTables, evidenceTables, intelRecords, ScreensOK, Backed

LEMMA SocSecure ==
  ASSUME SocTyped, SecurityInv, [SocNext]_socVars, UNCHANGED <<caseworkRecords, intelRecords>>
  PROVE  SecurityInv'
  <1>1. PICK p, s : LogsGrow /\ SocMove(p, s)
    BY SocSteps
  <1>2. p \in Procs /\ Moves(p, s) /\ proc[p].at \in SocPlaces /\ s.at \in SocPlaces
    BY <1>1 DEF SocMove
  <1>3. /\ proc[p].at # "capture"
        /\ s.at \notin FindingPlaces \cup EvidencePlaces \cup ForensicPlaces \cup ExercisePlaces
        /\ s.at \notin IocPlaces \cup AssetPlaces \cup CheckPlaces \cup OutwardPlaces
    BY <1>2 DEF SocPlaces, SocStages, FindingPlaces, EvidencePlaces, ForensicPlaces,
       ExercisePlaces, IocPlaces, AssetPlaces, CheckPlaces, OutwardPlaces
  <1>4. UNCHANGED <<findingTables, evidenceTables, forensicTables, exercises, shown>>
    BY DEF caseworkRecords, findingTables, evidenceTables, forensicTables
  <1>5. ScreensOK
    BY DEF SecurityInv
  <1>6. QED
    BY <1>1, <1>2, <1>3, <1>4, <1>5, TablesKept, Elsewhere DEF SecurityInv

LEMMA FindingSecure ==
  ASSUME SocTyped, SecurityInv, NEW t \in Terminals, FindingStep(t), UNCHANGED intelRecords
  PROVE  SecurityInv' /\ \E s : Beside(t, s)
  <1>1. FindingMoves(t) /\ UNCHANGED <<evidenceTables, forensicTables, exercises>>
    BY FindingSteps DEF SecurityInv
  <1>2. PICK s : Steps(t, s, FindingPlaces)
    BY <1>1 DEF FindingMoves
  <1>3. /\ Beside(t, s) /\ Moves(t, s) /\ t \in Procs /\ LogsGrow
        /\ s.at \in {"idle"} \cup FindingPlaces /\ proc[t].at \in {"idle"} \cup FindingPlaces
    BY <1>2, StepsBeside
  <1>4. /\ proc[t].at # "capture"
        /\ s.at \notin EvidencePlaces \cup ForensicPlaces \cup ExercisePlaces
        /\ s.at \notin IocPlaces \cup AssetPlaces \cup CheckPlaces \cup OutwardPlaces
    BY <1>3 DEF FindingPlaces, EvidencePlaces, ForensicPlaces,
       ExercisePlaces, IocPlaces, AssetPlaces, CheckPlaces, OutwardPlaces
  <1>5. FindingInv' /\ ScreensOK' /\ ChecksKept
    BY <1>1 DEF FindingMoves
  <1>6. QED
    BY <1>1, <1>3, <1>4, <1>5, TablesKept, Elsewhere DEF SecurityInv

LEMMA EvidenceSecure ==
  ASSUME SocTyped, SecurityInv, NEW t \in Terminals, EvidenceStep(t), UNCHANGED intelRecords
  PROVE  SecurityInv' /\ \E s : Beside(t, s)
  <1>1. EvidenceInv /\ IocInv /\ ScreensOK
    BY DEF SecurityInv
  <1>2. UNCHANGED <<findingTables, forensicTables, exercises, shown>>
    BY <1>1, EvidenceSteps
  <1>3. PICK s : EvidenceMoves(t, s)
    BY <1>1, EvidenceSteps
  <1>4. /\ Steps(t, s, EvidencePlaces \cup {"existed"}) /\ IocStage(s) /\ IocQuiet(s)
        /\ EvidenceInv' /\ DOMAIN evidence \subseteq DOMAIN evidence'
    BY <1>3 DEF EvidenceMoves
  <1>5. /\ Beside(t, s) /\ Moves(t, s) /\ t \in Procs /\ LogsGrow
        /\ s.at \in {"idle"} \cup EvidencePlaces \cup {"existed"}
    <2>1. s.at \in {"idle"} \cup (EvidencePlaces \cup {"existed"})
      BY <1>4, StepsBeside
    <2>2. QED
      BY <1>4, <2>1, StepsBeside
  <1>6. /\ s.at \notin FindingPlaces \cup ForensicPlaces \cup ExercisePlaces
        /\ s.at \notin AssetPlaces \cup CheckPlaces \cup OutwardPlaces
    BY <1>5 DEF FindingPlaces, EvidencePlaces, ForensicPlaces,
       ExercisePlaces, AssetPlaces, CheckPlaces, OutwardPlaces
  <1>7. IocInv'
    BY <1>1, <1>4, <1>5, TablesKept, IocStay
  <1>8. QED
    BY <1>1, <1>2, <1>4, <1>5, <1>6, <1>7, TablesKept, Elsewhere DEF SecurityInv

LEMMA AlterSecure ==
  ASSUME SocTyped, SecurityInv, NEW e \in DOMAIN evidence, Alter(e), UNCHANGED intelRecords
  PROVE  SecurityInv'
  <1>1. /\ EvidenceInv' /\ DOMAIN evidence' = DOMAIN evidence
        /\ UNCHANGED <<findingTables, forensicTables, exercises, shown, socVars>>
    BY AlterSteps DEF SecurityInv
  <1>2. UNCHANGED <<proc, quiet, cases>>
    BY <1>1 DEF socVars, deskVars, socRecords
  <1>3. PICK s : s = proc[Feeder]
    OBVIOUS
  <1>4. Feeder \in Procs /\ Moves(Feeder, s) /\ s.at \in SocPlaces
    BY <1>2, <1>3, Standing DEF SocMove
  <1>5. /\ s.at \notin FindingPlaces \cup EvidencePlaces \cup ForensicPlaces \cup ExercisePlaces
        /\ s.at \notin IocPlaces \cup AssetPlaces \cup CheckPlaces \cup OutwardPlaces
    BY <1>4 DEF SocPlaces, SocStages, FindingPlaces, EvidencePlaces, ForensicPlaces,
       ExercisePlaces, IocPlaces, AssetPlaces, CheckPlaces, OutwardPlaces
  <1>6. LogsGrow
    BY <1>2, LogsKept
  <1>7. QED
    BY <1>1, <1>4, <1>5, <1>6, TablesKept, Elsewhere DEF SecurityInv

LEMMA ForensicSecure ==
  ASSUME SocTyped, SecurityInv, NEW t \in Terminals, ForensicStep(t), UNCHANGED intelRecords
  PROVE  SecurityInv' /\ \E s : Beside(t, s)
  <1>1. ForensicMoves(t) /\ UNCHANGED <<findingTables, evidenceTables, exercises>>
    BY ForensicSteps DEF SecurityInv
  <1>2. PICK s : Steps(t, s, ForensicPlaces)
    BY <1>1 DEF ForensicMoves
  <1>3. /\ Beside(t, s) /\ Moves(t, s) /\ t \in Procs /\ LogsGrow
        /\ s.at \in {"idle"} \cup ForensicPlaces /\ proc[t].at \in {"idle"} \cup ForensicPlaces
    BY <1>2, StepsBeside
  <1>4. /\ proc[t].at # "capture"
        /\ s.at \notin FindingPlaces \cup EvidencePlaces \cup ExercisePlaces
        /\ s.at \notin IocPlaces \cup AssetPlaces \cup CheckPlaces \cup OutwardPlaces
    BY <1>3 DEF FindingPlaces, EvidencePlaces, ForensicPlaces,
       ExercisePlaces, IocPlaces, AssetPlaces, CheckPlaces, OutwardPlaces
  <1>5. ForensicInv' /\ ScreensOK'
    BY <1>1 DEF ForensicMoves
  <1>6. QED
    BY <1>1, <1>3, <1>4, <1>5, TablesKept, Elsewhere DEF SecurityInv

LEMMA ExerciseSecure ==
  ASSUME SocTyped, SecurityInv, NEW t \in Terminals, ExerciseStep(t), UNCHANGED intelRecords
  PROVE  SecurityInv' /\ \E s : Beside(t, s)
  <1>1. ExerciseMoves(t) /\ UNCHANGED <<findingTables, evidenceTables, forensicTables>>
    BY ExerciseSteps DEF SecurityInv
  <1>2. PICK s : Steps(t, s, ExercisePlaces)
    BY <1>1 DEF ExerciseMoves
  <1>3. /\ Beside(t, s) /\ Moves(t, s) /\ t \in Procs /\ LogsGrow
        /\ s.at \in {"idle"} \cup ExercisePlaces /\ proc[t].at \in {"idle"} \cup ExercisePlaces
    BY <1>2, StepsBeside
  <1>4. /\ proc[t].at # "capture"
        /\ s.at \notin FindingPlaces \cup EvidencePlaces \cup ForensicPlaces
        /\ s.at \notin IocPlaces \cup AssetPlaces \cup CheckPlaces \cup OutwardPlaces
    BY <1>3 DEF FindingPlaces, EvidencePlaces, ForensicPlaces,
       ExercisePlaces, IocPlaces, AssetPlaces, CheckPlaces, OutwardPlaces
  <1>5. ExerciseInv' /\ ScreensOK'
    BY <1>1 DEF ExerciseMoves
  <1>6. QED
    BY <1>1, <1>3, <1>4, <1>5, TablesKept, Elsewhere DEF SecurityInv

LEMMA InterruptedSecure ==
  ASSUME SocTyped, SecurityInv, NEW t \in Terminals, Interrupted(t), UNCHANGED intelRecords
  PROVE  SecurityInv' /\ \E s : Beside(t, s)
  <1>1. /\ Turns(t, resting) /\ EvidenceInv'
        /\ UNCHANGED <<evidence, findingTables, forensicTables, exercises, shown, socRecords>>
    BY InterruptedSteps DEF SecurityInv
  <1>2. PICK s : s = resting
    OBVIOUS
  <1>3. Turns(t, s) /\ Foreign(s) /\ s.at = "idle"
    BY <1>1, <1>2, RestingForeign
  <1>4. Beside(t, s) /\ Moves(t, s) /\ t \in Procs /\ LogsGrow
    BY <1>1, <1>3, TurnsBeside, LogsKept DEF socRecords
  <1>5. /\ s.at \notin FindingPlaces \cup EvidencePlaces \cup ForensicPlaces \cup ExercisePlaces
        /\ s.at \notin IocPlaces \cup AssetPlaces \cup CheckPlaces \cup OutwardPlaces
    BY <1>3 DEF FindingPlaces, EvidencePlaces, ForensicPlaces,
       ExercisePlaces, IocPlaces, AssetPlaces, CheckPlaces, OutwardPlaces
  <1>6. QED
    BY <1>1, <1>4, <1>5, TablesKept, Elsewhere DEF SecurityInv

LEMMA IocSecure ==
  ASSUME SocTyped, SecurityInv, NEW t \in Terminals, IocStep(t) \/ LibraryStep(t)
  PROVE  SecurityInv' /\ \E s : Beside(t, s)
  <1>1. IocMoves(t) /\ UNCHANGED <<assets, twins, findingTables, evidenceTables,
                                   forensicTables, exercises>>
    BY IocSteps, LibrarySteps DEF SecurityInv
  <1>2. PICK s : Steps(t, s, IocPlaces \ {"capture"})
    BY <1>1 DEF IocMoves
  <1>3. /\ Beside(t, s) /\ Moves(t, s) /\ t \in Procs /\ LogsGrow
        /\ s.at \in {"idle"} \cup (IocPlaces \ {"capture"})
        /\ proc[t].at \in {"idle"} \cup (IocPlaces \ {"capture"})
    BY <1>2, StepsBeside
  <1>4. /\ proc[t].at # "capture"
        /\ s.at \notin FindingPlaces \cup EvidencePlaces \cup ForensicPlaces \cup ExercisePlaces
        /\ s.at \notin AssetPlaces \cup CheckPlaces \cup OutwardPlaces
    BY <1>3 DEF FindingPlaces, EvidencePlaces, ForensicPlaces,
       ExercisePlaces, IocPlaces, AssetPlaces, CheckPlaces, OutwardPlaces
  <1>5. IocInv' /\ ScreensOK'
    BY <1>1 DEF IocMoves
  <1>6. QED
    BY <1>1, <1>3, <1>4, <1>5, TablesKept, Elsewhere DEF SecurityInv

LEMMA AssetSecure ==
  ASSUME SocTyped, SecurityInv, NEW t \in Terminals, AssetStep(t)
  PROVE  SecurityInv' /\ \E s : Beside(t, s)
  <1>1. AssetMoves(t) /\ UNCHANGED <<iocs, actors, campaigns, caseworkRecords>>
    BY AssetSteps DEF SecurityInv
  <1>2. PICK s : Steps(t, s, AssetPlaces)
    BY <1>1 DEF AssetMoves
  <1>3. /\ Beside(t, s) /\ Moves(t, s) /\ t \in Procs /\ LogsGrow
        /\ s.at \in {"idle"} \cup AssetPlaces /\ proc[t].at \in {"idle"} \cup AssetPlaces
    BY <1>2, StepsBeside
  <1>4. /\ proc[t].at # "capture"
        /\ s.at \notin FindingPlaces \cup EvidencePlaces \cup ForensicPlaces \cup ExercisePlaces
        /\ s.at \notin IocPlaces \cup CheckPlaces \cup OutwardPlaces
    BY <1>3 DEF FindingPlaces, EvidencePlaces, ForensicPlaces,
       ExercisePlaces, IocPlaces, AssetPlaces, CheckPlaces, OutwardPlaces
  <1>5. UNCHANGED <<findingTables, evidenceTables, forensicTables, exercises, shown>>
    BY <1>1 DEF caseworkRecords, findingTables, evidenceTables, forensicTables
  <1>6. AssetInv' /\ twins \subseteq twins' /\ ScreensOK
    BY <1>1 DEF AssetMoves, SecurityInv
  <1>7. QED
    BY <1>1, <1>3, <1>4, <1>5, <1>6, TablesKept, Elsewhere DEF SecurityInv

LEMMA AnalysisSecure ==
  ASSUME SocTyped, SecurityInv, NEW t \in Terminals, AnalysisStep(t)
  PROVE  SecurityInv' /\ \E s : Beside(t, s)
  <1>1. FindingInv /\ EvidenceInv /\ IocInv /\ CheckInv /\ ScreensOK
    BY DEF SecurityInv
  <1>2. /\ UNCHANGED <<assets, forensicTables, exercises>> /\ ScreensOK'
        /\ \/ CheckMoves(t) /\ UNCHANGED <<evidenceTables, iocs, actors, campaigns>>
           \/ ReportMoves(t) /\ UNCHANGED <<evidenceTables, twins>>
           \/ SampleMoves(t) /\ UNCHANGED <<findingTables, twins>>
    BY <1>1, AnalysisSteps, TablesKept
  <1>3. CASE CheckMoves(t) /\ UNCHANGED <<evidenceTables, iocs, actors, campaigns>>
    <2>1. PICK s : Steps(t, s, CheckPlaces)
      BY <1>3 DEF CheckMoves
    <2>2. /\ Beside(t, s) /\ Moves(t, s) /\ t \in Procs /\ LogsGrow
          /\ s.at \in {"idle"} \cup CheckPlaces /\ proc[t].at \in {"idle"} \cup CheckPlaces
      BY <2>1, StepsBeside
    <2>3. /\ proc[t].at # "capture"
          /\ s.at \notin EvidencePlaces \cup ForensicPlaces \cup ExercisePlaces
          /\ s.at \notin IocPlaces \cup AssetPlaces \cup OutwardPlaces
      BY <2>2 DEF EvidencePlaces, ForensicPlaces,
         ExercisePlaces, IocPlaces, AssetPlaces, CheckPlaces, OutwardPlaces
    <2>4. CheckInv' /\ FindingInv' /\ twins \subseteq twins'
      BY <1>3 DEF CheckMoves
    <2>5. QED
      BY <1>2, <1>3, <2>2, <2>3, <2>4, TablesKept, Elsewhere DEF SecurityInv
  <1>4. CASE ReportMoves(t) /\ UNCHANGED <<evidenceTables, twins>>
    <2>1. PICK s : Steps(t, s, {"report"})
      BY <1>4 DEF ReportMoves
    <2>2. /\ Beside(t, s) /\ Moves(t, s) /\ t \in Procs /\ LogsGrow
          /\ s.at \in {"idle"} \cup {"report"} /\ proc[t].at \in {"idle"} \cup {"report"}
      BY <2>1, StepsBeside
    <2>3. /\ proc[t].at # "capture"
          /\ s.at \notin EvidencePlaces \cup ForensicPlaces \cup ExercisePlaces
          /\ s.at \notin AssetPlaces \cup CheckPlaces \cup OutwardPlaces
      BY <2>2 DEF EvidencePlaces, ForensicPlaces,
         ExercisePlaces, AssetPlaces, CheckPlaces, OutwardPlaces
    <2>4. IocInv' /\ FindingInv' /\ ChecksKept
      BY <1>4 DEF ReportMoves
    <2>5. QED
      BY <1>2, <1>4, <2>2, <2>3, <2>4, TablesKept, Elsewhere DEF SecurityInv
  <1>5. CASE SampleMoves(t) /\ UNCHANGED <<findingTables, twins>>
    <2>1. PICK s : Steps(t, s, {"capture"})
      BY <1>5 DEF SampleMoves
    <2>2. /\ Beside(t, s) /\ Moves(t, s) /\ t \in Procs /\ LogsGrow
          /\ s.at \in {"idle"} \cup {"capture"}
      BY <2>1, StepsBeside
    <2>3. /\ s.at \notin FindingPlaces \cup ForensicPlaces \cup ExercisePlaces
          /\ s.at \notin AssetPlaces \cup CheckPlaces \cup OutwardPlaces
      BY <2>2 DEF FindingPlaces, ForensicPlaces,
         ExercisePlaces, AssetPlaces, CheckPlaces, OutwardPlaces
    <2>4. IocInv' /\ EvidenceInv' /\ DOMAIN evidence \subseteq DOMAIN evidence'
      BY <1>5 DEF SampleMoves
    <2>5. QED
      BY <1>2, <1>5, <2>2, <2>3, <2>4, TablesKept, Elsewhere DEF SecurityInv
  <1>6. QED
    BY <1>2, <1>3, <1>4, <1>5

LEMMA OutwardSecure ==
  ASSUME SocTyped, SecurityInv, TimelineInv, NEW t \in Terminals, ReportStep(t) \/ ExportStep(t)
  PROVE  SecurityInv' /\ \E s : Beside(t, s)
  <1>1. OutwardMoves(t) /\ UNCHANGED records
    BY ReportSteps, ExportSteps DEF SecurityInv
  <1>2. PICK s : Steps(t, s, OutwardPlaces \cup {"file"})
    BY <1>1 DEF OutwardMoves
  <1>3. /\ Beside(t, s) /\ Moves(t, s) /\ t \in Procs /\ LogsGrow
        /\ s.at \in {"idle"} \cup (OutwardPlaces \cup {"file"})
        /\ proc[t].at \in {"idle"} \cup (OutwardPlaces \cup {"file"})
    BY <1>2, StepsBeside
  <1>4. /\ proc[t].at # "capture"
        /\ s.at \notin FindingPlaces \cup EvidencePlaces \cup ForensicPlaces \cup ExercisePlaces
        /\ s.at \notin IocPlaces \cup AssetPlaces \cup CheckPlaces
    BY <1>3 DEF FindingPlaces, EvidencePlaces, ForensicPlaces,
       ExercisePlaces, IocPlaces, AssetPlaces, CheckPlaces, OutwardPlaces
  <1>5. UNCHANGED <<intelRecords, findingTables, evidenceTables, forensicTables, exercises>>
    BY <1>1 DEF records
  <1>6. OutwardInv' /\ ScreensOK'
    BY <1>1 DEF OutwardMoves
  <1>7. QED
    BY <1>3, <1>4, <1>5, <1>6, TablesKept, Elsewhere DEF SecurityInv

LEMMA SecurityStep ==
  ASSUME SocTyped, TimelineInv, SecurityInv, [ReportingNext]_reportVars
  PROVE  /\ SecurityInv'
         /\ [SocNext]_socVars \/ \E t \in Terminals : \E s : Beside(t, s)
  <1>1. CASE UNCHANGED reportVars
    <2>1. UNCHANGED <<socVars, caseworkRecords, intelRecords>>
      BY <1>1 DEF reportVars, intelVars, caseworkVars
    <2>2. QED
      BY <2>1, SocSecure
  <1>2. ASSUME CaseworkNext, UNCHANGED intelRecords
        PROVE  /\ SecurityInv'
               /\ [SocNext]_socVars \/ \E t \in Terminals : \E s : Beside(t, s)
    <2>1. CASE SocNext /\ UNCHANGED caseworkRecords
      BY <1>2, <2>1, SocSecure
    <2>2. CASE \E e \in DOMAIN evidence : Alter(e)
      BY <1>2, <2>2, AlterSecure DEF Alter
    <2>3. ASSUME NEW t \in Terminals, \/ FindingStep(t) \/ EvidenceStep(t) \/ ForensicStep(t)
                                      \/ ExerciseStep(t) \/ Interrupted(t)
          PROVE  SecurityInv' /\ \E s : Beside(t, s)
      BY <1>2, <2>3, FindingSecure, EvidenceSecure, ForensicSecure, ExerciseSecure,
         InterruptedSecure
    <2>4. QED
      BY <1>2, <2>1, <2>2, <2>3 DEF CaseworkNext
  <1>3. ASSUME NEW t \in Terminals, \/ IocStep(t) \/ LibraryStep(t) \/ AssetStep(t)
                                    \/ AnalysisStep(t) \/ ReportStep(t) \/ ExportStep(t)
        PROVE  SecurityInv' /\ \E s : Beside(t, s)
    BY <1>3, IocSecure, AssetSecure, AnalysisSecure, OutwardSecure
  <1>4. QED
    BY <1>1, <1>2, <1>3 DEF ReportingNext, IntelNext

LEMMA SecurityInit ==
  ASSUME SocInit, CaseworkInit, IntelInit
  PROVE  SecurityInv
  <1>1. Rows(<<>>) /\ DOMAIN <<>> = {}
    BY EmptySeq DEF Rows
  <1>2. \A p \in Procs : proc[p] = resting /\ resting.at = "idle"
    BY DEF SocInit, DeskInit, resting
  <1>3. ScreensOK
    BY <1>1 DEF CaseworkInit, ScreensOK
  <1>4. FindingInv
    BY <1>1, <1>2 DEF CaseworkInit, FindingInv, FindingsOK, RemediationsOK, FindingStage
  <1>5. EvidenceInv
    BY <1>1, <1>2 DEF CaseworkInit, EvidenceInv, EvidenceOK, EvidenceStage, CustodyBegins,
       Capturing
  <1>6. ForensicInv
    BY <1>1, <1>2 DEF CaseworkInit, ForensicInv, ForensicsOK, ForensicStage, ForensicQuiet
  <1>7. ExerciseInv
    BY <1>1, <1>2 DEF CaseworkInit, ExerciseInv, ExercisesOK, ExerciseStage, ExerciseQuiet
  <1>8. IocInv
    BY <1>1, <1>2 DEF IntelInit, IocInv, IocsOK, IocStage, IocQuiet
  <1>9. AssetInv
    BY <1>1, <1>2 DEF IntelInit, AssetInv, AssetsOK, AssetStage, AssetQuiet
  <1>10. CheckInv
    BY <1>1, <1>2 DEF CaseworkInit, CheckInv, ChecksOK, CheckStage, CheckQuiet
  <1>11. OutwardInv
    BY <1>2 DEF OutwardInv, OutwardStage
  <1>12. QED
    BY <1>3, <1>4, <1>5, <1>6, <1>7, <1>8, <1>9, <1>10, <1>11 DEF SecurityInv

-----------------------------------------------------------------------------
(***************************************************************************)
(* The theorems.                                                           *)
(***************************************************************************)

LEMMA TypedStep ==
  ASSUME SocTyped, [SocNext]_socVars \/ \E t \in Terminals : \E s : Beside(t, s)
  PROVE  SocTyped'
  BY TypedNext, TypedBeside

LEMMA TimeStep ==
  ASSUME SocTyped, TimelineInv, [SocNext]_socVars \/ \E t \in Terminals : \E s : Beside(t, s)
  PROVE  TimelineInv'
  BY TimeNext, TimeElse

\* The invariant of the composition.
Secure == SocTyped /\ TimelineInv /\ SecurityInv

LEMMA SecureInit ==
  ASSUME SocInit, CaseworkInit, IntelInit
  PROVE  Secure
  BY TypedInit, TimeInit, SecurityInit DEF Secure

LEMMA SecureNext ==
  ASSUME Secure, [ReportingNext]_reportVars
  PROVE  Secure' /\ ([SocNext]_socVars \/ \E t \in Terminals : \E s : Beside(t, s))
  <1>1. /\ SecurityInv'
        /\ [SocNext]_socVars \/ \E t \in Terminals : \E s : Beside(t, s)
    BY SecurityStep DEF Secure
  <1>2. SocTyped' /\ TimelineInv'
    BY <1>1, TypedStep, TimeStep DEF Secure
  <1>3. QED
    BY <1>1, <1>2 DEF Secure

LEMMA SecureTypes ==
  ASSUME Secure
  PROVE  SecurityTypesOK
  <1>1. SocTypeOK
    BY DEF Secure, SocTyped, SocTypeOK, FileOK, EventsOK, AlertsOK, CasesOK, RulesOK, DeskOK,
       IsEvent, IsAlert, IsCase
  <1>2. FindingInv /\ EvidenceInv /\ ForensicInv /\ ExerciseInv /\ IocInv /\ AssetInv
    BY DEF Secure, SecurityInv
  <1>3. CaseworkTypeOK
    BY <1>2 DEF FindingInv, FindingsOK, IsFinding, RemediationsOK, EvidenceInv, EvidenceOK,
       ForensicInv, ForensicsOK, ExerciseInv, ExercisesOK, CaseworkTypeOK
  <1>4. IntelTypeOK
    BY <1>2 DEF IocInv, IocsOK, AssetInv, AssetsOK, IntelTypeOK
  <1>5. QED
    BY <1>1, <1>3, <1>4 DEF SecurityTypesOK

\* The tables of the SOC, of the casework and of the threat intelligence have
\* their types, however the commands of all of them and their reports mix; an
\* indicator, above all, has one row.
THEOREM SecurityTypesCorrect == ReportingSpec => []SecurityTypesOK
  <1>1. SocInit /\ CaseworkInit /\ IntelInit => Secure
    BY SecureInit
  <1>2. Secure /\ [ReportingNext]_reportVars => Secure'
    BY SecureNext
  <1>3. Secure => SecurityTypesOK
    BY SecureTypes
  <1>4. QED
    BY <1>1, <1>2, <1>3, PTL DEF ReportingSpec

LEMMA SecureBacks ==
  ASSUME Secure
  PROVE  StatusesAreBacked
  <1>1. FindingInv /\ EvidenceInv /\ ScreensOK
    BY DEF Secure, SecurityInv
  <1>2. \A r \in DOMAIN remediations : remediations[r].status = "verified" => Verified(r)
    BY <1>1 DEF FindingInv, RemediationsOK
  <1>3. \A t \in Terminals : \A k \in DOMAIN shown[t] : Backed(shown[t][k])
    BY <1>1 DEF ScreensOK, Terminals
  <1>4. ASSUME NEW e \in DOMAIN evidence, e \notin cut, \A p \in Procs : Capturing(p) # e
        PROVE  CustodyLog(e) # <<>> /\ CustodyLog(e)[1].state = "captured"
    <2>1. EvidenceOK /\ First(e)
      BY <1>1, <1>4 DEF EvidenceInv, CustodyBegins
    <2>2. 1 \in DOMAIN CustodyLog(e) /\ CustodyLog(e)[1].state = "captured"
      BY <2>1, CustodyFirst
    <2>3. QED
      BY <2>2, EmptySeq
  <1>5. QED
    BY <1>2, <1>3, <1>4 DEF StatusesAreBacked, Verified, Backed

\* What a status claims has its record, in the tables, on every screen and in
\* every export: the verification of a remediation, the capture that custody
\* begins with, and the status of a case in the timeline exported with it.
THEOREM StatusesBacked == ReportingSpec => []StatusesAreBacked
  <1>1. SocInit /\ CaseworkInit /\ IntelInit => Secure
    BY SecureInit
  <1>2. Secure /\ [ReportingNext]_reportVars => Secure'
    BY SecureNext
  <1>3. Secure => StatusesAreBacked
    BY SecureBacks
  <1>4. QED
    BY <1>1, <1>2, <1>3, PTL DEF ReportingSpec

LEMMA SecureTwins ==
  ASSUME Secure
  PROVE  TwinsNeedOverlap
  <1>1. AssetInv /\ CheckInv /\ ScreensOK
    BY DEF Secure, SecurityInv
  <1>2. \A t \in Terminals : \A k \in DOMAIN shown[t] : Backed(shown[t][k])
    BY <1>1 DEF ScreensOK, Terminals
  <1>3. QED
    BY <1>1, <1>2 DEF TwinsNeedOverlap, AssetInv, AssetsOK, CheckInv, ChecksOK, Backed

\* Two rows for one asset, or for one check of one engagement, take two commands
\* that overlapped; an extraction that ran alone counts the rows it inserted.
THEOREM TwinsOnlyByOverlap == ReportingSpec => []TwinsNeedOverlap
  <1>1. SocInit /\ CaseworkInit /\ IntelInit => Secure
    BY SecureInit
  <1>2. Secure /\ [ReportingNext]_reportVars => Secure'
    BY SecureNext
  <1>3. Secure => TwinsNeedOverlap
    BY SecureTwins
  <1>4. QED
    BY <1>1, <1>2, <1>3, PTL DEF ReportingSpec

\* Only the commands on exercises write exercises, and only those of the
\* forensics artifacts.
LEMMA ResultWriters ==
  ASSUME Secure, [ReportingNext]_reportVars
  PROVE  /\ UNCHANGED exercises \/ \E t \in Terminals : ExerciseStep(t)
         /\ UNCHANGED artifacts \/ \E t \in Terminals : ForensicStep(t)
  <1>1. /\ SocTyped /\ TimelineInv /\ FindingInv /\ EvidenceInv /\ ForensicInv /\ ExerciseInv
        /\ IocInv /\ AssetInv /\ CheckInv /\ OutwardInv /\ ScreensOK
    BY DEF Secure, SecurityInv
  <1>2. CASE UNCHANGED reportVars \/ UNCHANGED caseworkRecords
    BY <1>2 DEF reportVars, intelVars, caseworkVars, caseworkRecords
  <1>3. ASSUME NEW e \in DOMAIN evidence, Alter(e)
        PROVE  UNCHANGED <<forensicTables, exercises>>
    BY <1>3 DEF Alter
  <1>4. ASSUME NEW t \in Terminals, \/ FindingStep(t) \/ EvidenceStep(t) \/ Interrupted(t)
                                    \/ IocStep(t) \/ LibraryStep(t) \/ AnalysisStep(t)
        PROVE  UNCHANGED <<forensicTables, exercises>>
    BY <1>1, <1>4, FindingSteps, EvidenceSteps, InterruptedSteps, IocSteps, LibrarySteps,
       AnalysisSteps
  <1>5. ASSUME NEW t \in Terminals, AssetStep(t)
        PROVE  UNCHANGED <<forensicTables, exercises>>
    BY <1>1, <1>5, AssetSteps DEF caseworkRecords, forensicTables
  <1>6. ASSUME NEW t \in Terminals, ReportStep(t) \/ ExportStep(t)
        PROVE  UNCHANGED <<forensicTables, exercises>>
    BY <1>1, <1>6, ReportSteps, ExportSteps DEF records
  <1>7. ASSUME NEW t \in Terminals, ForensicStep(t)
        PROVE  UNCHANGED exercises
    BY <1>1, <1>7, ForensicSteps
  <1>8. ASSUME NEW t \in Terminals, ExerciseStep(t)
        PROVE  UNCHANGED forensicTables
    BY <1>1, <1>8, ExerciseSteps
  <1>9. QED
    BY <1>2, <1>3, <1>4, <1>5, <1>6, <1>7, <1>8
    DEF ReportingNext, IntelNext, CaseworkNext, forensicTables

LEMMA ExerciseLoss ==
  ASSUME Secure, [ReportingNext]_reportVars, NEW x \in DOMAIN exercises,
         exercises[x].status = "completed", exercises'[x].status = "running"
  PROVE  \E t \in Terminals : proc[t].at = "run" /\ proc[t].x = x /\ ~ quiet[t]
  <1>1. ExerciseInv
    BY DEF Secure, SecurityInv
  <1>2. PICK t \in Terminals : ExerciseStep(t)
    BY ResultWriters
  <1>3. Rows(exercises) /\ DOMAIN exercises[x] = {"status", "engagement", "red", "blue", "fired"}
    BY <1>1 DEF ExerciseInv, ExercisesOK
  <1>4. ~ UNCHANGED exercises
    OBVIOUS
  <1>5. ASSUME NEW g, ExerciseNew(t, g)
        PROVE  FALSE
    BY <1>3, <1>5, AppendRow DEF ExerciseNew
  <1>6. ASSUME NEW y, ExerciseDelete(t, y)
        PROVE  FALSE
    BY <1>3, <1>6 DEF ExerciseDelete
  <1>7. CASE SetCompleted(t)
    BY <1>3, <1>7 DEF SetCompleted
  <1>8. CASE SetRunning(t)
    <2>1. proc[t].at = "run" /\ proc[t].x = x
      BY <1>3, <1>8 DEF SetRunning
    <2>2. ~ quiet[t]
      BY <1>1, <2>1 DEF ExerciseInv, ExerciseQuiet, Terminals
    <2>3. QED
      BY <2>1, <2>2
  <1>9. QED
    BY <1>2, <1>4, <1>5, <1>6, <1>7, <1>8
    DEF ExerciseStep, ExerciseStart, ExerciseComplete, ExerciseShow, CountRed, CountBlue

LEMMA HashLoss ==
  ASSUME Secure, [ReportingNext]_reportVars, NEW a \in DOMAIN artifacts,
         ~ artifacts[a].details \subseteq artifacts'[a].details
  PROVE  \E t \in Terminals : proc[t].at = "hash" /\ proc[t].a = a /\ ~ quiet[t]
  <1>1. ForensicInv
    BY DEF Secure, SecurityInv
  <1>2. PICK t \in Terminals : ForensicStep(t)
    BY ResultWriters
  <1>3. Rows(artifacts) /\ DOMAIN artifacts[a] = {"case", "evidence", "time", "details"}
    BY <1>1 DEF ForensicInv, ForensicsOK
  <1>4. ~ UNCHANGED artifacts
    OBVIOUS
  <1>5. ASSUME NEW c, NEW e, NEW at, ArtifactAdd(t, c, e, at)
        PROVE  FALSE
    BY <1>3, <1>5, AppendRow DEF ArtifactAdd
  <1>6. CASE RecordHash(t)
    <2>1. proc[t].at = "hash" /\ proc[t].a = a /\ artifacts'[a].details = proc[t].details
      BY <1>3, <1>6 DEF RecordHash
    <2>2. ~ quiet[t]
      BY <1>1, <2>1 DEF ForensicInv, ForensicQuiet, Terminals
    <2>3. QED
      BY <2>1, <2>2
  <1>7. QED
    BY <1>2, <1>4, <1>5, <1>6
    DEF ForensicStep, EventAdd, ArtifactHash, DfirExport, ExportEvents, forensicTables

\* The stamps of an alert are taken away only by a command that was overlapped.
LEMMA StampStep ==
  ASSUME SocTyped, StampInv, [SocNext]_socVars \/ \E t \in Terminals : \E s : Beside(t, s)
  PROVE  /\ StampInv'
         /\ \A a \in DOMAIN alerts :
              \/ alerts[a].acknowledged /\ ~ alerts'[a].acknowledged
              \/ alerts[a].resolved /\ ~ alerts'[a].resolved
              => \E t \in Terminals : proc[t].at = "stamp" /\ proc[t].a = a /\ ~ quiet[t]
  <1>1. CASE [SocNext]_socVars
    BY <1>1, StampNext, StampLoss
  <1>2. CASE \E t \in Terminals : \E s : Beside(t, s)
    BY <1>2, StampBeside DEF StampsKept
  <1>3. QED
    BY <1>1, <1>2

\* What an analyst has done, the stamps of alerts, the hashes of artifacts and
\* the results of exercises, is lost only to a command that another overlapped.
THEOREM WorkLastsUnlessOverlapped == ReportingSpec => WorkLostOnlyByOverlap
  <1> DEFINE Stamped ==
        \A a \in DOMAIN alerts :
          \/ alerts[a].acknowledged /\ ~ alerts'[a].acknowledged
          \/ alerts[a].resolved /\ ~ alerts'[a].resolved
          => \E t \in Terminals : proc[t].at = "stamp" /\ proc[t].a = a /\ ~ quiet[t]
             Kept ==
        /\ \A x \in DOMAIN exercises :
             exercises[x].status = "completed" /\ exercises'[x].status = "running"
               => \E t \in Terminals : proc[t].at = "run" /\ proc[t].x = x /\ ~ quiet[t]
        /\ \A a \in DOMAIN artifacts :
             ~ artifacts[a].details \subseteq artifacts'[a].details
               => \E t \in Terminals : proc[t].at = "hash" /\ proc[t].a = a /\ ~ quiet[t]
  <1>1. SocInit /\ CaseworkInit /\ IntelInit => Secure /\ StampInv
    BY SecureInit DEF SocInit, DeskInit, StampInv, Terminals, resting
  <1>2. Secure /\ StampInv /\ [ReportingNext]_reportVars
          => Secure' /\ StampInv' /\ [Stamped]_socVars /\ [Kept]_caseworkVars
    <2> SUFFICES ASSUME Secure, StampInv, [ReportingNext]_reportVars
                 PROVE  Secure' /\ StampInv' /\ Stamped /\ Kept
      OBVIOUS
    <2>1. Secure' /\ ([SocNext]_socVars \/ \E t \in Terminals : \E s : Beside(t, s))
      BY SecureNext
    <2>2. StampInv' /\ Stamped
      BY <2>1, StampStep DEF Secure
    <2>3. Kept
      BY ExerciseLoss, HashLoss
    <2>4. QED
      BY <2>1, <2>2, <2>3
  <1>3. QED
    BY <1>1, <1>2, PTL
    DEF ReportingSpec, WorkLostOnlyByOverlap, StampsLostOnlyByOverlap, ResultsLostOnlyByOverlap

\* The invariants of the SOC, which only its own steps can disturb.
SocInv == AlertInv /\ BurstInv /\ FedInv

LEMMA SocInvStep ==
  ASSUME SocTyped, SocInv, [SocNext]_socVars \/ \E t \in Terminals : \E s : Beside(t, s)
  PROVE  SocInv'
  <1>1. CASE [SocNext]_socVars
    BY <1>1, AlertNext, BurstNext, FedNext DEF SocInv
  <1>2. CASE \E t \in Terminals : \E s : Beside(t, s)
    BY <1>2, AlertElse, BurstCommand, FedCommand DEF SocInv
  <1>3. QED
    BY <1>1, <1>2

\* What the SOC promises of its alerts, bursts, watched lines and timelines it
\* keeps beside the casework, the threat intelligence and the reports, whose
\* commands run in the same processes.
THEOREM SocPromisesHold ==
  ReportingSpec => [](EventsAlertOnce /\ BurstFiresOnce /\ FedLinesStored /\ TimelineTellsStatus)
  <1>1. SocInit /\ CaseworkInit /\ IntelInit => Secure /\ SocInv
    <2>1. SocInit => SocInv
      BY AlertInit, BurstInit DEF SocInv, SocInit, FedInv
    <2>2. QED
      BY <2>1, SecureInit
  <1>2. Secure /\ SocInv /\ [ReportingNext]_reportVars => Secure' /\ SocInv'
    BY SecureNext, SocInvStep DEF Secure
  <1>3. Secure /\ SocInv
          => EventsAlertOnce /\ BurstFiresOnce /\ FedLinesStored /\ TimelineTellsStatus
    <2>1. TimelineInv => TimelineTellsStatus
      BY DEF TimelineInv, TimelineTellsStatus
    <2>2. FedInv => FedLinesStored
      BY DEF FedInv, FedLinesStored, Carried, Stored
    <2>3. QED
      BY <2>1, <2>2, AlertInvSuffices, BurstInvSuffices DEF Secure, SocInv
  <1>4. QED
    BY <1>1, <1>2, <1>3, PTL DEF ReportingSpec
================================================================================
