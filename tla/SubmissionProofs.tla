-------------------------- MODULE SubmissionProofs --------------------------
(***************************************************************************)
(* What the limits on submissions guarantee: the caps of RateLimiter under *)
(* concurrent callers, and the firings of Schedules under several workers. *)
(***************************************************************************)
EXTENDS RateLimiter, Schedules, FiniteSetTheorems, TLAPS

-----------------------------------------------------------------------------
(***************************************************************************)
(* How far concurrent callers may overrun the caps of RateLimiter, for any *)
(* caps, callers and window.  The strengthening counts the submissions     *)
(* that have passed the check together with those in the window.           *)
(***************************************************************************)

RateTypes ==
    /\ now \in Nat
    /\ submitTimes \in SUBSET Subs
    /\ userTimes \in [Submitters -> SUBSET Subs]
    /\ blocked \in [Submitters -> Nat]
    /\ pc \in [Subs -> {"new", "check", "record", "refused", "admitted"}]
    /\ read \in [Subs -> Nat]
    /\ stamp \in [Subs -> Nat]
    /\ cleared \in SUBSET Subs

ReadInThePast == \A s \in Subs : read[s] <= now

Passed      == {s \in Subs : pc[s] = "record"}
PassedOf(u) == {s \in Passed : User[s] = u}

CallersBounded == Cardinality(InFlight) <= MaxCallers
AllBounded == Limit # 0 => Cardinality(submitTimes \cup Passed) <= Limit + MaxCallers - 1
UserBounded == UserLimit # 0 => \A u \in Submitters :
    Cardinality(userTimes[u] \cup PassedOf(u)) <= UserLimit + MaxCallers - 1

RateInv == /\ RateTypes /\ ReadInThePast /\ WindowsAreComplete
           /\ CallersBounded /\ AllBounded /\ UserBounded

LEMMA SubsetOfSubs ==
  ASSUME NEW S, S \subseteq Subs
  PROVE  IsFiniteSet(S) /\ Cardinality(S) \in Nat
  BY RateAssumption, FS_Subset, FS_CardinalityType

LEMMA SmallerSet ==
  ASSUME NEW S, NEW T, S \subseteq T, T \subseteq Subs
  PROVE  Cardinality(S) <= Cardinality(T)
  BY SubsetOfSubs, FS_Subset

LEMMA UnionBound ==
  ASSUME NEW S, NEW T, S \subseteq Subs, T \subseteq Subs
  PROVE  Cardinality(S \cup T) <= Cardinality(S) + Cardinality(T)
  <1>1. /\ IsFiniteSet(S) /\ IsFiniteSet(T)
        /\ Cardinality(S) \in Nat /\ Cardinality(T) \in Nat
        /\ Cardinality(S \cap T) \in Nat
    BY SubsetOfSubs
  <1>2. Cardinality(S \cup T)
           = Cardinality(S) + Cardinality(T) - Cardinality(S \cap T)
    BY <1>1, FS_Union
  <1>3. QED
    BY <1>1, <1>2

LEMMA UserOfSub == \A s \in Subs : User[s] \in Submitters
  BY DEF Submitters

LEMMA RateTypesStep ==
  ASSUME RateTypes, [Next]_vars
  PROVE  RateTypes'
  <1> USE RateAssumption, UserOfSub DEF RateTypes
  <1>1. CASE Tick \/ Clear
    BY <1>1 DEF Tick, Clear
  <1>2. CASE \E s \in Subs : Begin(s) \/ Record(s)
    BY <1>2 DEF Begin, Record
  <1>3. ASSUME NEW s \in Subs, Check(s) PROVE RateTypes'
    <2>1. submitTimes' \in SUBSET Subs
      BY <1>3 DEF Check, Within
    <2>2. userTimes' \in [Submitters -> SUBSET Subs]
      BY <1>3 DEF Check, Within
    <2>3. pc' \in [Subs -> {"new", "check", "record", "refused", "admitted"}]
      BY <1>3 DEF Check
    <2>4. blocked' \in [Submitters -> Nat]
      BY <1>3 DEF Check
    <2>5. QED
      BY <1>3, <2>1, <2>2, <2>3, <2>4 DEF Check
  <1>4. CASE UNCHANGED vars
    BY <1>4 DEF vars
  <1>5. QED
    BY <1>1, <1>2, <1>3, <1>4 DEF Next

LEMMA PastStep ==
  ASSUME RateTypes, ReadInThePast, [Next]_vars
  PROVE  ReadInThePast'
  BY DEF RateTypes, ReadInThePast, Next, vars, Tick, Clear, Begin, Check, Record

\* Pruning removes only what is older than a window.
LEMMA CompleteStep ==
  ASSUME RateTypes, ReadInThePast, WindowsAreComplete, [Next]_vars
  PROVE  WindowsAreComplete'
  <1> USE RateAssumption, UserOfSub
      DEF RateTypes, ReadInThePast, WindowsAreComplete, Recent, RecentOf
  <1>1. CASE Tick \/ Clear
    BY <1>1 DEF Tick, Clear
  <1>2. ASSUME NEW s \in Subs, Begin(s) PROVE WindowsAreComplete'
    BY <1>2 DEF Begin
  <1>3. ASSUME NEW s \in Subs, Record(s) PROVE WindowsAreComplete'
    BY <1>3 DEF Record
  <1>4. ASSUME NEW s \in Subs, Check(s) PROVE WindowsAreComplete'
    <2>1. /\ now' = now /\ stamp' = stamp /\ cleared' = cleared
          /\ \A r \in Subs : pc'[r] = "admitted" => pc[r] = "admitted"
      BY <1>4 DEF Check
    <2>2. Recent' \subseteq Recent
      BY <2>1
    <2>3. \A r \in Recent : stamp[r] > read[s] - Window
      OBVIOUS
    <2>4. submitTimes' = Within(submitTimes, read[s])
      BY <1>4 DEF Check
    <2>5. \A u \in Submitters : \/ userTimes'[u] = userTimes[u]
                           \/ userTimes'[u] = Within(userTimes[u], read[s])
      BY <1>4 DEF Check
    <2>6. Recent' \subseteq submitTimes'
      BY <2>2, <2>3, <2>4 DEF Within
    <2>7. \A u \in Submitters : RecentOf(u)' \subseteq userTimes'[u]
      BY <2>2, <2>3, <2>5 DEF Within
    <2>8. QED
      BY <2>6, <2>7
  <1>5. CASE UNCHANGED vars
    BY <1>5 DEF vars
  <1>6. QED
    BY <1>1, <1>2, <1>3, <1>4, <1>5 DEF Next

LEMMA CallersStep ==
  ASSUME RateTypes, CallersBounded, [Next]_vars
  PROVE  CallersBounded'
  <1>1. InFlight \subseteq Subs /\ InFlight' \subseteq Subs
    BY DEF InFlight
  <1>2. Cardinality(InFlight) \in Nat /\ Cardinality(InFlight') \in Nat
    BY <1>1, SubsetOfSubs
  <1>3. ASSUME NEW s \in Subs, Begin(s) PROVE CallersBounded'
    <2>1. InFlight' = InFlight \cup {s}
      BY <1>3 DEF Begin, InFlight, RateTypes
    <2>2. Cardinality(InFlight \cup {s}) <= Cardinality(InFlight) + 1
      BY <1>1, <1>2, SubsetOfSubs, FS_AddElement
    <2>3. Cardinality(InFlight) < MaxCallers
      BY <1>3 DEF Begin
    <2>4. QED
      BY <1>2, <2>1, <2>2, <2>3, RateAssumption DEF CallersBounded
  <1>4. CASE Tick \/ Clear \/ UNCHANGED vars \/ \E s \in Subs : Check(s) \/ Record(s)
    <2>1. InFlight' \subseteq InFlight
      BY <1>4 DEF Tick, Clear, vars, Check, Record, InFlight, RateTypes
    <2>2. Cardinality(InFlight') <= Cardinality(InFlight)
      BY <1>1, <2>1, SmallerSet
    <2>3. QED
      BY <1>2, <2>2, RateAssumption DEF CallersBounded
  <1>5. QED
    BY <1>3, <1>4 DEF Next

\* A window that was not full, with everyone who may have passed the check.
LEMMA PassingBound ==
  ASSUME NEW W, W \subseteq Subs, NEW P, P \subseteq InFlight', NEW L \in Nat,
         L # 0, ~Full(W, L), CallersBounded'
  PROVE  Cardinality(W \cup P) <= L + MaxCallers - 1
  <1>1. P \subseteq Subs /\ InFlight' \subseteq Subs
    BY DEF InFlight
  <1>2. /\ Cardinality(W) \in Nat /\ Cardinality(P) \in Nat
        /\ Cardinality(InFlight') \in Nat /\ Cardinality(W \cup P) \in Nat
    BY <1>1, SubsetOfSubs
  <1>3. Cardinality(P) <= MaxCallers
    BY <1>1, <1>2, SmallerSet, RateAssumption DEF CallersBounded
  <1>4. Cardinality(W) < L
    BY <1>2 DEF Full
  <1>5. Cardinality(W \cup P) <= Cardinality(W) + Cardinality(P)
    BY <1>1, UnionBound
  <1>6. QED
    BY <1>2, <1>3, <1>4, <1>5, RateAssumption

LEMMA EmptyBound ==
  ASSUME NEW P, P \subseteq InFlight', NEW L \in Nat, L # 0, CallersBounded'
  PROVE  Cardinality({} \cup P) <= L + MaxCallers - 1
  BY PassingBound, FS_EmptySet DEF Full

LEMMA BoundStep ==
  ASSUME RateTypes, CallersBounded', AllBounded, UserBounded, [Next]_vars
  PROVE  AllBounded' /\ UserBounded'
  <1> USE DEF RateTypes
  <1> DEFINE A == submitTimes \cup Passed
             U(u) == userTimes[u] \cup PassedOf(u)
  <1>1. A \subseteq Subs /\ \A u \in Submitters : U(u) \subseteq Subs
    BY DEF Passed, PassedOf
  <1>2. /\ Passed' \subseteq InFlight'
        /\ \A u \in Submitters : PassedOf(u)' \subseteq InFlight'
    BY DEF Passed, PassedOf, InFlight
  <1>3. CASE A' \subseteq A /\ \A u \in Submitters : U(u)' \subseteq U(u)
    <2>1. /\ Cardinality(A') <= Cardinality(A)
          /\ Cardinality(A) \in Nat /\ Cardinality(A') \in Nat
      BY <1>1, <1>3, SmallerSet, SubsetOfSubs
    <2>2. \A u \in Submitters : /\ Cardinality(U(u)') <= Cardinality(U(u))
                           /\ Cardinality(U(u)) \in Nat /\ Cardinality(U(u)') \in Nat
      BY <1>1, <1>3, SmallerSet, SubsetOfSubs
    <2>3. AllBounded'
      <3>1. SUFFICES ASSUME Limit # 0
                     PROVE  Cardinality(A') <= Limit + MaxCallers - 1
        BY DEF AllBounded
      <3>2. Cardinality(A) <= Limit + MaxCallers - 1
        BY <3>1 DEF AllBounded
      <3>3. QED
        BY <2>1, <3>2, RateAssumption
    <2>4. UserBounded'
      <3>1. SUFFICES ASSUME UserLimit # 0, NEW u \in Submitters
                     PROVE  Cardinality(U(u)') <= UserLimit + MaxCallers - 1
        BY DEF UserBounded
      <3> DEFINE old == Cardinality(U(u))
                 new == Cardinality(U(u)')
      <3>2. old <= UserLimit + MaxCallers - 1
        BY <3>1 DEF UserBounded
      <3>3. new <= old /\ old \in Nat /\ new \in Nat
        BY <2>2, <3>1
      <3> HIDE DEF old, new
      <3>4. new <= UserLimit + MaxCallers - 1
        BY <3>2, <3>3, RateAssumption
      <3>5. QED
        BY <3>4 DEF new
    <2>5. QED
      BY <2>3, <2>4
  <1>4. CASE Tick \/ UNCHANGED vars
    BY <1>3, <1>4 DEF Tick, vars, Passed, PassedOf
  <1>5. CASE \E s \in Subs : Begin(s)
    BY <1>3, <1>5 DEF Begin, Passed, PassedOf
  <1>6. CASE \E s \in Subs : Record(s)
    BY <1>3, <1>6, UserOfSub DEF Record, Passed, PassedOf
  <1>7. CASE Clear
    <2>1. submitTimes' = {} /\ \A u \in Submitters : userTimes'[u] = {}
      BY <1>7 DEF Clear
    <2>2. QED
      BY <1>2, <2>1, EmptyBound, RateAssumption DEF AllBounded, UserBounded
  <1>8. ASSUME NEW s \in Subs, Check(s) PROVE AllBounded' /\ UserBounded'
    <2> DEFINE all  == Within(submitTimes, read[s])
               mine == Within(userTimes[User[s]], read[s])
    <2>1. /\ submitTimes' = all
          /\ userTimes' = [userTimes EXCEPT ![User[s]] = mine]
      BY <1>8 DEF Check
    <2>2. all \subseteq submitTimes /\ mine \subseteq userTimes[User[s]]
      BY DEF Within
    <2>3. CASE pc' = [pc EXCEPT ![s] = "refused"]
      <3>1. Passed' \subseteq Passed
        BY <2>3 DEF Passed
      <3>2. \A u \in Submitters : userTimes'[u] \subseteq userTimes[u]
        BY <2>1, <2>2, UserOfSub
      <3>3. QED
        BY <1>3, <2>1, <2>2, <3>1, <3>2 DEF PassedOf
    <2>4. CASE /\ pc' = [pc EXCEPT ![s] = "record"]
               /\ ~Full(all, Limit) /\ ~Full(mine, UserLimit)
      <3>1. AllBounded'
        BY <1>2, <2>1, <2>2, <2>4, PassingBound, RateAssumption DEF AllBounded
      <3>2. ASSUME NEW u \in Submitters, UserLimit # 0
            PROVE  Cardinality(userTimes'[u] \cup PassedOf(u)')
                      <= UserLimit + MaxCallers - 1
        <4>1. CASE u = User[s]
          <5>1. userTimes'[u] = mine /\ mine \subseteq Subs
            BY <2>1, <2>2, <4>1
          <5>2. QED
            BY <1>2, <2>4, <3>2, <5>1, PassingBound, RateAssumption
        <4>2. CASE u # User[s]
          <5>1. userTimes'[u] = userTimes[u] /\ PassedOf(u)' = PassedOf(u)
            BY <2>1, <2>4, <4>2 DEF PassedOf, Passed
          <5>2. QED
            BY <3>2, <5>1 DEF UserBounded
        <4>3. QED
          BY <4>1, <4>2
      <3>3. QED
        BY <3>1, <3>2 DEF UserBounded
    <2>5. QED
      BY <1>8, <2>3, <2>4 DEF Check
  <1>9. QED
    BY <1>4, <1>5, <1>6, <1>7, <1>8 DEF Next

LEMMA RateInit == Init => RateInv
  <1> SUFFICES ASSUME Init PROVE RateInv
    OBVIOUS
  <1>1. RateTypes /\ ReadInThePast /\ WindowsAreComplete
    BY DEF Init, RateTypes, ReadInThePast, WindowsAreComplete, Recent, RecentOf
  <1>2. InFlight = {} /\ Passed = {} /\ \A u \in Submitters : PassedOf(u) = {}
    BY DEF Init, InFlight, Passed, PassedOf
  <1>3. CallersBounded
    BY <1>2, FS_EmptySet, RateAssumption DEF CallersBounded
  <1>4. submitTimes \cup Passed = {} /\ \A u \in Submitters : userTimes[u] \cup PassedOf(u) = {}
    BY <1>2 DEF Init
  <1>5. Cardinality(submitTimes \cup Passed) = 0
        /\ \A u \in Submitters : Cardinality(userTimes[u] \cup PassedOf(u)) = 0
    BY <1>4, FS_EmptySet
  <1>6. AllBounded /\ UserBounded
    BY <1>5, RateAssumption DEF AllBounded, UserBounded
  <1>7. QED
    BY <1>1, <1>3, <1>6 DEF RateInv

LEMMA RateImplies == RateInv => OverrunIsBounded /\ WindowsAreComplete
  <1> SUFFICES ASSUME RateInv PROVE OverrunIsBounded
    BY DEF RateInv
  <1>1. /\ Recent \subseteq submitTimes \cup Passed
        /\ submitTimes \cup Passed \subseteq Subs
        /\ \A u \in Submitters : /\ RecentOf(u) \subseteq userTimes[u] \cup PassedOf(u)
                            /\ userTimes[u] \cup PassedOf(u) \subseteq Subs
    BY DEF RateInv, RateTypes, WindowsAreComplete, Passed, PassedOf
  <1>2. /\ Cardinality(Recent) <= Cardinality(submitTimes \cup Passed)
        /\ Cardinality(Recent) \in Nat /\ Cardinality(submitTimes \cup Passed) \in Nat
    BY <1>1, SmallerSet, SubsetOfSubs
  <1>3. \A u \in Submitters :
          /\ Cardinality(RecentOf(u)) <= Cardinality(userTimes[u] \cup PassedOf(u))
          /\ Cardinality(RecentOf(u)) \in Nat
          /\ Cardinality(userTimes[u] \cup PassedOf(u)) \in Nat
    BY <1>1, SmallerSet, SubsetOfSubs
  <1>4. Limit # 0 => Cardinality(Recent) <= Limit + MaxCallers - 1
    BY <1>2, RateAssumption DEF RateInv, AllBounded
  <1>5. ASSUME UserLimit # 0, NEW u \in Submitters
        PROVE  Cardinality(RecentOf(u)) <= UserLimit + MaxCallers - 1
    <2>1. Cardinality(userTimes[u] \cup PassedOf(u)) <= UserLimit + MaxCallers - 1
      BY <1>5 DEF RateInv, UserBounded
    <2>2. QED
      BY <1>3, <2>1, RateAssumption
  <1>6. QED
    BY <1>4, <1>5 DEF OverrunIsBounded

\* No interleaving of callers overruns a cap by more than the other callers in
\* progress, and the windows hold every recent submission.
THEOREM OverrunBounded == Spec => [](OverrunIsBounded /\ WindowsAreComplete)
  <1>1. RateInv /\ [Next]_vars => RateInv'
    BY RateTypesStep, PastStep, CompleteStep, CallersStep, BoundStep DEF RateInv
  <1>2. QED
    BY RateInit, RateImplies, <1>1, PTL DEF Spec

-----------------------------------------------------------------------------
(***************************************************************************)
(* How often a schedule fires in one minute, for any number of workers,    *)
(* schedules and crashes.  The strengthening counts, beside what has been  *)
(* fired, the workers that may still fire: firing takes a worker out of    *)
(* them, and only a crash puts one back.                                   *)
(***************************************************************************)

ScheduleTypes ==
    /\ minute \in Minutes
    /\ row \in [Scheds -> {"new", "on", "off", "gone"}]
    /\ lastRun \in [Scheds -> Minutes \cup {Never}]
    /\ at \in [Workers -> Minutes \cup {Never}]
    /\ pending \in [Workers -> SUBSET Scheds]
    /\ seen \in [Workers -> [Scheds -> Minutes \cup {Never}]]
    /\ marking \in [Workers -> SUBSET Scheds]
    /\ asked \in [do : {"nothing", "add", "submit", "stamp"}, s : Scheds \cup {0}]
    /\ fired \in [Scheds -> [Minutes -> Nat]]
    /\ crashes \in Nat

\* What is asked for is a schedule; one that is being added is not there yet.
AskedIsSchedule ==
    /\ asked.do # "nothing" => asked.s \in Scheds
    /\ asked.do = "add" => row[asked.s] = "new"

ClockLeads ==
    /\ \A s \in Scheds : lastRun[s] <= minute
    /\ \A w \in Workers : at[w] <= minute

OneMark == \A w \in Workers : \A r, s \in marking[w] : r = s

\* What the pass of w has read does not let it fire s at minute m ...
PassIsThrough(w, s, m) == ~(at[w] = m /\ s \in pending[w] /\ seen[w][s] # m)
\* ... and no pass that w begins later will.
LaterIsThrough(w, s, m) ==
    \/ minute > m \/ lastRun[s] = m \/ row[s] = "gone"
    \/ at[w] = m /\ s \in marking[w]

MayFire(s, m) == {w \in Workers : ~(PassIsThrough(w, s, m) /\ LaterIsThrough(w, s, m))}

FiringsCounted ==
    \A s \in Scheds, m \in Minutes :
        fired[s][m] + Cardinality(MayFire(s, m)) <= Cardinality(Workers) + crashes

FiringInv == ScheduleTypes /\ AskedIsSchedule /\ ClockLeads /\ OneMark /\ FiringsCounted

LEMMA InitHolds == ScheduleInit => FiringInv
  <1> SUFFICES ASSUME ScheduleInit PROVE FiringInv
    OBVIOUS
  <1> USE ScheduleAssumption
  <1>1. ScheduleTypes /\ AskedIsSchedule /\ ClockLeads /\ OneMark
    BY DEF ScheduleInit, Nothing, Minutes, Never, ScheduleTypes, AskedIsSchedule,
           ClockLeads, OneMark
  <1>2. ASSUME NEW s \in Scheds, NEW m \in Minutes
        PROVE  fired[s][m] + Cardinality(MayFire(s, m)) <= Cardinality(Workers) + crashes
    <2>1. MayFire(s, m) \in SUBSET Workers
      BY DEF MayFire
    <2>2. /\ Cardinality(MayFire(s, m)) <= Cardinality(Workers)
          /\ Cardinality(MayFire(s, m)) \in Nat /\ Cardinality(Workers) \in Nat
      BY <2>1, FS_Subset, FS_CardinalityType
    <2>3. fired[s][m] = 0 /\ crashes = 0
      BY DEF ScheduleInit
    <2>4. QED
      BY <2>2, <2>3
  <1>3. QED
    BY <1>1, <1>2 DEF FiringInv, FiringsCounted

-----------------------------------------------------------------------------
Basics == ScheduleTypes /\ AskedIsSchedule /\ ClockLeads /\ OneMark

\* Steps of the terminal and of the clock.
DeskStep(s) == \/ ScheduleAdd(s) \/ ScheduleRemove(s) \/ RunNow(s) \/ Revoke(s)
               \/ SetEnabled(s, TRUE) \/ SetEnabled(s, FALSE)

LEMMA BasicsStep ==
  ASSUME Basics, [ScheduleNext]_scheduleVars
  PROVE  Basics'
  <1> USE ScheduleAssumption
      DEF Basics, ScheduleTypes, AskedIsSchedule, ClockLeads, OneMark
  <1>0. /\ minute \in Int
        /\ \A s \in Scheds : lastRun[s] \in Int
        /\ \A w \in Workers : at[w] \in Int
    BY DEF Minutes, Never
  <1>1. CASE MinutePasses
    <2>1. minute' \in Minutes /\ minute' = minute + 1
      BY <1>1 DEF MinutePasses, Minutes
    <2>2. UNCHANGED <<row, lastRun, at, pending, seen, marking, asked, fired, crashes>>
      BY <1>1 DEF MinutePasses, passVars
    <2>3. ClockLeads'
      BY <1>0, <2>1, <2>2
    <2>4. QED
      BY <2>1, <2>2, <2>3
  <1>2. ASSUME NEW w \in Workers, StartPass(w) PROVE Basics'
    BY <1>2 DEF StartPass, Minutes, Never
  <1>3. ASSUME NEW w \in Workers, Mark(w) PROVE Basics'
    BY <1>3 DEF Mark, Stamp, Minutes, Never
  <1>4. ASSUME NEW w \in Workers, Crash(w) PROVE Basics'
    BY <1>4 DEF Crash
  <1>5. ASSUME NEW w \in Workers, NEW s \in Scheds, Skip(w, s) PROVE Basics'
    BY <1>5 DEF Skip
  <1>6. ASSUME NEW w \in Workers, NEW s \in Scheds, Fire(w, s) PROVE Basics'
    <2>1. at[w] \in Minutes
      BY <1>6 DEF Fire, MustFire
    <2>2. fired' \in [Scheds -> [Minutes -> Nat]]
      BY <1>6, <2>1 DEF Fire
    <2>3. /\ pending' \in [Workers -> SUBSET Scheds]
          /\ marking' \in [Workers -> SUBSET Scheds] /\ OneMark'
      BY <1>6 DEF Fire
    <2>4. UNCHANGED <<minute, row, lastRun, at, seen, asked, crashes>>
      BY <1>6 DEF Fire
    <2>5. QED
      BY <2>2, <2>3, <2>4
  <1>7. ASSUME NEW s \in Scheds, DeskStep(s) PROVE Basics'
    <2>1. UNCHANGED <<minute, lastRun, at, pending, seen, marking, fired, crashes>>
      BY <1>7 DEF DeskStep, ScheduleAdd, ScheduleRemove, RunNow, Revoke, SetEnabled, passVars
    <2>2. CASE UNCHANGED row
      <3>1. \/ UNCHANGED asked
            \/ asked' = [do |-> "add", s |-> s] /\ row[s] = "new"
            \/ asked' = [do |-> "submit", s |-> s]
        BY <1>7 DEF DeskStep, ScheduleAdd, ScheduleRemove, RunNow, Revoke, SetEnabled
      <3>2. asked' \in [do : {"nothing", "add", "submit", "stamp"}, s : Scheds \cup {0}]
        BY <3>1
      <3>3. AskedIsSchedule'
        BY <2>2, <3>1
      <3>4. QED
        BY <2>1, <2>2, <3>2, <3>3
    <2>3. CASE ~UNCHANGED row
      <3>1. /\ UNCHANGED asked /\ row[s] \in {"on", "off"}
            /\ \E to \in {"on", "off", "gone"} : row' = [row EXCEPT ![s] = to]
        BY <1>7, <2>3 DEF DeskStep, ScheduleAdd, ScheduleRemove, RunNow, Revoke, SetEnabled
      <3>2. row' \in [Scheds -> {"new", "on", "off", "gone"}]
        BY <3>1
      <3>3. AskedIsSchedule'
        BY <3>1
      <3>4. QED
        BY <2>1, <3>1, <3>2, <3>3
    <2>4. QED
      BY <2>2, <2>3
  <1>8. CASE Create \/ SubmitNow \/ StampNow
    <2>1. UNCHANGED <<minute, at, pending, seen, marking, fired, crashes>>
      BY <1>8 DEF Create, SubmitNow, StampNow, passVars
    <2>2. /\ asked' = [do |-> "nothing", s |-> 0] \/ asked' = [asked EXCEPT !.do = "stamp"]
          /\ asked.s \in Scheds
      BY <1>8 DEF Create, SubmitNow, StampNow, Nothing
    <2>3. asked' \in [do : {"nothing", "add", "submit", "stamp"}, s : Scheds \cup {0}]
      BY <2>2
    <2>4. asked'.do \in {"nothing", "stamp"} /\ (asked'.do # "nothing" => asked'.s \in Scheds)
      BY <2>2
    <2>5. row' \in [Scheds -> {"new", "on", "off", "gone"}]
      BY <1>8 DEF Create, SubmitNow, StampNow
    <2>6. /\ lastRun' \in [Scheds -> Minutes \cup {Never}]
          /\ \A s \in Scheds : lastRun'[s] <= minute
      <3>1. \/ lastRun' = lastRun
            \/ lastRun' = [lastRun EXCEPT ![asked.s] = minute]
        BY <1>8 DEF Create, SubmitNow, StampNow
      <3>2. minute <= minute
        BY <1>0
      <3>3. CASE lastRun' = lastRun
        BY <3>3
      <3>4. CASE lastRun' = [lastRun EXCEPT ![asked.s] = minute]
        <4>1. lastRun' \in [Scheds -> Minutes \cup {Never}]
          BY <3>4
        <4>2. \A s \in Scheds : lastRun'[s] = minute \/ lastRun'[s] = lastRun[s]
          BY <3>4
        <4>3. QED
          BY <3>2, <4>1, <4>2
      <3>5. QED
        BY <3>1, <3>3, <3>4
    <2>7. ScheduleTypes'
      BY <2>1, <2>3, <2>5, <2>6
    <2>8. AskedIsSchedule'
      BY <2>4
    <2>9. ClockLeads' /\ OneMark'
      BY <2>1, <2>6
    <2>10. QED
      BY <2>7, <2>8, <2>9
  <1>9. CASE UNCHANGED scheduleVars
    BY <1>9 DEF scheduleVars, passVars
  <1>10. ASSUME NEW s \in Scheds, EditStep(s) PROVE DeskStep(s)
    BY <1>10 DEF EditStep, DeskStep
  <1>11. QED
    BY <1>1, <1>2, <1>3, <1>4, <1>5, <1>6, <1>7, <1>8, <1>9, <1>10 DEF ScheduleNext, PassStep

Through(w, s, m) == PassIsThrough(w, s, m) /\ LaterIsThrough(w, s, m)

\* Nothing but its own crash makes a worker fire again.
LEMMA StaysThrough ==
  ASSUME Basics, [ScheduleNext]_scheduleVars,
         NEW w \in Workers, NEW s \in Scheds, NEW m \in Minutes,
         Through(w, s, m), ~Crash(w)
  PROVE  Through(w, s, m)'
  <1> USE ScheduleAssumption
      DEF Basics, ScheduleTypes, AskedIsSchedule, ClockLeads, OneMark,
          Through, PassIsThrough, LaterIsThrough
  <1>1. CASE MinutePasses
    BY <1>1 DEF MinutePasses, passVars, Minutes, Never
  <1>2. ASSUME NEW v \in Workers, StartPass(v) PROVE Through(w, s, m)'
    BY <1>2 DEF StartPass, Between, Minutes, Never
  <1>3. ASSUME NEW v \in Workers, Mark(v) PROVE Through(w, s, m)'
    BY <1>3 DEF Mark, Stamp, Minutes, Never
  <1>4. ASSUME NEW v \in Workers, Crash(v), v # w PROVE Through(w, s, m)'
    BY <1>4 DEF Crash
  <1>5. ASSUME NEW v \in Workers, NEW r \in Scheds, Skip(v, r) PROVE Through(w, s, m)'
    BY <1>5 DEF Skip
  <1>6. ASSUME NEW v \in Workers, NEW r \in Scheds, Fire(v, r) PROVE Through(w, s, m)'
    BY <1>6 DEF Fire
  <1>7. ASSUME NEW r \in Scheds, DeskStep(r) PROVE Through(w, s, m)'
    BY <1>7 DEF DeskStep, ScheduleAdd, ScheduleRemove, RunNow, Revoke, SetEnabled, passVars
  <1>8. CASE Create \/ SubmitNow \/ StampNow
    BY <1>8 DEF Create, SubmitNow, StampNow, passVars, Minutes, Never
  <1>9. CASE UNCHANGED scheduleVars
    BY <1>9 DEF scheduleVars, passVars
  <1>10. ASSUME NEW r \in Scheds, EditStep(r) PROVE DeskStep(r)
    BY <1>10 DEF EditStep, DeskStep
  <1>11. QED
    BY <1>1, <1>2, <1>3, <1>4, <1>5, <1>6, <1>7, <1>8, <1>9, <1>10 DEF ScheduleNext, PassStep

LEMMA MayFireIsFinite ==
  ASSUME NEW S, S \subseteq Workers
  PROVE  IsFiniteSet(S) /\ Cardinality(S) \in Nat
  BY ScheduleAssumption, FS_Subset, FS_CardinalityType

LEMMA FewerMayFire ==
  ASSUME NEW S, NEW T, S \subseteq T, T \subseteq Workers
  PROVE  Cardinality(S) <= Cardinality(T)
  BY MayFireIsFinite, FS_Subset

-----------------------------------------------------------------------------
LEMMA CountStep ==
  ASSUME Basics, FiringsCounted, [ScheduleNext]_scheduleVars
  PROVE  FiringsCounted'
  <1> SUFFICES ASSUME NEW s \in Scheds, NEW m \in Minutes
               PROVE  fired'[s][m] + Cardinality(MayFire(s, m)')
                         <= Cardinality(Workers) + crashes'
    BY DEF FiringsCounted
  <1> DEFINE Before == MayFire(s, m)
             After  == MayFire(s, m)'
  <1>1. Before \subseteq Workers /\ After \subseteq Workers
    BY DEF MayFire
  <1>2. /\ Cardinality(Before) \in Nat /\ Cardinality(After) \in Nat
        /\ Cardinality(Workers) \in Nat
        /\ IsFiniteSet(Before) /\ IsFiniteSet(After)
    BY <1>1, MayFireIsFinite
  <1>3. /\ fired[s][m] \in Nat /\ crashes \in Nat
        /\ fired[s][m] + Cardinality(Before) <= Cardinality(Workers) + crashes
    BY DEF FiringsCounted, Basics, ScheduleTypes
  <1>4. ASSUME NEW w \in Workers, w \in After, ~Crash(w)
        PROVE  w \in Before
    BY <1>4, StaysThrough DEF MayFire, Through
  <1>5. ASSUME NEW w \in Workers, Crash(w)
        PROVE  fired'[s][m] + Cardinality(After) <= Cardinality(Workers) + crashes'
    <2>1. \A v \in Workers : v # w => ~Crash(v) \/ v \notin After \/ v \in Before
      BY <1>5 DEF Crash, Between, MayFire, PassIsThrough, LaterIsThrough, Basics, ScheduleTypes
    <2>2. After \subseteq Before \cup {w}
      BY <1>1, <1>4, <2>1
    <2>3. Cardinality(Before \cup {w}) <= Cardinality(Before) + 1
          /\ Before \cup {w} \subseteq Workers
      <3> HIDE DEF Before
      <3>1. Before \cup {w} \subseteq Workers
        BY <1>1
      <3>2. Cardinality(Before \cup {w}) =
               IF w \in Before THEN Cardinality(Before) ELSE Cardinality(Before) + 1
        BY <1>2, FS_AddElement
      <3>3. QED
        BY <1>2, <3>1, <3>2
    <2>4. Cardinality(After) <= Cardinality(Before \cup {w})
          /\ Cardinality(Before \cup {w}) \in Nat
      BY <2>2, <2>3, FewerMayFire, MayFireIsFinite
    <2>5. fired' = fired /\ crashes' = crashes + 1
      BY <1>5 DEF Crash
    <2>6. QED
      BY <1>2, <1>3, <2>3, <2>4, <2>5
  <1>6. ASSUME \A w \in Workers : ~Crash(w)
        PROVE  Cardinality(After) <= Cardinality(Before)
    <2>1. After \subseteq Before
      BY <1>1, <1>4, <1>6
    <2>2. QED
      BY <1>1, <2>1, FewerMayFire
  <1>7. ASSUME NEW w \in Workers, NEW r \in Scheds, Fire(w, r), \A v \in Workers : ~Crash(v)
        PROVE  fired'[s][m] + Cardinality(After) <= Cardinality(Workers) + crashes'
    <2>1. crashes' = crashes /\ at[w] \in Minutes
      BY <1>7, ScheduleAssumption DEF Fire, MustFire
    <2>2. CASE r = s /\ at[w] = m
      <3>1. fired'[s][m] = fired[s][m] + 1
        BY <1>7, <2>2 DEF Fire, Basics, ScheduleTypes
      <3>2. w \in Before
        BY <1>7, <2>2 DEF Fire, IsNext, MustFire, MayFire, PassIsThrough
      <3>3. w \notin After
        BY <1>7, <2>2 DEF Fire, MayFire, PassIsThrough, LaterIsThrough, Basics, ScheduleTypes
      <3>4. After \subseteq Before \ {w} /\ Before \ {w} \subseteq Workers
        BY <1>1, <1>4, <1>7, <3>3
      <3>5. Cardinality(After) <= Cardinality(Before \ {w})
        BY <3>4, FewerMayFire
      <3>6. Cardinality(Before \ {w}) = Cardinality(Before) - 1
        BY <1>2, <3>2, FS_RemoveElement
      <3>7. QED
        BY <1>2, <1>3, <2>1, <3>1, <3>5, <3>6
    <2>3. CASE ~(r = s /\ at[w] = m)
      <3>1. fired'[s][m] = fired[s][m]
        BY <1>7, <2>1, <2>3 DEF Fire, Basics, ScheduleTypes
      <3>2. QED
        BY <1>2, <1>3, <1>6, <1>7, <2>1, <3>1
    <2>4. QED
      BY <2>2, <2>3
  <1>8. ASSUME \A w \in Workers : ~Crash(w) /\ \A r \in Scheds : ~Fire(w, r)
        PROVE  fired'[s][m] + Cardinality(After) <= Cardinality(Workers) + crashes'
    <2>1. fired' = fired /\ crashes' = crashes
      BY <1>8 DEF ScheduleNext, PassStep, EditStep, scheduleVars, MinutePasses, StartPass, Mark,
                  Skip, ScheduleAdd, ScheduleRemove, SetEnabled, RunNow, Revoke, Create,
                  SubmitNow, StampNow
    <2>2. QED
      BY <1>2, <1>3, <1>6, <1>8, <2>1
  <1>9. QED
    BY <1>5, <1>7, <1>8

LEMMA CountImplies == FiringInv => FiringIsBounded
  <1> SUFFICES ASSUME FiringInv, NEW s \in Scheds, NEW m \in Minutes
               PROVE  fired[s][m] <= Cardinality(Workers) + crashes
    BY DEF FiringIsBounded
  <1>1. MayFire(s, m) \subseteq Workers
    BY DEF MayFire
  <1>2. Cardinality(MayFire(s, m)) \in Nat /\ Cardinality(Workers) \in Nat
    BY <1>1, MayFireIsFinite
  <1>3. QED
    BY <1>2 DEF FiringInv, FiringsCounted, ScheduleTypes

\* However many workers make passes over however many schedules, and whoever adds,
\* removes and runs them by hand meanwhile, a schedule fires in a minute at most
\* once for each worker and each crash (Scheduler._run_due_schedules).
THEOREM FiringsBounded == ScheduleSpec => []FiringIsBounded
  <1>1. FiringInv /\ [ScheduleNext]_scheduleVars => FiringInv'
    BY BasicsStep, CountStep DEF FiringInv, Basics
  <1>2. QED
    BY InitHolds, CountImplies, <1>1, PTL DEF ScheduleSpec
=============================================================================
