---------------------------- MODULE RateLimiter ----------------------------
(***************************************************************************)
(* The sliding-window rate limit on job submissions: Scheduler.submit and  *)
(* Scheduler._rate_allowed of ksec/scheduler/service.py, inside one        *)
(* instance (the windows are kept in memory).  Several callers submit at   *)
(* once; a submission reads the clock, checks the windows in one region    *)
(* under the lock and records itself in another.                           *)
(***************************************************************************)
EXTENDS Integers, FiniteSets

CONSTANTS
    Subs,        \* identities of submissions
    User,        \* User[s]: who submits
    Limit,       \* config.rate_limit_per_minute, 0 = unlimited
    UserLimit,   \* config.rate_limit_per_user, 0 = unlimited
    Window,      \* _RATE_WINDOW_SECONDS
    MaxCallers,  \* bound on the submissions in progress at once
    MaxTime      \* bound on the clock

Submitters == {User[s] : s \in Subs}

ASSUME RateAssumption ==
    /\ IsFiniteSet(Subs)
    /\ Limit \in Nat /\ UserLimit \in Nat
    /\ Window \in Nat \ {0}
    /\ MaxCallers \in Nat \ {0}
    /\ MaxTime \in Nat

VARIABLES
    now,          \* time.monotonic()
    submitTimes,  \* submissions in _submit_times
    userTimes,    \* submissions in each _user_submit_times
    blocked,      \* _rate_blocked, 0 when there is no entry
    pc,           \* where each submission is
    read,         \* the clock it has read
    stamp,        \* the time it was recorded at
    cleared       \* history: recorded submissions a reset has forgotten

vars == <<now, submitTimes, userTimes, blocked, pc, read, stamp, cleared>>

InFlight == {s \in Subs : pc[s] \in {"check", "record"}}

Init ==
    /\ now = 0
    /\ submitTimes = {}
    /\ userTimes = [u \in Submitters |-> {}]
    /\ blocked = [u \in Submitters |-> 0]
    /\ pc = [s \in Subs |-> "new"]
    /\ read = [s \in Subs |-> 0]
    /\ stamp = [s \in Subs |-> 0]
    /\ cleared = {}

Tick ==
    /\ now < MaxTime
    /\ now' = now + 1
    /\ UNCHANGED <<submitTimes, userTimes, blocked, pc, read, stamp, cleared>>

\* _rate_allowed reads the clock before it waits for the lock.
Begin(s) ==
    /\ pc[s] = "new"
    /\ Cardinality(InFlight) < MaxCallers
    /\ pc' = [pc EXCEPT ![s] = "check"]
    /\ read' = [read EXCEPT ![s] = now]
    /\ UNCHANGED <<now, submitTimes, userTimes, blocked, stamp, cleared>>

FullOffByOne(times, limit) == limit # 0 /\ Cardinality(times) > limit
Full(times, limit) == limit # 0 /\ Cardinality(times) >= limit

\* the entries younger than the window
Within(times, at) == {r \in times : stamp[r] > at - Window}

Check(s) ==
    LET u    == User[s]
        all  == Within(submitTimes, read[s])
        mine == Within(userTimes[u], read[s])
    IN  /\ pc[s] = "check"
        /\ submitTimes' = all
        /\ userTimes' = [userTimes EXCEPT ![u] = mine]
        /\ \/ /\ blocked[u] > read[s]
              /\ pc' = [pc EXCEPT ![s] = "refused"]
              /\ UNCHANGED blocked
           \/ /\ blocked[u] <= read[s]
              /\ Full(all, Limit) \/ Full(mine, UserLimit)
              /\ pc' = [pc EXCEPT ![s] = "refused"]
              /\ blocked' = [blocked EXCEPT ![u] = read[s] + Window]
           \/ /\ blocked[u] <= read[s]
              /\ ~Full(all, Limit) /\ ~Full(mine, UserLimit)
              /\ pc' = [pc EXCEPT ![s] = "record"]
              /\ UNCHANGED blocked
        /\ UNCHANGED <<now, read, stamp, cleared>>

\* submit: the second region under the lock.
Record(s) ==
    /\ pc[s] = "record"
    /\ pc' = [pc EXCEPT ![s] = "admitted"]
    /\ stamp' = [stamp EXCEPT ![s] = now]
    /\ submitTimes' = submitTimes \cup {s}
    /\ userTimes' = [userTimes EXCEPT ![User[s]] = @ \cup {s}]
    /\ UNCHANGED <<now, blocked, read, cleared>>

\* emergency_stop_clear
Clear ==
    /\ submitTimes' = {}
    /\ userTimes' = [u \in Submitters |-> {}]
    /\ blocked' = [u \in Submitters |-> 0]
    /\ cleared' = {s \in Subs : pc[s] = "admitted"}
    /\ UNCHANGED <<now, pc, read, stamp>>

Next == Tick \/ Clear \/ \E s \in Subs : Begin(s) \/ Check(s) \/ Record(s)

Spec == Init /\ [][Next]_vars

-----------------------------------------------------------------------------
\* What was submitted within the last window and not forgiven by a reset.
Recent == {s \in Subs : pc[s] = "admitted" /\ stamp[s] > now - Window} \ cleared
RecentOf(u) == {s \in Recent : User[s] = u}

\* The windows hold everything recent: pruning with a clock that was read
\* before waiting for the lock never forgets a submission too early.
WindowsAreComplete ==
    /\ Recent \subseteq submitTimes
    /\ \A u \in Submitters : RecentOf(u) \subseteq userTimes[u]

\* Callers that check before any of them records may overrun a cap, but never
\* by more than the other submissions in progress, however the clock, resets
\* and refusals of other users are interleaved.
OverrunIsBounded ==
    /\ Limit # 0 => Cardinality(Recent) <= Limit + MaxCallers - 1
    /\ UserLimit # 0 =>
          \A u \in Submitters : Cardinality(RecentOf(u)) <= UserLimit + MaxCallers - 1
=============================================================================
