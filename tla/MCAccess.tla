------------------------------ MODULE MCAccess ------------------------------
(***************************************************************************)
(* Who may do what, and how often: small instances of AccessControl, of    *)
(* the rate limit on submissions and of recurring schedules.  The topic of *)
(* a behaviour, fixed in the initial state, is the module and the family   *)
(* of its steps that the behaviour takes; the state spaces of the topics   *)
(* add up instead of multiplying.                                          *)
(***************************************************************************)
EXTENDS AccessControl, RateLimiter, Schedules, TLC

CONSTANTS ta, tb, ann, bob, admin, analyst, s1, s2, s3, lab, wide, star, scan, install,
          q1, q2, q3, q4, u1, u2, w1, w2

VARIABLE topic

MCTerminals == {ta, tb}
MCUsers == {ann, bob}
MCRoles == {admin, analyst}
MCSessionIds == {s1, s2, s3}
MCTargets == {lab, wide}
MCPatterns == {lab, star}
MCCovers == (lab :> {lab}) @@ (star :> {lab, wide})
MCActions == {scan, install}
MCGrants == (admin :> {scan, install}) @@ (analyst :> {scan})

\* Submissions of two users, and a schedule that is due every minute.
MCUser == q1 :> u1 @@ q2 :> u1 @@ q3 :> u2 @@ q4 :> u2
MCDue == 1 :> 0..MaxMinute

mcVars == <<accessVars, vars, scheduleVars, topic>>

accessTopics == {"roles", "sessions", "switches", "scope"}

\* The tables each topic starts from, a choice of those Init allows.
MCInit ==
  /\ topic \in accessTopics \cup {"rates", "schedules"}
  /\ Init /\ ScheduleInit
  /\ topic # "schedules" => \A s \in Scheds : row[s] = "new"
  /\ accounts \in IF topic = "roles" THEN {{}, {ann}} ELSE {{ann, bob}}
  /\ userRoles = [u \in Users |->
       CASE u = ann /\ ann \in accounts -> {admin, analyst}
         [] u = bob /\ topic # "roles" -> {analyst}
         [] OTHER -> {}]
  /\ sessions \in [SessionIds -> {NONE} \cup
       {r \in SessionRow : /\ r.role = analyst /\ r.state # "FAILED"
                           /\ (r.closed_at <=> r.state = "CLOSED")}]
  /\ \A s \in SessionIds \ {s3} : sessions[s] # NONE => sessions[s].owner = ann
  /\ sessions[s3] # NONE => sessions[s3].owner = bob /\ sessions[s3].state = "ACTIVE"
  /\ topic # "sessions" => \A s \in SessionIds : sessions[s] = NONE
  /\ tokens \in [TokenIds -> IF topic = "scope"
                             THEN {NONE, [owner |-> ann, revoked |-> FALSE]} ELSE {NONE}]
  /\ windows \in [Engagements -> {NONE, [from |-> 0, until |-> 0]}]
  /\ topic # "scope" => \A e \in Engagements : windows[e] = NONE
  /\ rules = [e \in Engagements |-> IF windows[e] = NONE THEN {}
                ELSE {[target |-> lab, action |-> scan, effect |-> "allow"]}]
  /\ safety \in IF topic = "switches" THEN SUBSET Switches
                ELSE IF topic = "scope" THEN {{"lab_mode", "safe_mode"}, {"read_only"}}
                ELSE {{}}
  /\ clock = 0
  /\ term = [t \in Terminals |-> idle]
  /\ quiet = [t \in Terminals |-> TRUE]
  /\ left = [t \in Terminals |-> IF topic \in {"sessions", "scope"} THEN 1 ELSE MaxCommands]

AccessMoves ==
  \/ \E t \in Terminals :
       \/ topic = "roles" /\ AccountStep(t)
       \/ topic = "sessions" /\ SessionStep(t)
       \/ topic = "switches" /\ \E key \in Switches, value \in BOOLEAN : ModeSet(t, key, value)
       \/ topic = "scope" /\ t = ta /\ AskStep(t)
       \/ topic = "scope" /\ t = tb
          /\ (ScopeStep(t) \/ \E r \in Roles : UserRoleRemove(t, ann, r))
       \/ Continue(t)
  \/ topic = "scope" /\ ClockTick

MCNext ==
  /\ \/ topic \in accessTopics /\ AccessMoves /\ UNCHANGED <<vars, scheduleVars>>
     \/ topic = "rates" /\ Next /\ UNCHANGED <<accessVars, scheduleVars>>
     \/ topic = "schedules" /\ ScheduleNext /\ UNCHANGED <<accessVars, vars>>
  /\ UNCHANGED topic

MCSpec == MCInit /\ [][MCNext]_mcVars
=============================================================================
