---------------------------- MODULE AccessControl ----------------------------
(***************************************************************************)
(* Accounts, roles, sessions, API tokens, engagement scope, the safety     *)
(* switches of the configuration file and the policy decision that reads   *)
(* them all (identity, rbac, sessions, api, authorization, policies,       *)
(* cli/session.py, cli/admin.py, cli/engagement.py, cli/mode.py).          *)
(*                                                                         *)
(* Every `ksec` process, and every request thread of the API server, is a  *)
(* terminal.  The database serialises statements, not commands: a command  *)
(* reads in one statement and writes in a later one, and another terminal  *)
(* may write between the two.  A terminal keeps what it has read.          *)
(***************************************************************************)
EXTENDS Naturals, FiniteSets

CONSTANTS Terminals, Users, Roles, SessionIds, TokenIds, Engagements, Targets,
          Patterns,      \* the target patterns of scope rules ...
          Covers,        \* ... and Covers[p]: the targets that match p
          Actions,       \* the permissions a decision can be asked for
          Grants,        \* Grants[r]: the permissions of role r
          MutatingActions, \* actions the read-only switch blocks
          ConfirmActions,  \* actions the safe switch wants confirmed
          LabTargets,    \* the targets in lab ranges or with lab labels
          RequireAuthorization,  \* the configuration's require_authorization
          FirstUser, AdminRole,  \* what `init` creates
          MaxClock,      \* bound: the last instant of the clock
          MaxCommands,   \* bound: the commands each terminal runs
          ANY,           \* the action * of a rule
          NONE

ASSUME RolesAssumption == Grants \in [Roles -> SUBSET Actions]
ASSUME CoversAssumption == Covers \in [Patterns -> SUBSET Targets]
ASSUME NoneAssumption ==
  NONE \notin Users \cup SessionIds \cup Engagements \cup Targets
ASSUME FirstAssumption == FirstUser \in Users /\ AdminRole \in Roles
ASSUME BoundsAssumption == MaxClock \in Nat /\ MaxCommands \in Nat

VARIABLES accounts,   \* users that exist; no caller ever disables one
          userRoles,  \* roles of each user
          sessions,   \* row of each session, or NONE
          tokens,     \* row of each API token, or NONE
          windows,    \* validity window of each engagement, or NONE
          rules,      \* scope rules of each engagement
          safety,     \* switches that are on in the configuration file
          clock,
          term,       \* what each terminal is doing and has read
          quiet,      \* no other terminal has written since the command began
          left        \* commands each terminal may still start

accessVars == <<accounts, userRoles, sessions, tokens, windows, rules, safety,
          clock, term, quiet, left>>

idle == [pc |-> "idle"]

SessionStates == {"ACTIVE", "PAUSED", "CLOSED", "FAILED"}

SessionRow == [owner : Users, role : Roles, state : SessionStates, closed_at : BOOLEAN]

ASSUME RowAssumption == NONE \notin SessionRow

Token == [owner : Users, revoked : BOOLEAN]

\* No bound given is the widest bound.
ValidityWindow == [from : 0..MaxClock, until : 0..MaxClock]

Rule == [target : Patterns, action : Actions \cup {ANY}, effect : {"allow", "deny"}]

Switches == {"lab_mode", "safe_mode", "read_only"}

Request == [user : Users, sid : SessionIds \cup {NONE}, action : Actions,
            target : Targets \cup {NONE}, engagement : Engagements \cup {NONE},
            live : BOOLEAN, switches : SUBSET Switches]

Stages ==
  [pc : {"idle"}]
    \cup [pc : {"assign", "revoke"}, user : Users, role : Roles]
    \cup [pc : {"open"}, user : Users, role : Roles, ask : Request \cup {NONE}]
    \cup [pc : {"moving"}, pause : SUBSET SessionIds, target : SessionIds \cup {NONE},
          to : SessionStates, switch : SessionIds \cup {NONE}]
    \cup [pc : {"moved"}, pause : SUBSET SessionIds, target : SessionIds \cup {NONE},
          to : SessionStates, switch : SessionIds \cup {NONE},
          sid : SessionIds, state : SessionStates, seen : SessionStates]
    \cup [pc : {"toggle"}, read : SUBSET Switches, key : Switches, value : BOOLEAN]
    \cup [pc : {"opened", "permission", "window", "rules", "safety"}, ask : Request]
    \cup [pc : {"decided"}, ask : Request,
          decision : {"ALLOW", "DENY", "REQUIRE_AUTHORIZATION", "REQUIRE_CONFIRMATION"}]

\* The rows and the terminals have their types, and a session has a closing
\* time exactly while it is CLOSED: a write sets the two together.
AccessTypeOK ==
  /\ accounts \subseteq Users
  /\ userRoles \in [Users -> SUBSET Roles]
  /\ sessions \in [SessionIds -> SessionRow \cup {NONE}]
  /\ tokens \in [TokenIds -> Token \cup {NONE}]
  /\ windows \in [Engagements -> ValidityWindow \cup {NONE}]
  /\ rules \in [Engagements -> SUBSET Rule]
  /\ safety \subseteq Switches
  /\ clock \in 0..MaxClock
  /\ term \in [Terminals -> Stages]
  /\ quiet \in [Terminals -> BOOLEAN]
  /\ left \in [Terminals -> 0..MaxCommands]
  /\ \A s \in SessionIds : sessions[s] # NONE =>
       (sessions[s].closed_at <=> sessions[s].state = "CLOSED")

(***************************************************************************)
(* Reads.                                                                  *)
(***************************************************************************)

Known == {s \in SessionIds : sessions[s] # NONE}

\* sessions.list(user_id)
Owned(u) == {s \in Known : sessions[s].owner = u}

\* CREATED is in the table too, but no row is ever inserted in that state.
AllowedTransitions ==
  [state \in SessionStates |->
     CASE state = "ACTIVE" -> {"PAUSED", "CLOSED", "FAILED"}
       [] state = "PAUSED" -> {"ACTIVE", "CLOSED"}
       [] OTHER -> {}]

\* One SELECT over every role of the user; the role of the session is not used.
UserHasPermission(u, a) == \E r \in userRoles[u] : a \in Grants[r]

WindowStatus(w) ==
  IF clock < w.from THEN "not-yet-valid"
  ELSE IF clock > w.until THEN "expired" ELSE "active"

Matches(rule, target, action) ==
  target \in Covers[rule.target] /\ rule.action \in {action, ANY}

\* ScopeAllows that stops at the first rule that allows.
ScopeAllowsFirst(e, target, action) ==
  \E rule \in rules[e] : rule.effect = "allow" /\ Matches(rule, target, action)

\* Deny rules win over allow rules; no rule at all is a refusal.
ScopeAllows(e, target, action) ==
  /\ ~ \E rule \in rules[e] : rule.effect = "deny" /\ Matches(rule, target, action)
  /\ \E rule \in rules[e] : rule.effect = "allow" /\ Matches(rule, target, action)

(***************************************************************************)
(* The terminals.                                                          *)
(***************************************************************************)

Idle(t) == term[t] = idle /\ left[t] > 0

Starts(t, stage) ==
  /\ Idle(t)
  /\ term' = [term EXCEPT ![t] = stage]
  /\ quiet' = [quiet EXCEPT ![t] = TRUE]
  /\ left' = [left EXCEPT ![t] = @ - 1]

Goes(t, stage) == term' = [term EXCEPT ![t] = stage] /\ left' = left

\* A write of t is a write the other terminals did not make.
Writes(t) == quiet' = [x \in Terminals |-> quiet[x] /\ x = t]

\* A command of one statement: it starts, writes and ends in a step.
Commands(t) ==
  /\ Idle(t)
  /\ left' = [left EXCEPT ![t] = @ - 1]
  /\ Writes(t)
  /\ UNCHANGED term

(***************************************************************************)
(* Accounts and roles.                                                     *)
(***************************************************************************)

\* A user name is unique; an existing row is refused.
InsertUser(u) == u \notin accounts /\ accounts' = accounts \cup {u}

\* INSERT OR IGNORE of one role.
InsertRole(u, r) == userRoles' = [userRoles EXCEPT ![u] = @ \cup {r}]

\* `user create`: the row, then the role.
CreateUser(t, u, r) ==
  /\ Idle(t)
  /\ InsertUser(u)
  /\ term' = [term EXCEPT ![t] = [pc |-> "assign", user |-> u, role |-> r]]
  /\ left' = [left EXCEPT ![t] = @ - 1]
  /\ Writes(t)
  /\ UNCHANGED <<userRoles, sessions, tokens, windows, rules, safety, clock>>

\* `init` makes the first administrator in the same two statements, unless the
\* account is there, with whatever roles it then has.
InitAdmin(t) == CreateUser(t, FirstUser, AdminRole)

AssignRole(t) ==
  /\ term[t].pc = "assign"
  /\ InsertRole(term[t].user, term[t].role)
  /\ Goes(t, idle) /\ Writes(t)
  /\ UNCHANGED <<accounts, sessions, tokens, windows, rules, safety, clock>>

UserRoleAdd(t, u, r) ==
  /\ u \in accounts
  /\ InsertRole(u, r)
  /\ Commands(t)
  /\ UNCHANGED <<accounts, sessions, tokens, windows, rules, safety, clock>>

\* Removable without the count.
RemovableAny(u, r) == r \in userRoles[u]

\* remove_role reads the user's roles and refuses to take the only one ...
Removable(u, r) == r \in userRoles[u] /\ Cardinality(userRoles[u]) > 1

UserRoleRemove(t, u, r) ==
  /\ u \in accounts /\ Removable(u, r)
  /\ Starts(t, [pc |-> "revoke", user |-> u, role |-> r])
  /\ UNCHANGED <<accounts, userRoles, sessions, tokens, windows, rules, safety, clock>>

\* ... and deletes in a statement of its own.
RemoveRole(t) ==
  /\ term[t].pc = "revoke"
  /\ userRoles' = [userRoles EXCEPT ![term[t].user] = @ \ {term[t].role}]
  /\ Goes(t, idle) /\ Writes(t)
  /\ UNCHANGED <<accounts, sessions, tokens, windows, rules, safety, clock>>

(***************************************************************************)
(* Sessions.                                                               *)
(***************************************************************************)

\* open reads the roles: the one asked for, or the first.  `session open` does
\* nothing more; a command or a request that runs steps goes on to ask for them.
Opening(t, u, r, ask) ==
  /\ u \in accounts /\ r \in userRoles[u]
  /\ Starts(t, [pc |-> "open", user |-> u, role |-> r, ask |-> ask])
  /\ UNCHANGED <<accounts, userRoles, sessions, tokens, windows, rules, safety, clock>>

SessionOpen(t, u, r) == Opening(t, u, r, NONE)

InsertSession(t, s) ==
  /\ term[t].pc = "open" /\ s \notin Known
  /\ sessions' = [sessions EXCEPT ![s] =
                    [owner |-> term[t].user, role |-> term[t].role,
                     state |-> "ACTIVE", closed_at |-> FALSE]]
  /\ Goes(t, IF term[t].ask = NONE THEN idle
             ELSE [pc |-> "opened", ask |-> [term[t].ask EXCEPT !.sid = s]])
  /\ Writes(t)
  /\ UNCHANGED <<accounts, userRoles, tokens, windows, rules, safety, clock>>

\* open returns the row as a later read finds it: the caller's snapshot.
SessionSnapshot(t) ==
  /\ term[t].pc = "opened"
  /\ LET ask == term[t].ask IN
     Goes(t, [pc |-> "permission",
              ask |-> [ask EXCEPT !.live = (sessions[ask.sid].state = "ACTIVE")]])
  /\ UNCHANGED <<accounts, userRoles, sessions, tokens, windows, rules, safety, clock, quiet>>

Moving(pause, target, to, switch) ==
  [pc |-> "moving", pause |-> pause, target |-> target, to |-> to, switch |-> switch]

SessionMove(t, s, to) ==
  /\ s \in Known
  /\ Starts(t, Moving({}, s, to, NONE))
  /\ UNCHANGED <<accounts, userRoles, sessions, tokens, windows, rules, safety, clock>>

SessionClose(t, s) == SessionMove(t, s, "CLOSED")

SessionPause(t, s) == SessionMove(t, s, "PAUSED")

SessionResume(t, s) == SessionMove(t, s, "ACTIVE")

\* SessionSwitch that returns at once when its target is ACTIVE.
SessionSwitchEarly(t, u, s) ==
  /\ u \in accounts /\ s \in Owned(u)
  /\ LET others == {x \in Owned(u) \ {s} : sessions[x].state = "ACTIVE"} IN
     Starts(t, IF sessions[s].state = "ACTIVE" THEN Moving({}, NONE, "ACTIVE", s)
               ELSE Moving(others, s, "ACTIVE", s))
  /\ UNCHANGED <<accounts, userRoles, sessions, tokens, windows, rules, safety, clock>>

\* switch lists the sessions to pause and looks at the state of its target
\* once, before it pauses anything.
SessionSwitch(t, u, s) ==
  /\ u \in accounts /\ s \in Owned(u)
  /\ LET others == {x \in Owned(u) \ {s} : sessions[x].state = "ACTIVE"}
         goal == IF sessions[s].state = "ACTIVE" THEN NONE ELSE s
     IN Starts(t, Moving(others, goal, "ACTIVE", s))
  /\ UNCHANGED <<accounts, userRoles, sessions, tokens, windows, rules, safety, clock>>

SessionReconnect(t, u, s) ==
  /\ u \in accounts /\ s \in Owned(u) /\ sessions[s].state # "ACTIVE"
  /\ Starts(t, Moving({}, s, "ACTIVE", NONE))
  /\ UNCHANGED <<accounts, userRoles, sessions, tokens, windows, rules, safety, clock>>

\* The next transition of a command: its pauses in any order, then its target.
NextMoves(job) ==
  IF job.pause # {} THEN job.pause \X {"PAUSED"}
  ELSE IF job.target # NONE THEN {<<job.target, job.to>>} ELSE {}

\* transition reads the row and looks the move up; a move that is not allowed
\* raises, whatever the command has done before.
TransitionRead(t) ==
  /\ term[t].pc = "moving"
  /\ \E move \in NextMoves(term[t]) :
       LET s == move[1] seen == sessions[s].state job == term[t] IN
       Goes(t, IF move[2] \in AllowedTransitions[seen]
               THEN [pc |-> "moved", pause |-> job.pause \ {s},
                     target |-> IF s = job.target THEN NONE ELSE job.target,
                     to |-> job.to, switch |-> job.switch,
                     sid |-> s, state |-> move[2], seen |-> seen]
               ELSE idle)
  /\ UNCHANGED <<accounts, userRoles, sessions, tokens, windows, rules, safety, clock, quiet>>

\* TransitionWrite that leaves closed_at as it is.
TransitionWriteStateOnly(t) ==
  /\ term[t].pc = "moved"
  /\ LET job == term[t] IN
     /\ sessions' = [sessions EXCEPT ![job.sid].state = job.state]
     /\ Goes(t, Moving(job.pause, job.target, job.to, job.switch))
  /\ Writes(t)
  /\ UNCHANGED <<accounts, userRoles, tokens, windows, rules, safety, clock>>

\* The UPDATE does not look at the state again.
TransitionWrite(t) ==
  /\ term[t].pc = "moved"
  /\ LET job == term[t] IN
     /\ sessions' = [sessions EXCEPT ![job.sid].state = job.state,
                                     ![job.sid].closed_at = (job.state = "CLOSED")]
     /\ Goes(t, Moving(job.pause, job.target, job.to, job.switch))
  /\ Writes(t)
  /\ UNCHANGED <<accounts, userRoles, tokens, windows, rules, safety, clock>>

MoveDone(t) ==
  /\ term[t].pc = "moving" /\ NextMoves(term[t]) = {}
  /\ Goes(t, idle)
  /\ UNCHANGED <<accounts, userRoles, sessions, tokens, windows, rules, safety, clock, quiet>>

(***************************************************************************)
(* API tokens, engagements and the safety switches.                        *)
(***************************************************************************)

NewToken(u) == [owner |-> u, revoked |-> FALSE]

TokenCreate(t, u, k) ==
  /\ u \in accounts /\ tokens[k] = NONE
  /\ tokens' = [tokens EXCEPT ![k] = NewToken(u)]
  /\ Commands(t)
  /\ UNCHANGED <<accounts, userRoles, sessions, windows, rules, safety, clock>>

\* A token is revoked by its owner only: the UPDATE names both.
RevokeOwn(u, k) ==
  /\ tokens[k] # NONE /\ tokens[k].owner = u
  /\ tokens' = [tokens EXCEPT ![k].revoked = TRUE]

TokenRevoke(t, u, k) ==
  /\ u \in accounts /\ RevokeOwn(u, k)
  /\ Commands(t)
  /\ UNCHANGED <<accounts, userRoles, sessions, windows, rules, safety, clock>>

InsertEngagement(e, w) == windows[e] = NONE /\ windows' = [windows EXCEPT ![e] = w]

\* The engagement must exist; a rule is only ever added.
AddAuthorization(e, rule) ==
  windows[e] # NONE /\ rules' = [rules EXCEPT ![e] = @ \cup {rule}]

EngagementCreate(t, e, w) ==
  /\ InsertEngagement(e, w)
  /\ Commands(t)
  /\ UNCHANGED <<accounts, userRoles, sessions, tokens, rules, safety, clock>>

ScopeAdd(t, e, rule) ==
  /\ AddAuthorization(e, rule)
  /\ Commands(t)
  /\ UNCHANGED <<accounts, userRoles, sessions, tokens, windows, safety, clock>>

\* `mode set` reads every line of the file ...
ModeSet(t, key, value) ==
  /\ Starts(t, [pc |-> "toggle", read |-> safety, key |-> key, value |-> value])
  /\ UNCHANGED <<accounts, userRoles, sessions, tokens, windows, rules, safety, clock>>

\* ... and writes them all back, the one switch changed.
ToggleConfig(t) ==
  /\ term[t].pc = "toggle"
  /\ safety' = IF term[t].value THEN term[t].read \cup {term[t].key}
               ELSE term[t].read \ {term[t].key}
  /\ Goes(t, idle) /\ Writes(t)
  /\ UNCHANGED <<accounts, userRoles, sessions, tokens, windows, rules, clock>>

(***************************************************************************)
(* The policy decision: four reads, in the order of evaluate.              *)
(***************************************************************************)

\* A request carries the account and the configuration as the process read
\* them, and the session's state as of SessionSnapshot.
Requests(u) ==
  {ask \in [user : {u}, sid : {NONE}, action : Actions, target : Targets \cup {NONE},
            engagement : Engagements \cup {NONE}, live : {TRUE}, switches : {safety}] :
     ask.target = NONE => ask.engagement = NONE}

\* A decision outside any session: `audit list`, `plugin`, `tools install`,
\* `vuln check`.
Ask(t, u, ask) ==
  /\ u \in accounts
  /\ Starts(t, [pc |-> "permission", ask |-> ask])
  /\ UNCHANGED <<accounts, userRoles, sessions, tokens, windows, rules, safety, clock>>

\* `run`, `workflow run`, `workflow trigger fire`, `assess`, `atomic`,
\* `adversary`: a session of its own, then a decision for each step.
RunSteps(t, u, r, ask) == Opening(t, u, r, ask)

\* The API server looks the token up once, with its owner, for each request.
ValidToken(k) == tokens[k] # NONE /\ ~tokens[k].revoked /\ tokens[k].owner \in accounts

Authorized(k, u) == ValidToken(k) /\ tokens[k].owner = u

ApiGetAudit(t, k, u, ask) == Authorized(k, u) /\ ask.target = NONE /\ Ask(t, u, ask)

ApiRun(t, k, u, r, ask) == Authorized(k, u) /\ ask.target # NONE /\ Opening(t, u, r, ask)

Decide(t, decision) ==
  Goes(t, [pc |-> "decided", ask |-> term[t].ask, decision |-> decision])

CheckPermission(t) ==
  /\ term[t].pc = "permission"
  /\ LET ask == term[t].ask IN
     IF ~ask.live \/ ~UserHasPermission(ask.user, ask.action) THEN Decide(t, "DENY")
     ELSE IF ~RequireAuthorization \/ ask.target = NONE
       THEN Goes(t, [pc |-> "safety", ask |-> ask])
     ELSE IF ask.engagement = NONE THEN Decide(t, "REQUIRE_AUTHORIZATION")
     ELSE Goes(t, [pc |-> "window", ask |-> ask])
  /\ UNCHANGED <<accounts, userRoles, sessions, tokens, windows, rules, safety, clock, quiet>>

CheckWindow(t) ==
  /\ term[t].pc = "window"
  /\ LET ask == term[t].ask w == windows[ask.engagement] IN
     IF w # NONE /\ WindowStatus(w) = "active" THEN Goes(t, [pc |-> "rules", ask |-> ask])
     ELSE Decide(t, "REQUIRE_AUTHORIZATION")
  /\ UNCHANGED <<accounts, userRoles, sessions, tokens, windows, rules, safety, clock, quiet>>

CheckRules(t) ==
  /\ term[t].pc = "rules"
  /\ LET ask == term[t].ask IN
     IF ScopeAllows(ask.engagement, ask.target, ask.action)
     THEN Goes(t, [pc |-> "safety", ask |-> ask])
     ELSE Decide(t, "REQUIRE_AUTHORIZATION")
  /\ UNCHANGED <<accounts, userRoles, sessions, tokens, windows, rules, safety, clock, quiet>>

IsLabTarget(x) == x \in LabTargets

CheckSafety(t) ==
  /\ term[t].pc = "safety"
  /\ LET ask == term[t].ask IN
     Decide(t, IF /\ "lab_mode" \in ask.switches
                  /\ ask.target # NONE /\ ~IsLabTarget(ask.target) THEN "DENY"
               ELSE IF "read_only" \in ask.switches /\ ask.action \in MutatingActions
                 THEN "DENY"
               ELSE IF "safe_mode" \in ask.switches /\ ask.action \in ConfirmActions
                 THEN "REQUIRE_CONFIRMATION"
               ELSE "ALLOW")
  /\ UNCHANGED <<accounts, userRoles, sessions, tokens, windows, rules, safety, clock, quiet>>

(***************************************************************************)
(* The end of a command, a process that is killed, and time.               *)
(***************************************************************************)

\* The command ends, or asks for its next step with the same snapshots.
Answered(t) ==
  /\ term[t].pc = "decided"
  /\ \/ Goes(t, idle)
     \/ /\ term[t].ask.sid # NONE /\ term[t].decision = "ALLOW"
        /\ Goes(t, [pc |-> "permission", ask |-> term[t].ask])
  /\ UNCHANGED <<accounts, userRoles, sessions, tokens, windows, rules, safety, clock, quiet>>

Killed(t) ==
  /\ term[t] # idle
  /\ Goes(t, idle)
  /\ UNCHANGED <<accounts, userRoles, sessions, tokens, windows, rules, safety, clock, quiet>>

ClockTick ==
  /\ clock < MaxClock
  /\ clock' = clock + 1
  /\ UNCHANGED <<accounts, userRoles, sessions, tokens, windows, rules, safety, term, quiet, left>>

AccountStep(t) ==
  \/ InitAdmin(t)
  \/ \E u \in Users, r \in Roles :
       CreateUser(t, u, r) \/ UserRoleAdd(t, u, r) \/ UserRoleRemove(t, u, r)

SessionStep(t) ==
  \/ \E u \in Users, r \in Roles : SessionOpen(t, u, r)
  \/ \E s \in SessionIds : SessionClose(t, s) \/ SessionPause(t, s) \/ SessionResume(t, s)
  \/ \E u \in Users, s \in SessionIds : SessionSwitch(t, u, s) \/ SessionReconnect(t, u, s)

ScopeStep(t) ==
  \/ \E u \in Users, k \in TokenIds : TokenCreate(t, u, k) \/ TokenRevoke(t, u, k)
  \/ \E e \in Engagements, w \in ValidityWindow : EngagementCreate(t, e, w)
  \/ \E e \in Engagements, rule \in Rule : ScopeAdd(t, e, rule)
  \/ \E key \in Switches, value \in BOOLEAN : ModeSet(t, key, value)

AskStep(t) ==
  \E u \in Users : \E ask \in Requests(u) :
    \/ Ask(t, u, ask)
    \/ \E r \in Roles : RunSteps(t, u, r, ask)
    \/ \E k \in TokenIds : \/ ApiGetAudit(t, k, u, ask)
                           \/ \E r \in Roles : ApiRun(t, k, u, r, ask)

\* The later statements of a command that has started.
Continue(t) ==
  \/ AssignRole(t) \/ RemoveRole(t) \/ \E s \in SessionIds : InsertSession(t, s)
  \/ SessionSnapshot(t) \/ TransitionRead(t) \/ TransitionWrite(t) \/ MoveDone(t)
  \/ ToggleConfig(t)
  \/ CheckPermission(t) \/ CheckWindow(t) \/ CheckRules(t) \/ CheckSafety(t)
  \/ Answered(t) \/ Killed(t)

AccessNext ==
  \/ \E t \in Terminals : \/ AccountStep(t) \/ SessionStep(t) \/ ScopeStep(t)
                          \/ AskStep(t) \/ Continue(t)
  \/ ClockTick

\* Tables a run of commands has left behind, and terminals at their prompt.
AccessInit ==
  /\ accounts \in SUBSET Users
  /\ userRoles \in [Users -> SUBSET Roles]
  /\ \A u \in Users : u \notin accounts => userRoles[u] = {}
  /\ sessions \in [SessionIds -> {NONE} \cup
       {row \in SessionRow : /\ row.owner \in accounts
                             /\ row.state # "FAILED"
                             /\ (row.closed_at <=> row.state = "CLOSED")}]
  /\ tokens = [k \in TokenIds |-> NONE]
  /\ windows = [e \in Engagements |-> NONE]
  /\ rules = [e \in Engagements |-> {}]
  /\ safety \in SUBSET Switches
  /\ clock = 0
  /\ term = [t \in Terminals |-> idle]
  /\ quiet = [t \in Terminals |-> TRUE]
  /\ left = [t \in Terminals |-> MaxCommands]

AccessSpec == AccessInit /\ [][AccessNext]_accessVars

(***************************************************************************)
(* Properties.                                                             *)
(***************************************************************************)

\* A session leaves CLOSED only under a transition that had read it before it
\* was closed: CLOSED has no way out in the table (sessions/manager.py), and
\* the one way round the table is a write that overtakes another terminal's.
ClosedLeftOnlyByStaleWrite ==
  [][\A s \in Known : sessions[s].state = "CLOSED" /\ sessions'[s].state # "CLOSED" =>
       \E t \in Terminals : /\ term[t].pc = "moved" /\ term[t].sid = s
                            /\ term[t].seen # "CLOSED" /\ ~quiet[t]]_accessVars

\* A switch no other terminal wrote beside, once it has gone through, leaves
\* its target as the one ACTIVE session of the user: the pauses come first and
\* the target last (SessionManager.switch).
SwitchLeavesOneActive ==
  \A t \in Terminals :
    (/\ term[t].pc = "moving" /\ term[t].switch # NONE
     /\ quiet[t] /\ NextMoves(term[t]) = {}) =>
      LET s == term[t].switch IN
      {x \in Owned(sessions[s].owner) : sessions[x].state = "ACTIVE"} = {s}

\* A user loses the last role only when another terminal wrote between the
\* count and the DELETE of remove_role (rbac/roles.py).
LastRoleLostOnlyByOverlap ==
  [][\A u \in Users : userRoles[u] # {} /\ userRoles'[u] = {} =>
       \E t \in Terminals : term[t].pc = "revoke" /\ term[t].user = u /\ ~quiet[t]]_accessVars

\* A safety switch changes only under a `mode set` of that switch, unless
\* another terminal wrote the file between the read and the write (cli/mode.py).
SwitchesKeptWithoutOverlap ==
  [][\A key \in Switches : (key \in safety) # (key \in safety') =>
       \E t \in Terminals : /\ term[t].pc = "toggle"
                            /\ term[t].key = key \/ ~quiet[t]]_accessVars

\* Whatever a finished command has established (a closed session, the last
\* role of a user, a safety switch) is taken back only by a command meant to,
\* or by one that overlapped another and writes what it had read before.
LossesNeedOverlap ==
  ClosedLeftOnlyByStaleWrite /\ LastRoleLostOnlyByOverlap /\ SwitchesKeptWithoutOverlap

\* What a standing ALLOW rests on (policies/engine.py): the account, the
\* session's owner, an engagement whose window has opened and a rule that
\* allows the step are still there, whatever other terminals have done since;
\* undisturbed, the permission holds and no rule denies.
AllowIsGrounded ==
  \A t \in Terminals : (term[t].pc = "decided" /\ term[t].decision = "ALLOW") =>
    LET ask == term[t].ask e == ask.engagement IN
    /\ ask.user \in accounts
    /\ ask.sid # NONE => ask.sid \in Owned(ask.user)
    /\ quiet[t] => UserHasPermission(ask.user, ask.action)
    /\ RequireAuthorization /\ ask.target # NONE =>
         /\ windows[e] # NONE /\ clock >= windows[e].from
         /\ \E rule \in rules[e] : rule.effect = "allow" /\ Matches(rule, ask.target, ask.action)
         /\ quiet[t] => ~ \E rule \in rules[e] :
              rule.effect = "deny" /\ Matches(rule, ask.target, ask.action)
=============================================================================
