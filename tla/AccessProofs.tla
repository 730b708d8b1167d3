----------------------------- MODULE AccessProofs -----------------------------
(***************************************************************************)
(* Theorems about AccessControl, for any terminals, accounts, roles,       *)
(* sessions, engagements, rules and bounds.                                *)
(*                                                                         *)
(* A step is one statement of one terminal.  What a terminal carries from  *)
(* one statement to the next is about rows of the tables, so each clause   *)
(* of the invariant is kept for two reasons: the terminal that moves keeps *)
(* it by what its statement tests, and the others keep it because the      *)
(* tables only grow, or because a write of another terminal has ended the  *)
(* quiet their clause asks for.                                            *)
(***************************************************************************)
EXTENDS AccessControl, FiniteSetTheorems, TLAPS

Deciding == {"permission", "window", "rules", "safety", "decided"}

\* The rows a terminal names are in the tables: no command removes an account
\* or a session.
NamesRows(t) ==
  LET g == term[t] IN
  /\ g.pc \in {"moving", "moved"} =>
       /\ g.pause \subseteq Known
       /\ g.target \in Known \cup {NONE}
       /\ g.switch \in Known \cup {NONE}
  /\ g.pc = "moved" => g.sid \in Known
  /\ g.pc = "open" => /\ g.user \in accounts
                      /\ g.ask # NONE => g.ask.user = g.user /\ g.ask.sid = NONE
  /\ g.pc = "opened" => g.ask.sid # NONE
  /\ g.pc \in Deciding \cup {"opened"} =>
       /\ g.ask.user \in accounts
       /\ g.ask.sid # NONE => g.ask.sid \in Owned(g.ask.user)

\* What a terminal has read still stands while no other terminal writes.
ReadsStand(t) ==
  LET g == term[t] IN
  /\ g.pc = "moved" => /\ g.state \in AllowedTransitions[g.seen]
                       /\ quiet[t] => sessions[g.sid].state = g.seen
  /\ g.pc = "revoke" /\ quiet[t] => userRoles[g.user] \ {g.role} # {}
  /\ g.pc = "toggle" /\ quiet[t] => g.read = safety

\* The sessions of an undisturbed switch that are ACTIVE beside its target are
\* those it has still to pause, and the target becomes ACTIVE after them.
SwitchPauses(t) ==
  LET g == term[t] s == term[t].switch
      active == {x \in Owned(sessions[s].owner) : sessions[x].state = "ACTIVE"}
  IN (g.pc \in {"moving", "moved"} /\ s # NONE /\ quiet[t]) =>
       /\ s \notin g.pause /\ g.target \in {NONE, s}
       /\ g.to = "ACTIVE"
       /\ g.pc = "moving" => /\ active \subseteq g.pause \cup {s}
                             /\ g.target = NONE => s \in active
       /\ g.pc = "moved" =>
            \/ /\ g.state = "PAUSED" /\ g.sid # s
               /\ active \subseteq g.pause \cup {g.sid, s}
               /\ g.target = NONE => s \in active
            \/ /\ g.state = "ACTIVE" /\ g.sid = s
               /\ g.pause = {} /\ g.target = NONE
               /\ active \subseteq {s}

Permitted(t) ==
  quiet[t] => UserHasPermission(term[t].ask.user, term[t].ask.action)

Scoped(ask) == RequireAuthorization /\ ask.target # NONE

WindowOpened(ask) ==
  ask.engagement # NONE /\ windows[ask.engagement] # NONE
    /\ clock >= windows[ask.engagement].from

RuleAllows(ask) ==
  \E rule \in rules[ask.engagement] :
    rule.effect = "allow" /\ Matches(rule, ask.target, ask.action)

RuleDenies(ask) ==
  \E rule \in rules[ask.engagement] :
    rule.effect = "deny" /\ Matches(rule, ask.target, ask.action)

\* What the reads of a decision have found so far, stage by stage.
Established(t) ==
  LET g == term[t] IN
  /\ g.pc = "window" => Permitted(t) /\ Scoped(g.ask) /\ g.ask.engagement # NONE
  /\ g.pc = "rules" => Permitted(t) /\ Scoped(g.ask) /\ WindowOpened(g.ask)
  /\ g.pc = "safety" \/ (g.pc = "decided" /\ g.decision = "ALLOW") =>
       /\ Permitted(t)
       /\ Scoped(g.ask) => /\ WindowOpened(g.ask) /\ RuleAllows(g.ask)
                           /\ quiet[t] => ~RuleDenies(g.ask)

Holds(t) == NamesRows(t) /\ ReadsStand(t) /\ SwitchPauses(t) /\ Established(t)

AccessInv == AccessTypeOK /\ \A t \in Terminals : Holds(t)

-----------------------------------------------------------------------------
(* What a terminal is doing has the fields of its stage, and each command   *)
(* builds a stage.                                                          *)

Decisions == {"ALLOW", "DENY", "REQUIRE_AUTHORIZATION", "REQUIRE_CONFIRMATION"}

\* The fields of a terminal's state, by the stage it is in.
LEMMA StageFields ==
  ASSUME NEW g \in Stages
  PROVE  /\ g.pc \in {"assign", "revoke"} => g.user \in Users /\ g.role \in Roles
         /\ g.pc = "open" => /\ g.user \in Users /\ g.role \in Roles
                             /\ g.ask \in Request \cup {NONE}
         /\ g.pc \in {"moving", "moved"} =>
              /\ g.pause \subseteq SessionIds /\ g.target \in SessionIds \cup {NONE}
              /\ g.to \in SessionStates /\ g.switch \in SessionIds \cup {NONE}
         /\ g.pc = "moved" => /\ g.sid \in SessionIds /\ g.state \in SessionStates
                              /\ g.seen \in SessionStates
         /\ g.pc = "toggle" => /\ g.read \subseteq Switches /\ g.key \in Switches
                               /\ g.value \in BOOLEAN
         /\ g.pc \in Deciding \cup {"opened"} => g.ask \in Request
         /\ g.pc = "decided" => g.decision \in Decisions
  <1>1. CASE g.pc \in {"idle", "assign", "revoke", "open", "toggle"}
    BY <1>1 DEF Stages, Deciding
  <1>2. CASE g.pc \in {"moving", "moved"}
    BY <1>2 DEF Stages, Deciding
  <1>3. CASE g.pc \in Deciding \cup {"opened"}
    BY <1>3 DEF Stages, Deciding, Decisions
  <1>4. QED
    BY <1>1, <1>2, <1>3 DEF Stages, Deciding

\* Each record a command makes of itself is a stage.
LEMMA StagesMade ==
  /\ idle \in Stages
  /\ \A u \in Users, r \in Roles :
       /\ [pc |-> "assign", user |-> u, role |-> r] \in Stages
       /\ [pc |-> "revoke", user |-> u, role |-> r] \in Stages
       /\ \A ask \in Request \cup {NONE} :
            [pc |-> "open", user |-> u, role |-> r, ask |-> ask] \in Stages
  /\ \A ask \in Request :
       /\ \A point \in {"opened", "permission", "window", "rules", "safety"} :
            [pc |-> point, ask |-> ask] \in Stages
       /\ \A d \in Decisions : [pc |-> "decided", ask |-> ask, decision |-> d] \in Stages
  /\ \A read \in SUBSET Switches, key \in Switches, value \in BOOLEAN :
       [pc |-> "toggle", read |-> read, key |-> key, value |-> value] \in Stages
  BY DEF Stages, idle, Decisions

LEMMA MovingMade ==
  ASSUME NEW pause \in SUBSET SessionIds, NEW target \in SessionIds \cup {NONE},
         NEW to \in SessionStates, NEW switch \in SessionIds \cup {NONE}
  PROVE  Moving(pause, target, to, switch) \in Stages
  BY DEF Stages, Moving

LEMMA MovedMade ==
  ASSUME NEW pause \in SUBSET SessionIds, NEW target \in SessionIds \cup {NONE},
         NEW to \in SessionStates, NEW switch \in SessionIds \cup {NONE},
         NEW s \in SessionIds, NEW state \in SessionStates, NEW seen \in SessionStates
  PROVE  [pc |-> "moved", pause |-> pause, target |-> target, to |-> to,
          switch |-> switch, sid |-> s, state |-> state, seen |-> seen] \in Stages
  BY DEF Stages

\* A request keeps its type when open fills in the session and its state.
LEMMA RequestFilled ==
  ASSUME NEW ask \in Request
  PROVE  /\ \A s \in SessionIds : /\ [ask EXCEPT !.sid = s] \in Request
                                  /\ [ask EXCEPT !.sid = s].sid = s
                                  /\ [ask EXCEPT !.sid = s].user = ask.user
         /\ \A b \in BOOLEAN : /\ [ask EXCEPT !.live = b] \in Request
                               /\ [ask EXCEPT !.live = b].sid = ask.sid
                               /\ [ask EXCEPT !.live = b].user = ask.user
  BY DEF Request

LEMMA AsksAreRequests ==
  ASSUME AccessTypeOK, NEW u \in Users
  PROVE  \A ask \in Requests(u) : /\ ask \in Request
                                  /\ ask.user = u /\ ask.sid = NONE
  BY DEF Requests, Request, AccessTypeOK

-----------------------------------------------------------------------------
(* The steps of a terminal: those that start a command, and those that      *)
(* carry one on.                                                            *)

StepOf(t) == AccountStep(t) \/ SessionStep(t) \/ ScopeStep(t) \/ AskStep(t) \/ Continue(t)

\* Commands of one statement.
OneStatement(t) ==
  \/ \E u \in Users, r \in Roles : UserRoleAdd(t, u, r)
  \/ \E u \in Users, k \in TokenIds : TokenCreate(t, u, k) \/ TokenRevoke(t, u, k)
  \/ \E e \in Engagements, w \in ValidityWindow : EngagementCreate(t, e, w)
  \/ \E e \in Engagements, rule \in Rule : ScopeAdd(t, e, rule)

\* First statements that only read.
FirstRead(t) ==
  \/ \E u \in Users, r \in Roles :
       \/ UserRoleRemove(t, u, r)
       \/ \E ask \in Requests(u) \cup {NONE} : Opening(t, u, r, ask)
  \/ \E s \in SessionIds, to \in SessionStates : SessionMove(t, s, to)
  \/ \E u \in Users, s \in SessionIds : SessionSwitch(t, u, s) \/ SessionReconnect(t, u, s)
  \/ \E key \in Switches, value \in BOOLEAN : ModeSet(t, key, value)
  \/ \E u \in Users : \E ask \in Requests(u) : Ask(t, u, ask)

\* Later statements that write a table, or the configuration file.
LaterWrite(t) ==
  \/ AssignRole(t) \/ RemoveRole(t) \/ \E s \in SessionIds : InsertSession(t, s)
  \/ TransitionWrite(t) \/ ToggleConfig(t)

\* Later statements that only read, and the ends of a command.
LaterRead(t) ==
  \/ SessionSnapshot(t) \/ TransitionRead(t) \/ MoveDone(t)
  \/ CheckPermission(t) \/ CheckWindow(t) \/ CheckRules(t) \/ CheckSafety(t)
  \/ Answered(t) \/ Killed(t)

LEMMA StepKinds ==
  ASSUME NEW t \in Terminals, StepOf(t)
  PROVE  \/ OneStatement(t) \/ FirstRead(t) \/ LaterWrite(t) \/ LaterRead(t)
         \/ \E u \in Users, r \in Roles : CreateUser(t, u, r)
  <1>1. CASE AccountStep(t)
    BY <1>1, FirstAssumption DEF AccountStep, InitAdmin, OneStatement, FirstRead
  <1>2. CASE SessionStep(t)
    BY <1>2 DEF SessionStep, SessionOpen, SessionClose, SessionPause, SessionResume,
                FirstRead, SessionStates
  <1>3. CASE ScopeStep(t)
    BY <1>3 DEF ScopeStep, OneStatement, FirstRead
  <1>4. CASE AskStep(t)
    BY <1>4 DEF AskStep, RunSteps, ApiGetAudit, ApiRun, FirstRead
  <1>5. CASE Continue(t)
    BY <1>5 DEF Continue, LaterRead, LaterWrite
  <1>6. QED
    BY <1>1, <1>2, <1>3, <1>4, <1>5 DEF StepOf

\* The tables and the configuration file, apart from the clock.
tables == <<accounts, userRoles, sessions, tokens, windows, rules, safety>>

\* Every statement leaves the clock, and what the other terminals are doing; if it
\* writes, it ends their quiet.
LEMMA OthersKeep ==
  ASSUME AccessTypeOK, NEW t \in Terminals, StepOf(t)
  PROVE  /\ clock' = clock
         /\ \A x \in Terminals \ {t} : /\ term'[x] = term[x]
                                       /\ quiet'[x] => quiet[x] /\ UNCHANGED tables
  <1> USE DEF AccessTypeOK, tables, Commands, Starts, Goes, Writes, Idle
  <1>1. CASE OneStatement(t)
    BY <1>1 DEF OneStatement, UserRoleAdd, TokenCreate, TokenRevoke, EngagementCreate, ScopeAdd
  <1>2. CASE FirstRead(t)
    BY <1>2 DEF FirstRead, UserRoleRemove, Opening, SessionMove, SessionSwitch,
                SessionReconnect, ModeSet, Ask
  <1>3. CASE LaterWrite(t)
    BY <1>3 DEF LaterWrite, AssignRole, RemoveRole, InsertSession, TransitionWrite, ToggleConfig
  <1>4. CASE LaterRead(t)
    BY <1>4 DEF LaterRead, SessionSnapshot, TransitionRead, MoveDone, CheckPermission,
                CheckWindow, CheckRules, CheckSafety, Decide, Answered, Killed
  <1>5. CASE \E u \in Users, r \in Roles : CreateUser(t, u, r)
    BY <1>5 DEF CreateUser
  <1>6. QED
    BY <1>1, <1>2, <1>3, <1>4, <1>5, StepKinds

\* A session row that a transition writes: the state and the closing time go
\* together, the owner and the role stay.
LEMMA TransitionRow ==
  ASSUME AccessTypeOK, NEW t \in Terminals, NamesRows(t), TransitionWrite(t)
  PROVE  LET g == term[t] IN
         /\ g.sid \in Known
         /\ \A x \in SessionIds \ {g.sid} : sessions'[x] = sessions[x]
         /\ sessions'[g.sid] \in SessionRow
         /\ sessions'[g.sid].owner = sessions[g.sid].owner
         /\ sessions'[g.sid].state = g.state
         /\ sessions'[g.sid].closed_at <=> sessions'[g.sid].state = "CLOSED"
         /\ sessions' \in [SessionIds -> SessionRow \cup {NONE}]
  <1> DEFINE g == term[t]
  <1>1. g \in Stages /\ g.pc = "moved" /\ g.sid \in Known
    BY DEF AccessTypeOK, TransitionWrite, NamesRows
  <1>2. g.sid \in SessionIds /\ g.state \in SessionStates
    BY <1>1, StageFields
  <1>3. sessions[g.sid] \in SessionRow
    BY <1>1, <1>2 DEF AccessTypeOK, Known
  <1> DEFINE r == [owner |-> sessions[g.sid].owner, role |-> sessions[g.sid].role,
                   state |-> g.state, closed_at |-> (g.state = "CLOSED")]
  <1>4. r \in SessionRow
    BY <1>2, <1>3 DEF SessionRow
  <1>5. [[sessions[g.sid] EXCEPT !.state = g.state]
           EXCEPT !.closed_at = (g.state = "CLOSED")] = r
    <2> DEFINE moved == [sessions[g.sid] EXCEPT !.state = g.state]
    <2>1. moved = [owner |-> sessions[g.sid].owner, role |-> sessions[g.sid].role,
                   state |-> g.state, closed_at |-> sessions[g.sid].closed_at]
      BY <1>3 DEF SessionRow
    <2> HIDE DEF moved
    <2>2. [moved EXCEPT !.closed_at = (g.state = "CLOSED")] = r
      BY <2>1
    <2>3. QED
      BY <2>2 DEF moved
  <1>6. sessions' = [sessions EXCEPT ![g.sid] = r]
    BY <1>2, <1>5 DEF AccessTypeOK, TransitionWrite
  <1> HIDE DEF r
  <1>7. sessions'[g.sid] = r
    BY <1>2, <1>6 DEF AccessTypeOK
  <1>8. /\ \A x \in SessionIds \ {g.sid} : sessions'[x] = sessions[x]
        /\ sessions' \in [SessionIds -> SessionRow \cup {NONE}]
    BY <1>4, <1>6 DEF AccessTypeOK
  <1>9. r.owner = sessions[g.sid].owner /\ r.state = g.state
          /\ (r.closed_at <=> r.state = "CLOSED")
    BY DEF r
  <1>10. QED
    BY <1>1, <1>4, <1>7, <1>8, <1>9

LEMMA InsertedRow ==
  ASSUME AccessTypeOK, NEW t \in Terminals, NEW s \in SessionIds, InsertSession(t, s)
  PROVE  /\ s \notin Known
         /\ \A x \in SessionIds \ {s} : sessions'[x] = sessions[x]
         /\ sessions'[s] \in SessionRow
         /\ sessions'[s].owner = term[t].user
         /\ sessions'[s].state = "ACTIVE"
         /\ sessions'[s].closed_at <=> sessions'[s].state = "CLOSED"
         /\ sessions' \in [SessionIds -> SessionRow \cup {NONE}]
  <1> DEFINE r == [owner |-> term[t].user, role |-> term[t].role,
                   state |-> "ACTIVE", closed_at |-> FALSE]
  <1>1. term[t] \in Stages /\ term[t].pc = "open"
    BY DEF AccessTypeOK, InsertSession
  <1>2. term[t].user \in Users /\ term[t].role \in Roles
    BY <1>1, StageFields
  <1>3. r \in SessionRow /\ r.owner = term[t].user /\ r.state = "ACTIVE"
          /\ (r.closed_at <=> r.state = "CLOSED")
    BY <1>2 DEF SessionRow, SessionStates
  <1>4. s \notin Known /\ sessions' = [sessions EXCEPT ![s] = r]
    BY DEF InsertSession
  <1> HIDE DEF r
  <1>5. sessions'[s] = r
    BY <1>4 DEF AccessTypeOK
  <1>6. /\ \A x \in SessionIds \ {s} : sessions'[x] = sessions[x]
        /\ sessions' \in [SessionIds -> SessionRow \cup {NONE}]
    BY <1>3, <1>4 DEF AccessTypeOK
  <1>7. QED
    BY <1>3, <1>4, <1>5, <1>6

\* The tables only grow: accounts stay, a session keeps its owner, an engagement
\* its window and its rules.
TablesGrow ==
  /\ accounts \subseteq accounts'
  /\ \A x \in Known : x \in Known' /\ sessions'[x].owner = sessions[x].owner
  /\ \A e \in Engagements : /\ windows[e] # NONE => windows'[e] = windows[e]
                            /\ rules[e] \subseteq rules'[e]

LEMMA TablesOnlyGrow ==
  ASSUME AccessTypeOK, NEW t \in Terminals, NamesRows(t), StepOf(t)
  PROVE  TablesGrow
  <1> USE DEF AccessTypeOK, TablesGrow, Known
  <1>1. CASE OneStatement(t)
    BY <1>1 DEF OneStatement, UserRoleAdd, TokenCreate, TokenRevoke, EngagementCreate, ScopeAdd,
                InsertEngagement, AddAuthorization
  <1>2. CASE FirstRead(t)
    BY <1>2 DEF FirstRead, UserRoleRemove, Opening, SessionMove, SessionSwitch,
                SessionReconnect, ModeSet, Ask
  <1>3. CASE LaterWrite(t)
    <2>1. CASE AssignRole(t) \/ RemoveRole(t) \/ ToggleConfig(t)
      BY <2>1 DEF AssignRole, RemoveRole, ToggleConfig
    <2>2. CASE TransitionWrite(t)
      <3>1. UNCHANGED <<accounts, windows, rules>>
        BY <2>2 DEF TransitionWrite
      <3>2. \A x \in Known : x \in Known' /\ sessions'[x].owner = sessions[x].owner
        BY <2>2, TransitionRow, RowAssumption
      <3>3. QED
        BY <3>1, <3>2
    <2>3. ASSUME NEW s \in SessionIds, InsertSession(t, s)
          PROVE  TablesGrow
      <3>1. UNCHANGED <<accounts, windows, rules>>
        BY <2>3 DEF InsertSession
      <3>2. \A x \in Known : x \in Known' /\ sessions'[x].owner = sessions[x].owner
        BY <2>3, InsertedRow
      <3>3. QED
        BY <3>1, <3>2
    <2>4. QED
      BY <1>3, <2>1, <2>2, <2>3 DEF LaterWrite
  <1>4. CASE LaterRead(t)
    BY <1>4 DEF LaterRead, SessionSnapshot, TransitionRead, MoveDone, CheckPermission,
                CheckWindow, CheckRules, CheckSafety, Answered, Killed
  <1>5. CASE \E u \in Users, r \in Roles : CreateUser(t, u, r)
    BY <1>5 DEF CreateUser, InsertUser
  <1>6. QED
    BY <1>1, <1>2, <1>3, <1>4, <1>5, StepKinds

-----------------------------------------------------------------------------
(* Type correctness of a step.                                              *)

TerminalsTyped ==
  /\ term \in [Terminals -> Stages]
  /\ quiet \in [Terminals -> BOOLEAN]
  /\ left \in [Terminals -> 0..MaxCommands]

SessionsTyped ==
  /\ sessions \in [SessionIds -> SessionRow \cup {NONE}]
  /\ \A s \in SessionIds : sessions[s] # NONE =>
       (sessions[s].closed_at <=> sessions[s].state = "CLOSED")

OthersTyped ==
  /\ accounts \subseteq Users
  /\ userRoles \in [Users -> SUBSET Roles]
  /\ tokens \in [TokenIds -> Token \cup {NONE}]
  /\ windows \in [Engagements -> ValidityWindow \cup {NONE}]
  /\ rules \in [Engagements -> SUBSET Rule]
  /\ safety \subseteq Switches
  /\ clock \in 0..MaxClock

LEMMA TypeParts == AccessTypeOK <=> TerminalsTyped /\ SessionsTyped /\ OthersTyped
  BY DEF AccessTypeOK, TerminalsTyped, SessionsTyped, OthersTyped

\* The moves of a command name its own sessions and states.
LEMMA MovesTyped ==
  ASSUME NEW g \in Stages, g.pc = "moving"
  PROVE  \A move \in NextMoves(g) :
           /\ move[1] \in SessionIds /\ move[2] \in SessionStates
           /\ \/ /\ g.pause # {} /\ move[1] \in g.pause /\ move[2] = "PAUSED"
              \/ /\ g.pause = {} /\ g.target # NONE /\ move[1] = g.target /\ move[2] = g.to
  <1>1. g.pause \subseteq SessionIds /\ g.target \in SessionIds \cup {NONE}
          /\ g.to \in SessionStates
    BY StageFields
  <1>2. QED
    BY <1>1 DEF NextMoves, SessionStates

\* The table sends a session that is not CLOSED to a state of the table.
LEMMA AllowedMoves ==
  /\ \A seen \in SessionStates : AllowedTransitions[seen] \subseteq SessionStates
  /\ \A seen \in SessionStates : \A to : to \in AllowedTransitions[seen] => seen # "CLOSED"
  BY DEF AllowedTransitions, SessionStates

LEMMA TypeTerminals ==
  ASSUME AccessTypeOK, NEW t \in Terminals, NamesRows(t), StepOf(t)
  PROVE  TerminalsTyped'
  <1> DEFINE g == term[t]
  <1>g. g \in Stages
    BY DEF AccessTypeOK
  <1>f. /\ g.pc \in {"assign", "revoke"} => g.user \in Users /\ g.role \in Roles
        /\ g.pc = "open" => g.user \in Users /\ g.role \in Roles
                              /\ g.ask \in Request \cup {NONE}
        /\ g.pc \in {"moving", "moved"} =>
             /\ g.pause \subseteq SessionIds /\ g.target \in SessionIds \cup {NONE}
             /\ g.to \in SessionStates /\ g.switch \in SessionIds \cup {NONE}
        /\ g.pc = "moved" => g.sid \in SessionIds
        /\ g.pc \in Deciding \cup {"opened"} => g.ask \in Request
    BY <1>g, StageFields
  <1> HIDE DEF g
  <1>1. quiet' \in [Terminals -> BOOLEAN]
    <2> USE DEF AccessTypeOK, Commands, Starts, Goes, Writes
    <2>1. CASE OneStatement(t)
      BY <2>1 DEF OneStatement, UserRoleAdd, TokenCreate, TokenRevoke, EngagementCreate, ScopeAdd
    <2>2. CASE FirstRead(t)
      BY <2>2 DEF FirstRead, UserRoleRemove, Opening, SessionMove, SessionSwitch,
                  SessionReconnect, ModeSet, Ask
    <2>3. CASE LaterWrite(t)
      BY <2>3 DEF LaterWrite, AssignRole, RemoveRole, InsertSession, TransitionWrite, ToggleConfig
    <2>4. CASE LaterRead(t)
      BY <2>4 DEF LaterRead, SessionSnapshot, TransitionRead, MoveDone, CheckPermission,
                  CheckWindow, CheckRules, CheckSafety, Answered, Killed
    <2>5. CASE \E u \in Users, r \in Roles : CreateUser(t, u, r)
      BY <2>5 DEF CreateUser
    <2>6. QED
      BY <2>1, <2>2, <2>3, <2>4, <2>5, StepKinds
  <1>2. /\ left' \in [Terminals -> 0..MaxCommands]
        /\ term' = [term EXCEPT ![t] = term'[t]]
    <2> USE BoundsAssumption DEF AccessTypeOK, Commands, Starts, Goes, Idle
    <2>1. CASE OneStatement(t)
      BY <2>1 DEF OneStatement, UserRoleAdd, TokenCreate, TokenRevoke, EngagementCreate, ScopeAdd
    <2>2. CASE FirstRead(t)
      <3>1. PICK stage : Starts(t, stage)
        BY <2>2 DEF FirstRead, UserRoleRemove, Opening, SessionMove, SessionSwitch,
                    SessionReconnect, ModeSet, Ask
      <3>2. QED
        BY <3>1
    <2>3. CASE LaterWrite(t)
      BY <2>3 DEF LaterWrite, AssignRole, RemoveRole, InsertSession, TransitionWrite, ToggleConfig
    <2>4. CASE LaterRead(t)
      BY <2>4 DEF LaterRead, SessionSnapshot, TransitionRead, MoveDone, CheckPermission,
                  CheckWindow, CheckRules, CheckSafety, Decide, Answered, Killed
    <2>5. CASE \E u \in Users, r \in Roles : CreateUser(t, u, r)
      BY <2>5 DEF CreateUser
    <2>6. QED
      BY <2>1, <2>2, <2>3, <2>4, <2>5, StepKinds
  <1>3. term'[t] \in Stages
    <2> USE DEF AccessTypeOK, Starts, Goes
    <2>1. CASE OneStatement(t)
      BY <2>1, <1>g DEF OneStatement, UserRoleAdd, TokenCreate, TokenRevoke, EngagementCreate,
                  ScopeAdd, Commands, g
    <2>2. CASE FirstRead(t)
      <3>1. ASSUME NEW u \in Users, NEW r \in Roles, UserRoleRemove(t, u, r)
            PROVE  term'[t] \in Stages
        BY <3>1, StagesMade DEF UserRoleRemove
      <3>8. ASSUME NEW u \in Users, NEW r \in Roles, NEW ask \in Requests(u) \cup {NONE},
                   Opening(t, u, r, ask)
            PROVE  term'[t] \in Stages
        <4>1. ask \in Request \cup {NONE}
          BY AsksAreRequests
        <4>2. [pc |-> "open", user |-> u, role |-> r, ask |-> ask] \in Stages
          BY <4>1, StagesMade
        <4>3. QED
          BY <3>8, <4>2 DEF Opening
      <3>2. ASSUME NEW s \in SessionIds, NEW to \in SessionStates, SessionMove(t, s, to)
            PROVE  term'[t] \in Stages
        BY <3>2, MovingMade DEF SessionMove
      <3>3. ASSUME NEW u \in Users, NEW s \in SessionIds, SessionSwitch(t, u, s)
            PROVE  term'[t] \in Stages
        <4>1. PICK pause \in SUBSET SessionIds, target \in SessionIds \cup {NONE} :
                term'[t] = Moving(pause, target, "ACTIVE", s)
          BY <3>3 DEF SessionSwitch, Owned, Known
        <4>2. QED
          BY <4>1, "ACTIVE" \in SessionStates, MovingMade DEF SessionStates
      <3>4. ASSUME NEW u \in Users, NEW s \in SessionIds, SessionReconnect(t, u, s)
            PROVE  term'[t] \in Stages
        BY <3>4, MovingMade DEF SessionReconnect, SessionStates
      <3>5. ASSUME NEW key \in Switches, NEW value \in BOOLEAN, ModeSet(t, key, value)
            PROVE  term'[t] \in Stages
        BY <3>5, StagesMade DEF ModeSet
      <3>6. ASSUME NEW u \in Users, NEW ask \in Requests(u), Ask(t, u, ask)
            PROVE  term'[t] \in Stages
        BY <3>6, StagesMade, AsksAreRequests DEF Ask
      <3>7. QED
        BY <2>2, <3>1, <3>2, <3>3, <3>4, <3>5, <3>6, <3>8 DEF FirstRead
    <2>3. CASE LaterWrite(t)
      <3>1. CASE AssignRole(t) \/ RemoveRole(t) \/ ToggleConfig(t)
        BY <3>1, StagesMade DEF AssignRole, RemoveRole, ToggleConfig
      <3>2. ASSUME NEW s \in SessionIds, InsertSession(t, s)
            PROVE  term'[t] \in Stages
        BY <3>2, <1>f, StagesMade, RequestFilled DEF InsertSession, g
      <3>3. CASE TransitionWrite(t)
        BY <3>3, <1>f, MovingMade DEF TransitionWrite, g
      <3>4. QED
        BY <2>3, <3>1, <3>2, <3>3 DEF LaterWrite
    <2>4. CASE LaterRead(t)
      <3>1. CASE SessionSnapshot(t)
        BY <3>1, <1>f, StagesMade, RequestFilled DEF SessionSnapshot, g
      <3>2. CASE TransitionRead(t)
        <4>1. PICK move \in NextMoves(g) :
                term'[t] = IF move[2] \in AllowedTransitions[sessions[move[1]].state]
                  THEN [pc |-> "moved", pause |-> g.pause \ {move[1]},
                        target |-> IF move[1] = g.target THEN NONE ELSE g.target,
                        to |-> g.to, switch |-> g.switch, sid |-> move[1],
                        state |-> move[2], seen |-> sessions[move[1]].state]
                  ELSE idle
          BY <3>2 DEF TransitionRead, g
        <4>2. g.pc = "moving"
          BY <3>2 DEF TransitionRead, g
        <4>3. move[1] \in SessionIds /\ move[2] \in SessionStates
                /\ move[1] \in g.pause \cup {g.target}
          BY <4>2, <1>g, MovesTyped
        <4>4. move[1] \in Known
          BY <4>2, <4>3, NoneAssumption DEF NamesRows, g
        <4>5. sessions[move[1]].state \in SessionStates
          BY <4>3, <4>4 DEF Known, SessionRow
        <4>6. QED
          <5> DEFINE target == IF move[1] = g.target THEN NONE ELSE g.target
                     pause == g.pause \ {move[1]}
                     sid == move[1]
                     state == move[2]
                     seen == sessions[move[1]].state
          <5>1. /\ target \in SessionIds \cup {NONE} /\ pause \in SUBSET SessionIds
                /\ g.to \in SessionStates /\ g.switch \in SessionIds \cup {NONE}
            BY <4>2, <1>f
          <5>2. sid \in SessionIds /\ state \in SessionStates /\ seen \in SessionStates
            BY <4>3, <4>5
          <5> HIDE DEF target, pause, sid, state, seen
          <5>3. [pc |-> "moved", pause |-> pause, target |-> target,
                 to |-> g.to, switch |-> g.switch, sid |-> sid,
                 state |-> state, seen |-> seen] \in Stages
            BY <5>1, <5>2, MovedMade
          <5>4. QED
            BY <4>1, <5>3, StagesMade DEF target, pause, sid, state, seen
      <3>3. CASE MoveDone(t) \/ Answered(t) \/ Killed(t)
        BY <3>3, <1>f, StagesMade DEF MoveDone, Answered, Killed, Deciding, g
      <3>4. CASE CheckPermission(t)
        BY <3>4, <1>f, StagesMade DEF CheckPermission, Decide, Deciding, Decisions, g
      <3>5. CASE CheckWindow(t)
        BY <3>5, <1>f, StagesMade DEF CheckWindow, Decide, Deciding, Decisions, g
      <3>6. CASE CheckRules(t)
        BY <3>6, <1>f, StagesMade DEF CheckRules, Decide, Deciding, Decisions, g
      <3>7. CASE CheckSafety(t)
        BY <3>7, <1>f, StagesMade DEF CheckSafety, Decide, Deciding, Decisions, g
      <3>8. QED
        BY <2>4, <3>1, <3>2, <3>3, <3>4, <3>5, <3>6, <3>7 DEF LaterRead
    <2>5. CASE \E u \in Users, r \in Roles : CreateUser(t, u, r)
      <3>1. PICK u \in Users, r \in Roles : CreateUser(t, u, r)
        BY <2>5
      <3>2. [pc |-> "assign", user |-> u, role |-> r] \in Stages
        BY StagesMade
      <3>3. QED
        BY <3>1, <3>2 DEF CreateUser
    <2>6. QED
      BY <2>1, <2>2, <2>3, <2>4, <2>5, StepKinds
  <1>4. QED
    BY <1>1, <1>2, <1>3 DEF TerminalsTyped, AccessTypeOK

LEMMA TypeSessions ==
  ASSUME AccessTypeOK, NEW t \in Terminals, NamesRows(t), StepOf(t)
  PROVE  SessionsTyped'
  <1>1. CASE TransitionWrite(t)
    <2>1. sessions' \in [SessionIds -> SessionRow \cup {NONE}]
      BY <1>1, TransitionRow
    <2>2. \A s \in SessionIds : sessions'[s] # NONE =>
            (sessions'[s].closed_at <=> sessions'[s].state = "CLOSED")
      <3> TAKE s \in SessionIds
      <3>1. CASE s = term[t].sid
        BY <1>1, <3>1, TransitionRow
      <3>2. CASE s # term[t].sid
        BY <1>1, <3>2, TransitionRow DEF AccessTypeOK
      <3>3. QED
        BY <3>1, <3>2
    <2>3. QED
      BY <2>1, <2>2 DEF SessionsTyped
  <1>2. ASSUME NEW s \in SessionIds, InsertSession(t, s)
        PROVE  SessionsTyped'
    <2>1. sessions' \in [SessionIds -> SessionRow \cup {NONE}]
      BY <1>2, InsertedRow
    <2>2. \A x \in SessionIds : sessions'[x] # NONE =>
            (sessions'[x].closed_at <=> sessions'[x].state = "CLOSED")
      <3> TAKE x \in SessionIds
      <3>1. CASE x = s
        BY <1>2, <3>1, InsertedRow
      <3>2. CASE x # s
        BY <1>2, <3>2, InsertedRow DEF AccessTypeOK
      <3>3. QED
        BY <3>1, <3>2
    <2>3. QED
      BY <2>1, <2>2 DEF SessionsTyped
  <1>3. CASE UNCHANGED sessions
    BY <1>3 DEF AccessTypeOK, SessionsTyped
  <1>4. CASE OneStatement(t) \/ FirstRead(t)
    <2>1. UNCHANGED sessions
      BY <1>4 DEF OneStatement, FirstRead, UserRoleAdd, TokenCreate, TokenRevoke,
                  EngagementCreate, ScopeAdd, UserRoleRemove, Opening, SessionMove,
                  SessionSwitch, SessionReconnect, ModeSet, Ask
    <2>2. QED
      BY <2>1, <1>3
  <1>5. CASE LaterWrite(t)
    BY <1>5, <1>1, <1>2, <1>3 DEF LaterWrite, AssignRole, RemoveRole, ToggleConfig
  <1>6. CASE LaterRead(t)
    BY <1>6, <1>3 DEF LaterRead, SessionSnapshot, TransitionRead, MoveDone, CheckPermission,
                CheckWindow, CheckRules, CheckSafety, Answered, Killed
  <1>7. CASE \E u \in Users, r \in Roles : CreateUser(t, u, r)
    BY <1>7, <1>3 DEF CreateUser
  <1>8. QED
    BY <1>4, <1>5, <1>6, <1>7, StepKinds

LEMMA TypeOthers ==
  ASSUME AccessTypeOK, NEW t \in Terminals, NamesRows(t), StepOf(t)
  PROVE  OthersTyped'
  <1> DEFINE g == term[t]
  <1>g. /\ g.pc \in {"assign", "revoke"} => g.user \in Users /\ g.role \in Roles
        /\ g.pc = "toggle" => /\ g.read \subseteq Switches /\ g.key \in Switches
                              /\ g.value \in BOOLEAN
    BY StageFields DEF AccessTypeOK
  <1> HIDE DEF g
  <1> USE DEF AccessTypeOK, OthersTyped
  <1>1. CASE OneStatement(t)
    <2>1. ASSUME NEW u \in Users, NEW k \in TokenIds, TokenCreate(t, u, k) \/ TokenRevoke(t, u, k)
          PROVE  OthersTyped'
      <3>1. tokens' \in [TokenIds -> Token \cup {NONE}]
        <4>1. NewToken(u) \in Token
          BY DEF NewToken, Token
        <4>2. tokens[k] # NONE => [tokens[k] EXCEPT !.revoked = TRUE] \in Token
          BY DEF Token
        <4>3. CASE TokenCreate(t, u, k)
          BY <4>1, <4>3 DEF TokenCreate
        <4>4. CASE TokenRevoke(t, u, k)
          BY <4>2, <4>4 DEF TokenRevoke, RevokeOwn
        <4>5. QED
          BY <2>1, <4>3, <4>4
      <3>2. QED
        BY <2>1, <3>1 DEF TokenCreate, TokenRevoke
    <2>2. CASE \E u \in Users, r \in Roles : UserRoleAdd(t, u, r)
      BY <2>2 DEF UserRoleAdd, InsertRole
    <2>3. CASE \E e \in Engagements, w \in ValidityWindow : EngagementCreate(t, e, w)
      BY <2>3 DEF EngagementCreate, InsertEngagement
    <2>4. CASE \E e \in Engagements, rule \in Rule : ScopeAdd(t, e, rule)
      BY <2>4 DEF ScopeAdd, AddAuthorization
    <2>5. QED
      BY <1>1, <2>1, <2>2, <2>3, <2>4 DEF OneStatement
  <1>2. CASE FirstRead(t)
    BY <1>2 DEF FirstRead, UserRoleRemove, Opening, SessionMove, SessionSwitch,
                SessionReconnect, ModeSet, Ask
  <1>3. CASE LaterWrite(t)
    <2>1. CASE AssignRole(t)
      BY <2>1, <1>g DEF AssignRole, InsertRole, g
    <2>2. CASE RemoveRole(t)
      BY <2>2, <1>g DEF RemoveRole, g
    <2>3. CASE ToggleConfig(t)
      BY <2>3, <1>g DEF ToggleConfig, g
    <2>4. CASE TransitionWrite(t) \/ \E s \in SessionIds : InsertSession(t, s)
      BY <2>4 DEF TransitionWrite, InsertSession
    <2>5. QED
      BY <1>3, <2>1, <2>2, <2>3, <2>4 DEF LaterWrite
  <1>4. CASE LaterRead(t)
    BY <1>4 DEF LaterRead, SessionSnapshot, TransitionRead, MoveDone, CheckPermission,
                CheckWindow, CheckRules, CheckSafety, Answered, Killed
  <1>5. CASE \E u \in Users, r \in Roles : CreateUser(t, u, r)
    BY <1>5 DEF CreateUser, InsertUser
  <1>6. QED
    BY <1>1, <1>2, <1>3, <1>4, <1>5, StepKinds

-----------------------------------------------------------------------------
(* Each clause of the invariant, first for the terminals that do not move.  *)

LEMMA OthersHold ==
  ASSUME AccessTypeOK, NEW t \in Terminals, NamesRows(t), StepOf(t),
         NEW x \in Terminals \ {t}, Holds(x)
  PROVE  Holds(x)'
  <1>1. TablesGrow
    BY TablesOnlyGrow
  <1>2. term'[x] = term[x] /\ clock' = clock
    BY OthersKeep
  <1>3. quiet'[x] => quiet[x] /\ UNCHANGED tables
    BY OthersKeep
  <1>4. NamesRows(x)'
    <2>1. NamesRows(x)
      BY DEF Holds
    <2>2. Known \subseteq Known' /\ accounts \subseteq accounts'
      BY <1>1 DEF TablesGrow
    <2>3. \A u, s : s \in Owned(u) => s \in Owned(u)'
      BY <1>1 DEF TablesGrow, Owned
    <2>4. QED
      BY <1>2, <2>1, <2>2, <2>3 DEF NamesRows
  <1>5. ReadsStand(x)'
    BY <1>2, <1>3 DEF Holds, ReadsStand, tables
  <1>6. SwitchPauses(x)'
    BY <1>2, <1>3 DEF Holds, SwitchPauses, tables, Owned, Known
  <1>7. Established(x)'
    <2> DEFINE ask == term[x].ask
    <2>1. Permitted(x) => Permitted(x)'
      BY <1>2, <1>3 DEF Permitted, UserHasPermission, tables
    <2>2. term[x].pc \in Deciding => ask \in Request
      BY StageFields DEF AccessTypeOK
    <2>3. ask \in Request /\ WindowOpened(ask) =>
            WindowOpened(ask)' /\ rules[ask.engagement] \subseteq rules'[ask.engagement]
      BY <1>1, <1>2 DEF TablesGrow, WindowOpened, Request
    <2>4. QED
      BY <1>2, <1>3, <2>1, <2>2, <2>3
         DEF Holds, Established, Deciding, Scoped, RuleAllows, RuleDenies, Matches, tables
  <1>8. QED
    BY <1>4, <1>5, <1>6, <1>7 DEF Holds

-----------------------------------------------------------------------------
(* Then for the terminal that moves.                                        *)

\* The stages a first statement leads to.
FirstStage(t) ==
  \/ \E u \in Users, r \in Roles :
       UserRoleRemove(t, u, r) /\ term'[t] = [pc |-> "revoke", user |-> u, role |-> r]
  \/ \E u \in accounts, r \in Roles : \E ask \in Requests(u) \cup {NONE} :
       term'[t] = [pc |-> "open", user |-> u, role |-> r, ask |-> ask]
  \/ \E s \in Known, to \in SessionStates : term'[t] = Moving({}, s, to, NONE)
  \/ \E u \in accounts, s \in Known : SessionSwitch(t, u, s)
  \/ \E key \in Switches, value \in BOOLEAN :
       term'[t] = [pc |-> "toggle", read |-> safety, key |-> key, value |-> value]
  \/ \E u \in accounts : \E ask \in Requests(u) :
       term'[t] = [pc |-> "permission", ask |-> ask]

LEMMA FirstStages ==
  ASSUME AccessTypeOK, NEW t \in Terminals, FirstRead(t)
  PROVE  UNCHANGED tables /\ quiet'[t] /\ FirstStage(t)
  <1> USE DEF AccessTypeOK, tables, Starts
  <1>1. ASSUME NEW u \in Users, NEW r \in Roles, UserRoleRemove(t, u, r)
        PROVE  UNCHANGED tables /\ quiet'[t] /\ FirstStage(t)
    BY <1>1 DEF UserRoleRemove, FirstStage
  <1>2. ASSUME NEW u \in Users, NEW r \in Roles, NEW ask \in Requests(u) \cup {NONE},
               Opening(t, u, r, ask)
        PROVE  UNCHANGED tables /\ quiet'[t] /\ FirstStage(t)
    BY <1>2 DEF Opening, FirstStage
  <1>3. ASSUME NEW s \in SessionIds, NEW to \in SessionStates, SessionMove(t, s, to)
        PROVE  UNCHANGED tables /\ quiet'[t] /\ FirstStage(t)
    BY <1>3 DEF SessionMove, FirstStage
  <1>4. ASSUME NEW u \in Users, NEW s \in SessionIds, SessionSwitch(t, u, s)
        PROVE  UNCHANGED tables /\ quiet'[t] /\ FirstStage(t)
    BY <1>4 DEF SessionSwitch, Owned, FirstStage
  <1>5. ASSUME NEW u \in Users, NEW s \in SessionIds, SessionReconnect(t, u, s)
        PROVE  UNCHANGED tables /\ quiet'[t] /\ FirstStage(t)
    BY <1>5 DEF SessionReconnect, Owned, SessionStates, FirstStage
  <1>6. ASSUME NEW key \in Switches, NEW value \in BOOLEAN, ModeSet(t, key, value)
        PROVE  UNCHANGED tables /\ quiet'[t] /\ FirstStage(t)
    BY <1>6 DEF ModeSet, FirstStage
  <1>7. ASSUME NEW u \in Users, NEW ask \in Requests(u), Ask(t, u, ask)
        PROVE  UNCHANGED tables /\ quiet'[t] /\ FirstStage(t)
    BY <1>7 DEF Ask, FirstStage
  <1>8. QED
    BY <1>1, <1>2, <1>3, <1>4, <1>5, <1>6, <1>7 DEF FirstRead

\* A terminal at its prompt has nothing to keep.
LEMMA PromptHolds ==
  ASSUME NEW t \in Terminals, term'[t].pc \in {"idle", "assign"}
  PROVE  Holds(t)'
  BY DEF Holds, NamesRows, ReadsStand, SwitchPauses, Established, Deciding

LEMMA FirstReadHolds ==
  ASSUME AccessTypeOK, NEW t \in Terminals, FirstRead(t)
  PROVE  Holds(t)'
  <1>1. UNCHANGED tables /\ quiet'[t]
    BY FirstStages
  <1>2. ASSUME NEW u \in Users, NEW r \in Roles, UserRoleRemove(t, u, r),
               term'[t] = [pc |-> "revoke", user |-> u, role |-> r]
        PROVE  Holds(t)'
    <2>1. userRoles[u] \ {r} # {}
      <3>1. r \in userRoles[u] /\ Cardinality(userRoles[u]) > 1
        BY <1>2 DEF UserRoleRemove, Removable
      <3>2. userRoles[u] = {r} => Cardinality(userRoles[u]) = 1
        BY FS_Singleton
      <3>3. QED
        BY <3>1, <3>2
    <2>2. QED
      BY <1>1, <1>2, <2>1
         DEF Holds, NamesRows, ReadsStand, SwitchPauses, Established, Deciding, tables
  <1>3. ASSUME NEW u \in accounts, NEW r \in Roles, NEW ask \in Requests(u) \cup {NONE},
               term'[t] = [pc |-> "open", user |-> u, role |-> r, ask |-> ask]
        PROVE  Holds(t)'
    <2>1. ask # NONE => ask.user = u /\ ask.sid = NONE
      BY AsksAreRequests DEF AccessTypeOK
    <2>2. QED
      BY <1>1, <1>3, <2>1
         DEF Holds, NamesRows, ReadsStand, SwitchPauses, Established, Deciding, tables
  <1>4. ASSUME NEW s \in Known, NEW to \in SessionStates, term'[t] = Moving({}, s, to, NONE)
        PROVE  Holds(t)'
    BY <1>1, <1>4 DEF Holds, NamesRows, ReadsStand, SwitchPauses, Established, Deciding,
                      tables, Moving, Known
  <1>5. ASSUME NEW u \in accounts, NEW s \in Known, SessionSwitch(t, u, s)
        PROVE  Holds(t)'
    <2> DEFINE others == {x \in Owned(u) \ {s} : sessions[x].state = "ACTIVE"}
               goal == IF sessions[s].state = "ACTIVE" THEN NONE ELSE s
    <2>1. term'[t] = Moving(others, goal, "ACTIVE", s) /\ sessions[s].owner = u
      BY <1>5 DEF SessionSwitch, Starts, Owned, AccessTypeOK
    <2>2. /\ others \subseteq Known /\ goal \in Known \cup {NONE} /\ s \notin others
          /\ goal \in {NONE, s} /\ s # NONE
          /\ {x \in Owned(u) : sessions[x].state = "ACTIVE"} \subseteq others \cup {s}
          /\ goal = NONE => s \in {x \in Owned(u) : sessions[x].state = "ACTIVE"}
      BY <2>1, NoneAssumption DEF Owned, Known
    <2> HIDE DEF others, goal
    <2>3. NamesRows(t)'
      BY <1>1, <2>1, <2>2 DEF NamesRows, Deciding, tables, Moving, Known
    <2>4. SwitchPauses(t)'
      <3>1. UNCHANGED sessions
        BY <1>1 DEF tables
      <3>2. {x \in Owned(u) : sessions[x].state = "ACTIVE"}'
              = {x \in Owned(u) : sessions[x].state = "ACTIVE"}
        BY <3>1 DEF Owned, Known
      <3>3. QED
        BY <2>1, <2>2, <3>1, <3>2 DEF SwitchPauses, Moving, Owned, Known
    <2>5. QED
      BY <2>1, <2>3, <2>4 DEF Holds, ReadsStand, Established, Moving
  <1>6. ASSUME NEW key \in Switches, NEW value \in BOOLEAN,
               term'[t] = [pc |-> "toggle", read |-> safety, key |-> key, value |-> value]
        PROVE  Holds(t)'
    BY <1>1, <1>6
       DEF Holds, NamesRows, ReadsStand, SwitchPauses, Established, Deciding, tables
  <1>7. ASSUME NEW u \in accounts, NEW ask \in Requests(u),
               term'[t] = [pc |-> "permission", ask |-> ask]
        PROVE  Holds(t)'
    <2>1. ask.user = u /\ ask.sid = NONE
      BY AsksAreRequests DEF AccessTypeOK
    <2>2. QED
      BY <1>1, <1>7, <2>1
         DEF Holds, NamesRows, ReadsStand, SwitchPauses, Established, Deciding, tables
  <1>8. QED
    <2>1. accounts \subseteq Users
      BY DEF AccessTypeOK
    <2>2. QED
      BY <2>1, FirstStages, <1>2, <1>3, <1>4, <1>5, <1>6, <1>7 DEF FirstStage

LEMMA LaterWriteHolds ==
  ASSUME AccessTypeOK, NEW t \in Terminals, Holds(t), LaterWrite(t)
  PROVE  Holds(t)'
  <1>1. CASE AssignRole(t) \/ RemoveRole(t) \/ ToggleConfig(t)
    BY <1>1, PromptHolds DEF AssignRole, RemoveRole, ToggleConfig, Goes, idle, AccessTypeOK
  <1>2. ASSUME NEW s \in SessionIds, InsertSession(t, s)
        PROVE  Holds(t)'
    <2> DEFINE ask == term[t].ask
               filled == [ask EXCEPT !.sid = s]
    <2>1. CASE ask = NONE
      BY <1>2, <2>1, PromptHolds DEF InsertSession, Goes, idle, AccessTypeOK
    <2>2. CASE ask # NONE
      <3>1. term'[t] = [pc |-> "opened", ask |-> filled] /\ accounts' = accounts
        BY <1>2, <2>2 DEF InsertSession, Goes, AccessTypeOK
      <3>2. term[t].user \in accounts /\ ask.user = term[t].user
        BY <1>2, <2>2 DEF InsertSession, Holds, NamesRows
      <3>3. ask \in Request
        BY <1>2, <2>2, StageFields DEF InsertSession, AccessTypeOK
      <3>4. filled.sid = s /\ filled.user = ask.user
        BY <3>3, RequestFilled
      <3>5. s # NONE /\ s \in Known' /\ sessions'[s].owner = term[t].user
        BY <1>2, InsertedRow, NoneAssumption, RowAssumption DEF Known
      <3> HIDE DEF filled
      <3>6. NamesRows(t)'
        BY <3>1, <3>2, <3>4, <3>5 DEF NamesRows, Deciding, Owned
      <3>7. QED
        BY <3>1, <3>6 DEF Holds, ReadsStand, SwitchPauses, Established
    <2>3. QED
      BY <2>1, <2>2
  <1>3. CASE TransitionWrite(t)
    <2> DEFINE g == term[t]
    <2>1. /\ g.pc = "moved"
          /\ term'[t] = Moving(g.pause, g.target, g.to, g.switch)
          /\ quiet'[t] => quiet[t]
      BY <1>3 DEF TransitionWrite, Goes, Writes, AccessTypeOK
    <2>2. TablesGrow
      BY <1>3, TablesOnlyGrow DEF Holds, StepOf, Continue
    <2>3. NamesRows(t)'
      BY <2>1, <2>2 DEF Holds, NamesRows, Moving, Deciding, TablesGrow
    <2>4. SwitchPauses(t)'
      <3> SUFFICES ASSUME g.switch # NONE, quiet[t]
                   PROVE  SwitchPauses(t)'
        BY <2>1 DEF SwitchPauses, Moving
      <3> DEFINE s == g.switch
                 u == sessions[s].owner
                 active == {x \in Owned(u) : sessions[x].state = "ACTIVE"}
      <3>1. s \in Known /\ g.sid \in Known
        BY <2>1 DEF Holds, NamesRows
      <3>2. /\ \A x \in SessionIds \ {g.sid} : sessions'[x] = sessions[x]
            /\ sessions'[g.sid] \in SessionRow
            /\ sessions'[g.sid].owner = sessions[g.sid].owner
            /\ sessions'[g.sid].state = g.state
        BY <1>3, TransitionRow DEF Holds
      <3>3. Known' = Known /\ \A x \in Known : sessions'[x].owner = sessions[x].owner
        BY <3>1, <3>2, RowAssumption DEF Known
      <3>4. sessions'[s].owner = u /\ \A v : Owned(v)' = Owned(v)
        BY <3>1, <3>3 DEF Owned
      <3>5. \A x \in Owned(u) : sessions'[x].state =
              IF x = g.sid THEN g.state ELSE sessions[x].state
        BY <3>2 DEF Owned, Known
      <3>6. s \notin g.pause /\ g.target \in {NONE, s} /\ g.to = "ACTIVE"
        BY <2>1 DEF Holds, SwitchPauses
      <3>7. \/ /\ g.state = "PAUSED" /\ g.sid # s
               /\ active \subseteq g.pause \cup {g.sid, s}
               /\ g.target = NONE => s \in active
            \/ /\ g.state = "ACTIVE" /\ g.sid = s
               /\ g.pause = {} /\ g.target = NONE
               /\ active \subseteq {s}
        BY <2>1 DEF Holds, SwitchPauses
      <3> DEFINE after == {x \in Owned(u) : sessions'[x].state = "ACTIVE"}
      <3>8. after \subseteq g.pause \cup {s} /\ (g.target = NONE => s \in after)
        <4>1. CASE g.state = "PAUSED"
          BY <3>5, <3>7, <4>1
        <4>2. CASE g.state # "PAUSED"
          <5>1. s \in Owned(u)
            BY <3>1 DEF Owned
          <5>2. QED
            BY <3>5, <3>7, <4>2, <5>1
        <4>3. QED
          BY <4>1, <4>2
      <3>9. {x \in Owned(sessions[term[t].switch].owner) : sessions[x].state = "ACTIVE"}' = after
        BY <2>1, <3>4 DEF Moving
      <3> HIDE DEF after, s, u, active
      <3>10. term'[t].switch = s /\ term'[t].pause = g.pause /\ term'[t].target = g.target
               /\ term'[t].to = g.to /\ term'[t].pc = "moving"
        BY <2>1 DEF Moving, s
      <3>11. QED
        BY <3>6, <3>8, <3>9, <3>10 DEF SwitchPauses
    <2>5. QED
      BY <2>1, <2>3, <2>4 DEF Holds, ReadsStand, Established, Moving
  <1>4. QED
    BY <1>1, <1>2, <1>3 DEF LaterWrite

LEMMA LaterReadHolds ==
  ASSUME AccessTypeOK, NEW t \in Terminals, Holds(t), LaterRead(t)
  PROVE  Holds(t)'
  <1> DEFINE g == term[t]
  <1>0. /\ UNCHANGED tables /\ quiet' = quiet /\ clock' = clock
        /\ g \in Stages
    BY DEF LaterRead, SessionSnapshot, TransitionRead, MoveDone, CheckPermission,
           CheckWindow, CheckRules, CheckSafety, Answered, Killed, tables, AccessTypeOK
  <1>f. g.pc \in Deciding \cup {"opened"} => g.ask \in Request
    BY <1>0, StageFields
  <1>1. CASE MoveDone(t) \/ Killed(t)
    BY <1>1, PromptHolds DEF MoveDone, Killed, Goes, idle, AccessTypeOK
  <1>2. CASE SessionSnapshot(t)
    <2> DEFINE filled == [g.ask EXCEPT !.live = (sessions[g.ask.sid].state = "ACTIVE")]
    <2>1. term'[t] = [pc |-> "permission", ask |-> filled] /\ g.pc = "opened"
      BY <1>2 DEF SessionSnapshot, Goes, AccessTypeOK
    <2>2. filled.sid = g.ask.sid /\ filled.user = g.ask.user
      BY <1>f, <2>1, RequestFilled
    <2> HIDE DEF filled
    <2>3. NamesRows(t)'
      BY <1>0, <2>1, <2>2 DEF Holds, NamesRows, Deciding, tables, Owned, Known
    <2>4. QED
      BY <2>1, <2>3 DEF Holds, ReadsStand, SwitchPauses, Established
  <1>3. CASE TransitionRead(t)
    <2>1. PICK move \in NextMoves(g) :
            term'[t] = IF move[2] \in AllowedTransitions[sessions[move[1]].state]
              THEN [pc |-> "moved", pause |-> g.pause \ {move[1]},
                    target |-> IF move[1] = g.target THEN NONE ELSE g.target,
                    to |-> g.to, switch |-> g.switch, sid |-> move[1],
                    state |-> move[2], seen |-> sessions[move[1]].state]
              ELSE idle
      BY <1>3 DEF TransitionRead, Goes, AccessTypeOK
    <2>2. g.pc = "moving"
      BY <1>3 DEF TransitionRead
    <2>3. /\ move[1] \in SessionIds
          /\ \/ /\ g.pause # {} /\ move[1] \in g.pause /\ move[2] = "PAUSED"
             \/ /\ g.pause = {} /\ g.target # NONE /\ move[1] = g.target /\ move[2] = g.to
      BY <1>0, <2>2, MovesTyped
    <2>4. CASE move[2] \notin AllowedTransitions[sessions[move[1]].state]
      BY <2>1, <2>4, PromptHolds DEF idle
    <2>5. CASE move[2] \in AllowedTransitions[sessions[move[1]].state]
      <3> DEFINE sid == move[1]
                 target == IF sid = g.target THEN NONE ELSE g.target
      <3>1. /\ term'[t].pc = "moved" /\ term'[t].pause = g.pause \ {sid}
            /\ term'[t].target = target /\ term'[t].to = g.to
            /\ term'[t].switch = g.switch /\ term'[t].sid = sid
            /\ term'[t].state = move[2] /\ term'[t].seen = sessions[sid].state
        BY <2>1, <2>5
      <3>2. NamesRows(t)'
        <4>1. sid \in Known
          BY <2>2, <2>3, NoneAssumption DEF Holds, NamesRows
        <4>2. QED
          BY <1>0, <2>2, <3>1, <4>1 DEF Holds, NamesRows, Deciding, tables, Known
      <3>3. ReadsStand(t)'
        BY <1>0, <2>5, <3>1 DEF ReadsStand, tables, AllowedTransitions
      <3>4. SwitchPauses(t)'
        <4> SUFFICES ASSUME g.switch # NONE, quiet[t]
                     PROVE  SwitchPauses(t)'
          BY <1>0, <3>1 DEF SwitchPauses
        <4> DEFINE s == g.switch
                   active == {x \in Owned(sessions[s].owner) : sessions[x].state = "ACTIVE"}
        <4>1. /\ s \notin g.pause /\ g.target \in {NONE, s} /\ g.to = "ACTIVE"
              /\ active \subseteq g.pause \cup {s}
              /\ g.target = NONE => s \in active
          BY <2>2 DEF Holds, SwitchPauses
        <4>2. active' = active
          BY <1>0, <3>1 DEF tables, Owned, Known
        <4>3. sid # NONE
          BY <2>3, NoneAssumption
        <4> HIDE DEF active, s, sid, g
        <4>4. /\ s \notin g.pause \ {sid} /\ target \in {NONE, s}
              /\ \/ /\ move[2] = "PAUSED" /\ sid # s
                    /\ active \subseteq (g.pause \ {sid}) \cup {sid, s}
                    /\ target = NONE => s \in active
                 \/ /\ move[2] = "ACTIVE" /\ sid = s
                    /\ g.pause \ {sid} = {} /\ target = NONE
                    /\ active \subseteq {s}
          <5>1. CASE g.pause # {}
            BY <2>3, <4>1, <4>3, <5>1 DEF sid
          <5>2. CASE g.pause = {}
            BY <2>3, <4>1, <4>3, <5>2 DEF sid
          <5>3. QED
            BY <5>1, <5>2
        <4>5. term'[t].switch = s
          BY <3>1 DEF s
        <4>6. {x \in Owned(sessions[term[t].switch].owner) : sessions[x].state = "ACTIVE"}' = active
          BY <4>2 DEF active, s, g
        <4> HIDE DEF target
        <4>7. QED
          BY <3>1, <4>1, <4>4, <4>5, <4>6 DEF SwitchPauses
      <3>5. QED
        BY <3>1, <3>2, <3>3, <3>4 DEF Holds, Established
    <2>6. QED
      BY <2>4, <2>5
  <1>4. ASSUME term'[t].pc \in Deciding, term'[t].ask = g.ask, g.pc \in Deciding,
               Established(t)'
        PROVE  Holds(t)'
    <2>1. NamesRows(t)'
      BY <1>0, <1>4 DEF Holds, NamesRows, Deciding, tables, Owned, Known
    <2>2. QED
      BY <1>4, <2>1 DEF Holds, ReadsStand, SwitchPauses, Deciding
  <1>5. CASE Answered(t)
    <2>1. CASE term'[t] = idle
      BY <2>1, PromptHolds DEF idle
    <2>2. CASE term'[t] = [pc |-> "permission", ask |-> g.ask] /\ g.pc = "decided"
      BY <2>2, <1>4 DEF Established, Deciding
    <2>3. QED
      BY <1>5, <2>1, <2>2 DEF Answered, Goes, AccessTypeOK
  <1>6. CASE CheckPermission(t)
    <2>1. g.pc = "permission" /\ term'[t].pc \in Deciding /\ term'[t].ask = g.ask
      BY <1>6 DEF CheckPermission, Decide, Goes, Deciding, AccessTypeOK
    <2>2. Established(t)'
      BY <1>0, <1>6 DEF CheckPermission, Decide, Goes, Established, Permitted, Scoped,
                        UserHasPermission, tables, AccessTypeOK
    <2>3. QED
      BY <1>4, <2>1, <2>2 DEF Deciding
  <1>7. CASE CheckWindow(t)
    <2>1. g.pc = "window" /\ term'[t].pc \in Deciding /\ term'[t].ask = g.ask
      BY <1>7 DEF CheckWindow, Decide, Goes, Deciding, AccessTypeOK
    <2>2. Permitted(t)' <=> Permitted(t)
      BY <1>0, <2>1 DEF Permitted, UserHasPermission, tables
    <2>3. term'[t].pc = "rules" => WindowOpened(g.ask)'
      <3>1. ASSUME term'[t].pc = "rules"
            PROVE  windows[g.ask.engagement] # NONE
                     /\ WindowStatus(windows[g.ask.engagement]) = "active"
        BY <1>7, <3>1 DEF CheckWindow, Decide, Goes, AccessTypeOK
      <3>2. g.ask.engagement # NONE /\ g.ask.engagement \in Engagements
        BY <1>f, <2>1 DEF Holds, Established, Request, Deciding
      <3>3. windows[g.ask.engagement] # NONE => windows[g.ask.engagement].from \in Nat
        BY <3>2, BoundsAssumption DEF AccessTypeOK, ValidityWindow
      <3>4. clock \in Nat
        BY BoundsAssumption DEF AccessTypeOK
      <3>5. QED
        BY <1>0, <2>1, <3>1, <3>2, <3>3, <3>4 DEF WindowOpened, WindowStatus, tables
    <2>4. term'[t].pc \in {"rules", "decided"}
            /\ (term'[t].pc = "decided" => term'[t].decision = "REQUIRE_AUTHORIZATION")
      BY <1>7 DEF CheckWindow, Decide, Goes, AccessTypeOK
    <2>5. Established(t)'
      BY <2>1, <2>2, <2>3, <2>4 DEF Holds, Established, Scoped
    <2>6. QED
      BY <1>4, <2>1, <2>5 DEF Deciding
  <1>8. CASE CheckRules(t)
    <2>1. g.pc = "rules" /\ term'[t].pc \in Deciding /\ term'[t].ask = g.ask
      BY <1>8 DEF CheckRules, Decide, Goes, Deciding, AccessTypeOK
    <2>2. Permitted(t)' <=> Permitted(t)
      BY <1>0, <2>1 DEF Permitted, UserHasPermission, tables
    <2>3. WindowOpened(g.ask)' <=> WindowOpened(g.ask)
      BY <1>0, <2>1 DEF WindowOpened, tables
    <2>4. term'[t].pc = "safety" => RuleAllows(g.ask)' /\ ~RuleDenies(g.ask)'
      BY <1>0, <1>8 DEF CheckRules, Decide, Goes, AccessTypeOK, ScopeAllows, RuleAllows,
                        RuleDenies, Matches, tables
    <2>5. term'[t].pc \in {"safety", "decided"}
            /\ (term'[t].pc = "decided" => term'[t].decision = "REQUIRE_AUTHORIZATION")
      BY <1>8 DEF CheckRules, Decide, Goes, AccessTypeOK
    <2>6. Established(t)'
      BY <2>1, <2>2, <2>3, <2>4, <2>5 DEF Holds, Established, Scoped
    <2>7. QED
      BY <1>4, <2>1, <2>6 DEF Deciding
  <1>9. CASE CheckSafety(t)
    <2>1. g.pc = "safety" /\ term'[t].pc = "decided" /\ term'[t].ask = g.ask
      BY <1>9 DEF CheckSafety, Decide, Goes, AccessTypeOK
    <2>2. Permitted(t)' <=> Permitted(t)
      BY <1>0, <2>1 DEF Permitted, UserHasPermission, tables
    <2>3. /\ WindowOpened(g.ask)' <=> WindowOpened(g.ask)
          /\ RuleAllows(g.ask)' <=> RuleAllows(g.ask)
          /\ RuleDenies(g.ask)' <=> RuleDenies(g.ask)
      BY <1>0, <2>1 DEF WindowOpened, RuleAllows, RuleDenies, Matches, tables
    <2>4. Established(t)'
      BY <1>0, <2>1, <2>2, <2>3 DEF Holds, Established, Scoped
    <2>5. QED
      BY <1>4, <2>1, <2>4 DEF Deciding
  <1>10. QED
    BY <1>1, <1>2, <1>3, <1>5, <1>6, <1>7, <1>8, <1>9 DEF LaterRead

-----------------------------------------------------------------------------
(* The invariant.                                                           *)

LEMMA AccessInvInit == AccessInit => AccessInv
  <1> SUFFICES ASSUME AccessInit PROVE AccessInv
    OBVIOUS
  <1>1. AccessTypeOK
    <2>1. TerminalsTyped
      BY BoundsAssumption, StagesMade DEF AccessInit, TerminalsTyped
    <2>2. SessionsTyped
      BY DEF AccessInit, SessionsTyped
    <2>3. OthersTyped
      BY BoundsAssumption DEF AccessInit, OthersTyped
    <2>4. QED
      BY <2>1, <2>2, <2>3, TypeParts
  <1>2. \A t \in Terminals : Holds(t)
    BY DEF AccessInit, idle, Holds, NamesRows, ReadsStand, SwitchPauses, Established, Deciding
  <1>3. QED
    BY <1>1, <1>2 DEF AccessInv

LEMMA MoverHolds ==
  ASSUME AccessTypeOK, NEW t \in Terminals, Holds(t), StepOf(t)
  PROVE  Holds(t)'
  <1>1. CASE OneStatement(t)
    <2>1. term'[t] = idle
      BY <1>1 DEF OneStatement, UserRoleAdd, TokenCreate, TokenRevoke, EngagementCreate,
                  ScopeAdd, Commands, Idle
    <2>2. QED
      BY <2>1, PromptHolds DEF idle
  <1>2. CASE \E u \in Users, r \in Roles : CreateUser(t, u, r)
    <2>1. term'[t].pc = "assign"
      BY <1>2 DEF CreateUser, AccessTypeOK
    <2>2. QED
      BY <2>1, PromptHolds
  <1>3. QED
    BY <1>1, <1>2, StepKinds, FirstReadHolds, LaterWriteHolds, LaterReadHolds

LEMMA ClockTickHolds ==
  ASSUME AccessInv, ClockTick
  PROVE  AccessInv'
  <1>1. clock \in Nat /\ clock' \in 0..MaxClock /\ clock' > clock
    BY BoundsAssumption DEF AccessInv, AccessTypeOK, ClockTick
  <1>2. UNCHANGED <<tables, term, quiet, left>>
    BY DEF ClockTick, tables
  <1>3. AccessTypeOK'
    BY <1>1, <1>2 DEF AccessInv, AccessTypeOK, tables
  <1>4. ASSUME NEW t \in Terminals
        PROVE  Holds(t)'
    <2> DEFINE ask == term[t].ask
    <2>1. NamesRows(t)' /\ ReadsStand(t)' /\ SwitchPauses(t)'
      BY <1>2 DEF AccessInv, Holds, NamesRows, ReadsStand, SwitchPauses, tables, Owned, Known
    <2>2. term[t].pc \in Deciding => ask \in Request
      BY StageFields DEF AccessInv, AccessTypeOK
    <2>3. ASSUME ask \in Request, WindowOpened(ask)
          PROVE  WindowOpened(ask)'
      <3>1. ask.engagement \in Engagements /\ windows[ask.engagement] # NONE
              /\ clock >= windows[ask.engagement].from
        BY <2>3 DEF WindowOpened, Request
      <3>2. windows[ask.engagement].from \in Nat
        BY <3>1, BoundsAssumption DEF AccessInv, AccessTypeOK, ValidityWindow
      <3>3. clock' \in Nat /\ clock' >= windows[ask.engagement].from
        BY <1>1, <3>1, <3>2, BoundsAssumption
      <3>4. QED
        BY <1>2, <2>3, <3>1, <3>3 DEF WindowOpened, tables
    <2>4. Established(t)'
      BY <1>2, <2>2, <2>3 DEF AccessInv, Holds, Established, Permitted, UserHasPermission,
                              Scoped, RuleAllows, RuleDenies, Matches, Deciding, tables
    <2>5. QED
      BY <2>1, <2>4 DEF Holds
  <1>5. QED
    BY <1>3, <1>4 DEF AccessInv

LEMMA AccessInvStep ==
  ASSUME AccessInv, [AccessNext]_accessVars
  PROVE  AccessInv'
  <1>1. ASSUME NEW t \in Terminals, StepOf(t)
        PROVE  AccessInv'
    <2>1. AccessTypeOK /\ Holds(t) /\ NamesRows(t)
      BY DEF AccessInv, Holds
    <2>2. AccessTypeOK'
      <3>1. TerminalsTyped' /\ SessionsTyped' /\ OthersTyped'
        BY <1>1, <2>1, TypeTerminals, TypeSessions, TypeOthers
      <3>2. QED
        BY <3>1 DEF AccessTypeOK, TerminalsTyped, SessionsTyped, OthersTyped
    <2>3. Holds(t)'
      BY <1>1, <2>1, MoverHolds
    <2>4. \A x \in Terminals \ {t} : Holds(x)'
      BY <1>1, <2>1, OthersHold DEF AccessInv
    <2>5. QED
      BY <2>2, <2>3, <2>4 DEF AccessInv
  <1>2. CASE UNCHANGED accessVars
    <2>1. AccessTypeOK'
      BY <1>2 DEF accessVars, AccessInv, AccessTypeOK
    <2>2. \A t \in Terminals : Holds(t)'
      BY <1>2 DEF accessVars, AccessInv, Holds, NamesRows, ReadsStand, SwitchPauses, Established,
                  Permitted, UserHasPermission, WindowOpened, RuleAllows, RuleDenies, Matches,
                  Owned, Known
    <2>3. QED
      BY <2>1, <2>2 DEF AccessInv
  <1>3. QED
    BY <1>1, <1>2, ClockTickHolds DEF AccessNext, StepOf

LEMMA AccessInvariance == AccessSpec => []AccessInv
  BY AccessInvInit, AccessInvStep, PTL DEF AccessSpec

-----------------------------------------------------------------------------
(* What follows from it.                                                    *)

\* The rows and the terminals keep their types, and a session has a closing
\* time exactly while it is CLOSED, in every execution.
THEOREM AccessTypeCorrect == AccessSpec => []AccessTypeOK
  <1>1. AccessInv => AccessTypeOK
    BY DEF AccessInv
  <1>2. QED
    BY <1>1, AccessInvariance, PTL

\* A switch that no other terminal wrote beside leaves its target as the one
\* ACTIVE session of the user, however many sessions it had to pause.
THEOREM SwitchEndsAlone == AccessSpec => []SwitchLeavesOneActive
  <1>1. ASSUME AccessInv PROVE SwitchLeavesOneActive
    <2>1. SUFFICES ASSUME NEW t \in Terminals, term[t].pc = "moving", term[t].switch # NONE,
                          quiet[t], NextMoves(term[t]) = {}
                   PROVE  LET s == term[t].switch IN
                          {x \in Owned(sessions[s].owner) : sessions[x].state = "ACTIVE"} = {s}
      BY DEF SwitchLeavesOneActive
    <2>2. term[t].pause = {} /\ term[t].target = NONE
      <3>1. term[t].pause # {} => term[t].pause \X {"PAUSED"} # {}
        <4>1. ASSUME NEW x \in term[t].pause PROVE <<x, "PAUSED">> \in term[t].pause \X {"PAUSED"}
          OBVIOUS
        <4>2. QED
          BY <4>1
      <3>2. QED
        BY <2>1, <3>1 DEF NextMoves
    <2>3. SwitchPauses(t)
      BY <1>1 DEF AccessInv, Holds
    <2>4. QED
      BY <2>1, <2>2, <2>3 DEF SwitchPauses
  <1>2. QED
    BY <1>1, AccessInvariance, PTL

\* A standing ALLOW rests on an account, a session, an opened window and an
\* allowing rule that are still there; undisturbed, on the permission and on
\* no denying rule.
THEOREM AllowStaysGrounded == AccessSpec => []AllowIsGrounded
  <1>1. ASSUME AccessInv PROVE AllowIsGrounded
    BY <1>1 DEF AccessInv, Holds, NamesRows, Established, AllowIsGrounded, Permitted, Scoped,
                WindowOpened, RuleAllows, RuleDenies, Deciding
  <1>2. QED
    BY <1>1, AccessInvariance, PTL

\* A closed session comes back, the last role of a user goes and a switch
\* changes under another's command only when two commands overlapped.
THEOREM LossesOnlyByOverlap == AccessSpec => LossesNeedOverlap
  <1> DEFINE Closed == \A s \in Known :
                          sessions[s].state = "CLOSED" /\ sessions'[s].state # "CLOSED" =>
               \E t \in Terminals : /\ term[t].pc = "moved" /\ term[t].sid = s
                                    /\ term[t].seen # "CLOSED" /\ ~quiet[t]
             LastRole == \A u \in Users : userRoles[u] # {} /\ userRoles'[u] = {} =>
               \E t \in Terminals : term[t].pc = "revoke" /\ term[t].user = u /\ ~quiet[t]
             Switch == \A key \in Switches : (key \in safety) # (key \in safety') =>
               \E t \in Terminals : /\ term[t].pc = "toggle"
                                    /\ term[t].key = key \/ ~quiet[t]
             Loss == Closed /\ LastRole /\ Switch
  <1>1. ASSUME AccessInv, NEW t \in Terminals, StepOf(t)
        PROVE  Loss
    <2>0. AccessTypeOK /\ Holds(t) /\ NamesRows(t) /\ ReadsStand(t) /\ term[t] \in Stages
      BY <1>1 DEF AccessInv, AccessTypeOK, Holds
    <2>1. CASE UNCHANGED <<sessions, userRoles, safety>>
      BY <2>1
    <2>2. CASE OneStatement(t)
      <3>1. UNCHANGED <<sessions, safety>> /\ \A u \in Users : userRoles[u] \subseteq userRoles'[u]
        BY <2>0, <2>2 DEF OneStatement, UserRoleAdd, TokenCreate, TokenRevoke, EngagementCreate,
                          ScopeAdd, InsertRole, AccessTypeOK
      <3>2. QED
        BY <3>1
    <2>3. CASE AssignRole(t)
      <3>1. UNCHANGED <<sessions, safety>> /\ \A u \in Users : userRoles[u] \subseteq userRoles'[u]
        BY <2>0, <2>3 DEF AssignRole, InsertRole, AccessTypeOK
      <3>2. QED
        BY <3>1
    <2>4. CASE RemoveRole(t)
      <3>1. Closed /\ Switch
        BY <2>4 DEF RemoveRole
      <3>2. LastRole
        BY <2>0, <2>4 DEF RemoveRole, ReadsStand, AccessTypeOK
      <3>3. QED
        BY <3>1, <3>2
    <2>5. CASE ToggleConfig(t)
      <3>1. Closed /\ LastRole
        BY <2>5 DEF ToggleConfig
      <3>2. Switch
        BY <2>0, <2>5 DEF ToggleConfig, ReadsStand
      <3>3. QED
        BY <3>1, <3>2
    <2>6. CASE TransitionWrite(t)
      <3>1. LastRole /\ Switch
        BY <2>6 DEF TransitionWrite
      <3>2. term[t].pc = "moved"
        BY <2>6 DEF TransitionWrite
      <3>3. term[t].seen # "CLOSED"
        BY <2>0, <3>2, StageFields, AllowedMoves DEF ReadsStand
      <3>4. Closed
        BY <2>0, <2>6, <3>2, <3>3, TransitionRow DEF ReadsStand, Known
      <3>5. QED
        BY <3>1, <3>4
    <2>7. ASSUME NEW s \in SessionIds, InsertSession(t, s)
          PROVE  Loss
      <3>1. LastRole /\ Switch
        BY <2>7 DEF InsertSession
      <3>2. Closed
        BY <2>0, <2>7, InsertedRow DEF Known
      <3>3. QED
        BY <3>1, <3>2
    <2>8. CASE FirstRead(t)
      BY <2>0, <2>1, <2>8, FirstStages DEF tables
    <2>9. CASE LaterRead(t)
      BY <2>1, <2>9 DEF LaterRead, SessionSnapshot, TransitionRead, MoveDone, CheckPermission,
                        CheckWindow, CheckRules, CheckSafety, Answered, Killed
    <2>10. CASE \E u \in Users, r \in Roles : CreateUser(t, u, r)
      BY <2>1, <2>10 DEF CreateUser
    <2> HIDE DEF Loss
    <2>11. QED
      BY <1>1, <2>2, <2>3, <2>4, <2>5, <2>6, <2>7, <2>8, <2>9, <2>10, StepKinds DEF LaterWrite
  <1>2. ASSUME ClockTick \/ UNCHANGED accessVars
        PROVE  Loss
    BY <1>2 DEF ClockTick, accessVars
  <1>3. AccessInv /\ [AccessNext]_accessVars
          => [Closed]_accessVars /\ [LastRole]_accessVars /\ [Switch]_accessVars
    BY <1>1, <1>2 DEF AccessNext, StepOf
  <1>4. QED
    BY <1>3, AccessInvariance, PTL
       DEF AccessSpec, LossesNeedOverlap, ClosedLeftOnlyByStaleWrite, LastRoleLostOnlyByOverlap,
           SwitchesKeptWithoutOverlap
=============================================================================
