SPECIFICATION MCSpec
CONSTANTS
  ta = ta
  tb = tb
  ann = ann
  bob = bob
  admin = admin
  analyst = analyst
  s1 = s1
  s2 = s2
  s3 = s3
  lab = lab
  wide = wide
  scan = scan
  install = install
  NONE = NONE
  ANY = ANY
  star = star
  Patterns <- MCPatterns
  Covers <- MCCovers
  FirstUser = ann
  AdminRole = admin
  TokenIds = {k1}
  Engagements = {e1}
  RequireAuthorization = TRUE
  MaxClock = 1
  MaxCommands = 2
  Terminals <- MCTerminals
  Users <- MCUsers
  Roles <- MCRoles
  SessionIds <- MCSessionIds
  Targets <- MCTargets
  Actions <- MCActions
  MutatingActions = {install}
  ConfirmActions = {install}
  LabTargets = {lab}
  Grants <- MCGrants
  q1 = q1
  q2 = q2
  q3 = q3
  q4 = q4
  u1 = u1
  u2 = u2
  w1 = w1
  w2 = w2
  Subs = {q1, q2, q3, q4}
  User <- MCUser
  Limit = 2
  UserLimit = 1
  Window = 2
  MaxCallers = 2
  MaxTime = 3
  Workers = {w1, w2}
  Scheds = {1}
  Due <- MCDue
  MaxMinute = 2
  MaxCrashes = 1
  Ops = {"edit", "run", "refuse", "revoke"}
CHECK_DEADLOCK FALSE
INVARIANTS AccessTypeOK SwitchLeavesOneActive AllowIsGrounded
  OverrunIsBounded FiringIsBounded
 
