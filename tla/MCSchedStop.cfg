SPECIFICATION Spec
CONSTANTS
    i1 = i1  i2 = i2  c1 = c1  c2 = c2  j1 = j1  j2 = j2
    Instances = {i1}
    Clients = {c1}
    Home <- SameHome
    Jobs = {j1, j2}
    Priority <- Equal
    Attempts = {a1}
    MaxConcurrent = 1
    ListLimit = 100
    MaxBoots = 2
    Ops = {"submit", "retry", "stop", "clear", "terminate"}
    None = None
INVARIANTS StopSurvivesRestart
 
CHECK_DEADLOCK FALSE
