SPECIFICATION FairSpec
CONSTANTS
    i1 = i1  i2 = i2  c1 = c1  c2 = c2  j1 = j1  j2 = j2
    Instances = {i1}
    Clients = {c1, c2}
    Home <- SameHome
    Jobs = {j1, j2}
    Priority <- Ranked
    Attempts = {a1, a2, a3}
    MaxConcurrent = 1
    ListLimit = 100
    MaxBoots = 2
    Ops = {"submit", "retry", "schedule", "terminate", "raise"}
    None = None
INVARIANT SlotsRespected
PROPERTIES JobsAreSettled 
CHECK_DEADLOCK FALSE
