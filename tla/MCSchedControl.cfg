SPECIFICATION Spec
CONSTANTS
    i1 = i1  i2 = i2  c1 = c1  c2 = c2  j1 = j1  j2 = j2
    Instances = {i1, i2}
    Clients = {c1, c2}
    Home <- OwnHome
    Jobs = {j1}
    Priority <- Equal
    Attempts = {a1, a2}
    MaxConcurrent = 1
    ListLimit = 100
    MaxBoots = 2
    Ops = {"submit", "pause", "resume", "cancel", "raise"}
    None = None
SYMMETRY Symmetry
INVARIANTS TypeOK RunningIsBacked LiveToolIsPolled CancelledWasAsked CompletedMeansSuccess
