CONSTANTS
    j1 = j1
    j2 = j2
    e1 = e1
    e2 = e2
    e3 = e3
    e4 = e4
    d1 = d1
    d2 = d2
    NoOne = NoOne
    Jobs = {j1, j2}
    Execs = {e1, e2, e3}
    Dispatchers = {d1, d2}
    Home <- TwoHomes
    Capacity = 1
    MaxHolds = 1
    Overlap = FALSE
    Threaded = {j1}
SPECIFICATION Spec
INVARIANTS
    WaitingOutlastsContention
CHECK_DEADLOCK FALSE
