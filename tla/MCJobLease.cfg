CONSTANTS
    j1 = j1
    j2 = j2
    e1 = e1
    e2 = e2
    e3 = e3
    e4 = e4
    d1 = d1
    d2 = d2
    NoOne = NoOne
    Jobs = {j1}
    Execs = {e1, e2, e3, e4}
    Dispatchers = {d1, d2}
    Home <- TwoHomesEach
    Capacity = 1
    MaxHolds = 1
    Overlap = TRUE
    Threaded = {}
SPECIFICATION Spec
SYMMETRY Symmetry
INVARIANTS
    TypeOK
    OwnerAccounted
    NewestOutcome
CHECK_DEADLOCK FALSE
