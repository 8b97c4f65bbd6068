CONSTANTS
    j1 = j1
    j2 = j2
    Jobs = {j1, j2}
    MaxRetries = 1
    MaxStops = 1
    MaxRefusals = 2
SPECIFICATION FairSpec
INVARIANTS
    TypeOK
    WorkUndisturbed
PROPERTIES
    ImplementsLedger
    CancelAnswered
    ShutdownEnds
    EveryJobEnds
    RestartTakesUp
CHECK_DEADLOCK FALSE
