CONSTANTS
    j1 = j1
    j2 = j2
    p1 = p1
    p2 = p2
    Lane = Lane
    NoJob = NoJob
    Jobs = {j1, j2}
    Plans = {p1, p2}
    PlanOf <- OnePerPlan
    Keys = {1, 2}
    Capacity = 1
    MaxRevision = 9
    MaxRetries = 1
    MaxRefusals = 1
    MaxStops = 1
SPECIFICATION FairSpec
INVARIANTS
    TypeOK
    HeldIsIdle
    PausedIsIdle
    OneWinner
PROPERTIES
    StartsInTurn
    DrainEnds
    OpenGateServes
CHECK_DEADLOCK FALSE
