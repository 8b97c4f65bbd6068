CONSTANTS
    j1 = j1
    j2 = j2
    p1 = p1
    p2 = p2
    Lane = Lane
    NoJob = NoJob
    Jobs = {j1, j2}
    Plans = {p1, p2}
    PlanOf <- OnePerPlan
    Capacity = 1
    Keys = {1, 2}
    MaxRevision = 9
    MaxRetries = 1
    MaxRefusals = 1
    MaxStops = 0
SPECIFICATION FairSpec
PROPERTIES
    DrainedLanePauses
CHECK_DEADLOCK FALSE
