CONSTANTS
    s1 = s1
    s2 = s2
    s3 = s3
    p1 = p1
    p2 = p2
    Steps = {s1, s2, s3}
    Plans = {p1, p2}
    PlanOf <- TwoPlans
    Deps <- Chain
    Limit <- FirstRetried
    MaxRetries = 1
    MaxStops = 1
    MaxRefusals = 2
SPECIFICATION FairSpec
INVARIANTS
    TypeOK
    FedForGood
    RowsAgree
PROPERTIES
    SettledStays
    EveryStepEnds
    BlockFollows
CHECK_DEADLOCK FALSE
