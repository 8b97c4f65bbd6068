CONSTANTS
    q1 = q1
    p1 = p1
    p2 = p2
    NoProvider = NoProvider
    FirstProvider = p1
    Queries = {q1}
    Providers = {p1, p2}
    MaxRevision = 2
    MaxRetries = 0
    MaxStops = 0
    MaxRefusals = 1
    MaxChanges = 0
SPECIFICATION Spec
INVARIANTS
    ClaimSwept
CHECK_DEADLOCK FALSE
