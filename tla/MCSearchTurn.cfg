CONSTANTS
    q1 = q1
    p1 = p1
    p2 = p2
    NoProvider = NoProvider
    FirstProvider = p1
    Queries = {q1}
    Providers = {p1, p2}
    MaxRevision = 2
    MaxRetries = 1
    MaxStops = 1
    MaxRefusals = 1
    MaxChanges = 1
SPECIFICATION FairSpec
INVARIANTS
    TypeOK
    SentOnce
    PausedIsAsked
PROPERTIES
    SentAsAgreed
    ImplementsConsent
    ApprovalTakenUp
    TurnEnds
    WindowEnds
CHECK_DEADLOCK FALSE
