CONSTANTS
    j1 = j1
    j2 = j2
    Jobs = {j1, j2}
    MaxRetries = 1
    MaxStops = 0
    MaxRefusals = 0
SPECIFICATION Spec
INVARIANTS
    QueuedHasTask
CHECK_DEADLOCK FALSE
