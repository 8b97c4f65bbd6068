CONSTANTS
    a = a
    b = b
    p = p
    fa = fa
    fb = fb
    fp = fp
    s = s
    Installs = {a, b, p}
    Plans = {p}
    Files = {fa, fb, fp, s}
    Manifest <- Separate
    MaxCrashes = 1
    MaxFaults = 1
SPECIFICATION FairSpec
INVARIANTS
    TypeOK
    ActiveKept
PROPERTIES
    SharedSpared
    SettledByRow
    BootSettles
    AttemptEnds
CHECK_DEADLOCK FALSE
