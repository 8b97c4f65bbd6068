CONSTANTS
    a = a
    b = b
    p = p
    fa = fa
    fb = fb
    fp = fp
    s = s
    Installs = {a, p}
    Plans = {p}
    Files = {fa, fp, s}
    Manifest <- Shared
    MaxCrashes = 0
    MaxFaults = 0
SPECIFICATION Spec
INVARIANTS
    ActiveKept
CHECK_DEADLOCK FALSE
