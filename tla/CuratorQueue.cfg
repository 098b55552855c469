SPECIFICATION Spec
CONSTANTS
    t1 = t1
    t2 = t2
    c1 = c1
    c2 = c2
    k1 = k1
    k2 = k2
    k3 = k3
    k4 = k4
    k5 = k5
    k6 = k6
    x1 = x1
    out1 = out1
    out2 = out2
    None = None
    Threads = {t1, t2}
    ClaimIds = {c1, c2}
    Items <- QueueItems
    Requests <- QueueRequests
    MaxLease = 2
    MaxNow = 3
    MaxEpoch = 2
    MaxCrashes = 1
INVARIANTS
    WorkIsExclusive
PROPERTIES
    ItemsAdvance
SYMMETRY ThreadSymmetry
CHECK_DEADLOCK FALSE
