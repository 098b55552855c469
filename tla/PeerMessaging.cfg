SPECIFICATION Spec
CONSTANTS
    None = None
    Sends = {"r"}
    Replies = {"r"}
    Threads = {t1, t2}
    Ttl = 1
    Versions = 3
    Granting = {1, 2}
    MaxTime = 2
    MaxCalls = 3
    MaxFaults = 1
INVARIANTS
    SendsHold
PROPERTIES
    OutcomesStay
SYMMETRY ThreadSymmetry
CHECK_DEADLOCK FALSE
