SPECIFICATION FairSpec
CONSTANTS
    m1 = m1
    m2 = m2
    b1 = b1
    b2 = b2
    v1 = v1
    v2 = v2
    None = None
    Messages = {m1, m2}
    Bodies = {b1, b2}
    Recoveries = {v1, v2}
    Ttl = 1
    MaxPending = 1
    MaxTime = 2
    Plans <- MCPlans
INVARIANTS
    ObligationsHold
PROPERTIES
    NoRecoveryAfterDeparture
    ObligationsSettle
CHECK_DEADLOCK FALSE
