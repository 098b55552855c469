SPECIFICATION FairSpec
CONSTANTS
    t1 = t1
    t2 = t2
    s1 = s1
    s2 = s2
    x1 = x1
    y1 = y1
    None = None
    Requests = {r1}
    Texts = {x1, y1}
    Siblings = {s1, s2}
    Threads = {t1, t2}
    CarrierSecs = 2
    LeaseSecs = 1
    SealSecs = 3
    MaxTime = 3
    Plans <- MCPlans
INVARIANTS
    LaneAgrees
PROPERTIES
    HeardOnceForGood
    EverythingEnds
CHECK_DEADLOCK FALSE
