SPECIFICATION Spec
CONSTANTS
    m1 = m1
    m2 = m2
    r1 = r1
    r2 = r2
    b1 = b1
    b2 = b2
    c1 = c1
    c2 = c2
    q1 = q1
    q2 = q2
    q3 = q3
    k1 = k1
    k2 = k2
    t1 = t1
    t2 = t2
    None = None
    Targets <- MCTargets
    Parent <- MCParent
    Receipts <- MCReceipts
    Consumers = {c1, c2}
    PageIds = {q1, q2, q3}
    ClaimIds = {k1, k2}
    Plans <- MCPlans
    Threads = {t1, t2}
    Envelopes <- MCEnvelopes
    Unavailable = {"lan"}
    Deadlines = {1, 2}
    Refused <- MCRefused
    RouteRefs = {"lan", "direct", "hub"}
    Hubs = {"hub"}
    Home = "home"
    Carrying <- MCCarrying
INVARIANTS
    StoreHolds
    DeliveryHolds
PROPERTIES
    OutcomesAreFinal
CHECK_DEADLOCK FALSE
