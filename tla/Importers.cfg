SPECIFICATION RivalSpec
CONSTANTS
    NoValue = NoValue
    h1 = h1
    h2 = h2
    h3 = h3
    k1 = k1
    k2 = k2
    k3 = k3
    t1 = t1
    t2 = t2
    a1 = a1
    w1 = w1
    q1 = q1
    q2 = q2
INVARIANTS
    HeadSurvives
CHECK_DEADLOCK FALSE
