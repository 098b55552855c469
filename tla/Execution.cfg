SPECIFICATION Spec
CONSTANTS
    a1 = a1
    a1x = a1x
    a2 = a2
    b = b
    c = c
    e = e
    f = f
    lone = lone
    q = q
    w1 = w1
    w2 = w2
    tribe = tribe
    being = being
    episode = episode
    None = None
    Drafts = {a1, a1x, a2, b, c, e, f, q}
    Terms <- MCTerms
    Accounts = {tribe, being, lone, episode}
    Ceiling <- MCCeiling
    Funding <- MCFunding
    Work = {w1, w2}
    Request <- MCRequest
    Policy <- MCPolicy
    Strict = {2, 3, 5, 6}
    Selected = {4}
    Plans <- MCPlans
INVARIANTS
    TurnsAreBounded
    SpendingIsAccounted
PROPERTIES
    SubmittedUnderAuthority
CHECK_DEADLOCK FALSE
