SPECIFICATION Spec
CONSTANTS
    b1 = b1
    b2 = b2
    b3 = b3
    q1 = q1
    q2 = q2
    q3 = q3
    None = None
    Bodies <- HonestBodies
    Incarnations = {1, 2}
    Origin <- CloneOrigin
    Peers <- ClonePeers
    RequestIds = {q1, q2, q3}
    CallerIds <- CloneCallers
    Limits = {2}
    Quota <- CloneQuota
    MaxParents = 1
    MaxEvidence = 1
    MaxBatch = 1
INVARIANTS
    LedgersHold
    PullsAreSound
