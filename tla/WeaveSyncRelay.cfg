SPECIFICATION Spec
CONSTANTS
    b1 = b1
    b2 = b2
    b3 = b3
    q1 = q1
    q2 = q2
    q3 = q3
    None = None
    Bodies <- HonestBodies
    Incarnations = {1, 2, 3}
    Origin <- HonestOrigin
    Peers <- RelayPeers
    RequestIds = {q1, q2, q3}
    CallerIds <- RelayCallers
    Limits = {1}
    Quota <- RelayQuota
    MaxParents = 1
    MaxEvidence = 2
    MaxBatch = 2
INVARIANTS
    ReadersSeeTheLedger
    KnowledgeIsSound
    BodiesAgree
PROPERTIES
    HistoryIsKept
