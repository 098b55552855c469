SPECIFICATION Spec
CONSTANTS
    w1 = w1
    w2 = w2
    k1 = k1
    k2 = k2
    k3 = k3
    k4 = k4
    e1 = e1
    good = good
    None = None
    Workers = {w1, w2}
    Requests <- RpcRequests
    Aging <- OldRequests
    MaxTroubles = 1
    Calm <- CalmRequests
SYMMETRY WorkerSymmetry
INVARIANTS
    RequestsAreAnsweredOnce
PROPERTIES
    ReceiptRestsOnCurrentAdoption
CHECK_DEADLOCK FALSE
