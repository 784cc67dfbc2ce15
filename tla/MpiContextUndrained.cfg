SPECIFICATION Spec
CONSTANTS
    p1 = p1
    p2 = p2
    k1 = k1
    k2 = k2
    k3 = k3
    None = None
    Ops = {k1, k2}
    Managed = {k1, k2}
    Comms = {0}
    CommOf <- MCCommOf
    NReq <- MCNReq
    BatchSize = 1
    Drained = FALSE
INVARIANT
    CommittedCollectivesDrain
