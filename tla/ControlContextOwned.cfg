SPECIFICATION Spec
CONSTANTS
    Ops = {o1, o2, o3}
    Repeating = {}
    Externals = {}
    Joined = Joined
    Wake = Wake
    None = None
    MaxRounds = 1
    MaxBacklog = 1
INVARIANTS
    TypeOK
    JoinedQuiescent
    NoTerminate
    NoLostTask
PROPERTIES
    ScopeRefinement
    DestructionReturns
