SPECIFICATION Spec
CONSTANTS
    Ops = {o1, o2}
    Repeating = {o2}
    Externals = {x1}
    Joined = Joined
    Wake = Wake
    None = None
    MaxRounds = 1
    MaxBacklog = 1
INVARIANTS
    WakeGuaranteed
PROPERTIES
    RunReadyReturns
