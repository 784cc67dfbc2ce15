SPECIFICATION Spec
CONSTANTS
    r0 = r0
    r1 = r1
    r2 = r2
    Ranks = {r0, r1}
    Root = r0
    Checkpointing = TRUE
    RunSteps = 1
    Period = {1}
    SoftRestarts = 0
    Signalled = {r0, r1}
    MaxCheckpoints = 2
    MaxStops = 1
    MaxRounds = 3
INVARIANTS
    SignalsAgreed
CHECK_DEADLOCK FALSE
