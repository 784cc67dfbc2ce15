SPECIFICATION Spec
CONSTANTS
    r0 = r0
    r1 = r1
    r2 = r2
    Ranks = {r0, r1}
    Root = r0
    Checkpointing = FALSE
    RunSteps = 1
    Period = {}
    SoftRestarts = 0
    Signalled = {r0, r1}
    MaxCheckpoints = 0
    MaxStops = 1
    MaxRounds = 1
INVARIANTS
    NeverPastRunSteps
CHECK_DEADLOCK FALSE
