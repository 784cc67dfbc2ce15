SPECIFICATION Spec
CONSTANTS
    r0 = r0
    r1 = r1
    r2 = r2
    Ranks = {r0, r1}
    Root = r0
    Checkpointing = TRUE
    RunSteps = 2
    Period = {2}
    SoftRestarts = 0
    Signalled = {r0, r1}
    MaxCheckpoints = 1
    MaxStops = 0
    MaxRounds = 1
INVARIANTS
    CheckpointComplete
CHECK_DEADLOCK FALSE
