SPECIFICATION MCSpec
CONSTANTS
    r0 = r0
    r1 = r1
    r2 = r2
    Ranks = {r0, r1, r2}
    Root = r0
    Checkpointing = TRUE
    RunSteps = 2
    Period = {1}
    SoftRestarts = 1
    Signalled = {}
    MaxCheckpoints = 0
    MaxStops = 0
    MaxRounds = 0
    UserPlugins <- MCPlugins
    Species <- MCSpecies
    NumDevices = 2
    LastStep = 2
    CheckpointSteps = {1, 2}
    Loops = 1
    MaxProcesses = 3
    MemorySizes = {0, 3, 7, 10}
    StepSize = 4
    Reserved = 2
INVARIANTS
    LifecycleSound
    BarriersMatch
    CheckpointComplete
PROPERTIES
    EveryRankEnds
