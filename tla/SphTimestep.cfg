SPECIFICATION MCSpec
CONSTANTS
    FrameSize = 2
    Radius = 3
    MaxVelocity = 1
    MaxSteps = 2
    MaxFills = 2
    ProcessThreads = {1, 3}
    FixedGrids = {1, 2}
    Setups <- MCSetups
    Records <- MCRecords
    Table <- flat
    FrameRecord <- reordered
    FrameRows = 2
    MaxRows = 2
    Pairs <- MCPairs
    Tubes <- MCTubes
    Boxes <- MCBoxes
    Roundoff = 256
    MaxCells = 8
    MaxPlaced = 12
INVARIANTS
    ListsIndexed
    MovedOncePerStep
    InteractionsExact
    ContainersExact
    PhysicsExact
PROPERTIES
    StepsEnd
CHECK_DEADLOCK FALSE
