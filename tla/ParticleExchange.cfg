SPECIFICATION MCSpec
CONSTANTS
    Desc <- MCDesc
    Cells <- MCCells
    receiveMask <- MCReceiveMask
    Fillings <- MCFillings
    Pool <- MCPool
    Buffering <- MCBuffering
    Memories = {5, 13}
    BorderBytes = 6
    Frames = {1, 2, 3, 4, 5, 6, 7, 8, 9, 10, 11}
    FrameSize = 2
    Setups <- MCSetups
    Calls <- MCCalls
    Rounds = 2
INVARIANTS
    ChunksExact
    BorderExact
    HaloExact
PROPERTIES
    CommunicationsEnd
CHECK_DEADLOCK FALSE
