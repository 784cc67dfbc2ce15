SPECIFICATION MCSpec
CONSTANTS
    Desc <- MCDesc
    Cells <- MCCells
    Fillings <- MCFillings
    Frames = {1, 2, 3, 4, 5, 6, 7, 8, 9, 10, 11, 12, 13}
    FrameSize = 2
    LoadDesc <- MCDesc
    SuperCellSize <- MCSuperCellSize
    CellOffset <- MCCellOffset
    Sources <- MCSources
    SrcFrameSizes = {2, 3}
    Window <- MCWindow
    WorkerCounts = {1, 2, 3, 4}
    Domains = {1, 2, 5, 6, 7, 12}
INVARIANTS
    BoxConsistent
    ParticlesArrive
    FramesComplete
PROPERTIES
    ShiftEnds
