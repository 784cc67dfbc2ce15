SPECIFICATION AlgorithmsSpec
CONSTANTS
    p = p
    q = q
    Empty = Empty
    Plugins = {p, q}
    Numbers = {0, 2, 3}
    Texts <- MCTexts
    Top = 15
    LastStep = 6
    Descriptions <- MCDescriptions
    Strides = {2, 3}
    Edge = 2
    Threads = {w1, w2}
    Main = main
    Expr <- MCExpr
    Root = "root"
    after <- MCAfter
    eventOf <- MCEventOf
    Sources = {"s1", "s2"}
    Joined = "span"
    Joins <- MCJoins
    MaxRounds = 2
    Buffers <- MCBuffers
    IntMax = 3
    Word = 16
    Scalars = {1, 2}
    WorldSize = 2
    Cartesians <- MCCartesians
    Layouts <- MCLayouts
    MaxComms = 3
    MaxRequests = 1
    Grids <- MCGrids
    LocalSize = 5
    MaxSlides = 9
    Problems <- MCProblems
    Planes <- MCPlanes
    Width = 4
    MaxRanks = 3
    MaxIds = 5
INVARIANTS
    NotifiedAsDocumented
    MappersExact
    SendersSound
    RanksCooperate
PROPERTIES
    SyncWaitReturns
