SPECIFICATION SessionSpec
CONSTANTS
    QTorrents = {q1, q2, q3}
    QueueSizes = {0, 1}
    MaxQueueCalls = 5
    MinutesPerDay = 2
    DaysPerWeek = 3
    Speeds = {0, 1}
    MaxSettings = 2
    TFiles = {1, 2}
    TBlocks = {b1, b2}
    Elsewhere = "elsewhere"
    MaxFileCalls = 2
    Ratios = {0, 1}
    Size = 1
    IdleMinutes = {1}
    MaxBytes = 2
    MaxSeedCalls = 3
    ByteBits = 2
    FieldSizes = {0, 3, 4}
    MaxBit = 3
    MaxFieldCalls = 4
    Layouts <- SomeLayouts
    MaxBlockSize = 2
    MaxPieceCalls = 2
    HttpRequests = {"r1"}
    RpcTorrents = {1, 2}
    RpcFiles = {1, 2}
    TrackerUrls = {"u1", "u2"}
    BadUrl = "bad"
    RpcPorts = {1, 2}
    Window = 1
    MaxRpcTime = 2
    MaxRpcCalls = 2
    Addresses = {0, 1, 2, 3}
    ListNames = {"default", "own"}
    DefaultList = "default"
    TextRanges <- SomeRanges
    MaxListCalls = 3
SYMMETRY PartsAlike
INVARIANTS QueueInOrder ScheduleKept  SeedingStops FieldsAreSets PiecesCounted  
CHECK_DEADLOCK FALSE
