SPECIFICATION Spec
CONSTANTS
    t1 = t1
    t2 = t2
    Torrents <- TwoTorrents
    NumBlocks <- BigSmall
    BlocksPerPiece = 2
    Files <- FilesOf
    MaxBlocks = 2
    MaxBad = 1
    MaxFails = 1
    MaxCrashes = 1
INVARIANTS
    LimitKept
    HaveBacked
    ResumeBacked
CHECK_DEADLOCK FALSE
