SPECIFICATION FairLifeSpec
CONSTANTS
    t1 = t1
    t2 = t2
    w1 = w1
    w2 = w2
    NoTorrent = NoTorrent
    Torrents <- TwoTorrents
    Workers <- OneWorker
    Ops <- AllOps
    MaxOps = 2
INVARIANTS
    FreedIsForgotten
    VerifyStateMatches
PROPERTIES
    VerifyHappens
    RemoveCompletes
    StartAfterVerifyHonoured
CHECK_DEADLOCK FALSE
