SPECIFICATION LifeSpec
CONSTANTS
    t1 = t1
    t2 = t2
    w1 = w1
    w2 = w2
    NoTorrent = NoTorrent
    Torrents <- OneTorrent
    Workers <- OneWorker
    Ops <- OnlyRemove
    MaxOps = 1
INVARIANT NoFreedTorrentUsed
CHECK_DEADLOCK FALSE
