SPECIFICATION NetworkSpec
CONSTANTS
    NumPieces = 2
    PieceBlocks = 2
    LastBlocks = 1
    HighPieces = {}
    BtPeers = {1, 2}
    Webseeds = {3}
    Desired = 2
    MaxReqEvents = 2
    Addrs = {a1, a2}
    UploadSlots = 1
    TorrentLimit = 2
    SessionLimit = 2
    Reserved = 0
    MaxAtoms = 1
    PerPulse = 1
    MinInteresting = 1
    BadPieces = 1
    Optimism = 1
    MaxRemembered = 1
    MaxSwarmEvents = 2
    Nobody = Nobody
    Gone = Gone
    Trackers = {"t1"}
    Announces = {"a1", "a2"}
    Scrapes = {"s1"}
    MaxConnects = 2
    MaxLookups = 2
    SeedTasks = {k1, k2, k3}
    MaxConnections = 2
    MaxFailures = 2
    TaskBlocks = 2
    MaxWebEvents = 4
    FdTorrents = {1, 2, 3}
    FdIndexes = {1}
    CacheSize = 2
    Oversized <- OneOversized
    PeerLimits = {1, 2}
    MaxFdSteps = 7
    PeerPorts = {1, 2}
    MaxForwards = 7
    LpdTorrents = {1, 2}
    LpdInterval = 2
    LpdCap = 1
    DhtNodes = 1
    MaxDhtSteps = 3
SYMMETRY AddrSymmetry
INVARIANTS RequestsAgree NoVainRequest RarityCovers AtomsKept 
INVARIANTS TrackersAnswered WebseedsAnswered DescriptorsKept PortsKnown DiscoverySound
CHECK_DEADLOCK FALSE
