SPECIFICATION WireSpecAll
CONSTANTS
    Modes = {"REQUIRED", "PREFERRED", "CLEAR"}
    ForeignClients = {FALSE}
    MaxHsAccidents = 3
    MsgBlocks = {b1, b2}
    SeedSide = "seed"
    LeechSide = "leech"
    DesiredRequests = 2
    Reqq = 3
    MaxChokes = 2
    MaxWireEvents = 1
    ExtPeers = {p1, p2}
    Liars = {p2}
    MetaCount = 2
    WrongCounts = {1}
    MetadataReqq = 1
    Addresses = {a1, a2}
    MaxPex = 1
    MaxExtEvents = 4
    MagnetSpends = 3
    Ios = {i1, i2}
    SpeedLimits = {1, 2}
    IoChunk = 1
    MaxIoOut = 2
    MaxIoEvents = 5
SYMMETRY IoSymmetry
INVARIANTS HandshakeSound ConversationSound ExtensionsSound AllotmentsKept
CHECK_DEADLOCK FALSE
