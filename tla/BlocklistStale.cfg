SPECIFICATION BlocklistSpec
CONSTANTS
    Addresses = {0, 1, 2, 3}
    ListNames = {"default"}
    DefaultList = "default"
    TextRanges <- OverlappingRanges
    MaxListCalls = 3
INVARIANT VerdictsFollow
CHECK_DEADLOCK FALSE
