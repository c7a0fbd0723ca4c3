SPECIFICATION FairSpec
CONSTANTS
    o1 = o1
    o2 = o2
    r1 = r1
    r2 = r2
    r3 = r3
    NULL = NULL
    Requests <- TwoAndTwo
    Opens <- TwoOpens
    MaxOutstanding = 2
    OpensAlone = TRUE
    LoadOutcomes <- Loads
PROPERTIES
    EveryCallIsAnswered
CHECK_DEADLOCK FALSE
