SPECIFICATION FairSpec
CONSTANTS
    o1 = o1
    o2 = o2
    r1 = r1
    r2 = r2
    r3 = r3
    NULL = NULL
    Requests <- TwoAndThree
    Opens <- TwoOpens
    MaxOutstanding = 3
    OpensAlone = TRUE
    LoadOutcomes <- LoadOrNot
INVARIANTS
    WakeupFindsBaton
    EachBatonOnce
PROPERTIES
    LoneCallIsAnswered
CHECK_DEADLOCK FALSE
