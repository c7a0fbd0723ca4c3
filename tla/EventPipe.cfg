SPECIFICATION FairPipeSpec
CONSTANTS
    c1 = c1
    c2 = c2
    c3 = c3
    d1 = d1
    NoCall = NoCall
    Calls <- ThreeCalls
    DirectCalls <- OneDirect
    PipeCapacity = 3
INVARIANTS
    CommandsFramed
PROPERTIES
    ImplementsEventQueue
    EveryCallRuns
CHECK_DEADLOCK FALSE
