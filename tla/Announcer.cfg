SPECIFICATION FairSpec
CONSTANTS
    t1 = t1
    t2 = t2
    a = a
    b = b
    NumTiers = 2
    Torrents = {t1, t2}
    Owner <- OwnerOfTwo
    Trackers <- TrackersOfTwo
    HasScrape = {a}
    MaxTasks = 2
    MultiscrapeMax = 2
    ScrapePaused = TRUE
    MaxOps = 3
    MaxScrapes = 1
    MaxFailures = 1
INVARIANTS
    NoSlotLost
    IntentKept
PROPERTIES
    EventsSent
    RunningIsAnnounced
