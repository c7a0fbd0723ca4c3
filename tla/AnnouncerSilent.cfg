SPECIFICATION Spec
CONSTANTS
    t1 = t1
    t2 = t2
    a = a
    b = b
    NumTiers = 1
    Torrents = {t1}
    Owner <- OwnerOfOne
    Trackers <- TrackersOfOne
    HasScrape = {}
    MaxTasks = 1
    MultiscrapeMax = 1
    ScrapePaused = TRUE
    MaxOps = 3
    MaxScrapes = 0
    MaxFailures = 1
INVARIANT AnnounceStateHonest
