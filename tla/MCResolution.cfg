SPECIFICATION FairSpec
CONSTANTS
    Threads = {t1, t2}
    Keys = {k1}
    NoKey = NoKey
    Events = {1, 2, 3, 4}
    NoEvent = NoEvent
    MaxResults = 2
    Grace = 1
    NoEntry = NoEntry
    MaxEntries = 2
    UpstreamTTLs = {2}
    MinTTL = 0
    MaxTTL = 2
    StaleFor = 1
    PrefetchNum = 1
    PrefetchDen = 2
    PrefetchMinHits = 1
    Slots = {w1}
    ServeStale = TRUE
    MaxTime = 2
INVARIANTS RefreshMarkOwned
PROPERTIES  QueryReturns
