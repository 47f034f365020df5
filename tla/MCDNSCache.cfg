SPECIFICATION Spec
CONSTANTS
    Keys = {k1, k2, k3}
    NoEntry = NoEntry
    MaxEntries = 2
    UpstreamTTLs = {0, 1, 3}
    MinTTL = 0
    MaxTTL = 2
    StaleFor = 1
    PrefetchNum = 1
    PrefetchDen = 2
    PrefetchMinHits = 1
    MaxTime = 3
SYMMETRY Symmetry
INVARIANTS BoundedLRU
PROPERTY NoResurrection
