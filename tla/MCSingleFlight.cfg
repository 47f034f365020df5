SPECIFICATION FairSpec
CONSTANTS
    Threads = {t1, t2, t3}
    Keys = {k1}
    NoKey = NoKey
    Events = {1, 2, 3, 4, 5, 6}
    NoEvent = NoEvent
    MaxResults = 1
    Grace = 1
    MaxTime = 1
INVARIANTS NoAbandonedKey NoLostWakeup 
PROPERTY FollowerReleased
