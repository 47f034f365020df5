SPECIFICATION PoolFairSpec
CONSTANTS
    Workers = {t1, t2}
    NumUpstreams = 2
    Latencies = {1}
    Threshold = 1
    BackoffBase = 1
    BackoffMax = 1
    FloatMaxExp = 2
    MaxFailures = 3
    MaxTime = 1
PROPERTY LookupEnds
