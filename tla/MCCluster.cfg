SPECIFICATION FairClusterSpec
CONSTANTS
    Nodes = {1, 2}
    Priority <- PriorityOf
    Yielding = {1}
    YieldPriority = 1
    Interval = 4
    Timeout = 14
    MaxDelay = 1
    Tolerance = 2
    MaxFaults = 3
INVARIANTS DropsTolerated GoneInTime
PROPERTY Agreement
