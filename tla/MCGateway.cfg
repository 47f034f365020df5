SPECIFICATION MCSpec
CONSTANTS
    AP = ap0
    Uplinks = {eth0, wlan0}
    Tunnel = wg0
    MaxNet = 3
    Home = home
    Resolver = resolver
    Internet = internet
    Isolate = TRUE
    AllowIPv6 = FALSE
    NoRules = NoRules
    NoDevice = NoDevice
    MaxMoves = 2
    MaxFailures = 1
    Boxes = {g1, g2}
    Networks = {n1, n2}
    Payloads = {p1, p2}
    Device = dev
    Window = 3
    MaxDelay = 1
    MaxRemembered = 1
    Volume = 1
    MaxSends = 2
    Clients = {c1, c2}
    Rate = 1
    Burst = 4
    Cost = 2
    SweepEvery = 2
    IdleCutoff = 4
    Requests <- MCRequests
INVARIANTS ClientsContained StopsClean RateRespected
PROPERTIES RulesFollow StormEnds
CHECK_DEADLOCK FALSE
