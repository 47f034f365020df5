SPECIFICATION MCSpec
CONSTANTS
    c1 = c1
    c2 = c2
    d1 = d1
    k1 = k1
    k2 = k2
    k3 = k3
    k4 = k4
    c3 = c3
    Clients = {c1, c2, c3}
    QueueMax = 2
    BatchSize = 1
    Datagrams = {d1}
    Connections = {k1, k2, k3, k4}
    ClientOf <- MCClientOf
    UdpWorkers = 1
    MaxConnections = 2
    MaxPerClient = 1
INVARIANTS NoRowStranded CacheFileWhole
PROPERTIES SlotSpec QueryServed 
CHECK_DEADLOCK FALSE
