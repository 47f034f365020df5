SPECIFICATION DhcpSpec
CONSTANTS
    k1 = k1  k2 = k2
    m1 = m1  m2 = m2
    Keys = {k1, k2}
    Macs = {m1, m2}
    Senders <- TwoDevices
    Subnet = {1, 2}
    Pool = {2}
    ServerIP = 1
    Foreign = {9}
    HoldTime = 1
    LeaseTime = 2
    NoLease = NoLease
    NoIP = NoIP
    MaxTime = 4
INVARIANTS PromiseKept
 
