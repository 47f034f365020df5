SPECIFICATION MCSpec
CONSTANTS
    Names = {phone, tablet}
    MaxHost = 2
    Nothing = Nothing
    MaxCommands = 3
    MaxKills = 1
    QRJobs <- MCJobs
    ClientQueries <- MCQueries
    Sections <- MCSections
    Elapsed = {0, 1, 2}
    MinTtl = 2
    MaxJumps = 3
    MaxNameLen = 9
    Askers = {a1, a2}
    Connections = {c1, c2, c3}
    Queries = {1, 2, 3, 4}
    PoolSize = 1
    NoQuery = 0
    NoConnection = NoConnection
    Callers = {t1, t2}
    i1 = i1
    i2 = i2
    dead = dead
    Lists <- MCLists
    Answering = {i1, i2}
    NoAddress = NoAddress
    Timeout = 8
    MinShare = 1
    Delays = {1, 2}
SYMMETRY Symmetric
INVARIANTS StoreSurvives RevokedStaysOut ReadsBack AnswerIntact OwnAnswer AnsweringAddressFound
PROPERTY SealedStays
CHECK_DEADLOCK FALSE
