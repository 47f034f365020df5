SPECIFICATION FairSpec
CONSTANTS
    Clients = {c1, c2}
    Threads = {t1, t2}
    Tokens = {k1, k2}
    Secrets = {s1, s2}
    Passwords = {p1, p2}
    NoPassword = NoPassword
    None = None
    Limit = 2
    Window = 2
    Lockout = 2
    MaxTracked = 1
    SweepInterval = 1
    Lifetime = 1
    MaxSessions = 1
INVARIANTS RetiredStaysDead GuessesBounded
PROPERTY LockoutEnds
