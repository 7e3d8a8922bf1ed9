SPECIFICATION FairSpec
CONSTANTS
    u1 = u1
    u2 = u2
    t1 = t1
    Thread = {w1}
    Addr = {u1, u2}
    TcpAddr = {}
    Server = {s1}
    MaxClient = 3
    MaxAccount = 2
    HeaderNames = FALSE
    Relogin = FALSE
    Steady = u1
    NoAddr = NoAddr
INVARIANTS OneClientPerAccount 
PROPERTIES SilentUsersAreRemoved ImplementsSessions
CHECK_DEADLOCK FALSE
