SPECIFICATION Spec
CONSTANTS
    u1 = u1
    u2 = u2
    t1 = t1
    Thread = {w1}
    Addr = {u1, t1}
    TcpAddr = {t1}
    Server = {s1}
    MaxClient = 3
    MaxAccount = 2
    HeaderNames = FALSE
    Relogin = FALSE
    Steady = u1
    NoAddr = NoAddr
INVARIANTS TypeOK AccountsReachable OnlyConnectionsAreCounted 
CHECK_DEADLOCK FALSE
