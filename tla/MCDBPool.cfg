CONSTANTS
    t1 = t1
    t2 = t2
    t3 = t3
    m = m
    s1 = s1
    c1 = c1
    c2 = c2
    c3 = c3
    c4 = c4
    Threads = {t1, t2}
    Master = m
    Slaves = {s1}
    Handles = {c1, c2, c3, c4}
    Closed = Closed
    Nobody = Nobody
    MaxConns = 2
    Jobs = {"send", "read", "write"}
    MaxOutages = 2
    Callers = {t1, t2, t3}
    Contexts = {c1, c2, c3, c4}
    Null = Null
    MaxRedisOutages = 2
SPECIFICATION PoolsSpec
INVARIANTS
    PoolTypeOK
    ConnectionsAccounted
    ContextsBounded
PROPERTY
    CallsFinish
