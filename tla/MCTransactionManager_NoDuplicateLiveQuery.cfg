CONSTANTS
    a1 = a1
    q1 = q1
    q2 = q2
    w1 = w1
    ping = ping
    Addrs <- MCAddrs
    Queries <- MCQueries
    Workers <- MCWorkers
    QueryTypes <- MCQueryTypes
    Try = 2
    MaxCursor = 3
    QueueCap = 1
    Duplicates = FALSE
    None = None
SPECIFICATION Spec
INVARIANT NoDuplicateLiveQuery
CHECK_DEADLOCK FALSE
