CONSTANTS
    a1 = a1
    q1 = q1
    q2 = q2
    w1 = w1
    ping = ping
    Addrs <- MCAddrs
    Queries <- MCOneQuery
    Workers <- MCWorkers
    QueryTypes <- MCQueryTypes
    Try = 2
    MaxCursor = 3
    QueueCap = 1
    Duplicates = TRUE
    None = None
SPECIFICATION FairSpec
PROPERTY HandlerNeverStuck
CHECK_DEADLOCK FALSE
