\* Try = 2 (the default), so a query that is answered on its first send
\* still has a second turn of the loop.
CONSTANTS
    a1 = a1
    q1 = q1
    q2 = q2
    w1 = w1
    ping = ping
    Addrs <- MCAddrs
    Queries <- MCQueries
    Workers <- MCWorkers
    QueryTypes <- MCQueryTypes
    Try = 2
    MaxCursor = 3
    QueueCap = 1
    Duplicates = FALSE
    None = None
SPECIFICATION FairSpec
CHECK_DEADLOCK FALSE
PROPERTY ImplementsQuerySpec
