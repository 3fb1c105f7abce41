\* Both configurations: standard (KBucketSize 1, so full buckets split and
\* Remove races Insert) and crawl (KBucketSize is MaxInt32, so the root
\* bucket never fills, and Fresh removes the nodes it queries, at most
\* RefreshNodeNum = 2 of a bucket of 3).
CONSTANTS
    IdBits = 3
    NodeIds = {0, 4, 6}
    LocalId = 0
    Modes = {"standard", "crawl"}
    StdKBucketSize = 1
    MaxInt32 = 4
    MaxNodes = 3
    StdRefreshNodeNum = 1
    CrawlRefreshNodeNum = 2
    a1 = a1
    a2 = a2
    r1 = r1
    fr = fr
    Addrs <- MCAddrs
    Removers <- MCRemovers
    Refresher = fr
    None = None
SPECIFICATION Spec
INVARIANT TypeOK
INVARIANT PrefixInvariant
PROPERTY NoNodeLostOutsideRemove
