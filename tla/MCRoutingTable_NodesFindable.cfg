\* Violation run: NodesFindable.
CONSTANTS
    IdBits = 3
    NodeIds = {0, 4, 6}
    LocalId = 0
    Modes = {"standard"}
    StdKBucketSize = 1
    MaxInt32 = 4
    MaxNodes = 2
    StdRefreshNodeNum = 1
    CrawlRefreshNodeNum = 2
    a1 = a1
    a2 = a2
    r1 = r1
    fr = fr
    Addrs <- MCAddrs
    Removers <- MCRemovers
    Refresher = fr
    None = None
SPECIFICATION Spec
INVARIANT NodesFindable
