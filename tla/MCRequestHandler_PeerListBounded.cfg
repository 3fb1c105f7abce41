\* Standard mode, K = 1, three peer keys, no expiry: concurrent announces.
CONSTANTS
    i1 = i1
    h1 = h1
    h2 = h2
    n1 = n1
    n2 = n2
    IPs <- MCIPs
    Handlers <- MCHandlers
    NodeIds <- MCOneId
    Ports = {1}
    PeerPorts = {2, 3}
    TTL = 3
    Period = 3
    MaxClock = 0
    MaxTokens = 3
    K = 1
    MaxNodes = 1
    CrawlMode = FALSE
    NoNode = NoNode
SYMMETRY MCSymmetry
SPECIFICATION RHSpec
INVARIANT PeerListBounded
