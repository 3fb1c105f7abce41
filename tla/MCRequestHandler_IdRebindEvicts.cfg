\* Violation run: two requests from one address, claiming different ids,
\* race the id-change test.  MaxNodes = 2 so that a held address does not
\* fill the table by itself.
CONSTANTS
    i1 = i1
    h1 = h1
    h2 = h2
    n1 = n1
    n2 = n2
    IPs <- MCIPs
    Handlers <- MCHandlers
    NodeIds <- MCNodeIds
    Ports = {1}
    PeerPorts = {2}
    TTL = 1
    Period = 1
    MaxClock = 0
    MaxTokens = 1
    K = 1
    MaxNodes = 2
    CrawlMode = FALSE
    NoNode = NoNode
SYMMETRY MCSymmetry
SPECIFICATION RHSpec
PROPERTY IdRebindEvicts
