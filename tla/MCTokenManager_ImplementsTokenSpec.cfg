CONSTANTS
    i1 = i1
    h1 = h1
    h2 = h2
    IPs <- MCIPs
    Handlers <- MCHandlers
    TTL = 1
    Period = 2
    MaxClock = 4
    MaxTokens = 3
SPECIFICATION Spec
PROPERTY ImplementsTokenSpec
