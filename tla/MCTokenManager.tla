--------------------------- MODULE MCTokenManager ---------------------------
EXTENDS TokenManager

CONSTANTS i1, h1, h2

MCIPs == {i1}
MCHandlers == {h1, h2}

=============================================================================
