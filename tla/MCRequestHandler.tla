-------------------------- MODULE MCRequestHandler --------------------------
(* Model-checking instance of RequestHandler: one requester ip, two       *)
(* claimed ids, two packet handlers, which are interchangeable.          *)
EXTENDS RequestHandler, TLC

CONSTANTS i1, h1, h2, n1, n2

MCIPs == {i1}
MCHandlers == {h1, h2}
MCNodeIds == {n1, n2}
MCOneId == {n1}
MCSymmetry == Permutations(MCHandlers)

=============================================================================
