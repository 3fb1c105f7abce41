--------------------------- MODULE MCRoutingTable ---------------------------
(* Model-checking instance of RoutingTable: 3-bit ids, so the trie can     *)
(* split twice below the root before the loop bound (maxPrefixLength).    *)
EXTENDS RoutingTable

CONSTANTS a1, a2, r1, fr

MCAddrs == {a1, a2}
MCRemovers == {r1}
=============================================================================
