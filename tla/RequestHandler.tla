--------------------------- MODULE RequestHandler ---------------------------
(***************************************************************************)
(* The request side of the KRPC dispatcher (handle and handleRequest of   *)
(* src/dht/krpc.go) composed with the token manager (TokenManager) and    *)
(* the peer index (peersManager of src/dht/routingtable.go).               *)
(*                                                                         *)
(* Each packet-handler goroutine (Handlers) takes one request at a time:  *)
(* the blacklist check of handle, the argument checks, the id-change     *)
(* eviction, then the query type's work, and finally routingTable.Insert *)
(* of the requester.  The routing table is reduced to cachedNodes, the   *)
(* id held under each endpoint; Insert may also decline (a full bucket   *)
(* that keeps the node as a candidate).  Every send may fail, and a       *)
(* failed send blacklists the requester's ip for any port.               *)
(*                                                                         *)
(* The peer index holds one info hash.  Its keyedDeque is keyed by the    *)
(* peer's compact ip:port; an element is a key and the serial number of   *)
(* the Push that made it, since Remove(e) removes an element, not a key. *)
(* peersManager.Insert takes pm's lock only around the get-or-create of  *)
(* the deque; Push, Len, Front and Remove are separate calls.            *)
(***************************************************************************)
EXTENDS TokenManager, Integers, Sequences

CONSTANTS
    Ports,      \* UDP source ports of requesters, positive integers
    PeerPorts,  \* ports announce_peer may name in a.port, positive integers
    NodeIds,    \* 20-byte ids requesters claim, model values
    K,          \* dht.K, the bound of a peer list
    MaxNodes,   \* Config.MaxNodes
    CrawlMode,  \* Config.Mode = CrawlMode
    NoNode

ASSUME Ports \cup PeerPorts \subseteq Nat \ {0} /\ K \in Nat \ {0} /\ MaxNodes \in Nat
ASSUME CrawlMode \in BOOLEAN

Endpoints == IPs \X Ports

\* blackList.insert(ip, -1): the entry matches every port of the ip.
AnyPort == -1

VARIABLES
    rpc,        \* rpc[h]: where handler h is in handleRequest, and what it carries
    peers,      \* the info hash's keyedDeque: <<key, serial>> elements, front first
    pushes,     \* Push calls made so far (the serial of the next element)
    known,      \* rt.cachedNodes: the id held under each endpoint, or NoNode
    blackList   \* dht.blackList: <<ip, port>> entries

rhVars == <<rpc, peers, pushes, known, blackList>>

NoElem == <<>>

PeerKeys == IPs \X (Ports \cup PeerPorts)

RIdle == [pc |-> "idle", ep |-> CHOOSE e \in Endpoints : TRUE,
          id |-> CHOOSE n \in NodeIds : TRUE, peer |-> CHOOSE e \in PeerKeys : TRUE,
          front |-> NoElem, values |-> <<>>]

RHInit ==
    /\ Init
    /\ rpc = [h \in Handlers |-> RIdle]
    /\ peers = <<>>
    /\ pushes = 0
    /\ known = [e \in Endpoints |-> NoNode]
    /\ blackList = {}

\* blackList.in(ip, port).
BlackListed(ep) == ep \in blackList \/ <<ep[1], AnyPort>> \in blackList

\* send: a write error blacklists the ip for every port.
SendTo(ep) ==
    blackList' \in {blackList, blackList \cup {<<ep[1], AnyPort>>}}

Go(h, pc) == rpc' = [rpc EXCEPT ![h].pc = pc]

Done(h) == rpc' = [rpc EXCEPT ![h] = RIdle]

\* handle's goroutine takes a request from ep claiming id: the blacklist
\* check, and handleRequest's checks of q, a and a.id up to the switch.
Accept(h, ep, id) ==
    /\ rpc[h].pc = "idle" /\ hpc[h].pc = "idle"
    /\ ~BlackListed(ep)
    /\ known[ep] \in {NoNode, id}

TM == <<clock, store, created, minted, hpc, sweepKeys, lastSweep, accepts>>

-----------------------------------------------------------------------------
(* handleRequest.                                                           *)

\* handle: a packet from a blacklisted endpoint is dropped.
Dropped(h, ep) ==
    /\ rpc[h].pc = "idle" /\ hpc[h].pc = "idle" /\ BlackListed(ep)
    /\ UNCHANGED <<TM, rhVars>>

\* A missing or malformed q, a, a.id or query argument: an error reply.
ParseError(h, ep) ==
    /\ rpc[h].pc = "idle" /\ hpc[h].pc = "idle" /\ ~BlackListed(ep)
    /\ SendTo(ep)
    /\ UNCHANGED <<TM, rpc, peers, pushes, known>>

\* The table holds another id for this address: blacklist the endpoint,
\* RemoveByAddr, and an error reply.
IdChange(h, ep, id) ==
    /\ rpc[h].pc = "idle" /\ hpc[h].pc = "idle" /\ ~BlackListed(ep)
    /\ known[ep] \notin {NoNode, id}
    /\ known' = [known EXCEPT ![ep] = NoNode]
    /\ \E bl \in {blackList \cup {ep}, blackList \cup {ep, <<ep[1], AnyPort>>}} :
          blackList' = bl
    /\ UNCHANGED <<TM, rpc, peers, pushes>>

\* ping, and find_node (whose reply, in standard mode, reads the table):
\* the reply, then on to Insert.  (In crawl mode find_node sends nothing,
\* one of SendTo's outcomes.)
PingOrFindNode(h, ep, id) ==
    /\ Accept(h, ep, id)
    /\ SendTo(ep)
    /\ rpc' = [rpc EXCEPT ![h] = [RIdle EXCEPT !.pc = "insert", !.ep = ep, !.id = id]]
    /\ UNCHANGED <<TM, peers, pushes, known>>

\* peersManager.GetPeers(infoHash, size): the keys of the deque, front
\* first, cut to the last size of them (the newest).
GetPeersList(s, size) ==
    LET from == IF Len(s) > size THEN Len(s) - size + 1 ELSE 1
    IN [i \in 1..(Len(s) - from + 1) |-> s[from + i - 1][1]]

\* get_peers: in standard mode the values, GetPeers(infoHash, K), are read
\* first; then token(addr), its Get.  A live token is replied at once;
\* otherwise the handler goes on to mint.
GetPeers(h, ep, id) ==
    /\ Accept(h, ep, id)
    /\ TokenGet(h, ep[1])
    /\ LET next == [RIdle EXCEPT !.ep = ep, !.id = id,
                     !.values = IF CrawlMode THEN <<>> ELSE GetPeersList(peers, K)]
       IN IF hpc'[h].pc = "mint"
          THEN /\ rpc' = [rpc EXCEPT ![h] = [next EXCEPT !.pc = "mint"]]
               /\ UNCHANGED blackList
          ELSE /\ rpc' = [rpc EXCEPT ![h] = [next EXCEPT !.pc = "insert"]]
               /\ SendTo(ep)
    /\ UNCHANGED <<peers, pushes, known>>

\* get_peers: the Set of a fresh token, and the reply carrying it.
GetPeersMint(h) ==
    /\ rpc[h].pc = "mint"
    /\ TokenSet(h)
    /\ SendTo(rpc[h].ep)
    /\ Go(h, "insert")
    /\ UNCHANGED <<peers, pushes, known>>

\* announce_peer with token t and a.port p: check(addr, t), its Get.  The
\* peer's port is p, or the source port when implied_port is non-zero.
Announce(h, ep, id, t, port) ==
    /\ Accept(h, ep, id)
    /\ CheckGet(h, ep[1], t)
    /\ rpc' = [rpc EXCEPT ![h] = [RIdle EXCEPT !.pc = "check", !.ep = ep, !.id = id,
                                                !.peer = <<ep[1], port>>]]
    /\ UNCHANGED <<peers, pushes, known, blackList>>

\* announce_peer: check's Delete.  A bad token returns with no reply and
\* no Insert; a good one goes to peersManager.Insert in standard mode.
AnnounceChecked(h) ==
    /\ rpc[h].pc = "check"
    /\ CheckDelete(h)
    /\ LET ok == hpc[h].found # NoToken /\ hpc[h].tok = hpc[h].found
       IN IF ~ok THEN Done(h)
          ELSE IF CrawlMode THEN Go(h, "insert") ELSE Go(h, "push")
    /\ UNCHANGED <<peers, pushes, known, blackList>>

-----------------------------------------------------------------------------
(* peersManager.Insert, then the reply.                                      *)

\* The deque without the element holding key.
Without(s, key) == SelectSeq(s, LAMBDA e : e[1] # key)

\* keyedDeque.Push(key, peer): the old element of key goes, a new one is
\* appended.  (The get-or-create under pm's lock is folded in.)
PeerPush(h) ==
    /\ rpc[h].pc = "push"
    /\ peers' = Append(Without(peers, rpc[h].peer), <<rpc[h].peer, pushes>>)
    /\ pushes' = pushes + 1
    /\ Go(h, "len")
    /\ UNCHANGED <<TM, known, blackList>>

\* queue.Len() > K; when not, the reply {id} is sent.
PeerLen(h) ==
    /\ rpc[h].pc = "len"
    /\ IF Len(peers) > K
       THEN Go(h, "front") /\ UNCHANGED blackList
       ELSE Go(h, "insert") /\ SendTo(rpc[h].ep)
    /\ UNCHANGED <<TM, peers, pushes, known>>

\* queue.Front().
PeerFront(h) ==
    /\ rpc[h].pc = "front"
    /\ rpc' = [rpc EXCEPT ![h].pc = "remove",
                          ![h].front = IF peers = <<>> THEN NoElem ELSE Head(peers)]
    /\ UNCHANGED <<TM, peers, pushes, known, blackList>>

\* queue.Remove(e): removes that element if it is still in the list; then
\* the reply {id}.
PeerRemove(h) ==
    /\ rpc[h].pc = "remove"
    /\ peers' = SelectSeq(peers, LAMBDA e : e # rpc[h].front)
    /\ SendTo(rpc[h].ep)
    /\ Go(h, "insert")
    /\ UNCHANGED <<TM, pushes, known>>

-----------------------------------------------------------------------------
\* routingTable.Insert(NewNode(id, addr)): refused for a blacklisted
\* endpoint or a full table; otherwise cachedNodes.Set(addr, node), unless
\* the bucket keeps the node as a candidate.
RTInsert(h) ==
    /\ rpc[h].pc = "insert"
    /\ LET ep == rpc[h].ep
           full == Cardinality({e \in Endpoints : known[e] # NoNode}) >= MaxNodes
       IN IF BlackListed(ep) \/ full
          THEN UNCHANGED known
          ELSE known' \in {known, [known EXCEPT ![ep] = rpc[h].id]}
    /\ Done(h)
    /\ UNCHANGED <<TM, peers, pushes, blackList>>

\* Time passes and the sweeper runs, as in TokenManager.
Background ==
    /\ Tick \/ SweepScan \/ SweepDelete
    /\ UNCHANGED rhVars

RHNext ==
    \/ Background
    \/ \E h \in Handlers, ep \in Endpoints :
          \/ Dropped(h, ep)
          \/ ParseError(h, ep)
          \/ \E id \in NodeIds :
                \/ IdChange(h, ep, id)
                \/ PingOrFindNode(h, ep, id)
                \/ GetPeers(h, ep, id)
                \/ \E t \in 0..minted, port \in PeerPorts \cup {ep[2]} :
                      Announce(h, ep, id, t, port)
    \/ \E h \in Handlers :
          \/ GetPeersMint(h) \/ AnnounceChecked(h)
          \/ PeerPush(h) \/ PeerLen(h) \/ PeerFront(h) \/ PeerRemove(h)
          \/ RTInsert(h)

RHSpec == RHInit /\ [][RHNext]_<<TM, rhVars>>

-----------------------------------------------------------------------------
(* Properties.                                                              *)

\* The spec (4.6): a peer list is bounded by K, dropping its front on
\* overflow; only an Insert between its Push and its Remove holds one
\* element more.  Two announcers that both find the list over K can read
\* the same Front and remove it twice, the second Remove doing nothing, so
\* the list keeps K + 1 peers once both have returned.
PeerListBounded ==
    Len(peers) <= K + Cardinality({h \in Handlers : rpc[h].pc \in {"len", "front", "remove"}})

\* The spec (4.11 step 4, and section 8's boundary behaviour): an address
\* the table binds to one id is never bound to another without the
\* eviction (blacklist and RemoveByAddr) in between.  handleRequest reads
\* the binding before the switch and writes it only at the end, so two
\* requests from one address claiming different ids both pass the test.
IdRebindEvicts ==
    [][\A ep \in Endpoints :
         known[ep] # NoNode => known'[ep] \in {NoNode, known[ep]}]_<<TM, rhVars>>

=============================================================================
