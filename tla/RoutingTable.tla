---------------------------- MODULE RoutingTable ----------------------------
(***************************************************************************)
(* The Kademlia routing table of src/dht/routingtable.go.                  *)
(*                                                                         *)
(* The table is a binary trie over node-id prefixes whose leaves own one  *)
(* kbucket each.  Beside the trie it keeps two caches: cachedNodes        *)
(* (address -> node), read by GetNeighbors, GetNodeByAddress, RemoveByAddr *)
(* and the MaxNodes gate, and cachedKBuckets (prefix -> bucket), scanned  *)
(* by Fresh.  Insert runs under the table's write lock and is one atomic  *)
(* step here.  Remove is not under that lock: it looks the node up under  *)
(* the read lock (GetNodeKBucktByID) and then, after the lock is released, *)
(* calls bucket.Replace and updates both caches.  Those are two steps of  *)
(* the removing goroutine, so an Insert (and its Split) may run between   *)
(* them.  Goroutines calling RemoveByAddr are the set Removers; the       *)
(* refresher goroutine that runs Fresh is Refresher.                      *)
(*                                                                         *)
(* A bucket is identified by its prefix: a prefix gets a bucket once,     *)
(* when its parent splits, and a split parent keeps its old bucket object *)
(* (only the trie node drops it), so nodes[p] for a split p is the state  *)
(* of that detached object.                                                *)
(*                                                                         *)
(* bucket.nodes is a keyedDeque: a list with an index from key to list    *)
(* element.  Push(key, v), HasKey, Get and Delete go through the index;   *)
(* PushBack(v) and InsertBefore(v, e) take no key, so the entries they    *)
(* add (the nodes Split moves and the candidate Replace promotes) are in  *)
(* the list, counted by Len and seen by Iter, but not in the index.       *)
(*                                                                         *)
(* The DHT is created with one of the configurations of Config, and the   *)
(* table reads rt.k (KBucketSize), MaxNodes, the mode and RefreshNodeNum  *)
(* from it.                                                                *)
(***************************************************************************)
EXTENDS Naturals, Sequences, FiniteSets, Bags, Config

CONSTANTS
    IdBits,       \* maxPrefixLength: bits in a node id (160 in the code)
    NodeIds,      \* ids remote nodes may claim, integers in 0..2^IdBits-1
    Addrs,        \* UDP endpoints ip:port, model values
    LocalId,      \* the local node's id
    Modes,        \* the modes the DHT may be created in
    Removers,     \* goroutines calling RemoveByAddr
    Refresher,    \* the goroutine running routingTable.Fresh
    None

ASSUME IdBits \in Nat \ {0}
ASSUME NodeIds \subseteq 0..(2^IdBits - 1) /\ LocalId \in 0..(2^IdBits - 1)
ASSUME Modes \subseteq {"standard", "crawl"} /\ Modes # {} /\ Refresher \notin Removers

Node == [id : NodeIds, addr : Addrs]

\* bitmap.Bit: bit i of an id, 0 being the most significant.
Bit(id, i) == (id \div 2^(IdBits - 1 - i)) % 2

\* The first n bits of an id, as a prefix.
PrefixOf(id, n) == [i \in 1..n |-> Bit(id, i - 1)]

Prefixes == UNION {[1..n -> {0, 1}] : n \in 0..IdBits}

Procs == Removers \cup {Refresher}

VARIABLES
    inner,           \* prefixes of trie nodes that have split (have children)
    nodes,           \* nodes[p]: the entries of bucket.nodes of the bucket with prefix p that its index holds, keyed by id
    loose,           \* loose[p]: the entries of that list with no index key, a bag
    candidates,      \* candidates[p]: bucket.candidates, oldest first
    cachedNodes,     \* rt.cachedNodes: address -> node, or None
    cachedKBuckets,  \* rt.cachedKBuckets: the prefixes it holds
    blackList,       \* endpoints in dht.blackList (written by the callers of the table)
    pending,         \* pending[g]: what Remove of goroutine g found, between its two steps
    clearQueue,      \* rt.clearQueue: nodes Fresh scheduled for removal
    freshing,        \* Fresh is in its crawl-mode removal loop
    config           \* dht.Config, fixed when the DHT is created

vars == <<inner, nodes, loose, candidates, cachedNodes, cachedKBuckets, blackList,
          pending, clearQueue, freshing, config>>

\* rt.k, set by newRoutingTable from KBucketSize.
K == config.KBucketSize

\* dht.IsCrawlMode().
IsCrawlMode == config.Mode = "crawl"

IdsOf(S) == {n.id : n \in S}

Parent(p) == [i \in 1..(Len(p) - 1) |-> p[i]]

\* Trie leaves: prefixes whose trie node exists and has not split.
Leaves == {p \in Prefixes \ inner : p = <<>> \/ Parent(p) \in inner}

\* The leaf the walk of Insert or GetNodeKBucktByID reaches for an id.
LeafOf(id) == CHOOSE p \in Leaves : PrefixOf(id, Len(p)) = p

\* bucket.nodes.Len(): indexed and unindexed entries alike.
Len_(t, p) == Cardinality(t.nodes[p]) + BagCardinality(t.loose[p])

\* Every node a bucket's list holds, whether or not its index has it.
Held(p) == nodes[p] \cup BagToSet(loose[p])

CachedSet == {cachedNodes[a] : a \in {b \in Addrs : cachedNodes[b] # None}}

TableNodes == UNION {Held(p) : p \in Leaves}

TypeOK ==
    /\ inner \subseteq Prefixes
    /\ nodes \in [Prefixes -> SUBSET Node]
    /\ \A p \in Prefixes : IsABag(loose[p]) /\ BagToSet(loose[p]) \subseteq Node
    /\ \A p \in Leaves : Cardinality(nodes[p]) + BagCardinality(loose[p]) <= K
    /\ candidates \in [Prefixes -> Seq(Node)]
    /\ cachedNodes \in [Addrs -> Node \cup {None}]
    /\ cachedKBuckets \subseteq Prefixes
    /\ blackList \subseteq Addrs
    /\ pending \in [Procs -> [node : Node, prefix : Prefixes] \cup {None}]
    /\ clearQueue \subseteq Node
    /\ freshing \in BOOLEAN
    /\ config \in {NewConfig(m) : m \in Modes}

Init ==
    /\ inner = {}
    /\ nodes = [p \in Prefixes |-> {}]
    /\ loose = [p \in Prefixes |-> EmptyBag]
    /\ candidates = [p \in Prefixes |-> <<>>]
    /\ cachedNodes = [a \in Addrs |-> None]
    /\ cachedKBuckets = {<<>>}
    /\ blackList = {}
    /\ pending = [g \in Procs |-> None]
    /\ clearQueue = {}
    /\ freshing = FALSE
    /\ config \in {NewConfig(m) : m \in Modes}

-----------------------------------------------------------------------------
(* The table's structural state as one record, so that the walk of Insert, *)
(* which may split several times before it stops, is one recursive        *)
(* operator.                                                                *)

Table == [inner |-> inner, nodes |-> nodes, loose |-> loose, candidates |-> candidates,
          cachedNodes |-> cachedNodes, cachedKBuckets |-> cachedKBuckets]

\* The entries of p's list, indexed or not, that lie in S, as a bag.
MovedTo(t, p, S) ==
    LET all == t.loose[p] (+) SetToBag(t.nodes[p])
    IN [n \in DOMAIN all \cap S |-> all[n]]

\* Mutant: Split partitions by bit prefixLen - 1 instead of prefixLen.
SplitWrongBit(t, p) ==
    LET c(b) == Append(p, b)
        Side(n, b) == Bit(n.id, Len(p) - 1) = b
    IN [t EXCEPT
          !.inner = @ \cup {p},
          !.loose = [@ EXCEPT ![c(0)] = MovedTo(t, p, {n \in Node : Side(n, 0)}),
                              ![c(1)] = MovedTo(t, p, {n \in Node : Side(n, 1)})],
          !.candidates = [@ EXCEPT
                  ![c(0)] = SelectSeq(t.candidates[p], LAMBDA n : Side(n, 0)),
                  ![c(1)] = SelectSeq(t.candidates[p], LAMBDA n : Side(n, 1))],
          !.cachedKBuckets = (@ \ {p}) \cup {c(0), c(1)}]

\* Mutant: Split creates the children but does not move the nodes into them.
SplitNoMove(t, p) ==
    [t EXCEPT !.inner = @ \cup {p},
              !.cachedKBuckets = (@ \ {p}) \cup {Append(p, 0), Append(p, 1)}]

\* routingTableNode.Split plus the cache updates Insert makes around it.
\* Each entry of the old list, indexed or not, is PushBack'ed onto the
\* child its bit picks, so in the children no node is indexed.
Split(t, p) ==
    LET c(b) == Append(p, b)
        Side(n, b) == Bit(n.id, Len(p)) = b
    IN [t EXCEPT
          !.inner = @ \cup {p},
          !.loose = [@ EXCEPT ![c(0)] = MovedTo(t, p, {n \in Node : Side(n, 0)}),
                              ![c(1)] = MovedTo(t, p, {n \in Node : Side(n, 1)})],
          !.candidates = [@ EXCEPT
                  ![c(0)] = SelectSeq(t.candidates[p], LAMBDA n : Side(n, 0)),
                  ![c(1)] = SelectSeq(t.candidates[p], LAMBDA n : Side(n, 1))],
          !.cachedKBuckets = (@ \ {p}) \cup {c(0), c(1)}]

\* Mutant: the room test uses <= K.
HasRoomOffByOne(t, p, nd) == Len_(t, p) <= K \/ nd.id \in IdsOf(t.nodes[p])

\* Insert's test that a leaf bucket takes the node: nodes.Len() < k, or
\* nodes.HasKey(id), which only the index answers.
HasRoom(t, p, nd) == Len_(t, p) < K \/ nd.id \in IdsOf(t.nodes[p])

\* Mutant: bucket.nodes keyed by address instead of id.
BucketInsertByAddr(S, nd) == {n \in S : n.addr # nd.addr} \cup {nd}

\* kbucket.Insert: nodes.Push(id, node) replaces the node with that id.
BucketInsert(S, nd) == {n \in S : n.id # nd.id} \cup {nd}

\* The loop of routingTable.Insert from leaf p, prefixLen = Len(p) + 1.
\* The candidate branch also starts kbucket.Fresh, which only sends ping
\* queries (to the transaction manager) and leaves the table alone.
RECURSIVE InsertWalk(_, _, _)
InsertWalk(t, p, nd) ==
    IF Len(p) = IdBits THEN t      \* loop bound reached: return false
    ELSE IF HasRoom(t, p, nd)
    THEN [t EXCEPT
            !.nodes[p] = BucketInsert(@, nd),
            !.cachedNodes[nd.addr] = nd,
            !.cachedKBuckets = @ \cup {p}]
    ELSE IF PrefixOf(nd.id, Len(p)) = p
    THEN InsertWalk(Split(t, p), Append(p, Bit(nd.id, Len(p))), nd)
    ELSE LET cs == Append(t.candidates[p], nd)
         IN [t EXCEPT !.candidates[p] = IF Len(cs) > K THEN Tail(cs) ELSE cs]

\* routingTable.Insert: the blacklist and MaxNodes gates, then the walk.
InsertTable(nd) ==
    IF nd.addr \in blackList \/ Cardinality(CachedSet) >= config.MaxNodes
    THEN Table
    ELSE InsertWalk(Table, LeafOf(nd.id), nd)

SetTable(t) ==
    /\ inner' = t.inner
    /\ nodes' = t.nodes
    /\ loose' = t.loose
    /\ candidates' = t.candidates
    /\ cachedNodes' = t.cachedNodes
    /\ cachedKBuckets' = t.cachedKBuckets

-----------------------------------------------------------------------------
(* Operations.                                                              *)

\* Insert of a node heard in a request (handleRequest) or in a find_node /
\* get_peers response's node list (findOn).
Insert(nd) ==
    /\ SetTable(InsertTable(nd))
    /\ UNCHANGED <<blackList, pending, clearQueue, freshing>>

\* handleResponse: blackList.delete(addr), then routingTable.Insert(node).
ResponseInsert(nd) ==
    /\ blackList' = blackList \ {nd.addr}
    /\ SetTable(InsertTable(nd))
    /\ UNCHANGED <<pending, clearQueue, freshing>>

\* GetNodeKBucktByID under the read lock: the first half of Remove(id).
\* nodes.Get(id) looks in the index only.
Lookup(g, id) ==
    LET p == LeafOf(id)
        found == {n \in nodes[p] : n.id = id}
    IN pending' = [pending EXCEPT ![g] =
                     IF found = {} THEN None
                     ELSE [node |-> CHOOSE n \in found : TRUE, prefix |-> p]]

\* A caller blacklists an endpoint and calls RemoveByAddr: a failed query
\* (transactionManager.query), an id change seen in handleRequest, or an
\* id mismatch in handleResponse.  RemoveByAddr reads cachedNodes and then
\* runs the lookup of Remove.
BlacklistRemoveByAddr(g, a) ==
    /\ pending[g] = None
    /\ blackList' = blackList \cup {a}
    /\ IF cachedNodes[a] = None
       THEN UNCHANGED pending
       ELSE Lookup(g, cachedNodes[a].id)
    /\ UNCHANGED <<inner, nodes, loose, candidates, cachedNodes, cachedKBuckets,
                   clearQueue, freshing>>

\* kbucket.Replace on the bucket found, applied to that bucket whether or
\* not it is still a leaf: Delete(id) through the index, then the back
\* candidate goes into the list by InsertBefore or PushBack, unindexed.
Replace(p, nd) ==
    /\ nodes' = [nodes EXCEPT ![p] = {n \in @ : n.id # nd.id}]
    /\ LET cs == candidates[p]
       IN IF cs = <<>>
          THEN UNCHANGED <<loose, candidates>>
          ELSE /\ loose' = [loose EXCEPT ![p] = @ (+) SetToBag({cs[Len(cs)]})]
               /\ candidates' = [candidates EXCEPT ![p] = SubSeq(cs, 1, Len(cs) - 1)]

\* The second half of Remove, outside the table lock: Replace, then the
\* cachedNodes delete and the cachedKBuckets push.
RemoveApply(g) ==
    /\ pending[g] # None
    /\ LET nd == pending[g].node
           p == pending[g].prefix
       IN /\ Replace(p, nd)
          /\ cachedNodes' = [cachedNodes EXCEPT ![nd.addr] = None]
          /\ cachedKBuckets' = cachedKBuckets \cup {p}
    /\ pending' = [pending EXCEPT ![g] = None]
    /\ UNCHANGED <<inner, blackList, clearQueue, freshing>>

\* The nodes of bucket p that Fresh queries: the first RefreshNodeNum its
\* Iter yields, indexed or not, in an order the model does not fix.
Refreshed(p) ==
    LET n == Cardinality(Held(p))
    IN {S \in SUBSET Held(p) :
          Cardinality(S) = IF config.RefreshNodeNum < n THEN config.RefreshNodeNum ELSE n}

\* routingTable.Fresh, its scan, in crawl mode: KBucketExpiredAfter is 0,
\* so every non-empty bucket in cachedKBuckets is due, and the nodes it
\* queries are queued for removal.  The find_node queries belong to the
\* transaction manager.  In standard mode Fresh clears the queue without
\* removing anything, so its only effect is those queries.
FreshScan ==
    /\ IsCrawlMode /\ ~freshing
    /\ LET due == {p \in cachedKBuckets : Held(p) # {}}
       IN \E pick \in [due -> UNION {Refreshed(p) : p \in due}] :
             /\ \A p \in due : pick[p] \in Refreshed(p)
             /\ clearQueue' = UNION {pick[p] : p \in due}
             /\ freshing' = (clearQueue' # {})
    /\ UNCHANGED <<inner, nodes, loose, candidates, cachedNodes, cachedKBuckets,
                   blackList, pending>>

\* Crawl mode: Fresh calls Remove(id) for each queued node in turn.
FreshRemove(nd) ==
    /\ freshing /\ pending[Refresher] = None
    /\ nd \in clearQueue
    /\ clearQueue' = clearQueue \ {nd}
    /\ Lookup(Refresher, nd.id)
    /\ UNCHANGED <<inner, nodes, loose, candidates, cachedNodes, cachedKBuckets,
                   blackList, freshing>>

\* rt.clearQueue.Clear() once every queued node has been removed.
FreshDone ==
    /\ freshing /\ clearQueue = {} /\ pending[Refresher] = None
    /\ freshing' = FALSE
    /\ UNCHANGED <<inner, nodes, loose, candidates, cachedNodes, cachedKBuckets,
                   blackList, pending, clearQueue>>

Next ==
  /\ UNCHANGED config
  /\ \/ \E nd \in Node : Insert(nd)
     \/ \E nd \in Node : ResponseInsert(nd)
     \/ \E g \in Removers, a \in Addrs : BlacklistRemoveByAddr(g, a)
     \/ \E g \in Procs : RemoveApply(g)
     \/ FreshScan
     \/ \E nd \in Node : FreshRemove(nd)
     \/ FreshDone

Spec == Init /\ [][Next]_vars

-----------------------------------------------------------------------------
(* Properties.                                                              *)

\* Every node and candidate a bucket holds shares the bucket's prefix (the
\* spec's first invariant), for live and detached buckets alike: Split
\* partitions by bit Len(p) and Insert walks by the id's bits, so the
\* owning leaf of a node is where GetNodeKBucktByID looks for it.
PrefixInvariant ==
    \A p \in Prefixes :
        \A n \in Held(p) \cup {candidates[p][i] : i \in DOMAIN candidates[p]} :
            PrefixOf(n.id, Len(p)) = p

\* No step drops a node id from the table's leaves unless a Remove of some
\* goroutine has looked that id up and is applying it: Split, the
\* re-insertion of a known id, candidate promotion and a Remove applied to
\* a bucket that has meanwhile split must all keep the others.
NoNodeLostOutsideRemove ==
    [][\A id \in IdsOf(TableNodes) \ IdsOf(TableNodes') :
          \E g \in Procs : pending[g] # None /\ pending[g].node.id = id]_vars

\* cachedKBuckets, which Fresh scans, holds exactly the live leaf buckets.
\* Insert keeps it so under the table lock; Remove pushes the bucket it
\* found after releasing the read lock.
KBucketCacheIsLeaves == cachedKBuckets = Leaves

\* The spec (4.8): GetNodeKBucktByID returns the node with an id whenever
\* the owning leaf holds it, so Remove and RemoveByAddr can take out any
\* node of the table.  Split's PushBack and Replace's InsertBefore put
\* nodes in the list without an index entry, and nodes.Get misses them.
NodesFindable ==
    \A p \in Leaves : \A n \in Held(p) : n.id \in IdsOf(nodes[p])

=============================================================================
