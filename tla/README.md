# TLA+ models of dht-crawler

This directory holds TLA+ models of the DHT node in `src/dht`, with TLC
configurations that check them. `PROJECT.json` lists:
- every component, and whether it is modelled;
- the runs and their expected outcomes;
- one mutant per checked property;
- the map from each definition to the source lines it translates;
- the findings and the hazards.

## The system

`src/dht` is a BitTorrent Mainline DHT node (Kademlia, BEP-5) tuned for crawling. Its parts and how they interact:

| Part | Code | State | Operations |
|---|---|---|---|
| Routing table | `routingtable.go` 65-451 | trie of `routingTableNode`; per leaf a `kbucket` (nodes keyed by id, candidates); `cachedNodes` (address -> node); `cachedKBuckets`; `clearQueue`; an RWMutex | `Insert`, `GetNeighbors`, `GetNodeKBucktByID`, `GetNodeByAddress`, `Remove`, `RemoveByAddr`, `Fresh`, `kbucket.Insert/Replace/Fresh`, `routingTableNode.Split` |
| Neighbour search | `routingtable.go` 453-518 | none (pure) | `getTopK` over `topKHeap` with `container/heap` |
| Transaction manager | `transaction_manager.go` 225-427, `part_001` 1-57 | `cursor`, `queryChan` (1024), `transactions` (id -> trans), `index` ((type, address) -> trans), a `Response` channel of capacity `Try+1` per transaction | `genTransID`, `sendQuery` (+ `ping`, `findNode`, `getPeers`, `AnnouncePeer`), `run`, `query`, `insert`, `delete`, `filterOne` |
| KRPC dispatch | `krpc.go` 92-500 | `workerTokens` (PacketWorkerLimit) | `handle`, `handleRequest`, `handleResponse`, `handleError`, `findOn`, `send` |
| Token manager | `krpc.go` 24-89 | IP -> token with expiry | `token`, `clear` (3-minute sweeper), `check` |
| Peer index | `routingtable.go` 14-62 | infohash -> peers | `Insert`, `GetPeers` |
| Config | `config.go`, `main.go` 64-68 | none | `NewStandardConfig`, `NewCrawlConfig`; `main` picks the crawl one |
| Messages, values, logger | `part_000`-`part_004`, `torrent.go` | none | constructors and encoders |

The blacklist, bitmap, keyedDeque, syncedMap, bencode, the wire fetcher and the DHT main loop (`dht.go`) are used by this code but are not in `src/`.

How the parts interact:
- **Outbound queries.** A caller (`findOn`, `Fresh`, `kbucket.Fresh`, the main loop) calls `sendQuery`. It checks the self id, the dedup index and the blacklist, then enqueues. `run` starts a `query` goroutine per query, which:
  1. inserts the transaction;
  2. sends up to `Try` times, each time selecting between its `Response` channel and a 15 s timer;
  3. on failure, blacklists the address and calls `routingTable.RemoveByAddr`;
  4. deletes the transaction (deferred).
- **Inbound datagrams.** Each datagram is handled by a goroutine holding one of `PacketWorkerLimit` tokens. A response is matched with `filterOne`; the handler signals `Response`, deletes the address from the blacklist and inserts the node into the routing table.
- **Refresh.** The routing table's `Fresh` queries the nodes of expired buckets. In crawl mode (`KBucketSize = MaxInt32`, `KBucketExpiredAfter = 0`) it then removes every node it queried.

Hard behaviours:
- goroutines interleave between the read-locked lookup and the unlocked apply of `Remove`, between the index check of `sendQuery` and the insert in `query`, and between a late answer and the last timeout;
- the network loses and duplicates datagrams;
- channels have bounds: `queryChan`, `Response`, `workerTokens`;
- the transaction id counter wraps.

## Modules

| Module | Models | State | Actions |
|---|---|---|---|
| `Config` | the two configurations, reduced to `KBucketSize`, `MaxNodes`, `Mode` and `RefreshNodeNum` | none (constant records) | `NewConfig(mode)` |
| `RoutingTable` | routing table (trie, buckets, candidates, both caches, blacklist gate, Fresh) | `config` (chosen in `Init`, never changed), `inner` (split prefixes), `nodes[prefix]`, `candidates[prefix]`, `cachedNodes`, `cachedKBuckets`, `blackList`, `pending[g]` (a Remove between its lookup and its apply), `clearQueue`, `freshing` | `Insert`, `ResponseInsert`, `BlacklistRemoveByAddr` (RemoveByAddr's read and lookup), `RemoveApply` (Replace + cache updates), `FreshScan`, `FreshRemove`, `FreshDone` |
| `TopK` | `getTopK`, `topKHeap`, `container/heap` up/down | `queue` (the cachedNodes snapshot, as distances) | `AddNode`, `DropNode`; `GetTopK` is a RECURSIVE operator judged against `Nearest` (the sorted input cut to k) |
| `TransactionManager` | transaction manager, `send`, and the response side of `handle`/`handleResponse`/`handleError` | `cursor`, `queryChan`, `qdata`, `qstate` (the query goroutine's program counter), `attempt`, `success`, `resp` (signals buffered in `Response`), `transactions`, `index`, `net` (bag of datagrams), `worker` (handler goroutines), `blackList`, `table` | `SendQuery`, `Run`, `Insert`, `Send`, `SendFails`, `LoopDone`, `Receive`, `Timeout`, `Finish`, `Delete`, `DropPacket`, `Handle`, `Signal`, `Post` |
| `TokenManager` | `tokenManager` (`token`, `check`, `clear`) | `clock` (ticks), `store` (ip -> token number), `created`, `minted`, `hpc` (handler program counter and what it read), `sweepKeys`, `lastSweep`, `accepts` (announces passed per token) | `Tick`, `TokenGet`, `TokenSet`, `CheckGet`, `CheckDelete`, `SweepScan`, `SweepDelete` |
| `TokenSpec` | spec 4.5's token manager, every operation atomic (abstract) | `clock`, `store`, `created`, `minted`, `accepts` | `Tick`, `Mint`, `Check`, `Sweep` |
| `QuerySpec` | spec 4.10's transaction table (abstract) | `phase`, `sends`, `answered`, `trans` (id -> open query) | `Open`, `Send`, `Answer`, `Close` |
| `RequestHandler` | `handle`'s blacklist check and `handleRequest` for concurrent handlers, composed with `TokenManager` (it EXTENDS it) and `peersManager.Insert` for one info hash | the token manager's variables, `rpc[h]` (where handler h is and what it carries), `peers` (the keyedDeque as `<<key, serial>>` elements), `pushes`, `known` (cachedNodes: the id per address), `blackList` | `Dropped`, `ParseError`, `IdChange`, `PingOrFindNode`, `GetPeers`, `GetPeersMint`, `Announce`, `AnnounceChecked`, `PeerPush`, `PeerLen`, `PeerFront`, `PeerRemove`, `RTInsert`, `Background` |
| `FindOn` | one search of either type: `findOn` and the find_node and get_peers branches of `handleResponse`, driving the query goroutines (`run`, `query`, `delete`), with `GetNeighbors` through `TopK`'s `GetTopK` | `table` (cachedNodes as nodes), `blackList`, `index` (nodes with a live find_node transaction), `queryChan`, per slot `qnode`, `qprime`, `qst`, `att`, `ok`, `resp`, `ans` (answers in flight), `qtype` (the search's query type), `peers` (remotes whose values went to `peersManager.Insert`) | `Start`, `Send`, `SendFails`, `LoopDone`, `Receive`, `Timeout`, `Finish`, `Delete`, `Answer` |
| `MCRoutingTable`, `MCTransactionManager`, `MCTokenManager`, `MCRequestHandler`, `MCFindOn` | model values and symmetry for TLC | | |

Correspondence details:
- **Routing table.**
  - Node ids are `IdBits`-bit integers and bucket prefixes are bit sequences.
  - `InsertWalk` is the loop of `routingTable.Insert`: a recursive walk that stores, splits (`Split`) or records a candidate.
  - `Remove` is split in two, as the code's locking splits it: the lookup under the read lock (`Lookup`) and the apply with no lock (`RemoveApply`). Another process may act between them.
  - `Removers` are the callers of `RemoveByAddr`; `Refresher` is the `Fresh` loop.
  - `Init` picks the configuration from `Modes` with `Config`'s `NewConfig`. `K` is its `KBucketSize` and `IsCrawlMode` its mode. `MaxInt32` is a constant larger than any bucket the bounds fill, which is what `math.MaxInt32` is in the code. `FreshScan` queries `RefreshNodeNum` nodes of each due bucket (`Refreshed`), in any order the bucket may be read.
  - keyedDeque is not in `src/`; it is modelled after the upstream library's keyedDeque, which the spec's 4.8 does not describe at this level. `Push(key, v)` entries are indexed (`nodes[p]`, found by `Get`, `HasKey` and `Delete`). `PushBack` and `InsertBefore` entries are not (`loose[p]`, a bag): `Split` moves every node with `PushBack`, and `Replace` promotes a candidate with `InsertBefore`/`PushBack`. `Len_` counts both.
- **Transaction manager.**
  - A query is a model value used once, standing for the `Transaction` object and its goroutine.
  - A node's id is abstracted to `none` (prime node), `self` or `peer`.
  - A datagram carries `t`, its source, `y` and whether its id matches the transaction's node.
  - The remote answers each send with one datagram, which the network may drop (`DropPacket`, or never delivered) or, when `Duplicates`, deliver twice.
  - `Handle` includes the early returns of `handleResponse`: an unmatched transaction, a wrong id (blacklist and evict), or a malformed body / `findOn` stop, which returns before the signal.

- **Token manager.**
  - Each syncedMap call is one atomic step, so `token` is a Get (`TokenGet`) then a Set (`TokenSet`), `check` is a Get (`CheckGet`) then a Delete (`CheckDelete`), and `clear` is a scan (`SweepScan`) then a `DeleteMulti` (`SweepDelete`).
  - Tokens are numbered as they are minted; `randomString(5)` is taken to be fresh.
- **Request handling.**
  - A handler takes one request at a time. `Accept` holds the checks before the switch: the handler is idle, the endpoint is not blacklisted, and the table holds no other id for the address. A request with a bad or own id returns with nothing changed, so it needs no action.
  - `send` may fail at every reply, and a failure blacklists the ip for every port (`SendTo`).
  - The routing table is reduced to `known`, what `GetNodeByAddress` reads. `RTInsert` keeps the node or declines it (a full bucket that makes it a candidate), after the blacklist and `MaxNodes` gates.
  - `GetPeers` reads the standard-mode reply's values, `peersManager.GetPeers(infoHash, K)` (`GetPeersList`: the deque's keys cut to the newest K), in the step of the token Get; `rpc[h].values` holds them until the reply.
  - `peersManager.Insert` holds pm's lock only for the get-or-create. `Push`, `Len`, `Front` and `Remove` are separate keyedDeque calls (`PeerPush` .. `PeerRemove`), and `Remove(e)` removes an element, not a key.

- **Search (`FindOn`).**
  - The remotes are model values with honest ids; `Dist` is their XOR distance to the target and `Adv[n]` the nodes n's response lists. The search starts at a prime node, whose id is unknown, so its failure does not evict it.
  - A slot is a query goroutine with its `Transaction`; it is reused after `Delete`, and answers still in flight to a deleted transaction are dropped, as `filterOne` drops them.
  - `Answer` is one handler run: `findOn` inserts the advertised nodes (`Inserted`: the blacklist and `MaxNodes` gates; a new node may instead become a candidate), stops if the target was among them or nothing was new (`Stop`), or else calls `findNode` for the `GetNeighbors` result in every order the cachedNodes map may yield (`Issue` applies `sendQuery`'s index and blacklist drops); then the signal, `blackList.delete` and the sender's `Insert`.
  - `qtype` is chosen in `Init` from `SearchTypes`. A find_node search starts with a query to a prime node. A get_peers search starts with the seed already in the table and one get_peers query to it; the caller that starts it is not in `src/` and this follows spec.md. `Issue` stands for `findNode` or `getPeers`, which differ only in the query type.
  - In a get_peers search, a remote of `Values` answers with values: they go to `peersManager.Insert` and that answer starts no query; the signal, `blackList.delete` and `Insert` of the sender still follow. Any other answer goes through `findOn` as in find_node.
  - A malformed answer returns before the signal and the sender's Insert, which is the same step as a lost answer, so it is not generated separately.
  - `GetNeighbors` depends only on the table and the constants, so `NeighborTable` computes it once for every table and `Neighbors` looks it up.
  - `MaxQueries` bounds the slots; `Issue` waits for enough free slots, where the code's 1024-entry queue never waits in practice.

### Refinements

- `TokenManager` defines `Atomic == INSTANCE TokenSpec` (the variables have the same names) and checks `ImplementsTokenSpec == Atomic!Spec`. It fails (`token_atomic`).
- `TransactionManager` defines `Abstract == INSTANCE QuerySpec WITH ...`. The query goroutine's state maps to a phase: `QueryPhase` is idle before `Insert`, closed after `Delete`, and open in between. A send counts from the moment the datagram is on its way (`Sends`). `answered` is `success` and `trans` is `transactions`. QuerySpec keeps 4.10's "query returns on success": an answered query is not sent again, as query's own comment also says (it retries on timeout). `ImplementsQuerySpec` fails (`tm_resend`): the `break` at `transaction_manager.go` 361 leaves only the select, so the loop sends again after the answer.
- TokenSpec's `Check` accepts only a token that has not expired: section 3 of the spec says a token is valid until `TokenExpiredAfter`, and check's comment says it returns whether the token is valid.

## Runs

| Run | Checks | Result |
|---|---|---|
| `rt_run` | both configurations: `TypeOK`, `PrefixInvariant` (every node and candidate of a leaf has the leaf's prefix), `NoNodeLostOutsideRemove` (a node leaves the table only by a remove step, Fresh's included) | pass |
| `rt_kbucket_cache` | `KBucketCacheIsLeaves`: `cachedKBuckets` holds exactly the leaves | violation: a Remove racing a Split pushes the dead parent back |
| `rt_findable` | `NodesFindable`: every node a leaf holds can be found through its key index | violation: `Split` moves nodes with `PushBack`, which bypasses the index |
| `topk_nearest` | `TopKIsNearest`: the k nearest | violation at `<<0,1,3,2>>`, k = 3 |
| `tm_run` | under `FairSpec`, no duplication: `TransactionsConsistent` (every live query is found under its id; index and id entries name live queries under their own keys), `HandlerNeverStuck`, `QueryCompletes` | pass |
| `tm_resend` | `ImplementsQuerySpec` (spec 4.10) | violation: an answered query is sent again |
| `tm_dedup` | `NoDuplicateLiveQuery` (spec §8) | violation: the index check precedes the insert |
| `tm_handler_stuck` | `HandlerNeverStuck` with `Duplicates = TRUE` | violation: the channel fills and the handler keeps its worker token |
| `rh_peer_bound` | `PeerListBounded` (spec 4.6): a peer list holds at most K peers, plus one per announce between its Push and its Remove | violation: two announces remove the same Front and the list keeps K + 1 |
| `token_atomic` | `ImplementsTokenSpec` (spec 4.5, and section 3's validity) | violation: two get_peers from one IP both mint and the second replaces a live token |
| `rh_id_change` | `IdRebindEvicts` (spec 4.11 step 4, §8): an address bound to one id is rebound to another only through the eviction | violation: two requests from one address with different ids both pass the test before either Insert |
| `find_run` | under `FairSpec`, both search types, answers may be late: `TypeOK`, `SearchEndsUnlessLate` (unless timers keep firing with an answer in flight, the search stops issuing queries and every query goroutine ends) | pass |

`PROJECT.json` "findings" says what each violation shows.

Further disagreements are recorded as hazards, not runs:
- **Split rule.** The split test at `routingtable.go` 301 always holds, so every full bucket splits, not only the local one as the spec's glossary says. `rt_run` reaches such splits, and `PrefixInvariant` shows they stay well-formed.
- **Ghost cache entries.** `Insert` keys the buckets by id and `cachedNodes` by address, so one id heard at two addresses leaves a stale `cachedNodes` entry (`routingtable.go` 297). Two sequential inserts reach it. The reverse case is worse: one address heard with several ids binds each id in its bucket while `cachedNodes` counts one, so `MaxNodes` no longer bounds the buckets (spec §8). TLC finds a table of three ids from one address with `MaxNodes = 2` when the invariant `Cardinality(TableNodes) <= MaxNodes` is checked; the project's run budget holds no run for it.
- **Late answers keep a search alive.** An answer after its query's last timer clears the blacklist and reinserts the node that the query just evicted (`krpc.go` 437), and `findOn` counts it as new. `find_run` allows late answers (`LateAnswers = TRUE`). `SearchEndsUnlessLate` shows this loop is the only way left for a search not to end; the unconditional `<>[]` of every slot free fails in the same bounds on a lasso with a late answer in every round. Neither the code nor the spec promises that a search ends, so that form has no violation run.
- `check` deleting on a mismatch, `check` accepting an expired token the sweeper has not yet removed (it never compares the age), and `clear` deleting a token minted after its scan each break `ImplementsTokenSpec` as the mint race does. TLC shows the expired accept on its own with one handler and a check that deletes only on a match.

### Bounds

**Routing table (`rt_run`).**
- 3-bit ids `{0, 4, 6}` with local id 0, two addresses, MaxNodes = 3, one remover and the Fresh loop; `Init` chooses either configuration.
- Standard: K = 1, `RefreshNodeNum` = 1. Ids 4 and 6 share the prefix `1`, so a full bucket splits twice: first at the root, then off the local path.
- Crawl: `MaxInt32` = 4, above MaxNodes = 3, so there is one bucket that never fills, as in the code; `RefreshNodeNum` = 2, so Fresh queries and then removes two nodes while a remover and inserts run.
- Two addresses let one id appear at two addresses.
- `rt_kbucket_cache` and `rt_findable` use the standard configuration only, with MaxNodes = 2.

**TopK.** Every list of up to 5 distinct distances from `0..5` with k = 3. The heap is then full and takes replacements, which is where `getTopK` goes wrong.

**Transaction manager.**
- Two queries, one address, `Try = 2` (the default), `MaxCursor = 3`, `QueueCap = 1`, one packet worker.
- There is one query type, so the two queries compete for one index key.
- Two queries to one address give the dedup race. `QueueCap = 1` makes `sendQuery` block on a full queue. One worker makes `DropPacket` reachable.
- `MaxCursor` exceeds the number of queries, as 2^32 - 1 does in the code. A wrap onto a live id would need about 2^32 queries within one transaction's life, so it is not modelled as a hazard.
- The `TypeOK` of `TransactionManager` is not in a run. Its channel bounds (`queryChan` within `QueueCap`, `Response` within `Try + 1`) are what a buffered Go channel enforces, and the model's guards restate them.

**Token manager (`token_atomic`).** One IP, two handlers, TTL = 1 tick, sweep period 2, up to 4 ticks and 3 tokens.

**Request handler.**
- `rh_id_change`: one IP, one requester port, two node ids, two handlers (symmetric), no ticks, K = 1, MaxNodes = 2, standard mode. Two ids make the race on the id-change test reachable.
- `rh_peer_bound`: one node id, two announced ports and no ticks. With K = 1, the second distinct peer overflows the list, and both handlers can be between Len and Remove at once.
- The clock does not pass a sweep tick before the sweeper has scanned, and a scan's delete completes within its tick. `time.Tick` fires on time and the sweep is far shorter than a tick.
- The `TypeOK` of `TokenManager` is not in a run. The bounds keep it true by construction, and no change to the code's steps breaks it.

**Search (`find_run`).** Both search types, and a timer may fire while its answer is in flight; in the get_peers search remote b answers with values. Three remotes at distances 3, 2, 1, each advertising the other two; the search starts at the prime node a and the target is unknown. K = 2 makes one answer start two queries, three slots leave room for them beside the answering query, Try = 1, MaxNodes = 2. The table fills, a failed node is evicted and blacklisted and then re-advertised, and neighbour sets repeat, which are the cases a non-terminating search would need. With the stop test reduced to `found`, TLC finds the endless search in these bounds.

### Fairness and deadlock

`FairSpec` assumes weak fairness of:
- `run`;
- each query goroutine's steps;
- each handler's `Signal` and `Post`.

These are runnable goroutines, and the Go scheduler runs them. The 15 s timer always fires.

There is no fairness on:
- datagram delivery (UDP may lose anything);
- `sendQuery` calls (callers are optional).

`FindOn.FairSpec` assumes weak fairness of `run`, of each query goroutine and of `Answer` for each slot: an answer the network delivered is handled by a runnable handler goroutine. `Send` still chooses freely whether the answer is lost. No fairness keeps a timer from firing before its answer: `time.After` does not wait for the network. `SearchEndsUnlessLate` therefore takes "eventually no more late timers" as its premise instead of assuming it. `find_run` sets `CHECK_DEADLOCK FALSE`: a finished search is the terminal state.

`RequestHandler` is checked for safety only, in its violation runs. `Dropped` lets a handler stutter on a blacklisted sender, so it never deadlocks.

The transaction-manager runs set `CHECK_DEADLOCK FALSE`. Once the bounded set of queries is used up the node idles, waiting for datagrams, and that is a terminal state of the model, not a fault. Stuck handlers are caught by `HandlerNeverStuck` instead.

## Not modelled

1. A composition of `RoutingTable`, `TransactionManager` and `RequestHandler` over one shared blacklist, so that a query's failure eviction, a response's insert, a request's insert and Fresh run together. Each module keeps its own reduced table instead. The single runs already take up to a minute each at the bounds where their cases happen, and their product would be far beyond the five-minute budget of a run.
2. The first (older) copy of the transaction manager in `transaction_manager.go` 1-223. It declares the same types and methods as the second copy, so the two cannot build together; nothing can call it, and it is not modelled.
3. The configuration's timing fields (`KBucketExpiredAfter`, `NodeExpriedAfter`, `CheckKBucketPeriod`): time is ticks in `TokenManager`, and `Fresh` runs whenever it may.

The wire fetcher, the bencode and compact codecs, the logger and `main` are left out: their code is absent from `src/`, or is formatting with no concurrent state.
