------------------------- MODULE TransactionManager -------------------------
(***************************************************************************)
(* The KRPC transaction manager (src/dht/transaction_manager.go, second   *)
(* version, with Transaction and TransactionMap of part_001) and the      *)
(* response side of the dispatcher that feeds it (handle, handleResponse *)
(* and handleError of src/dht/krpc.go).                                   *)
(*                                                                         *)
(* sendQuery checks the dedup index and the blacklist, takes a            *)
(* transaction id from genTransID and puts the query on queryChan.  run   *)
(* starts one goroutine per query; query inserts the transaction under    *)
(* its id and under its (type, address) key, sends up to Try times, each  *)
(* time waiting for its Response channel or a 15 s timer, blacklists and *)
(* evicts the node when nothing succeeded, and deletes the transaction.  *)
(* Packet handlers (at most PacketWorkerLimit goroutines, the set Workers) *)
(* match a response to a transaction with filterOne and signal it on the *)
(* Response channel, whose capacity is Try + 1; a full channel blocks the *)
(* handler.                                                                *)
(*                                                                         *)
(* Each query sendQuery accepts is one element of Queries, used once: the *)
(* Transaction object and the goroutine that owns it.  The routing table *)
(* is reduced to the set of addresses it holds.                            *)
(***************************************************************************)
EXTENDS Naturals, Sequences, Bags, BagsExt

CONSTANTS
    Addrs,       \* remote UDP endpoints, model values
    QueryTypes,  \* DHTQueryType values used
    Queries,     \* the queries sendQuery may accept (Transaction objects)
    Workers,     \* packet-handler goroutines (PacketWorkerLimit)
    Try,         \* Config.Try
    MaxCursor,   \* Config.MaxTransactionCursor
    QueueCap,    \* capacity of queryChan (1024)
    Duplicates,  \* the network may deliver one datagram more than once
    None

ASSUME Try \in Nat \ {0} /\ MaxCursor \in Nat \ {0} /\ QueueCap \in Nat \ {0}
ASSUME Duplicates \in BOOLEAN

\* A node's id as the transaction manager sees it: unknown (a prime node),
\* the local id, or some other id.
NodeIdKinds == {"none", "self", "peer"}
Node == [addr : Addrs, id : NodeIdKinds]

TransIds == 0..(MaxCursor - 1)

\* A datagram answering a query: its t, its source, y, and whether the id
\* it carries is the id the transaction's node is known under.
Msg == [t : TransIds, from : Addrs, y : {"r", "e"}, idOk : BOOLEAN]

\* Capacity of Transaction.Response: make(chan struct{}, tm.dht.Try+1).
ChanCapMinusTwo == Try - 1
ChanCap == Try + 1

QStates == {"unused", "queued", "started", "send", "wait", "finish", "delete", "done"}

VARIABLES
    cursor,        \* tm.cursor
    queryChan,     \* tm.queryChan
    qdata,         \* qdata[q]: the node, type and transaction id of query q
    qstate,        \* where query q, and its goroutine, is
    attempt,       \* the loop counter i of query q
    success,       \* the success flag of query q
    resp,          \* number of signals buffered in q's Response channel
    transactions,  \* tm.transactions: transaction id -> query
    index,         \* tm.index: (type, address) -> query
    net,           \* bag of datagrams on their way to us
    worker,        \* packet-handler goroutines
    blackList,     \* dht.blackList, as endpoints
    table          \* addresses in the routing table

vars == <<cursor, queryChan, qdata, qstate, attempt, success, resp,
          transactions, index, net, worker, blackList, table>>

Key(q) == <<qdata[q].type, qdata[q].node.addr>>

\* A transaction is live from its insert until its delete.
Live(q) == qstate[q] \in {"send", "wait", "finish", "delete"}

TypeOK ==
    /\ cursor \in TransIds
    /\ queryChan \in Seq(Queries) /\ Len(queryChan) <= QueueCap
    /\ qdata \in [Queries -> [node : Node, type : QueryTypes, t : TransIds] \cup {None}]
    /\ qstate \in [Queries -> QStates]
    /\ attempt \in [Queries -> 0..Try]
    /\ success \in [Queries -> BOOLEAN]
    /\ resp \in [Queries -> 0..ChanCap]
    /\ transactions \in [TransIds -> Queries \cup {None}]
    /\ index \in [QueryTypes \X Addrs -> Queries \cup {None}]
    /\ IsABag(net) /\ BagToSet(net) \subseteq Msg
    /\ worker \in [Workers -> [pc : {"idle", "push", "post"}, q : Queries \cup {None},
                               from : Addrs \cup {None}, y : {"r", "e"}]]
    /\ blackList \subseteq Addrs
    /\ table \subseteq Addrs

Idle == [pc |-> "idle", q |-> None, from |-> None, y |-> "r"]

Init ==
    /\ cursor = 0
    /\ queryChan = <<>>
    /\ qdata = [q \in Queries |-> None]
    /\ qstate = [q \in Queries |-> "unused"]
    /\ attempt = [q \in Queries |-> 0]
    /\ success = [q \in Queries |-> FALSE]
    /\ resp = [q \in Queries |-> 0]
    /\ transactions = [t \in TransIds |-> None]
    /\ index = [k \in QueryTypes \X Addrs |-> None]
    /\ net = EmptyBag
    /\ worker = [w \in Workers |-> Idle]
    /\ blackList = {}
    /\ table = Addrs

-----------------------------------------------------------------------------
(* The transaction manager.                                                 *)

\* Mutant: genTransID does not advance the cursor.
GenTransIDStuck(c) == c

\* genTransID: (cursor + 1) % maxCursor, also the new cursor.
GenTransID(c) == (c + 1) % MaxCursor

\* Mutant: the queue's capacity is not respected.
\* sendQuery (with ping, findNode, getPeers or announcePeer, its callers):
\* it returns at once for the local node, for a (type, address) already in
\* the index, or for a blacklisted endpoint; otherwise the send on
\* queryChan blocks the caller until the channel has room.
SendQuery(q, n, type) ==
    /\ qstate[q] = "unused"
    /\ n.id # "self"
    /\ index[<<type, n.addr>>] = None
    /\ n.addr \notin blackList
    /\ Len(queryChan) < QueueCap
    /\ cursor' = GenTransID(cursor)
    /\ qdata' = [qdata EXCEPT ![q] = [node |-> n, type |-> type, t |-> GenTransID(cursor)]]
    /\ queryChan' = Append(queryChan, q)
    /\ qstate' = [qstate EXCEPT ![q] = "queued"]
    /\ UNCHANGED <<attempt, success, resp, transactions, index, net, worker, blackList, table>>

\* run: the consumer takes a query off queryChan and starts tm.query.
Run ==
    /\ queryChan # <<>>
    /\ qstate' = [qstate EXCEPT ![Head(queryChan)] = "started"]
    /\ queryChan' = Tail(queryChan)
    /\ UNCHANGED <<cursor, qdata, attempt, success, resp, transactions, index, net,
                   worker, blackList, table>>

\* query: newTransaction and insert, under the manager's lock.
Insert(q) ==
    /\ qstate[q] = "started"
    /\ transactions' = [transactions EXCEPT ![qdata[q].t] = q]
    /\ index' = [index EXCEPT ![Key(q)] = q]
    /\ qstate' = [qstate EXCEPT ![q] = "send"]
    /\ UNCHANGED <<cursor, queryChan, qdata, attempt, success, resp, net, worker,
                   blackList, table>>

\* One turn of query's loop while i < try: send the datagram.  The remote
\* answers it with one datagram (which the network may lose: nothing forces
\* its delivery).  Its id is checked only in a response to a node whose id
\* is known, so only there is a wrong id told apart.
Reply(q) ==
    {m \in Msg : /\ m.t = qdata[q].t /\ m.from = qdata[q].node.addr
                 /\ (m.idOk \/ (m.y = "r" /\ qdata[q].node.id # "none"))}

\* Mutant: the loop runs while i <= try.
Send(q) ==
    /\ qstate[q] = "send" /\ attempt[q] < Try
    /\ \E m \in Reply(q) : net' = BagAdd(net, m)
    /\ qstate' = [qstate EXCEPT ![q] = "wait"]
    /\ UNCHANGED <<cursor, queryChan, qdata, attempt, success, resp, transactions,
                   index, worker, blackList, table>>

\* send fails: it blacklists the ip (any port), and query breaks its loop.
SendFails(q) ==
    /\ qstate[q] = "send" /\ attempt[q] < Try
    /\ blackList' = blackList \cup {qdata[q].node.addr}
    /\ qstate' = [qstate EXCEPT ![q] = "finish"]
    /\ UNCHANGED <<cursor, queryChan, qdata, attempt, success, resp, transactions,
                   index, net, worker, table>>

\* The loop ends after try turns.
LoopDone(q) ==
    /\ qstate[q] = "send" /\ attempt[q] = Try
    /\ qstate' = [qstate EXCEPT ![q] = "finish"]
    /\ UNCHANGED <<cursor, queryChan, qdata, attempt, success, resp, transactions,
                   index, net, worker, blackList, table>>

\* The select takes a signal from trans.Response: success = true, and the
\* break leaves the select only, so the loop goes on to its next turn.
Receive(q) ==
    /\ qstate[q] = "wait" /\ resp[q] > 0
    /\ resp' = [resp EXCEPT ![q] = @ - 1]
    /\ success' = [success EXCEPT ![q] = TRUE]
    /\ attempt' = [attempt EXCEPT ![q] = @ + 1]
    /\ qstate' = [qstate EXCEPT ![q] = "send"]
    /\ UNCHANGED <<cursor, queryChan, qdata, transactions, index, net, worker,
                   blackList, table>>

\* Mutant: only the first turn waits with a timer.
TimeoutFirstOnly(q) ==
    /\ qstate[q] = "wait" /\ resp[q] = 0 /\ attempt[q] = 0
    /\ attempt' = [attempt EXCEPT ![q] = @ + 1]
    /\ qstate' = [qstate EXCEPT ![q] = "send"]
    /\ UNCHANGED <<cursor, queryChan, qdata, success, resp, transactions, index, net,
                   worker, blackList, table>>

\* The 15 s timer fires first.  A signal already buffered when the select
\* starts is taken at once, so the timer wins only over an empty channel.
Timeout(q) ==
    /\ qstate[q] = "wait" /\ resp[q] = 0
    /\ attempt' = [attempt EXCEPT ![q] = @ + 1]
    /\ qstate' = [qstate EXCEPT ![q] = "send"]
    /\ UNCHANGED <<cursor, queryChan, qdata, success, resp, transactions, index, net,
                   worker, blackList, table>>

\* After the loop: no success and a known node id -> blackList.insert and
\* routingTable.RemoveByAddr.
Finish(q) ==
    /\ qstate[q] = "finish"
    /\ IF ~success[q] /\ qdata[q].node.id # "none"
       THEN /\ blackList' = blackList \cup {qdata[q].node.addr}
            /\ table' = table \ {qdata[q].node.addr}
       ELSE UNCHANGED <<blackList, table>>
    /\ qstate' = [qstate EXCEPT ![q] = "delete"]
    /\ UNCHANGED <<cursor, queryChan, qdata, attempt, success, resp, transactions,
                   index, net, worker>>

\* The deferred tm.delete(trans.ID): it looks the id up again and removes
\* whatever transaction holds it now, under both of that transaction's keys.
Delete(q) ==
    /\ qstate[q] = "delete"
    /\ LET cur == transactions[qdata[q].t]
       IN IF cur = None
          THEN UNCHANGED <<transactions, index>>
          ELSE /\ transactions' = [transactions EXCEPT ![qdata[q].t] = None]
               /\ index' = [index EXCEPT ![Key(cur)] = None]
    /\ qstate' = [qstate EXCEPT ![q] = "done"]
    /\ UNCHANGED <<cursor, queryChan, qdata, attempt, success, resp, net, worker,
                   blackList, table>>

-----------------------------------------------------------------------------
(* The response side of the dispatcher.                                     *)

\* filterOne: the transaction holding id t, if its node's address is addr.
FilterOne(t, addr) ==
    IF transactions[t] # None /\ qdata[transactions[t]].node.addr = addr
    THEN transactions[t] ELSE None

\* The datagram leaves the network, or, when duplication is possible,
\* may stay for another delivery.
Consume(m) == net' = BagRemove(net, m) \/ (Duplicates /\ UNCHANGED net)

\* handle: with every worker token taken the packet is dropped.
DropPacket(m) ==
    /\ BagIn(m, net)
    /\ \A w \in Workers : worker[w].pc # "idle"
    /\ net' = BagRemove(net, m)
    /\ UNCHANGED <<cursor, queryChan, qdata, qstate, attempt, success, resp,
                   transactions, index, worker, blackList, table>>

\* A worker takes the datagram: the blacklist check of handle, then
\* handleResponse up to the signal (filterOne, the id check that blacklists
\* and evicts a node answering under another id) or handleError up to the
\* signal (filterOne only).  The findOn of a find_node answer calls
\* sendQuery, which SendQuery stands for.
Handle(w, m) ==
    /\ worker[w].pc = "idle" /\ BagIn(m, net)
    /\ Consume(m)
    /\ LET tr == FilterOne(m.t, m.from)
       IN CASE m.from \in blackList \/ tr = None ->
                 UNCHANGED <<worker, blackList, table>>
            [] m.y = "r" /\ qdata[tr].node.id # "none" /\ ~m.idOk ->
                 /\ blackList' = blackList \cup {m.from}
                 /\ table' = table \ {m.from}
                 /\ UNCHANGED worker
            [] OTHER ->
                 /\ \/ worker' = [worker EXCEPT ![w] =
                                    [pc |-> "push", q |-> tr, from |-> m.from, y |-> m.y]]
                    \* a ParseKey failure, or findOn stopping the search,
                    \* returns before the signal
                    \/ UNCHANGED worker
                 /\ UNCHANGED <<blackList, table>>
    /\ UNCHANGED <<cursor, queryChan, qdata, qstate, attempt, success, resp,
                   transactions, index>>

\* trans.Response <- struct{}{}: blocks while the channel is full.
Signal(w) ==
    /\ worker[w].pc = "push"
    /\ resp[worker[w].q] < ChanCap
    /\ resp' = [resp EXCEPT ![worker[w].q] = @ + 1]
    /\ worker' = [worker EXCEPT ![w] = IF worker[w].y = "r"
                                       THEN [@ EXCEPT !.pc = "post"] ELSE Idle]
    /\ UNCHANGED <<cursor, queryChan, qdata, qstate, attempt, success, transactions,
                   index, net, blackList, table>>

\* handleResponse after the signal: blackList.delete, routingTable.Insert.
Post(w) ==
    /\ worker[w].pc = "post"
    /\ blackList' = blackList \ {worker[w].from}
    /\ table' = table \cup {worker[w].from}
    /\ worker' = [worker EXCEPT ![w] = Idle]
    /\ UNCHANGED <<cursor, queryChan, qdata, qstate, attempt, success, resp,
                   transactions, index, net>>

-----------------------------------------------------------------------------
QueryStep(q) ==
    \/ Insert(q) \/ Send(q) \/ SendFails(q) \/ LoopDone(q)
    \/ Receive(q) \/ Timeout(q) \/ Finish(q) \/ Delete(q)

Next ==
    \/ \E q \in Queries, n \in Node, type \in QueryTypes : SendQuery(q, n, type)
    \/ Run
    \/ \E q \in Queries : QueryStep(q)
    \/ \E m \in BagToSet(net) : DropPacket(m)
    \/ \E w \in Workers, m \in BagToSet(net) : Handle(w, m)
    \/ \E w \in Workers : Signal(w) \/ Post(w)

Spec == Init /\ [][Next]_vars

\* Goroutines that are runnable run, and a 15 s timer fires: the query
\* goroutines, run, and a handler that can signal or finish.  Datagrams
\* need not arrive and callers need not call sendQuery.
FairSpec ==
    /\ Spec
    /\ WF_vars(Run)
    /\ \A q \in Queries : WF_vars(QueryStep(q))
    /\ \A w \in Workers : WF_vars(Signal(w)) /\ WF_vars(Post(w))

-----------------------------------------------------------------------------
(* Properties.                                                              *)

\* A packet handler that reaches trans.Response <- struct{}{} gets past it:
\* the Response channel (capacity Try + 1) never stays full, so the handler
\* returns its worker token.  A blocked handler holds one of the
\* PacketWorkerLimit tokens for ever.
HandlerNeverStuck ==
    \A w \in Workers : worker[w].pc = "push" ~> worker[w].pc # "push"

\* Every query sendQuery accepts is eventually finished and its transaction
\* deleted: query's loop ends after at most try sends whatever the network
\* does.
QueryCompletes == \A q \in Queries : qstate[q] = "queued" ~> qstate[q] = "done"

\* The spec (section 8): at most one live transaction per (query type,
\* address), the promise of sendQuery's index check.
NoDuplicateLiveQuery ==
    \A q1, q2 \in Queries :
        (q1 # q2 /\ Live(q1) /\ Live(q2)) => Key(q1) # Key(q2)

\* A response can always find its transaction: while a query is live its
\* transaction id maps to it, and every id and index entry names a live
\* query under the id and the key it was inserted with.  Broken when
\* genTransID hands an id out while it is still in use.
TransactionsConsistent ==
    /\ \A q \in Queries : qstate[q] \in {"send", "wait", "finish"} => transactions[qdata[q].t] = q
    /\ \A t \in TransIds : transactions[t] # None =>
          Live(transactions[t]) /\ qdata[transactions[t]].t = t
    /\ \A k \in DOMAIN index : index[k] # None =>
          Live(index[k]) /\ Key(index[k]) = k

-----------------------------------------------------------------------------
(* Refinement of the transaction table of spec 4.10.                        *)

\* Where query q is, in QuerySpec's terms: its transaction exists from
\* insert until the deferred delete has run.
QueryPhase(q) ==
    CASE qstate[q] \in {"unused", "queued", "started"} -> "idle"
      [] qstate[q] = "done" -> "closed"
      [] OTHER -> "open"

\* Datagrams sent: one per finished turn of the loop, plus the one whose
\* answer or timer the select is waiting for.
Sends(q) == attempt[q] + (IF qstate[q] = "wait" THEN 1 ELSE 0)

Abstract == INSTANCE QuerySpec WITH
    Ids <- TransIds,
    phase <- [q \in Queries |-> QueryPhase(q)],
    sends <- [q \in Queries |-> Sends(q)],
    answered <- success,
    trans <- transactions

\* The manager implements the transaction table of spec 4.10: insert takes
\* an id no live query holds, the loop sends at most try times and returns
\* on success, success follows a send, and the deferred delete frees the
\* query's own id.  query's comment says the same ("When timeout, it will
\* retry").  The break after the signal leaves only the select, so the
\* loop sends again after its answer has arrived.
ImplementsQuerySpec == Abstract!Spec

=============================================================================
