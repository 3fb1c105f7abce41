------------------------------- MODULE FindOn -------------------------------
(***************************************************************************)
(* The iterative search of the DHT: findOn and the find_node and         *)
(* get_peers branches of handleResponse (src/dht/krpc.go), driving the   *)
(* query goroutines of the transaction manager (query, run, sendQuery,  *)
(* findNode and getPeers of                                               *)
(* src/dht/transaction_manager.go), with GetNeighbors computed by the    *)
(* getTopK of TopK.                                                        *)
(*                                                                         *)
(* One search for one target.  Remotes are the remote nodes, each at its  *)
(* own address with its own (honest) id; Dist[n] is the XOR distance of   *)
(* n's id to the target, and Adv[n] the nodes n's find_node response      *)
(* lists in r.nodes.  The search starts with a find_node to the prime     *)
(* node Seed, whose id is not known (config PrimeNodes), or, for a        *)
(* get_peers search, with a get_peers to Seed as a node of the table.  In *)
(* a get_peers search the remotes in Values answer with r.values, which   *)
(* go to peersManager.Insert instead of findOn.  A peer is abstracted to  *)
(* the remote that supplied it.  The search type is fixed at the start.  *)
(*                                                                         *)
(* A query slot is a query goroutine and its Transaction; a slot is used  *)
(* again once its transaction is deleted, and an answer still on its way *)
(* to a deleted transaction is dropped by filterOne.  A response handler  *)
(* is one step: findOn, the signal, blackList.delete and Insert.  The     *)
(* routing table is the set of nodes in cachedNodes; Insert refuses a     *)
(* blacklisted node or a full table, and may keep a new node as a         *)
(* candidate instead (a full bucket), which returns false.                *)
(***************************************************************************)
EXTENDS Naturals, Sequences, FiniteSets

CONSTANTS
    Remotes,     \* remote nodes
    Dist,        \* Dist[n]: XOR distance of n's id to the target, distinct
    Adv,         \* Adv[n]: the nodes n's response advertises
    TargetNode,  \* the remote whose id is the target, or None
    Values,      \* the remotes whose get_peers response carries values
    SearchTypes, \* the searches the model may start: find_node, get_peers
    Seed,        \* the prime node the search starts at
    K,           \* dht.K
    Try,         \* Config.Try
    MaxNodes,    \* Config.MaxNodes
    MaxQueries,  \* query goroutines (queued or live) the model keeps at once
    LateAnswers, \* an answer may arrive after its 15 s timer has fired
    None

ASSUME Dist \in [Remotes -> Nat] /\ \A m, n \in Remotes : m # n => Dist[m] # Dist[n]
ASSUME Adv \in [Remotes -> SUBSET Remotes] /\ Seed \in Remotes
ASSUME TargetNode \in Remotes \cup {None} /\ Values \subseteq Remotes
ASSUME K \in Nat \ {0} /\ Try \in Nat \ {0} /\ MaxNodes \in Nat \ {0}
ASSUME MaxQueries \in Nat \ {0} /\ LateAnswers \in BOOLEAN
ASSUME SearchTypes \subseteq {"find_node", "get_peers"} /\ SearchTypes # {}

Slots == 1..MaxQueries

Seqs == INSTANCE SequencesExt

\* getTopK over distances; its input list and MaxLen are not used here.
Top == INSTANCE TopK WITH Distances <- {Dist[n] : n \in Remotes}, MaxLen <- MaxNodes,
                          queue <- <<>>

VARIABLES
    table,      \* the nodes in rt.cachedNodes
    blackList,  \* dht.blackList, as nodes
    index,      \* the nodes with an entry of the search's type in tm.index
    queryChan,  \* tm.queryChan: queued slots
    qnode,      \* qnode[q]: the node slot q queries
    qprime,     \* qprime[q]: that node's id is unknown (a prime node)
    qst,        \* where slot q's goroutine is
    att,        \* its loop counter i
    ok,         \* its success flag
    resp,       \* signals buffered in its Response channel
    ans,        \* answers on their way to its transaction
    peers,      \* the remotes whose values went to peersManager.Insert
    qtype       \* the query type of the search: findOn's queryType

vars == <<table, blackList, index, queryChan, qnode, qprime, qst, att, ok, resp, ans, peers, qtype>>

QStates == {"free", "queued", "send", "wait", "finish", "delete"}

\* A transaction exists from query's insert until its delete.
Live(q) == qst[q] \in {"send", "wait", "finish", "delete"}

TypeOK ==
    /\ table \subseteq Remotes /\ blackList \subseteq Remotes /\ index \subseteq Remotes
    /\ queryChan \in Seq(Slots)
    /\ qnode \in [Slots -> Remotes] /\ qprime \in [Slots -> BOOLEAN]
    /\ qst \in [Slots -> QStates] /\ att \in [Slots -> 0..Try]
    /\ ok \in [Slots -> BOOLEAN] /\ resp \in [Slots -> 0..Try] /\ ans \in [Slots -> 0..Try]
    /\ Cardinality(table) <= MaxNodes
    /\ peers \subseteq Values /\ qtype \in SearchTypes

\* After findNode(Seed, target) to a prime node, or getPeers(Seed,
\* infoHash) to a node of the table: slot 1 is on queryChan.
Init ==
    /\ qtype \in SearchTypes
    /\ table = IF qtype = "get_peers" THEN {Seed} ELSE {}
    /\ blackList = {} /\ index = {}
    /\ queryChan = <<1>>
    /\ qnode = [q \in Slots |-> Seed]
    /\ qprime = [q \in Slots |-> q = 1 /\ qtype = "find_node"]
    /\ qst = [q \in Slots |-> IF q = 1 THEN "queued" ELSE "free"]
    /\ att = [q \in Slots |-> 0] /\ ok = [q \in Slots |-> FALSE]
    /\ resp = [q \in Slots |-> 0] /\ ans = [q \in Slots |-> 0]
    /\ peers = {}

-----------------------------------------------------------------------------
(* The routing table and the transaction manager, as findOn calls them.     *)

\* Mutant: the MaxNodes gate of Insert is dropped.
InsertedNoCap(ns) == SUBSET (ns \ (table \cup blackList))

\* The outcomes of routingTable.Insert of each node of ns in turn: the set
\* it adds.  A node is refused when blacklisted or when cachedNodes holds
\* MaxNodes; a node already held returns false; a new one is added (true)
\* or kept as a candidate (false).
Inserted(ns) ==
    {S \in SUBSET (ns \ (table \cup blackList)) : Cardinality(table \cup S) <= MaxNodes}

\* GetNeighbors(target, K) over the table t: getTopK of the distances, in
\* the order the map iteration of cachedNodes yields them.  It depends on
\* the constants only, so it is tabulated once over every table.
NeighborTable ==
    LET NodeAt(d) == CHOOSE n \in Remotes : Dist[n] = d
    IN [t \in SUBSET Remotes |->
          {[i \in DOMAIN r |-> NodeAt(r[i])] :
             r \in {Top!GetTopK([i \in DOMAIN s |-> Dist[s[i]]], K) : s \in Seqs!SetToSeqs(t)}}]

Neighbors(t) == NeighborTable[t]

\* findNode or getPeers(nb, target) for each neighbour in turn: sendQuery
\* drops a node that is blacklisted or has a transaction of the search's
\* type in the index, and
\* puts the others on queryChan under fresh slots.
Issue(nbs) ==
    LET go == SelectSeq(nbs, LAMBDA n : n \notin index \cup blackList)
        free == Seqs!SetToSortSeq({q \in Slots : qst[q] = "free"}, <)
    IN /\ Len(go) <= Len(free)
       /\ queryChan' = queryChan \o SubSeq(free, 1, Len(go))
       /\ qnode' = [q \in Slots |-> IF \E i \in 1..Len(go) : free[i] = q
                                    THEN go[CHOOSE i \in 1..Len(go) : free[i] = q]
                                    ELSE qnode[q]]
       /\ qprime' = [q \in Slots |-> IF \E i \in 1..Len(go) : free[i] = q
                                     THEN FALSE ELSE qprime[q]]
       /\ qst' = [q \in Slots |-> IF \E i \in 1..Len(go) : free[i] = q
                                  THEN "queued" ELSE qst[q]]

-----------------------------------------------------------------------------
(* The query goroutine of slot q.                                           *)

\* run takes the slot off queryChan; query inserts its transaction.
Start ==
    /\ queryChan # <<>>
    /\ LET q == Head(queryChan)
       IN /\ qst' = [qst EXCEPT ![q] = "send"]
          /\ index' = index \cup {qnode[q]}
    /\ queryChan' = Tail(queryChan)
    /\ UNCHANGED <<table, blackList, qnode, qprime, att, ok, resp, ans, peers, qtype>>

\* One turn of the loop: send; the answer may be lost.
Send(q) ==
    /\ qst[q] = "send" /\ att[q] < Try
    /\ ans' \in {ans, [ans EXCEPT ![q] = @ + 1]}
    /\ qst' = [qst EXCEPT ![q] = "wait"]
    /\ UNCHANGED <<table, blackList, index, queryChan, qnode, qprime, att, ok, resp, peers, qtype>>

\* send fails: the ip is blacklisted and the loop breaks.
SendFails(q) ==
    /\ qst[q] = "send" /\ att[q] < Try
    /\ blackList' = blackList \cup {qnode[q]}
    /\ qst' = [qst EXCEPT ![q] = "finish"]
    /\ UNCHANGED <<table, index, queryChan, qnode, qprime, att, ok, resp, ans, peers, qtype>>

LoopDone(q) ==
    /\ qst[q] = "send" /\ att[q] = Try
    /\ qst' = [qst EXCEPT ![q] = "finish"]
    /\ UNCHANGED <<table, blackList, index, queryChan, qnode, qprime, att, ok, resp, ans, peers, qtype>>

\* The select takes the signal; the break leaves the select only.
Receive(q) ==
    /\ qst[q] = "wait" /\ resp[q] > 0
    /\ resp' = [resp EXCEPT ![q] = @ - 1]
    /\ ok' = [ok EXCEPT ![q] = TRUE]
    /\ att' = [att EXCEPT ![q] = @ + 1]
    /\ qst' = [qst EXCEPT ![q] = "send"]
    /\ UNCHANGED <<table, blackList, index, queryChan, qnode, qprime, ans, peers, qtype>>

\* The 15 s timer fires: the answer was lost, or (LateAnswers) is late.
Timeout(q) ==
    /\ qst[q] = "wait" /\ resp[q] = 0 /\ (LateAnswers \/ ans[q] = 0)
    /\ att' = [att EXCEPT ![q] = @ + 1]
    /\ qst' = [qst EXCEPT ![q] = "send"]
    /\ UNCHANGED <<table, blackList, index, queryChan, qnode, qprime, ok, resp, ans, peers, qtype>>

\* No success and a known id: blacklist the node and RemoveByAddr.
Finish(q) ==
    /\ qst[q] = "finish"
    /\ IF ~ok[q] /\ ~qprime[q]
       THEN /\ blackList' = blackList \cup {qnode[q]}
            /\ table' = table \ {qnode[q]}
       ELSE UNCHANGED <<blackList, table>>
    /\ qst' = [qst EXCEPT ![q] = "delete"]
    /\ UNCHANGED <<index, queryChan, qnode, qprime, att, ok, resp, ans, peers, qtype>>

\* The deferred delete: the index entry goes, the transaction with it, and
\* the goroutine ends; answers still on their way find no transaction.
Delete(q) ==
    /\ qst[q] = "delete"
    /\ index' = index \ {qnode[q]}
    /\ qst' = [qst EXCEPT ![q] = "free"]
    /\ att' = [att EXCEPT ![q] = 0] /\ ok' = [ok EXCEPT ![q] = FALSE]
    /\ resp' = [resp EXCEPT ![q] = 0] /\ ans' = [ans EXCEPT ![q] = 0]
    /\ qnode' = [qnode EXCEPT ![q] = Seed] /\ qprime' = [qprime EXCEPT ![q] = FALSE]
    /\ UNCHANGED <<table, blackList, queryChan, peers, qtype>>

-----------------------------------------------------------------------------
(* A response handler.                                                      *)

\* Mutant: findOn goes on whenever the target was not found.
StopFoundOnly(found, S) == found

\* findOn returns without new queries when the target is among the nodes
\* or no node was new.
Stop(found, S) == found \/ S = {}

\* handleResponse of an answer to slot q's find_node or get_peers.  With
\* r.values, each peer goes to peersManager.Insert; otherwise findOn
\* inserts the advertised nodes and, unless the target is among them or
\* none was new, queries the K nearest.  Then the signal, blackList.delete
\* of the sender and Insert of the sender.
Answer(q) ==
    /\ ans[q] > 0 /\ Live(q)
    /\ ans' = [ans EXCEPT ![q] = @ - 1]
    /\ LET n == qnode[q]
           found == TargetNode \in Adv[n]
           values == qtype = "get_peers" /\ n \in Values
       IN \E S \in IF values THEN {{}} ELSE Inserted(Adv[n]), last \in BOOLEAN :
             LET t1 == table \cup S
             IN /\ table' = IF last /\ Cardinality(t1) < MaxNodes THEN t1 \cup {n} ELSE t1
                /\ blackList' = blackList \ {n}
                /\ IF values
                   THEN /\ peers' = peers \cup {n}
                        /\ UNCHANGED <<queryChan, qnode, qprime, qst>>
                   ELSE /\ UNCHANGED peers
                        /\ IF Stop(found, S)
                           THEN UNCHANGED <<queryChan, qnode, qprime, qst>>
                           ELSE \E nbs \in Neighbors(t1) : Issue(nbs)
    /\ resp' = [resp EXCEPT ![q] = @ + 1]
    /\ UNCHANGED <<index, att, ok, qtype>>

Next ==
    \/ Start
    \/ \E q \in Slots :
          \/ Send(q) \/ SendFails(q) \/ LoopDone(q) \/ Receive(q) \/ Timeout(q)
          \/ Finish(q) \/ Delete(q) \/ Answer(q)

Spec == Init /\ [][Next]_vars

\* run and every query goroutine are scheduled and the timer fires.  An
\* answer the network delivers reaches a handler, which runs; the network
\* may still lose any datagram (Send).
QueryStep(q) ==
    Send(q) \/ SendFails(q) \/ LoopDone(q) \/ Receive(q) \/ Timeout(q) \/ Finish(q) \/ Delete(q)

FairSpec ==
    /\ Spec /\ WF_vars(Start)
    /\ \A q \in Slots : WF_vars(QueryStep(q)) /\ WF_vars(Answer(q))

-----------------------------------------------------------------------------
(* Properties.                                                              *)

\* The 15 s timer of slot q fires while an answer to it is still in flight:
\* time.After does not wait for the network.
LateTimeout(q) == Timeout(q) /\ ans[q] > 0

\* A search ends unless answers keep arriving late: once no timer fires
\* with its answer in flight any more, findOn stops issuing queries and
\* every query goroutine returns.  Each round that goes on must have
\* inserted a new node, and a node that failed stays blacklisted until it
\* answers.  A late answer clears the blacklist and reinserts the node its
\* query has just evicted, so a node that always answers late can keep
\* the search going; that is the only way left for it not to end.
SearchEndsUnlessLate ==
    \/ []<><<\E q \in Slots : LateTimeout(q)>>_vars
    \/ <>[](\A q \in Slots : qst[q] = "free")
=============================================================================
