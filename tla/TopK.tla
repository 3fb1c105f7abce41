-------------------------------- MODULE TopK --------------------------------
(***************************************************************************)
(* getTopK of src/dht/routingtable.go, the neighbour search behind        *)
(* GetNeighbors: a bounded max-heap (topKHeap, Less = "farther") built    *)
(* with Go's container/heap, then drained into ascending order.  A heap   *)
(* item is represented by its XOR distance to the target, an integer.     *)
(*                                                                         *)
(* The operators work on 0-based heap positions as Go does; position i is *)
(* element i + 1 of the TLA+ sequence.  container/heap's up and down are  *)
(* written out because getTopK's result depends on them.                  *)
(*                                                                         *)
(* The state machine adds and drops distances of the input list (the     *)
(* order GetNeighbors reads cachedNodes in is a map's, so any order is    *)
(* possible) and the invariants judge getTopK on every list it reaches.   *)
(***************************************************************************)
EXTENDS Naturals, Sequences, FiniteSets, TLC

CONSTANTS
    Distances,   \* XOR distances an item may have
    K,           \* the size argument (dht.K)
    MaxLen       \* longest input list

ASSUME K \in Nat \ {0} /\ MaxLen \in Nat /\ Distances \subseteq Nat

\* topKHeap.Less: item i is farther than item j.
Less(h, i, j) == h[i + 1] > h[j + 1]

Swap(h, i, j) == [h EXCEPT ![i + 1] = h[j + 1], ![j + 1] = h[i + 1]]

\* container/heap up: sift position j towards the root.
RECURSIVE Up(_, _)
Up(h, j) ==
    IF j = 0 \/ ~Less(h, j, (j - 1) \div 2) THEN h
    ELSE Up(Swap(h, (j - 1) \div 2, j), (j - 1) \div 2)

\* container/heap down: sift position i towards the leaves of h[0..n).
RECURSIVE Down(_, _, _)
Down(h, i, n) ==
    LET j1 == 2 * i + 1
        j == IF j1 + 1 < n /\ Less(h, j1 + 1, j1) THEN j1 + 1 ELSE j1
    IN IF j1 >= n \/ ~Less(h, j, i) THEN h
       ELSE Down(Swap(h, i, j), j, n)

\* heap.Push.
HeapPush(h, x) == Up(Append(h, x), Len(h))

\* heap.Pop: <<the root, the heap left>>.
HeapPop(h) ==
    LET n == Len(h) - 1
        h2 == Down(Swap(h, 0, n), 0, n)
    IN <<h2[n + 1], SubSeq(h2, 1, n)>>

\* The loop of getTopK over the input.  A full heap is compared with its
\* last slot, topkHeap[topkHeap.Len()-1], and only a distance that slot
\* exceeds is pushed (and the root popped).
RECURSIVE Fill(_, _, _)
Fill(h, q, k) ==
    IF q = <<>> THEN h
    ELSE LET d == Head(q)
         IN IF Len(h) = k
            THEN IF h[Len(h)] > d
                 THEN Fill(HeapPop(HeapPush(h, d))[2], Tail(q), k)
                 ELSE Fill(h, Tail(q), k)
            ELSE Fill(HeapPush(h, d), Tail(q), k)

\* The drain of getTopK: tops is filled from the back by heap.Pop.
RECURSIVE Drain(_)
Drain(h) ==
    IF h = <<>> THEN <<>>
    ELSE LET r == HeapPop(h) IN Append(Drain(r[2]), r[1])

GetTopK(q, k) == Drain(Fill(<<>>, q, k))

-----------------------------------------------------------------------------
(* Reference definitions.                                                   *)

MinOf(a, b) == IF a < b THEN a ELSE b

\* The k nearest, nearest first: the sorted input cut to k.
Nearest(q, k) == SubSeq(SortSeq(q, <), 1, MinOf(k, Len(q)))

-----------------------------------------------------------------------------
VARIABLE queue

Init == queue = <<>>

\* The snapshot gains a cached node.  Node ids are distinct, so are their
\* distances to one target.
AddNode(d) ==
    /\ Len(queue) < MaxLen
    /\ \A i \in DOMAIN queue : queue[i] # d
    /\ queue' = Append(queue, d)

\* The snapshot loses the cached node at position i.
DropNode(i) ==
    queue' = [j \in 1..(Len(queue) - 1) |-> IF j < i THEN queue[j] ELSE queue[j + 1]]

Next ==
    \/ \E d \in Distances : AddNode(d)
    \/ \E i \in DOMAIN queue : DropNode(i)

Spec == Init /\ [][Next]_queue

\* The spec (4.9): the result is the k items nearest the target.
TopKIsNearest == GetTopK(queue, K) = Nearest(queue, K)

=============================================================================
