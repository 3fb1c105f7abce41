------------------------------ MODULE QuerySpec ------------------------------
(***************************************************************************)
(* The transaction table of the transaction manager as its users see it   *)
(* (spec.md, section 4.10): each outbound query is opened under a         *)
(* transaction id no open query holds, is sent at most Try times, counts *)
(* as answered only after a send, and is closed by freeing its own id.    *)
(* Responses are demultiplexed through this table, so a query whose id   *)
(* were taken over, or freed by another, would lose its answers.          *)
(*                                                                         *)
(* Section 4.10 also says query returns on success: once answered, a     *)
(* query is not sent again (the comment of query in                      *)
(* transaction_manager.go says the same: it retries only on timeout).    *)
(***************************************************************************)
EXTENDS Naturals

CONSTANTS Queries, Ids, Try, None

VARIABLES
    phase,     \* phase[q]: "idle" before its transaction exists, then "open", then "closed"
    sends,     \* sends[q]: datagrams sent for q
    answered,  \* answered[q]: q has taken an answer
    trans      \* trans[t]: the open query holding id t, or None

vars == <<phase, sends, answered, trans>>

Init ==
    /\ phase = [q \in Queries |-> "idle"]
    /\ sends = [q \in Queries |-> 0]
    /\ answered = [q \in Queries |-> FALSE]
    /\ trans = [t \in Ids |-> None]

Open(q, t) ==
    /\ phase[q] = "idle" /\ trans[t] = None
    /\ phase' = [phase EXCEPT ![q] = "open"]
    /\ trans' = [trans EXCEPT ![t] = q]
    /\ UNCHANGED <<sends, answered>>

Send(q) ==
    /\ phase[q] = "open" /\ sends[q] < Try /\ ~answered[q]
    /\ sends' = [sends EXCEPT ![q] = @ + 1]
    /\ UNCHANGED <<phase, answered, trans>>

Answer(q) ==
    /\ phase[q] = "open" /\ sends[q] > 0 /\ ~answered[q]
    /\ answered' = [answered EXCEPT ![q] = TRUE]
    /\ UNCHANGED <<phase, sends, trans>>

Close(q) ==
    /\ phase[q] = "open"
    /\ phase' = [phase EXCEPT ![q] = "closed"]
    /\ trans' = [t \in Ids |-> IF trans[t] = q THEN None ELSE trans[t]]
    /\ UNCHANGED <<sends, answered>>

Next ==
    \/ \E q \in Queries, t \in Ids : Open(q, t)
    \/ \E q \in Queries : Send(q) \/ Answer(q) \/ Close(q)

Spec == Init /\ [][Next]_vars

=============================================================================
