------------------------ MODULE MCTransactionManager ------------------------
EXTENDS TransactionManager

CONSTANTS a1, q1, q2, w1, ping

MCAddrs == {a1}
MCQueries == {q1, q2}
MCOneQuery == {q1}
MCWorkers == {w1}
MCQueryTypes == {ping}

=============================================================================
