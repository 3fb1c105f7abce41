------------------------------ MODULE TokenSpec ------------------------------
(***************************************************************************)
(* What the token manager promises (spec.md, section 4.5), with every      *)
(* operation atomic: token(ip) hands out the stored token while it is not  *)
(* older than TokenExpiredAfter and mints a fresh one otherwise; check(ip, *)
(* t) succeeds iff the stored token for ip is t and not yet expired        *)
(* (section 3: a token is valid until TokenExpiredAfter; check's comment:  *)
(* "check returns whether the token is valid"), and on a match the entry   *)
(* is removed; the sweeper removes expired entries and only those.         *)
(*                                                                         *)
(* Time and tokens are as in TokenManager: a tick counter, and tokens     *)
(* numbered in the order they are minted, 0 being no token.               *)
(***************************************************************************)
EXTENDS Naturals

CONSTANTS IPs, TTL, MaxTokens

NoToken == 0

VARIABLES
    clock,    \* time.Now(), in ticks
    store,    \* store[ip]: the token held for ip, or NoToken
    created,  \* created[n]: the tick token n was minted
    minted,   \* tokens minted so far
    accepts   \* accepts[n]: how many checks token n has passed

vars == <<clock, store, created, minted, accepts>>

Stale(n) == clock - created[n] > TTL

Init ==
    /\ clock = 0
    /\ store = [i \in IPs |-> NoToken]
    /\ created = [n \in 1..MaxTokens |-> 0]
    /\ minted = 0
    /\ accepts = [n \in 1..MaxTokens |-> 0]

Tick ==
    /\ clock' = clock + 1
    /\ UNCHANGED <<store, created, minted, accepts>>

\* token(ip) when no live token is held: a fresh one replaces the entry.
\* (token(ip) with a live token held changes nothing.)
Mint(ip) ==
    /\ store[ip] = NoToken \/ Stale(store[ip])
    /\ minted' = minted + 1
    /\ created' = [created EXCEPT ![minted + 1] = clock]
    /\ store' = [store EXCEPT ![ip] = minted + 1]
    /\ UNCHANGED <<clock, accepts>>

\* check(ip, t) when t is the valid token held for ip: t passes and its
\* entry goes.  (check with any other t, or on an ip with no entry,
\* changes nothing and fails.)
Check(ip, t) ==
    /\ t # NoToken /\ store[ip] = t /\ ~Stale(t)
    /\ store' = [store EXCEPT ![ip] = NoToken]
    /\ accepts' = [accepts EXCEPT ![t] = @ + 1]
    /\ UNCHANGED <<clock, created, minted>>

\* One pass of the sweeper: every expired entry, and no other, is removed.
Sweep ==
    /\ store' = [i \in IPs |-> IF store[i] # NoToken /\ Stale(store[i])
                                THEN NoToken ELSE store[i]]
    /\ UNCHANGED <<clock, created, minted, accepts>>

Next ==
    \/ Tick
    \/ \E ip \in IPs : Mint(ip)
    \/ \E ip \in IPs, t \in 0..minted : Check(ip, t)
    \/ Sweep

Spec == Init /\ [][Next]_vars

=============================================================================
