---------------------------- MODULE TokenManager ----------------------------
(***************************************************************************)
(* The token manager of src/dht/krpc.go (token, clear, check) and the two *)
(* request handlers that use it: get_peers answers with token(addr) and   *)
(* announce_peer accepts only when check(addr, token) holds.               *)
(*                                                                         *)
(* The store is a syncedMap: every Get, Set, Delete and DeleteMulti is     *)
(* atomic, but token and check each make two calls, and clear scans and   *)
(* then deletes, so concurrent packet handlers (Handlers) and the sweeper *)
(* goroutine interleave between them.  Time is a counter of ticks;        *)
(* TokenExpiredAfter is TTL ticks and the sweeper's period is Period.     *)
(* Tokens are numbered in the order they are minted (randomString(5) is   *)
(* taken to be fresh); 0 stands for a token string never handed out.      *)
(***************************************************************************)
EXTENDS Naturals, FiniteSets

CONSTANTS
    IPs,         \* remote IPs (the store's keys)
    Handlers,    \* packet-handler goroutines
    TTL,         \* TokenExpiredAfter, in ticks
    Period,      \* the sweeper's time.Tick period, in ticks
    MaxClock,    \* last tick explored
    MaxTokens    \* most tokens minted

ASSUME TTL \in Nat /\ Period \in Nat \ {0} /\ MaxClock \in Nat /\ MaxTokens \in Nat

Tokens == 1..MaxTokens
NoToken == 0

VARIABLES
    clock,     \* time.Now(), in ticks
    store,     \* store[ip]: the token held for ip, or NoToken
    created,   \* created[n]: createTime of token n
    minted,    \* tokens minted so far
    hpc,       \* a handler's program counter and the values it read
    sweepKeys, \* the keys clear has collected and not yet deleted
    lastSweep, \* the tick of the sweeper's last scan
    accepts    \* accepts[n]: how many announces token n has passed

vars == <<clock, store, created, minted, hpc, sweepKeys, lastSweep, accepts>>

HIdle == [pc |-> "idle", ip |-> CHOOSE i \in IPs : TRUE, tok |-> NoToken,
          found |-> NoToken, at |-> 0]

TypeOK ==
    /\ clock \in 0..MaxClock
    /\ store \in [IPs -> 0..MaxTokens]
    /\ created \in [Tokens -> 0..MaxClock]
    /\ minted \in 0..MaxTokens
    /\ hpc \in [Handlers -> [pc : {"idle", "mint", "check"}, ip : IPs,
                             tok : 0..MaxTokens, found : 0..MaxTokens, at : 0..MaxClock]]
    /\ sweepKeys \subseteq IPs
    /\ lastSweep \in 0..MaxClock
    /\ accepts \in [Tokens -> Nat]

Init ==
    /\ clock = 0
    /\ store = [i \in IPs |-> NoToken]
    /\ created = [n \in Tokens |-> 0]
    /\ minted = 0
    /\ hpc = [h \in Handlers |-> HIdle]
    /\ sweepKeys = {}
    /\ lastSweep = 0
    /\ accepts = [n \in Tokens |-> 0]

\* Mutant: the age test is inverted.

\* time.Since(tk.createTime) > tm.expiredAfter
Expired(n) == clock - created[n] > TTL

-----------------------------------------------------------------------------
\* Time passes.  The ticker fires on time, and a sweep, once scanned,
\* deletes within the same tick.
Tick ==
    /\ clock < MaxClock
    /\ clock % Period # 0 \/ clock = 0 \/ lastSweep = clock
    /\ sweepKeys = {}
    /\ clock' = clock + 1
    /\ UNCHANGED <<store, created, minted, hpc, sweepKeys, lastSweep, accepts>>

\* token(addr), its Get: a stored token not yet expired is returned;
\* otherwise the handler goes on to mint one (within the MaxTokens bound).
TokenGet(h, ip) ==
    /\ hpc[h].pc = "idle"
    /\ IF store[ip] # NoToken /\ ~Expired(store[ip])
       THEN UNCHANGED hpc
       ELSE /\ minted + Cardinality({g \in Handlers : hpc[g].pc = "mint"}) < MaxTokens
            /\ hpc' = [hpc EXCEPT ![h] = [HIdle EXCEPT !.pc = "mint", !.ip = ip]]
    /\ UNCHANGED <<clock, store, created, minted, sweepKeys, lastSweep, accepts>>

\* token(addr), its Set of a fresh token, whatever the store holds now.
TokenSet(h) ==
    /\ hpc[h].pc = "mint"
    /\ minted < MaxTokens
    /\ minted' = minted + 1
    /\ created' = [created EXCEPT ![minted + 1] = clock]
    /\ store' = [store EXCEPT ![hpc[h].ip] = minted + 1]
    /\ hpc' = [hpc EXCEPT ![h] = HIdle]
    /\ UNCHANGED <<clock, sweepKeys, lastSweep, accepts>>

\* check(addr, token), its Get, for an announce_peer carrying token t.
CheckGet(h, ip, t) ==
    /\ hpc[h].pc = "idle"
    /\ hpc' = [hpc EXCEPT ![h] = [pc |-> "check", ip |-> ip, tok |-> t,
                                  found |-> store[ip], at |-> clock]]
    /\ UNCHANGED <<clock, store, created, minted, sweepKeys, lastSweep, accepts>>

\* check, the rest: whatever was found, Delete(key) removes what the store
\* holds for the ip now; the announce passes when the token read matched.
CheckDelete(h) ==
    /\ hpc[h].pc = "check"
    /\ LET r == hpc[h]
       IN /\ store' = IF r.found # NoToken THEN [store EXCEPT ![r.ip] = NoToken] ELSE store
          /\ accepts' = IF r.found # NoToken /\ r.tok = r.found
                        THEN [accepts EXCEPT ![r.found] = @ + 1] ELSE accepts
    /\ hpc' = [hpc EXCEPT ![h] = HIdle]
    /\ UNCHANGED <<clock, created, minted, sweepKeys, lastSweep>>

\* clear: at each tick of time.Tick(3 min) it collects the expired keys.
SweepScan ==
    /\ clock > 0 /\ clock % Period = 0 /\ lastSweep # clock
    /\ sweepKeys' = {i \in IPs : store[i] # NoToken /\ Expired(store[i])}
    /\ lastSweep' = clock
    /\ UNCHANGED <<clock, store, created, minted, hpc, accepts>>

\* clear: DeleteMulti(keys) removes those keys, whatever they hold now.
SweepDelete ==
    /\ sweepKeys # {}
    /\ store' = [i \in IPs |-> IF i \in sweepKeys THEN NoToken ELSE store[i]]
    /\ sweepKeys' = {}
    /\ UNCHANGED <<clock, created, minted, hpc, lastSweep, accepts>>

Next ==
    \/ Tick
    \/ \E h \in Handlers, ip \in IPs : TokenGet(h, ip)
    \/ \E h \in Handlers : TokenSet(h) \/ CheckDelete(h)
    \/ \E h \in Handlers, ip \in IPs, t \in 0..minted : CheckGet(h, ip, t)
    \/ SweepScan \/ SweepDelete

Spec == Init /\ [][Next]_vars

-----------------------------------------------------------------------------
(* Properties.                                                              *)

\* The token manager with its syncedMap calls as separate steps, seen
\* through the variables it shares with the atomic one of the spec.
Atomic == INSTANCE TokenSpec

\* The spec (4.5): token, check and the sweeper behave as if each were
\* atomic.  Broken by any of the three check-then-act windows: token's Get
\* and Set (a second mint replaces a live token), check's Get and Delete
\* (the Delete removes a token minted after the Get, or a token already
\* consumed passes again), and clear's scan and DeleteMulti (a fresh token
\* is swept).  Broken too by check deleting the entry on a mismatch, and
\* by check accepting an expired token the sweeper has not yet removed:
\* check never compares the token's age.
ImplementsTokenSpec == Atomic!Spec

=============================================================================
