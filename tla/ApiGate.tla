----------------------------- MODULE ApiGate -----------------------------
(***************************************************************************)
(* What every request passes before its handler runs (httpapi.ServeHTTP):   *)
(* the bearer token's signing key is looked up in the cached JWKS           *)
(* (auth.go), the token's lifetime is checked, and the rate limiter counts  *)
(* the caller.  Requests run concurrently: the time that one of them looks  *)
(* at was taken before it waited for the key server.                       *)
(***************************************************************************)
EXTENDS Integers, FiniteSets, FiniteSetsExt

CONSTANTS
    MaxRequests,  \* bound: requests, numbered in the order of their arrival
    Kids,         \* the ids of signing keys
    CacheTTL,     \* jwksCacheTTL
    StaleGrace,   \* jwksStaleGraceWindow
    RateWindow,   \* rateLimiter.window
    RateMax,      \* rateLimiter.max
    MaxClock,     \* bound of the clock
    NoEntry

ASSUME GateBounds ==
    /\ {MaxRequests, CacheTTL, StaleGrace, RateWindow, RateMax, MaxClock} \subseteq Nat

VARIABLES
    clock,       \* time.Now()
    published,   \* the kids that the key server serves
    lastServed,  \* history: kid -> the last time the key server served it
    jwks,        \* the cache entry: [keys, fetchedAt] or NoEntry
    call,        \* caller -> [pc, kid, now, entry, keys]
    limiter      \* the rate limiter's entry: [count, resetAt] or NoEntry

gateVars == <<clock, published, lastServed, jwks, call, limiter>>

Callers == 1..MaxRequests

Fresh == [pc |-> "new", kid |-> NoEntry, now |-> 0, entry |-> NoEntry, keys |-> {}]

Over == [Fresh EXCEPT !.pc = "over"]

GateInit ==
    /\ clock = 0
    /\ published \in SUBSET Kids \ {{}}
    /\ lastServed = [k \in Kids |-> IF k \in published THEN 0 ELSE -1]
    /\ jwks = NoEntry
    /\ call = [r \in Callers |-> Fresh]
    /\ limiter = NoEntry

(* A token signed by a key arrives; its time is taken here, once.  Claims    *)
(* that are wrong or expired at that time fail later whatever the key says.  *)
Arrive(r, kid) ==
    /\ call[r].pc = "new"
    /\ \A q \in Callers : q < r => call[q].pc # "new"
    /\ call' = [call EXCEPT ![r] = [Fresh EXCEPT !.pc = "load", !.kid = kid, !.now = clock]]
    /\ UNCHANGED <<clock, published, lastServed, jwks, limiter>>

(* parseBearer after the lookup: the key must be known and the claims (exp,  *)
(* aud, workspace, scopes) good.                                             *)
Verified(c, keys, claimsGood) ==
    IF c.kid \in keys /\ claimsGood
    THEN [Fresh EXCEPT !.pc = "authorized", !.kid = c.kid, !.now = c.now]
    ELSE Over

(* keysFor, first half: a fresh entry that knows the key is enough; anything *)
(* else asks the key server.                                                 *)
CacheHit(c) ==
    /\ jwks # NoEntry
    /\ c.now - jwks.fetchedAt < CacheTTL
    /\ c.kid \in jwks.keys

LoadKeys(r, claimsGood) ==
    /\ call[r].pc = "load"
    /\ call' = [call EXCEPT ![r] = IF CacheHit(call[r])
                                   THEN Verified(call[r], jwks.keys, claimsGood)
                                   ELSE [call[r] EXCEPT !.pc = "fetch", !.entry = jwks]]
    /\ UNCHANGED <<clock, published, lastServed, jwks, limiter>>

(* The key server answers with what it serves at that moment.                *)
fetchJWKS(r) ==
    /\ call[r].pc = "fetch"
    /\ call' = [call EXCEPT ![r].keys = published, ![r].entry = NoEntry, ![r].pc = "store"]
    /\ UNCHANGED <<clock, published, lastServed, jwks, limiter>>

(* The fetched keys are stored with the time of the request, which is older  *)
(* than the answer; a later answer may be overwritten by an earlier one.     *)
StoredAtAnswer(c) == [keys |-> c.keys, fetchedAt |-> clock]

StoredEntry(c) == [keys |-> c.keys, fetchedAt |-> c.now]

StoreKeys(r, claimsGood) ==
    /\ call[r].pc = "store"
    /\ jwks' = StoredEntry(call[r])
    /\ call' = [call EXCEPT ![r] = Verified(@, @.keys, claimsGood)]
    /\ UNCHANGED <<clock, published, lastServed, limiter>>

(* The fetch fails: the entry loaded before it is good for a short grace.    *)
StaleEntryUsable(c) ==
    c.entry # NoEntry /\ c.now - c.entry.fetchedAt <= CacheTTL + StaleGrace

FetchFails(r, claimsGood) ==
    /\ call[r].pc = "fetch"
    /\ call' = [call EXCEPT ![r] = IF StaleEntryUsable(@)
                                   THEN Verified(@, @.entry.keys, claimsGood) ELSE Over]
    /\ UNCHANGED <<clock, published, lastServed, jwks, limiter>>

(* rateLimiter.allow: a fixed window that the first request after its end    *)
(* opens anew.                                                               *)
WindowOver(now) == limiter = NoEntry \/ now > limiter.resetAt

allow(r) ==
    /\ call[r].pc = "authorized"
    /\ IF WindowOver(clock)
       THEN limiter' = [count |-> 1, resetAt |-> clock + RateWindow]
       ELSE limiter' = [limiter EXCEPT !.count = IF @ < RateMax THEN @ + 1 ELSE @]
    /\ call' = [call EXCEPT ![r] = Over]   \* the handler, or 429
    /\ UNCHANGED <<clock, published, lastServed, jwks>>

(* The key server publishes another set of keys (external); a withdrawn key  *)
(* does not come back.                                                       *)
RotateKeys(S) ==
    /\ S # published /\ S # {}
    /\ \A k \in S : k \in published \/ lastServed[k] = -1
    /\ published' = S
    /\ lastServed' = [k \in Kids |-> IF k \in published \cup S THEN clock ELSE lastServed[k]]
    /\ UNCHANGED <<clock, jwks, call, limiter>>

Tick ==
    /\ clock < MaxClock
    /\ clock' = clock + 1
    /\ lastServed' = [k \in Kids |-> IF k \in published THEN clock + 1 ELSE lastServed[k]]
    /\ UNCHANGED <<published, jwks, call, limiter>>

GateNext ==
    \/ \E r \in Callers :
        \/ \E kid \in Kids : Arrive(r, kid)
        \/ \E claimsGood \in BOOLEAN :
            LoadKeys(r, claimsGood) \/ StoreKeys(r, claimsGood) \/ FetchFails(r, claimsGood)
        \/ fetchJWKS(r)
        \/ allow(r)
    \/ \E S \in SUBSET Kids : RotateKeys(S)
    \/ Tick

-----------------------------------------------------------------------------
(* A key that the key server withdrew is trusted for at most the cache's     *)
(* lifetime and the grace of an outage, counted to the arrival of the        *)
(* request, however the fetches of concurrent requests overtake each other.  *)
KeyTrustBounded ==
    \A r \in Callers :
        call[r].pc = "authorized" =>
            lastServed[call[r].kid] >= call[r].now - (CacheTTL + StaleGrace)
=============================================================================
