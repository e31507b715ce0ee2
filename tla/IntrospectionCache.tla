------------------------- MODULE IntrospectionCache -------------------------
(***************************************************************************)
(* IntrospectionVerifier.Verify of internal/authn: concurrent checks of    *)
(* access tokens against an authorization server, with a cache of positive *)
(* answers.  Verify reads the clock once, at its start, and the cache is   *)
(* unlocked while the request is under way.                                *)
(***************************************************************************)
EXTENDS Integers, FiniteSets

CONSTANTS Tokens, Verifies,
          Expiry,    \* exp of each token
          CacheTTL,  \* at most 30 s; 15 s by default
          CacheMax,  \* 1024
          MaxTime    \* bound on the clock

ASSUME CacheAssumption ==
    /\ Expiry \in [Tokens -> Nat] /\ CacheTTL \in Nat \ {0}
    /\ CacheMax \in Nat \ {0} /\ MaxTime \in Nat

VARIABLES
    clock,
    cache,      \* v.cache: for a cached token, the time its entry expires; else Never
    revokedAt,  \* when the authorization server revoked a token; Never if it did not
    pc,         \* progress of a Verify: "idle", "ask", "active", "inactive"
    tok, now,   \* its token, and the time it started
    granted     \* per token, the latest start of a Verify that accepted it

cacheVars == <<clock, cache, revokedAt, pc, tok, now, granted>>

Never == -1
Cached(c) == {t \in Tokens : c[t] # Never}
LowerOf(x, y) == IF x < y THEN x ELSE y

\* Verify returns the identity.
GrantAt(t, start) == [granted EXCEPT ![t] = IF @ < start THEN start ELSE @]

CacheInit ==
    /\ clock = 0
    /\ cache = [t \in Tokens |-> Never]
    /\ revokedAt = [t \in Tokens |-> Never]
    /\ granted = [t \in Tokens |-> Never]
    /\ pc = [v \in Verifies |-> "idle"]
    /\ tok \in [Verifies -> Tokens]
    /\ now = [v \in Verifies |-> 0]

Tick ==
    /\ clock < MaxTime
    /\ clock' = clock + 1
    /\ UNCHANGED <<cache, revokedAt, pc, tok, now, granted>>

\* The authorization server; its answers depend on revocation and expiry only.
Revoke(t) ==
    /\ revokedAt[t] = Never
    /\ revokedAt' = [revokedAt EXCEPT ![t] = clock]
    /\ UNCHANGED <<clock, cache, pc, tok, now, granted>>

CacheHit(t) == clock < cache[t] /\ clock < Expiry[t]

Begin(v, t) ==
    /\ pc[v] = "idle"
    /\ tok' = [tok EXCEPT ![v] = t]
    /\ now' = [now EXCEPT ![v] = clock]
    /\ IF CacheHit(t)
       THEN granted' = GrantAt(t, clock) /\ UNCHANGED pc
       ELSE pc' = [pc EXCEPT ![v] = "ask"] /\ UNCHANGED granted
    /\ UNCHANGED <<clock, cache, revokedAt>>

Introspect(v) ==
    /\ pc[v] = "ask"
    /\ pc' = [pc EXCEPT ![v] =
                  IF revokedAt[tok[v]] = Never /\ clock < Expiry[tok[v]]
                  THEN "active" ELSE "inactive"]
    /\ UNCHANGED <<clock, cache, revokedAt, tok, now, granted>>

\* A request that fails, an answer that is not 200, does not decode or denies.
Deny(v) ==
    /\ pc[v] # "idle"
    /\ pc' = [pc EXCEPT ![v] = "idle"]
    /\ UNCHANGED <<clock, cache, revokedAt, tok, now, granted>>

\* A full cache loses what had expired when this Verify began, and if that
\* is nothing, any one entry.
Evictions(v) ==
    LET expired == {t \in Cached(cache) : now[v] > cache[t]}
        swept == [t \in Tokens |-> IF t \in expired THEN Never ELSE cache[t]]
    IN  IF Cardinality(Cached(cache)) < CacheMax THEN {cache}
        ELSE IF Cardinality(Cached(swept)) < CacheMax THEN {swept}
        ELSE {[swept EXCEPT ![t] = Never] : t \in Cached(swept)}

StoreFromNow(v) ==
    LET t == tok[v] IN
    /\ pc[v] = "active" /\ now[v] < Expiry[t]
    /\ \E c \in Evictions(v) :
        cache' = [c EXCEPT ![t] = LowerOf(clock + CacheTTL, Expiry[t])]
    /\ granted' = GrantAt(t, now[v])
    /\ pc' = [pc EXCEPT ![v] = "idle"]
    /\ UNCHANGED <<clock, revokedAt, tok, now>>

StoreUnevicted(v) ==
    LET t == tok[v] IN
    /\ pc[v] = "active" /\ now[v] < Expiry[t]
    /\ cache' = [cache EXCEPT ![t] = LowerOf(now[v] + CacheTTL, Expiry[t])]
    /\ granted' = GrantAt(t, now[v])
    /\ pc' = [pc EXCEPT ![v] = "idle"]
    /\ UNCHANGED <<clock, revokedAt, tok, now>>

Store(v) ==
    LET t == tok[v] IN
    /\ pc[v] = "active" /\ now[v] < Expiry[t]
    /\ \E c \in Evictions(v) :
        cache' = [c EXCEPT ![t] = LowerOf(now[v] + CacheTTL, Expiry[t])]
    /\ granted' = GrantAt(t, now[v])
    /\ pc' = [pc EXCEPT ![v] = "idle"]
    /\ UNCHANGED <<clock, revokedAt, tok, now>>

CacheNext ==
    \/ Tick
    \/ \E t \in Tokens : Revoke(t)
    \/ \E v \in Verifies : \/ Introspect(v) \/ Deny(v) \/ Store(v)
                           \/ \E t \in Tokens : Begin(v, t)

CacheSpec == CacheInit /\ [][CacheNext]_cacheVars

-----------------------------------------------------------------------------
CacheTypeOK ==
    /\ clock \in 0..MaxTime
    /\ \A t \in Tokens : cache[t] \in {Never} \cup 0..Expiry[t]
    /\ revokedAt \in [Tokens -> {Never} \cup 0..MaxTime]
    /\ pc \in [Verifies -> {"idle", "ask", "active", "inactive"}]
    /\ tok \in [Verifies -> Tokens]
    /\ now \in [Verifies -> 0..MaxTime]
    /\ granted \in [Tokens -> {Never} \cup 0..MaxTime]

\* A revoked token is accepted for less than CacheTTL: every Verify that starts
\* later fails, even when an answer obtained before the revocation was slow to
\* arrive and was cached after it.
RevocationTakesEffect ==
    \A t \in Tokens :
        revokedAt[t] # Never => granted[t] < revokedAt[t] + CacheTTL

\* The cache stays within its bound although Verify gives up the lock between
\* its look at the cache and its update.
CacheBounded == Cardinality(Cached(cache)) <= CacheMax
=============================================================================
