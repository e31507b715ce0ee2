--------------------------- MODULE GatewayProofs ----------------------------
(***************************************************************************)
(* Proofs about what answers a request to /mcp: the endpoint with its      *)
(* tokens, the cache of the authorization server's answers, and the audit  *)
(* of the calls.                                                           *)
(***************************************************************************)
EXTENDS McpEndpoint, IntrospectionCache, ToolCalls, FiniteSetTheorems, SequenceTheorems, TLAPS

-----------------------------------------------------------------------------
(* The endpoint.                                                           *)

LEMMA UnixMonotone ==
  ASSUME NEW a \in Int, NEW b \in Int, a <= b
  PROVE  Unix(a) <= Unix(b)
<1>1. Second \in Nat \ {0}
  BY EndpointAssumption
<1>2. a = Second * (a \div Second) + (a % Second) /\ a % Second \in 0..Second - 1 /\ a \div Second \in Int
  BY <1>1
<1>3. b = Second * (b \div Second) + (b % Second) /\ b % Second \in 0..Second - 1 /\ b \div Second \in Int
  BY <1>1
<1> QED BY <1>1, <1>2, <1>3 DEF Unix

LEMMA UnixShift ==
  ASSUME NEW a \in Int, NEW n \in Nat
  PROVE  Unix(a) \in Int /\ Unix(a + n * Second) = Unix(a) + n
  BY EndpointAssumption DEF Unix

Claims == [at : Int, ttl : Nat, tools : BOOLEAN, iat : Int, exp : Int]

EndpointInv ==
    /\ ticks \in Nat
    /\ \A t \in minted : t \in Claims /\ t.iat = Unix(t.at) /\ t.exp = Unix(t.at + t.ttl)
    /\ config.trust => config.listen = "loopback"
    /\ config = Down => reply = NoReply
    /\ AnswersAreDue

LEMMA VerifiedIsAlive ==
  ASSUME EndpointInv, NEW t \in minted, Verify(t)
  PROVE  ticks < t.at + t.ttl
<1>1. t.at + t.ttl \in Int /\ ticks \in Int /\ t.exp = Unix(t.at + t.ttl)
  BY DEF EndpointInv, Claims
<1>2. Unix(ticks) \in Int /\ Unix(t.at + t.ttl) \in Int /\ t.exp > Unix(ticks)
  <2>1. Unix(ticks) \in Int
    BY <1>1, EndpointAssumption DEF Unix
  <2>2. Unix(t.at + t.ttl) \in Int
    BY <1>1, EndpointAssumption DEF Unix
  <2> QED BY <2>1, <2>2 DEF Verify
<1>3. t.at + t.ttl <= ticks => Unix(t.at + t.ttl) <= Unix(ticks)
  BY <1>1, UnixMonotone
<1> QED BY <1>1, <1>2, <1>3

\* A request that is not identified goes no further than the fourth check.
LEMMA RefusedAtTheDoor ==
  ASSUME NEW q, NEW auth, ~ Identified(q, auth), Serve(q, auth)
  PROVE  reply'.status \in {401, 403, 405, 415}
<1>1. PICK check \in 1..10 :
        /\ \A c \in 1..check - 1 : ~ Stops(q, auth, c)
        /\ reply' = [status |-> Status[check], auth |-> auth, from |-> q.from, at |-> ticks]
  BY DEF Serve
<1>2. Stops(q, auth, 4)
  BY DEF Stops
<1>3. check \in 1..4
  <2>1. check > 4 => 4 \in 1..check - 1
    OBVIOUS
  <2> QED BY <2>1, <1>1, <1>2
<1> QED BY <1>1, <1>3 DEF Status

LEMMA EndpointInvNext == EndpointInv /\ [EndpointNext]_endpointVars => EndpointInv'
<1> SUFFICES ASSUME EndpointInv, [EndpointNext]_endpointVars PROVE EndpointInv'
  OBVIOUS
<1> USE DEF EndpointInv
<1>1. CASE UNCHANGED endpointVars
  BY <1>1 DEF endpointVars, AnswersAreDue, Unix
<1>2. CASE Advance
  BY <1>2 DEF Advance, AnswersAreDue, NoReply, Unix
<1>3. ASSUME NEW c \in Configs, LoadServer(c) PROVE EndpointInv'
  BY <1>3 DEF LoadServer, AnswersAreDue, NoReply, Down, Configs, Unix
<1>4. ASSUME NEW skew \in Skews, NEW ttl \in Ttls, NEW scope \in BOOLEAN,
             Mint(ticks + skew, ttl, scope)
      PROVE  EndpointInv'
  <2> DEFINE local == ticks + skew
             new == [at |-> local, ttl |-> ttl, tools |-> scope,
                     iat |-> Unix(local), exp |-> Unix(local + ttl)]
  <2>1. local \in Int /\ local + ttl \in Int /\ ttl \in Nat
    BY EndpointAssumption
  <2>2. Unix(local) \in Int /\ Unix(local + ttl) \in Int
    BY <2>1, EndpointAssumption DEF Unix
  <2>3. new \in Claims /\ new.iat = Unix(new.at) /\ new.exp = Unix(new.at + new.ttl)
    BY <2>1, <2>2 DEF Claims
  <2>4. minted' = minted \cup {new} /\ reply' = NoReply /\ UNCHANGED <<config, ticks>>
    BY <1>4 DEF Mint
  <2> HIDE DEF new
  <2>5. \A t \in minted' : t \in Claims /\ t.iat = Unix(t.at) /\ t.exp = Unix(t.at + t.ttl)
    BY <2>3, <2>4
  <2>6. AnswersAreDue'
    BY <2>4 DEF AnswersAreDue, NoReply
  <2> QED BY <2>4, <2>5, <2>6
<1>5. ASSUME NEW q \in Asked, NEW auth \in Auths, Serve(q, auth) PROVE EndpointInv'
  <2>1. UNCHANGED <<config, ticks, minted>> /\ config # Down
        /\ reply'.auth = auth /\ reply'.at = ticks
    BY <1>5 DEF Serve
  <2>2. AnswersAreDue'
    <3>1. CASE ~ Identified(q, auth)
      <4>1. reply'.status \in {401, 403, 405, 415}
        BY <1>5, <3>1, RefusedAtTheDoor
      <4> QED BY <4>1 DEF AnswersAreDue
    <3>2. CASE auth = {} /\ config.trust
      BY <3>2, <2>1 DEF AnswersAreDue
    <3>3. CASE \E t \in auth : Verify(t) /\ t.tools
      <4>1. PICK t \in auth : Verify(t) /\ t.tools
        BY <3>3
      <4>2. t \in minted
        BY <4>1 DEF Auths, Other
      <4>3. ticks < t.at + t.ttl
        BY <4>1, <4>2, VerifiedIsAlive
      <4> QED BY <4>1, <4>2, <4>3, <2>1 DEF AnswersAreDue
    <3> QED BY <3>1, <3>2, <3>3 DEF Identified, Trusted, Require
  <2> QED BY <2>1, <2>2 DEF Unix
<1> QED BY <1>1, <1>2, <1>3, <1>4, <1>5 DEF EndpointNext

\* For every resolution of the clock, every ttl and every skew: an answer that is more
\* than a refusal at the door goes only to a token within its ttl or to this host.
THEOREM EndpointAnswersAreDue == EndpointSpec => []AnswersAreDue
<1>1. EndpointInit => EndpointInv
  BY DEF EndpointInit, EndpointInv, AnswersAreDue, NoReply, Down
<1>2. EndpointInv => AnswersAreDue
  BY DEF EndpointInv
<1> QED BY <1>1, <1>2, EndpointInvNext, PTL DEF EndpointSpec

\* For the same constants: rounding to seconds takes at most the last second of a token,
\* and no token whose clock was ahead by no more than the leeway is refused as too new.
THEOREM EndpointTakesFreshTokens == EndpointSpec => []FreshTokenWorks
<1>1. EndpointInit => EndpointInv
  BY DEF EndpointInit, EndpointInv, AnswersAreDue, NoReply, Down
<1>2. ASSUME EndpointInv, NEW t \in minted,
             t.at <= ticks + Leeway * Second, ticks + Second <= t.at + t.ttl
      PROVE  Verify(t)
  <2>1. /\ t.at \in Int /\ t.at + t.ttl \in Int /\ ticks \in Int
        /\ t.iat = Unix(t.at) /\ t.exp = Unix(t.at + t.ttl)
    BY <1>2 DEF EndpointInv, Claims
  <2>2. /\ Second \in Nat /\ Leeway \in Nat /\ ticks + Leeway * Second \in Int
        /\ ticks + 1 * Second \in Int /\ ticks + 1 * Second = ticks + Second
    BY <2>1, EndpointAssumption
  <2>3. Unix(ticks) \in Int /\ Unix(t.at) \in Int /\ Unix(t.at + t.ttl) \in Int
    BY <2>1, UnixShift
  <2>4. Unix(ticks + Leeway * Second) = Unix(ticks) + Leeway
    BY <2>1, <2>2, UnixShift
  <2>5. Unix(ticks + 1 * Second) = Unix(ticks) + 1
    BY <2>1, UnixShift
  <2>6. Unix(t.at) <= Unix(ticks + Leeway * Second)
    BY <1>2, <2>1, <2>2, UnixMonotone
  <2>7. Unix(ticks + 1 * Second) <= Unix(t.at + t.ttl)
    BY <1>2, <2>1, <2>2, UnixMonotone
  <2> QED BY <2>1, <2>2, <2>3, <2>4, <2>5, <2>6, <2>7 DEF Verify
<1>3. EndpointInv => FreshTokenWorks
  BY <1>2 DEF FreshTokenWorks
<1> QED BY <1>1, <1>3, EndpointInvNext, PTL DEF EndpointSpec

-----------------------------------------------------------------------------
(***************************************************************************)
(* The cache of the authorization server's answers.  RevokeInv follows an  *)
(* answer to the cache: a check that got a positive answer began no later  *)
(* than the revocation, and an entry outlives by CacheTTL at most the      *)
(* beginning of the check that stored it.                                  *)
(***************************************************************************)

RevokeInv ==
    /\ clock \in Nat
    /\ cache \in [Tokens -> Int] /\ granted \in [Tokens -> Int]
    /\ revokedAt \in [Tokens -> Int]
    /\ pc \in [Verifies -> {"idle", "ask", "active", "inactive"}]
    /\ tok \in [Verifies -> Tokens] /\ now \in [Verifies -> Nat]
    /\ \A v \in Verifies : now[v] <= clock
    /\ \A v \in Verifies : pc[v] = "active" /\ revokedAt[tok[v]] # Never =>
                               now[v] <= revokedAt[tok[v]]
    /\ \A t \in Tokens : revokedAt[t] = Never =>
                             cache[t] <= clock + CacheTTL /\ granted[t] <= clock
    /\ \A t \in Tokens : revokedAt[t] # Never =>
                             /\ revokedAt[t] <= clock /\ revokedAt[t] >= 0
                             /\ cache[t] <= revokedAt[t] + CacheTTL
    /\ RevocationTakesEffect

LEMMA RevokeInvInit == CacheInit => RevokeInv
BY CacheAssumption DEF CacheInit, RevokeInv, RevocationTakesEffect, Never

\* Eviction only removes entries.
LEMMA EvictionsRemove ==
    ASSUME NEW v \in Verifies, cache \in [Tokens -> Int], NEW c \in Evictions(v)
    PROVE  c \in [Tokens -> Int] /\ \A t \in Tokens : c[t] = cache[t] \/ c[t] = Never
<1> DEFINE expired == {t \in Cached(cache) : now[v] > cache[t]}
           swept == [t \in Tokens |-> IF t \in expired THEN Never ELSE cache[t]]
<1>1. swept \in [Tokens -> Int] /\ \A t \in Tokens : swept[t] = cache[t] \/ swept[t] = Never
  BY DEF Never
<1>2. c = cache \/ c = swept \/ \E t \in Cached(swept) : c = [swept EXCEPT ![t] = Never]
  BY Zenon DEF Evictions
<1> HIDE DEF swept
<1> QED
  BY <1>1, <1>2 DEF Never, Cached

LEMMA RevokeInvNext == RevokeInv /\ [CacheNext]_cacheVars => RevokeInv'
<1> SUFFICES ASSUME RevokeInv, [CacheNext]_cacheVars PROVE RevokeInv'
  OBVIOUS
<1> USE CacheAssumption DEF RevokeInv, RevocationTakesEffect, Never
<1>1. CASE Tick
  BY <1>1 DEF Tick
<1>2. ASSUME NEW t \in Tokens, Revoke(t) PROVE RevokeInv'
  BY <1>2 DEF Revoke
<1>3. ASSUME NEW v \in Verifies, NEW t \in Tokens, Begin(v, t) PROVE RevokeInv'
  BY <1>3 DEF Begin, CacheHit, GrantAt
<1>4. ASSUME NEW v \in Verifies, Introspect(v) PROVE RevokeInv'
  BY <1>4 DEF Introspect
<1>5. ASSUME NEW v \in Verifies, Deny(v) PROVE RevokeInv'
  BY <1>5 DEF Deny
<1>6. ASSUME NEW v \in Verifies, Store(v) PROVE RevokeInv'
  <2>1. PICK c \in Evictions(v) :
            cache' = [c EXCEPT ![tok[v]] = LowerOf(now[v] + CacheTTL, Expiry[tok[v]])]
    BY Zenon, <1>6 DEF Store
  <2>2. c \in [Tokens -> Int] /\ \A t \in Tokens : c[t] = cache[t] \/ c[t] = Never
    BY EvictionsRemove
  <2>3. /\ cache' \in [Tokens -> Int] /\ cache'[tok[v]] <= now[v] + CacheTTL
        /\ \A t \in Tokens \ {tok[v]} : cache'[t] = cache[t] \/ cache'[t] = Never
    BY <2>1, <2>2 DEF LowerOf
  <2> QED
    BY <1>6, <2>3 DEF Store, GrantAt
<1>7. CASE UNCHANGED cacheVars
  BY <1>7 DEF cacheVars
<1> HIDE DEF RevokeInv
<1> QED
  BY SMTT(30), <1>1, <1>2, <1>3, <1>4, <1>5, <1>6, <1>7 DEF CacheNext

\* A check of a revoked token that begins CacheTTL or more after the revocation fails,
\* for every number of concurrent checks and whatever the delays of their answers.
THEOREM RevocationIsBounded == CacheSpec => []RevocationTakesEffect
<1>1. RevokeInv => RevocationTakesEffect
  BY DEF RevokeInv
<1> QED
  BY RevokeInvInit, RevokeInvNext, <1>1, PTL DEF CacheSpec

-----------------------------------------------------------------------------
SizeInv == IsFiniteSet(Cached(cache)) /\ CacheBounded

\* Eviction leaves room for one entry.
LEMMA EvictionsMakeRoom ==
    ASSUME RevokeInv, SizeInv, NEW v \in Verifies, NEW c \in Evictions(v)
    PROVE  IsFiniteSet(Cached(c)) /\ Cardinality(Cached(c)) < CacheMax
<1> DEFINE expired == {t \in Cached(cache) : now[v] > cache[t]}
           swept == [t \in Tokens |-> IF t \in expired THEN Never ELSE cache[t]]
<1>1. Cached(swept) \subseteq Cached(cache)
  BY DEF Cached
<1>2. IsFiniteSet(Cached(swept)) /\ Cardinality(Cached(swept)) <= CacheMax
  BY <1>1, FS_Subset, FS_CardinalityType, CacheAssumption DEF SizeInv, CacheBounded
<1>3. \/ c = cache /\ Cardinality(Cached(cache)) < CacheMax
      \/ c = swept /\ Cardinality(Cached(swept)) < CacheMax
      \/ \E t \in Cached(swept) : c = [swept EXCEPT ![t] = Never]
  BY Zenon DEF Evictions
<1>4. swept \in [Tokens -> Int]
  BY DEF RevokeInv, Never
<1> HIDE DEF swept
<1>5. ASSUME NEW t \in Cached(swept), c = [swept EXCEPT ![t] = Never]
      PROVE  IsFiniteSet(Cached(c)) /\ Cardinality(Cached(c)) < CacheMax
  <2>1. t \in Tokens /\ c[t] = Never /\ \A u \in Tokens \ {t} : c[u] = swept[u]
    BY <1>4, <1>5 DEF Cached
  <2>2. Cached(c) = Cached(swept) \ {t}
    BY <2>1 DEF Cached
  <2>3. /\ IsFiniteSet(Cached(swept) \ {t})
        /\ Cardinality(Cached(swept) \ {t}) = Cardinality(Cached(swept)) - 1
    BY Zenon, <1>2, FS_RemoveElement
  <2>4. Cardinality(Cached(swept)) \in Nat
    BY <1>2, FS_CardinalityType
  <2> QED
    BY <1>2, <2>2, <2>3, <2>4, CacheAssumption
<1> QED
  BY <1>2, <1>3, <1>5 DEF SizeInv

LEMMA SizeInvNext == RevokeInv /\ SizeInv /\ [CacheNext]_cacheVars => SizeInv'
<1> SUFFICES ASSUME RevokeInv, SizeInv, [CacheNext]_cacheVars PROVE SizeInv'
  OBVIOUS
<1>1. ASSUME cache' = cache PROVE SizeInv'
  BY <1>1 DEF SizeInv, CacheBounded, Cached
<1>2. ASSUME NEW v \in Verifies, Store(v) PROVE SizeInv'
  <2>1. PICK c \in Evictions(v) :
            cache' = [c EXCEPT ![tok[v]] = LowerOf(now[v] + CacheTTL, Expiry[tok[v]])]
    BY Zenon, <1>2 DEF Store
  <2>2. IsFiniteSet(Cached(c)) /\ Cardinality(Cached(c)) < CacheMax
    BY EvictionsMakeRoom
  <2>3. c \in [Tokens -> Int] /\ tok[v] \in Tokens
    BY EvictionsRemove DEF RevokeInv
  <2>4. Cached(cache') \subseteq Cached(c) \cup {tok[v]}
    BY <2>1, <2>3 DEF Cached
  <2>5. /\ IsFiniteSet(Cached(c) \cup {tok[v]})
        /\ Cardinality(Cached(c) \cup {tok[v]}) <= CacheMax
    <3> DEFINE C == Cached(c)
    <3>1. IsFiniteSet(C) /\ Cardinality(C) < CacheMax
      BY <2>2
    <3> HIDE DEF C
    <3>2. Cardinality(C) \in Nat
      BY <3>1, FS_CardinalityType
    <3>3. CASE tok[v] \in C
      <4>1. C \cup {tok[v]} = C
        BY <3>3
      <4> QED
        BY <3>1, <3>2, <4>1, CacheAssumption DEF C
    <3>4. CASE tok[v] \notin C
      <4>1. /\ IsFiniteSet(C \cup {tok[v]})
            /\ Cardinality(C \cup {tok[v]}) = Cardinality(C) + 1
        BY Zenon, <3>1, <3>4, FS_AddElement
      <4> QED
        BY <3>1, <3>2, <4>1, CacheAssumption DEF C
    <3> QED
      BY <3>3, <3>4
  <2>6. IsFiniteSet(Cached(cache')) /\ Cardinality(Cached(cache')) <= CacheMax
    BY <2>4, <2>5, FS_Subset, FS_CardinalityType, CacheAssumption
  <2> QED
    BY <2>6 DEF SizeInv, CacheBounded, Cached
<1>3. cache' = cache \/ \E v \in Verifies : Store(v)
  BY DEF CacheNext, cacheVars, Tick, Revoke, Introspect, Deny, Begin
<1> QED
  BY <1>1, <1>2, <1>3

LEMMA SizeInvInit == CacheInit => SizeInv
<1> SUFFICES ASSUME CacheInit PROVE SizeInv
  OBVIOUS
<1>1. Cached(cache) = {}
  BY DEF CacheInit, Cached
<1> QED
  BY <1>1, FS_EmptySet, CacheAssumption DEF SizeInv, CacheBounded

\* The cache never holds more than its 1024 entries, for every number of checks that
\* store their answers after others have filled it.
THEOREM CacheStaysBounded == CacheSpec => []CacheBounded
<1>1. SizeInv => CacheBounded
  BY DEF SizeInv
<1> QED
  BY RevokeInvInit, RevokeInvNext, SizeInvInit, SizeInvNext, <1>1, PTL DEF CacheSpec

-----------------------------------------------------------------------------
(***************************************************************************)
(* The audit.  An event is in one place at a time: in the queue, once, in  *)
(* the writer's hand, or written.  EventInv says so, that it got there by  *)
(* Record, and that once the writer is done only events recorded after     *)
(* Close can be queued.                                                    *)
(***************************************************************************)

Queued(c) == \E i \in 1..Len(queue) : queue[i] = c

TypeInv ==
    /\ main \in {"serving", "shutdown", "closing", "exited"}
    /\ call \in [Calls -> {"idle", "gate", "hub", "record",
                           "answered", "rejected", "unaudited"}]
    /\ queue \in Seq(Calls)
    /\ loop \in {"select", "drain", "done"}
    /\ hand \in Calls \cup {NoEvent}
    /\ rows \in [Calls -> Nat]
    /\ warned \subseteq Calls /\ late \subseteq Calls

EventInv ==
    /\ \A i, j \in 1..Len(queue) : queue[i] = queue[j] => i = j
    /\ \A c \in Calls : /\ Queued(c) => hand # c /\ rows[c] = 0
                        /\ hand = c => rows[c] = 0
                        /\ rows[c] <= 1
                        /\ Queued(c) \/ hand = c \/ rows[c] = 1 => call[c] = "answered"
                        /\ call[c] = "answered" =>
                               Queued(c) \/ hand = c \/ rows[c] = 1 \/ c \in warned

DoneInv ==
    /\ main = "exited" => loop = "done"
    /\ loop # "select" => main \in {"closing", "exited"}
    /\ loop = "done" => hand = NoEvent /\ \A c \in Calls : Queued(c) => c \in late

CallsInv == TypeInv /\ EventInv /\ DoneInv

-----------------------------------------------------------------------------
LEMMA CallsInvInit == Init => CallsInv
BY ToolAssumption DEF Init, CallsInv, TypeInv, EventInv, DoneInv, Queued

\* What taking the first event, and recording another, does to the queue.
LEMMA TakeFirst ==
    ASSUME queue \in Seq(Calls), queue # <<>>, queue' = Tail(queue)
    PROVE  /\ queue' \in Seq(Calls) /\ Head(queue) \in Calls /\ Queued(Head(queue))
           /\ Len(queue') = Len(queue) - 1 /\ Len(queue) \in Nat /\ Head(queue) = queue[1]
           /\ \A i \in 1..Len(queue') : queue'[i] = queue[i + 1]
BY DEF Queued

LEMMA PutLast ==
    ASSUME queue \in Seq(Calls), NEW c \in Calls, queue' = Append(queue, c)
    PROVE  /\ queue' \in Seq(Calls) /\ Len(queue') = Len(queue) + 1 /\ Len(queue) \in Nat
           /\ queue'[Len(queue) + 1] = c
           /\ \A i \in 1..Len(queue) : queue'[i] = queue[i]
OBVIOUS

LEMMA CallsInvNext == CallsInv /\ [Next]_vars => CallsInv'
<1> SUFFICES ASSUME CallsInv, [Next]_vars PROVE CallsInv'
  OBVIOUS
<1> USE ToolAssumption DEF CallsInv, writerVars
<1>1. ASSUME NEW c \in Calls,
             Accept(c) \/ Reject(c) \/ Dispatch(c) \/ HubReturns(c) \/ InvalidResponse(c)
      PROVE  CallsInv'
  <2>1. /\ UNCHANGED <<main, queue, loop, hand, rows, warned, late>>
        /\ call[c] # "answered" /\ call'[c] # "answered"
        /\ call' \in [Calls -> {"idle", "gate", "hub", "record",
                                "answered", "rejected", "unaudited"}]
        /\ \A d \in Calls \ {c} : call'[d] = call[d]
    BY <1>1 DEF Accept, Reject, Dispatch, HubReturns, InvalidResponse, Move, TypeInv
  <2>2. \A d \in Calls : Queued(d)' <=> Queued(d)
    BY <2>1 DEF Queued
  <2>3. TypeInv' /\ DoneInv'
    BY <2>1, <2>2 DEF TypeInv, DoneInv
  <2>4. EventInv'
    BY SMTT(30), <2>1, <2>2 DEF EventInv
  <2> QED
    BY <2>3, <2>4
<1>2. ASSUME NEW c \in Calls, Record(c) PROVE CallsInv'
  <2>0. /\ call[c] = "record" /\ call' = [call EXCEPT ![c] = "answered"]
        /\ main # "exited" /\ UNCHANGED <<main, loop, hand, rows>>
        /\ late' = IF main = "closing" THEN late \cup {c} ELSE late
        /\ ~ Queued(c) /\ hand # c /\ rows[c] = 0
    BY <1>2 DEF Record, Move, Running, EventInv, TypeInv
  <2>1. CASE queue' = Append(queue, c) /\ warned' = warned
    <3>1. /\ queue' \in Seq(Calls) /\ Len(queue') = Len(queue) + 1 /\ Len(queue) \in Nat
          /\ queue'[Len(queue) + 1] = c
          /\ \A i \in 1..Len(queue) : queue'[i] = queue[i]
      BY <2>1, PutLast DEF TypeInv
    <3>2. \A d \in Calls : Queued(d)' <=> Queued(d) \/ d = c
      BY <3>1 DEF Queued
    <3>3. TypeInv'
      BY SMTT(30), <2>0, <2>1, <3>1 DEF TypeInv
    <3>4. \A i, j \in 1..Len(queue') : queue'[i] = queue'[j] => i = j
      BY <2>0, <3>1 DEF EventInv, Queued
    <3>5. EventInv'
      BY <2>0, <2>1, <3>2, <3>4 DEF EventInv, TypeInv
    <3>6. DoneInv'
      BY SMTT(30), <2>0, <2>1, <3>2 DEF DoneInv, TypeInv
    <3> QED
      BY <3>3, <3>5, <3>6
  <2>2. CASE warned' = warned \cup {c} /\ queue' = queue
    BY <2>0, <2>2 DEF TypeInv, EventInv, DoneInv, Queued
  <2> QED
    BY <1>2, <2>1, <2>2 DEF Record
<1>3. CASE LoopTake
  <2>0. /\ queue # <<>> /\ queue' = Tail(queue) /\ hand = NoEvent /\ hand' = Head(queue)
        /\ loop # "done" /\ UNCHANGED <<main, call, loop, rows, warned, late>>
    BY <1>3 DEF LoopTake
  <2>1. /\ queue' \in Seq(Calls) /\ Head(queue) \in Calls /\ Queued(Head(queue))
        /\ Len(queue') = Len(queue) - 1 /\ Len(queue) \in Nat /\ Head(queue) = queue[1]
        /\ \A i \in 1..Len(queue') : queue'[i] = queue[i + 1]
    BY <2>0, TakeFirst DEF TypeInv
  <2>h. PICK h \in Calls : h = Head(queue) /\ h = queue[1] /\ Queued(h)
    BY <2>1
  <2>2. \A d \in Calls : Queued(d) <=> Queued(d)' \/ d = h
    <3>1. ASSUME NEW d \in Calls, Queued(d), d # h PROVE Queued(d)'
      <4>1. PICK i \in 1..Len(queue) : queue[i] = d
        BY <3>1 DEF Queued
      <4>2. i - 1 \in 1..Len(queue') /\ queue'[i - 1] = d
        BY <2>1, <2>h, <3>1, <4>1
      <4> QED
        BY <4>2 DEF Queued
    <3>2. ASSUME NEW d \in Calls, Queued(d)' PROVE Queued(d)
      BY <2>1, <3>2 DEF Queued
    <3> QED
      BY <2>h, <3>1, <3>2
  <2>3. \A i, j \in 1..Len(queue') : queue'[i] = queue'[j] => i = j
    BY <2>1 DEF EventInv
  <2>4. ~ Queued(h)'
    BY <2>1, <2>h DEF EventInv, Queued
  <2>5. TypeInv' /\ DoneInv'
    BY <2>0, <2>1 DEF TypeInv, DoneInv
  <2>6. EventInv'
    BY SMTT(30), <2>0, <2>h, <2>2, <2>3, <2>4 DEF EventInv, TypeInv
  <2> QED
    BY <2>5, <2>6
<1>4. CASE LoopWrite
  BY <1>4 DEF LoopWrite, TypeInv, EventInv, DoneInv, Queued
<1>5. CASE LoopCancelled \/ LoopDone
  BY <1>5 DEF LoopCancelled, LoopDone, Running, TypeInv, EventInv, DoneInv, Queued
<1>6. CASE MainStep \/ Signal
  BY SMTT(30), <1>6
  DEF MainStep, ShutdownReturns, ShutdownTimeout, Exit, Signal, TypeInv, EventInv,
              DoneInv, Queued
<1>7. CASE UNCHANGED vars
  BY <1>7 DEF vars, TypeInv, EventInv, DoneInv, Queued
<1> HIDE DEF CallsInv
<1> QED
  BY SMTT(30), <1>1, <1>2, <1>3, <1>4, <1>5, <1>6, <1>7 DEF Next, LoopStep, Exited

\* The audit writer's promises, for every number of calls and every capacity: Close
\* loses no event recorded before it without a warning, and no event is written twice.
THEOREM AuditIsComplete == Spec => []AuditIsExact
<1>1. CallsInv => AuditIsExact
  <2> SUFFICES ASSUME CallsInv PROVE CloseDrainsEvents /\ OneRowPerCall
    BY DEF AuditIsExact
  <2>1. CloseDrainsEvents
    BY ToolAssumption DEF CallsInv, TypeInv, EventInv, DoneInv, CloseDrainsEvents
  <2>2. OneRowPerCall
    BY DEF CallsInv, TypeInv, EventInv, OneRowPerCall
  <2> QED
    BY <2>1, <2>2
<1> QED
  BY CallsInvInit, CallsInvNext, <1>1, PTL DEF Spec
=============================================================================
