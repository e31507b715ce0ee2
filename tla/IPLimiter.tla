------------------------------ MODULE IPLimiter ------------------------------
(***************************************************************************)
(* ipLimiter of internal/controlplane: one token bucket per namespace and  *)
(* address, in a table that is swept of old buckets only when it is large. *)
(* Time and tokens are counted in one unit: what a bucket earns in a tick. *)
(* A request costs Cost of them, so the rate is 1 / Cost requests a tick.  *)
(***************************************************************************)
EXTENDS Integers, FiniteSets

CONSTANTS Keys,        \* namespace and host
          Cost,        \* one token
          Burst,       \* l.burst, in the same unit
          Cutoff,      \* 30 minutes
          MaxBuckets,  \* 4096
          MaxTime      \* bound on the clock

ASSUME LimiterAssumption ==
    /\ Cost \in Nat \ {0} /\ Burst \in Nat /\ Cost <= Burst
    /\ Cutoff \in Nat /\ Burst <= Cutoff
    /\ IsFiniteSet(Keys) /\ MaxBuckets \in Nat /\ MaxTime \in Nat

VARIABLES
    clock,
    buckets,  \* tokens and last, a function on the keys that have a bucket
    spent     \* history: spent[k][t] is what k was granted from time t on

limiterVars == <<clock, buckets, spent>>

LimiterInit ==
    /\ clock = 0
    /\ buckets = [k \in {} |-> 0]
    /\ spent = [k \in Keys |-> [t \in 0..MaxTime |-> 0]]

\* The bucket of k as a request at this moment finds it.
RefillUncapped(k) ==
    IF k \notin DOMAIN buckets THEN Burst ELSE buckets[k].tokens + clock - buckets[k].last

Refill(k) ==
    LET earned == buckets[k].tokens + clock - buckets[k].last IN
    IF k \notin DOMAIN buckets \/ earned > Burst THEN Burst ELSE earned

Store(k, n) ==
    [j \in DOMAIN buckets \cup {k} |->
        IF j = k THEN [tokens |-> n, last |-> clock] ELSE buckets[j]]

SweepNothing(b) == b

Sweep(b) ==
    IF Cardinality(DOMAIN b) > MaxBuckets
    THEN [k \in {j \in DOMAIN b : b[j].last >= clock - Cutoff} |-> b[k]]
    ELSE b

Grant(k) ==
    /\ Refill(k) >= Cost
    /\ buckets' = Sweep(Store(k, Refill(k) - Cost))
    /\ spent' = [spent EXCEPT ![k] = [t \in 0..MaxTime |->
                    IF t <= clock THEN spent[k][t] + Cost ELSE spent[k][t]]]
    /\ UNCHANGED clock

Refuse(k) ==
    /\ Refill(k) < Cost
    /\ buckets' = Store(k, Refill(k))
    /\ UNCHANGED <<clock, spent>>

Tick ==
    /\ clock < MaxTime
    /\ clock' = clock + 1
    /\ UNCHANGED <<buckets, spent>>

LimiterNext == Tick \/ \E k \in Keys : Grant(k) \/ Refuse(k)

LimiterSpec == LimiterInit /\ [][LimiterNext]_limiterVars

-----------------------------------------------------------------------------
\* allow answers exactly as a limiter with a perfect memory would: it grants a
\* request if and only if no window that ends now would then hold more than the
\* burst and what the window earned. Forgetting swept buckets changes no answer.
ExactLimit ==
    \A k \in Keys :
        Refill(k) >= Cost <=> \A t \in 0..clock : spent[k][t] + Cost <= Burst + (clock - t)

\* The table never grows past 4096 buckets by keeping one that has been idle for
\* longer than the cutoff.
GrowthIsRecent ==
    [][Cardinality(DOMAIN buckets') > Cardinality(DOMAIN buckets)
        => \/ Cardinality(DOMAIN buckets') <= MaxBuckets
           \/ \A k \in DOMAIN buckets' : buckets'[k].last >= clock - Cutoff]_limiterVars
=============================================================================
