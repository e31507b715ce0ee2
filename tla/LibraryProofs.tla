---------------------------- MODULE LibraryProofs ----------------------------
(***************************************************************************)
(* Proofs about packages that depend on no other component.                *)
(***************************************************************************)
EXTENDS IPLimiter, WsFrames, KeepAlive, FiniteSetTheorems, TLAPS

-----------------------------------------------------------------------------
(* The limiter.                                                            *)

LimiterTypeOK ==
    /\ clock \in 0..MaxTime
    /\ DOMAIN buckets \subseteq Keys
    /\ \A k \in DOMAIN buckets : buckets[k].tokens \in 0..Burst /\ buckets[k].last \in 0..clock
    /\ spent \in [Keys -> [0..MaxTime -> Nat]]

\* A bucket holds what its tightest window leaves.
Tight(k) ==
    LET b == buckets[k] IN
    /\ \A t \in 0..b.last : spent[k][t] + b.tokens <= Burst + (b.last - t)
    /\ \E t \in 0..b.last : spent[k][t] + b.tokens = Burst + (b.last - t)
    /\ \A t \in 0..MaxTime : t > b.last => spent[k][t] = 0

\* A key without a bucket has earned back all that it was ever granted.
Repaid(k) ==
    \A t \in 0..MaxTime : spent[k][t] <= (IF t <= clock THEN clock - t ELSE 0)

LimiterInv ==
    /\ LimiterTypeOK
    /\ \A k \in DOMAIN buckets : Tight(k)
    /\ \A k \in Keys \ DOMAIN buckets : Repaid(k)

LEMMA LimiterInvInit == LimiterInit => LimiterInv
  BY LimiterAssumption DEF LimiterInit, LimiterInv, LimiterTypeOK, Tight, Repaid

\* What a request finds in the bucket is what its tightest window leaves now.
LEMMA RefillIsTight ==
  ASSUME LimiterInv, NEW k \in Keys
  PROVE  /\ Refill(k) \in 0..Burst
         /\ \A t \in 0..clock : spent[k][t] + Refill(k) <= Burst + (clock - t)
         /\ \E t \in 0..clock : spent[k][t] + Refill(k) = Burst + (clock - t)
         /\ \A t \in 0..MaxTime : t > clock => spent[k][t] = 0
<1> DEFINE r == Refill(k)
<1>t. /\ clock \in 0..MaxTime /\ clock \in Nat /\ Burst \in Nat /\ MaxTime \in Nat
      /\ \A t \in 0..MaxTime : spent[k][t] \in Nat
  BY LimiterAssumption DEF LimiterInv, LimiterTypeOK
<1>1. CASE k \notin DOMAIN buckets
  <2>1. r = Burst
    BY <1>1 DEF Refill
  <2>2. \A t \in 0..MaxTime : spent[k][t] <= (IF t <= clock THEN clock - t ELSE 0)
    BY <1>1 DEF LimiterInv, Repaid
  <2>3. spent[k][clock] = 0
    BY <2>2, <1>t
  <2>4. spent[k][clock] + r = Burst + (clock - clock)
    BY <2>1, <2>3, <1>t
  <2> HIDE DEF r
  <2> QED BY <2>1, <2>2, <2>4, <1>t DEF r
<1>2. CASE k \in DOMAIN buckets
  <2> DEFINE n == buckets[k].tokens
             l == buckets[k].last
  <2>1. n \in 0..Burst /\ l \in 0..clock
    BY <1>2 DEF LimiterInv, LimiterTypeOK
  <2>2. /\ \A t \in 0..l : spent[k][t] + n <= Burst + (l - t)
        /\ \E t \in 0..l : spent[k][t] + n = Burst + (l - t)
        /\ \A t \in 0..MaxTime : t > l => spent[k][t] = 0
    BY <1>2 DEF LimiterInv, Tight
  <2>3. r = IF n + clock - l > Burst THEN Burst ELSE n + clock - l
    BY <1>2 DEF Refill
  <2> HIDE DEF r, n, l
  <2>4. CASE n + clock - l > Burst
    <3>0. r = Burst
      BY <2>3, <2>4
    <3>1. ASSUME NEW t \in 0..clock PROVE spent[k][t] + r <= Burst + (clock - t)
      <4>1. CASE t <= l
        BY <4>1, <3>0, <2>1, <2>2, <2>4, <1>t
      <4>2. CASE t > l
        BY <4>2, <3>0, <2>2, <1>t
      <4> QED BY <4>1, <4>2, <2>1, <1>t
    <3>2. spent[k][clock] <= 0
      BY <3>1, <3>0, <1>t
    <3>3. spent[k][clock] + r = Burst + (clock - clock)
      BY <3>2, <3>0, <1>t
    <3> QED BY <3>0, <3>1, <3>3, <2>1, <2>2, <1>t DEF r
  <2>5. CASE ~ (n + clock - l > Burst)
    <3>0. r = n + clock - l
      BY <2>3, <2>5
    <3>1. PICK u \in 0..l : spent[k][u] + n = Burst + (l - u)
      BY <2>2
    <3>2. u \in 0..clock /\ spent[k][u] + r = Burst + (clock - u)
      BY <3>0, <3>1, <2>1, <1>t
    <3>3. ASSUME NEW t \in 0..clock PROVE spent[k][t] + r <= Burst + (clock - t)
      <4>1. CASE t <= l
        BY <4>1, <3>0, <2>1, <2>2, <1>t
      <4>2. CASE t > l
        <5>1. spent[k][t] = 0
          BY <4>2, <2>2, <1>t
        <5> QED BY <5>1, <4>2, <3>0, <2>1, <2>5, <1>t
      <4> QED BY <4>1, <4>2, <2>1, <1>t
    <3> QED BY <3>0, <3>2, <3>3, <2>1, <2>2, <2>5, <1>t DEF r
  <2> QED BY <2>4, <2>5
<1> QED BY <1>1, <1>2

LEMMA LimiterInvNext == LimiterInv /\ [LimiterNext]_limiterVars => LimiterInv'
<1> SUFFICES ASSUME LimiterInv, [LimiterNext]_limiterVars PROVE LimiterInv'
  OBVIOUS
<1>t. /\ clock \in 0..MaxTime /\ clock \in Nat
      /\ Burst \in Nat /\ Cost \in Nat /\ Cutoff \in Nat /\ Burst <= Cutoff /\ MaxTime \in Nat
      /\ spent \in [Keys -> [0..MaxTime -> Nat]]
  BY LimiterAssumption DEF LimiterInv, LimiterTypeOK
<1>1. CASE UNCHANGED limiterVars
  BY <1>1 DEF limiterVars, LimiterInv, LimiterTypeOK, Tight, Repaid
<1>2. CASE Tick
  <2>1. LimiterTypeOK'
    BY <1>2, <1>t DEF Tick, LimiterInv, LimiterTypeOK
  <2>2. ASSUME NEW k \in DOMAIN buckets' PROVE Tight(k)'
    BY <1>2 DEF Tick, LimiterInv, Tight
  <2>3. ASSUME NEW k \in Keys \ DOMAIN buckets' PROVE Repaid(k)'
    BY <1>2, <1>t DEF Tick, LimiterInv, Repaid
  <2> QED BY <2>1, <2>2, <2>3 DEF LimiterInv
<1>3. ASSUME NEW k \in Keys, Refuse(k) PROVE LimiterInv'
  <2>1. DOMAIN buckets' = DOMAIN buckets \cup {k}
    BY <1>3 DEF Refuse, Store
  <2>2. /\ buckets'[k].tokens = Refill(k) /\ buckets'[k].last = clock
        /\ \A j \in DOMAIN buckets : j # k => buckets'[j] = buckets[j]
    BY <1>3 DEF Refuse, Store
  <2>3. UNCHANGED <<clock, spent>>
    BY <1>3 DEF Refuse
  <2>4. LimiterTypeOK'
    <3>1. Refill(k) \in 0..Burst
      BY RefillIsTight
    <3>2. buckets'[k].tokens \in 0..Burst /\ buckets'[k].last \in 0..clock
      BY <3>1, <2>2, <1>t
    <3>3. ASSUME NEW j \in DOMAIN buckets', j # k
          PROVE  buckets'[j].tokens \in 0..Burst /\ buckets'[j].last \in 0..clock
      BY <3>3, <2>1, <2>2 DEF LimiterInv, LimiterTypeOK
    <3>4. DOMAIN buckets' \subseteq Keys
      BY <2>1 DEF LimiterInv, LimiterTypeOK
    <3> QED BY SMTT(30), <3>2, <3>3, <3>4, <2>3, <1>t DEF LimiterTypeOK
  <2>5. Tight(k)'
    BY <2>2, <2>3, RefillIsTight DEF Tight
  <2>6. ASSUME NEW j \in DOMAIN buckets', j # k PROVE Tight(j)'
    BY <2>1, <2>2, <2>3, <2>6 DEF LimiterInv, Tight
  <2>7. ASSUME NEW j \in Keys \ DOMAIN buckets' PROVE Repaid(j)'
    BY <2>1, <2>3 DEF LimiterInv, Repaid
  <2> QED BY <2>4, <2>5, <2>6, <2>7 DEF LimiterInv
<1>4. ASSUME NEW k \in Keys, Grant(k) PROVE LimiterInv'
  <2> DEFINE s == Store(k, Refill(k) - Cost)
             r == Refill(k)
  <2>0. r \in Cost..Burst /\ r \in Nat
    BY <1>4, <1>t, RefillIsTight DEF Grant
  <2>1. /\ DOMAIN s = DOMAIN buckets \cup {k}
        /\ s[k].tokens = r - Cost /\ s[k].last = clock
        /\ \A j \in DOMAIN buckets : j # k => s[j] = buckets[j]
    BY DEF Store
  <2>2. /\ UNCHANGED clock
        /\ \A j \in Keys : j # k => spent'[j] = spent[j]
        /\ \A t \in 0..MaxTime :
              spent'[k][t] = IF t <= clock THEN spent[k][t] + Cost ELSE spent[k][t]
        /\ spent' \in [Keys -> [0..MaxTime -> Nat]]
    BY <1>4, <1>t DEF Grant
  <2> HIDE DEF s, r
  <2>3. /\ DOMAIN buckets' \subseteq DOMAIN s
        /\ \A j \in DOMAIN buckets' : buckets'[j] = s[j]
        /\ \A j \in DOMAIN s \ DOMAIN buckets' : ~ (s[j].last >= clock - Cutoff)
    <3>1. buckets' = Sweep(s)
      BY <1>4 DEF Grant, s, r
    <3> QED BY <3>1 DEF Sweep
  <2>4. k \in DOMAIN buckets'
    BY <2>1, <2>3, <1>t
  <2>5. ASSUME NEW j \in DOMAIN buckets' PROVE j # k => j \in DOMAIN buckets /\ buckets'[j] = buckets[j]
    BY <2>1, <2>3
  <2>6. buckets'[k].tokens = r - Cost /\ buckets'[k].last = clock
    BY <2>1, <2>3, <2>4
  <2>7. LimiterTypeOK'
    <3>1. DOMAIN buckets' \subseteq Keys
      BY <2>1, <2>3 DEF LimiterInv, LimiterTypeOK
    <3>2. buckets'[k].tokens \in 0..Burst /\ buckets'[k].last \in 0..clock
      <4>1. r - Cost \in 0..Burst /\ clock \in 0..clock
        BY <2>0, <1>t
      <4> QED BY <4>1, <2>6
    <3>3. ASSUME NEW j \in DOMAIN buckets', j # k
          PROVE  buckets'[j].tokens \in 0..Burst /\ buckets'[j].last \in 0..clock
      BY <3>3, <2>5 DEF LimiterInv, LimiterTypeOK
    <3> QED BY SMTT(30), <3>1, <3>2, <3>3, <2>2, <1>t DEF LimiterTypeOK
  <2>8. Tight(k)'
    <3>1. /\ \A t \in 0..clock : spent[k][t] + r <= Burst + (clock - t)
          /\ \E t \in 0..clock : spent[k][t] + r = Burst + (clock - t)
          /\ \A t \in 0..MaxTime : t > clock => spent[k][t] = 0
      BY RefillIsTight DEF r
    <3>2. \A t \in 0..MaxTime : spent[k][t] \in Nat
      BY <1>t
    <3>3. \A t \in 0..clock : spent'[k][t] + (r - Cost) = spent[k][t] + r
      BY <2>2, <2>0, <3>2, <1>t
    <3>4. ASSUME NEW t \in 0..MaxTime, t > clock PROVE spent'[k][t] = 0
      <4>1. ~ (t <= clock) /\ spent[k][t] = 0
        BY <3>1, <3>4, <1>t
      <4> QED BY <4>1, <2>2
    <3> QED BY <3>1, <3>3, <3>4, <2>2, <2>6 DEF Tight
  <2>9. ASSUME NEW j \in DOMAIN buckets', j # k PROVE Tight(j)'
    <3>1. spent'[j] = spent[j] /\ buckets'[j] = buckets[j] /\ Tight(j)
      BY <2>9, <2>5, <2>2 DEF LimiterInv, LimiterTypeOK
    <3> QED BY <3>1 DEF Tight
  <2>10. ASSUME NEW j \in Keys \ DOMAIN buckets' PROVE Repaid(j)'
    <3>1. j # k /\ spent'[j] = spent[j]
      BY <2>4, <2>2
    <3>2. CASE j \notin DOMAIN buckets
      BY <3>1, <3>2, <2>2 DEF LimiterInv, Repaid
    <3>3. CASE j \in DOMAIN buckets
      <4> DEFINE l == buckets[j].last
                 n == buckets[j].tokens
      <4>1. l \in 0..clock /\ n \in 0..Burst /\ ~ (l >= clock - Cutoff)
        BY <3>1, <3>3, <2>1, <2>3 DEF LimiterInv, LimiterTypeOK
      <4>2. /\ \A t \in 0..l : spent[j][t] + n <= Burst + (l - t)
            /\ \A t \in 0..MaxTime : t > l => spent[j][t] = 0
        BY <3>3 DEF LimiterInv, Tight
      <4>3. \A t \in 0..MaxTime : spent[j][t] \in Nat
        BY <1>t
      <4> HIDE DEF l, n
      <4>4. ASSUME NEW t \in 0..MaxTime
            PROVE spent[j][t] <= (IF t <= clock THEN clock - t ELSE 0)
        <5>1. CASE t <= l
          BY SMTT(30), <5>1, <4>1, <4>2, <4>3, <1>t
        <5>2. CASE t > l
          BY <5>2, <4>2, <1>t
        <5> QED BY <5>1, <5>2, <4>1, <1>t
      <4> QED BY <4>4, <3>1, <2>2 DEF Repaid
    <3> QED BY <3>2, <3>3
  <2> QED BY <2>7, <2>8, <2>9, <2>10 DEF LimiterInv
<1> QED BY <1>1, <1>2, <1>3, <1>4 DEF LimiterNext

LEMMA LimiterInvImpliesExact == LimiterInv => ExactLimit
<1> SUFFICES ASSUME LimiterInv, NEW k \in Keys
             PROVE  Refill(k) >= Cost
                      <=> \A t \in 0..clock : spent[k][t] + Cost <= Burst + (clock - t)
  BY DEF ExactLimit
<1> DEFINE r == Refill(k)
<1>1. /\ clock \in 0..MaxTime /\ Burst \in Nat /\ Cost \in Nat /\ MaxTime \in Nat
      /\ \A t \in 0..MaxTime : spent[k][t] \in Nat
  BY LimiterAssumption DEF LimiterInv, LimiterTypeOK
<1>2. /\ r \in 0..Burst
      /\ \A t \in 0..clock : spent[k][t] + r <= Burst + (clock - t)
      /\ \E t \in 0..clock : spent[k][t] + r = Burst + (clock - t)
  BY RefillIsTight
<1> HIDE DEF r
<1>3. PICK u \in 0..clock : spent[k][u] + r = Burst + (clock - u)
  BY <1>2
<1>4. r >= Cost => \A t \in 0..clock : spent[k][t] + Cost <= Burst + (clock - t)
  BY <1>1, <1>2
<1>5. spent[k][u] + Cost <= Burst + (clock - u) => r >= Cost
  BY <1>1, <1>2, <1>3
<1> QED BY <1>4, <1>5 DEF r

\* For every rate, burst, cutoff and table size with a cutoff no shorter than the
\* time a bucket takes to fill: allow grants a request if and only if every window
\* ending now has room for it, whatever the sweeps have forgotten.
THEOREM LimiterIsExact == LimiterSpec => []ExactLimit
<1>1. LimiterSpec => []LimiterInv
  BY LimiterInvInit, LimiterInvNext, PTL DEF LimiterSpec
<1> QED BY <1>1, LimiterInvImpliesExact, PTL

\* The table grows past its limit only while all of its buckets are recent: a refused
\* request has a bucket already, and a granted one is followed by the sweep.
THEOREM LimiterTableStaysRecent == LimiterSpec => GrowthIsRecent
<1> DEFINE Grows == Cardinality(DOMAIN buckets') > Cardinality(DOMAIN buckets)
           Recent == \/ Cardinality(DOMAIN buckets') <= MaxBuckets
                     \/ \A k \in DOMAIN buckets' : buckets'[k].last >= clock - Cutoff
<1>1. LimiterSpec => []LimiterInv
  BY LimiterInvInit, LimiterInvNext, PTL DEF LimiterSpec
<1>2. ASSUME LimiterInv, LimiterNext, Grows PROVE Recent
  <2>1. DOMAIN buckets' # DOMAIN buckets
    <3>1. IsFiniteSet(DOMAIN buckets)
      BY <1>2, LimiterAssumption, FS_Subset DEF LimiterInv, LimiterTypeOK
    <3>2. Cardinality(DOMAIN buckets) \in Nat
      BY <3>1, FS_CardinalityType
    <3> QED BY <1>2, <3>2
  <2>2. PICK k \in Keys : Grant(k) \/ Refuse(k)
    BY <1>2, <2>1 DEF LimiterNext, Tick
  <2>3. ~ Refuse(k)
    <3>1. k \in DOMAIN buckets /\ Store(k, Refill(k)) = buckets' => DOMAIN buckets' = DOMAIN buckets
      BY DEF Store
    <3>2. k \notin DOMAIN buckets => Refill(k) = Burst
      BY DEF Refill
    <3> QED BY <3>1, <3>2, <2>1, LimiterAssumption DEF Refuse
  <2>4. buckets' = Sweep(Store(k, Refill(k) - Cost))
    BY <2>2, <2>3 DEF Grant
  <2> DEFINE s == Store(k, Refill(k) - Cost)
  <2>5. CASE Cardinality(DOMAIN s) > MaxBuckets
    BY <2>4, <2>5 DEF Sweep
  <2>6. CASE ~ (Cardinality(DOMAIN s) > MaxBuckets)
    <3>1. buckets' = s
      BY <2>4, <2>6 DEF Sweep
    <3>2. DOMAIN s = DOMAIN buckets \cup {k} /\ DOMAIN s \subseteq Keys
      BY <1>2 DEF Store, LimiterInv, LimiterTypeOK
    <3> HIDE DEF s
    <3>3. Cardinality(DOMAIN s) \in Nat
      BY <3>2, LimiterAssumption, FS_Subset, FS_CardinalityType
    <3> QED BY <3>1, <3>3, <2>6, LimiterAssumption
  <2> QED BY <2>5, <2>6
<1>3. LimiterInv /\ [LimiterNext]_limiterVars => [Grows => Recent]_limiterVars
  BY <1>2
<1> QED BY <1>1, <1>3, PTL DEF LimiterSpec, GrowthIsRecent

-----------------------------------------------------------------------------
(* The length of a WebSocket frame.                                        *)

\* readFrame finds the length that writeFrame put into the header, for every length, the
\* boundaries of the three forms included.
THEOREM LengthRoundTrip ==
  ASSUME NEW n \in Nat
  PROVE  DecodeLen(EncodeLen(n)) = n
<1>1. n < Len16 => n % Len16 = n
  BY FramesAssumption
<1>2. CASE n < Len7
  BY <1>2, FramesAssumption DEF EncodeLen, DecodeLen
<1>3. CASE n >= Len7 /\ n < Len16
  <2>0. ~ (n < Len7) /\ ~ (n >= Len16) /\ n % Len16 = n
    BY <1>1, <1>3, FramesAssumption
  <2>1. EncodeLen(n) = [tag |-> Len7, ext |-> n % Len16]
    BY <2>0, <1>3 DEF EncodeLen
  <2> QED BY <2>0, <2>1, <1>3, FramesAssumption DEF DecodeLen
<1>4. CASE n >= Len16
  <2>1. EncodeLen(n) = [tag |-> Len7 + 1, ext |-> n]
    BY <1>4, FramesAssumption DEF EncodeLen
  <2> QED BY <2>1, <1>4, FramesAssumption DEF DecodeLen
<1> QED BY <1>2, <1>3, <1>4, FramesAssumption

\* A length that readFrame takes is written in one way only, the one writeFrame uses: the
\* two lengths of a frame's header never disagree on where the next frame begins.
THEOREM LengthIsCanonical ==
  ASSUME NEW l \in [tag : 0..Len7 + 1, ext : Nat],
         l.tag < Len7 => l.ext = 0, l.tag = Len7 => l.ext < Len16,
         DecodeLen(l) # Bad
  PROVE  EncodeLen(DecodeLen(l)) = l
<1>0. l = [tag |-> l.tag, ext |-> l.ext] /\ l.tag \in 0..Len7 + 1 /\ l.ext \in Nat
  OBVIOUS
<1>1. l.ext < Len16 => l.ext % Len16 = l.ext
  BY <1>0, FramesAssumption
<1>2. CASE l.tag < Len7
  <2>1. DecodeLen(l) = l.tag
    BY <1>0, <1>2, FramesAssumption DEF DecodeLen
  <2> QED BY <2>1, <1>0, <1>2, FramesAssumption DEF EncodeLen
<1>3. CASE l.tag = Len7
  <2>1. DecodeLen(l) = l.ext /\ l.ext >= Len7
    BY <1>0, <1>3, FramesAssumption DEF DecodeLen
  <2> QED BY <2>1, <1>0, <1>1, <1>3, FramesAssumption DEF EncodeLen
<1>4. CASE l.tag = Len7 + 1
  <2>1. DecodeLen(l) = l.ext /\ l.ext >= Len16
    BY <1>0, <1>4, FramesAssumption DEF DecodeLen
  <2> QED BY <2>1, <1>0, <1>4, FramesAssumption DEF EncodeLen
<1> QED BY <1>0, <1>2, <1>3, <1>4, FramesAssumption

-----------------------------------------------------------------------------
(* The deadlines of a connection.                                          *)

\* The hub's read deadline, and the agent's while pongs can be written, were renewed no
\* longer ago than the agent's ticker: what LinkIsKept needs to be inductive.
LinkInv ==
    /\ LinkTypeOK
    /\ ~ cut => hubLeft >= ReadLimit - (PingEvery - pingLeft)
    /\ ~ cut /\ writeLeft # 0 => agentLeft >= ReadLimit - (PingEvery - pingLeft)
    /\ lost = "hub" => cut
    /\ lost = "agent" => cut \/ writeLeft = 0

LEMMA LinkInvInit == LinkInit => LinkInv
<1> SUFFICES ASSUME LinkInit PROVE LinkInv
  OBVIOUS
<1>1. cut \in BOOLEAN /\ busy \in BOOLEAN
  BY Zenon DEF LinkInit
<1>2. /\ lost = "no" /\ backoff = 1 /\ pingLeft = PingEvery /\ writeLeft = Unset
      /\ agentLeft = ReadLimit /\ hubLeft = ReadLimit
  BY DEF LinkInit
<1> QED
  BY <1>1, <1>2, KeepAliveAssumption DEF LinkInv, LinkTypeOK, Unset

LEMMA LinkInvNext == LinkInv /\ [LinkNext]_linkVars => LinkInv'
<1> SUFFICES ASSUME LinkInv, [LinkNext]_linkVars PROVE LinkInv'
  OBVIOUS
<1> USE KeepAliveAssumption DEF LinkInv, LinkTypeOK, Unset
<1>1. CASE LinkTick
  BY <1>1 DEF LinkTick
<1>2. CASE Cut
  BY <1>2 DEF Cut
<1>3. CASE Ping
  BY <1>3 DEF Ping, Beat
<1>4. CASE Call
  <2>1. busy' \in BOOLEAN
    BY <1>4, Zenon DEF Call
  <2>2. /\ writeLeft' = WriteLimit
        /\ UNCHANGED <<lost, pingLeft, hubLeft, cut, backoff>> /\ lost = "no"
        /\ agentLeft' = IF cut THEN agentLeft ELSE ReadLimit
    BY <1>4 DEF Call
  <2> QED
    BY <2>1, <2>2
<1>5. CASE Return
  <2>1. busy' \in BOOLEAN
    BY <1>5, Zenon DEF Return
  <2>2. /\ UNCHANGED <<lost, pingLeft, agentLeft, writeLeft, cut, backoff>>
        /\ hubLeft' \in {hubLeft, ReadLimit}
    BY <1>5 DEF Return
  <2> QED
    BY <2>1, <2>2
<1>6. CASE AgentTimeout
  BY <1>6 DEF AgentTimeout
<1>7. CASE HubTimeout
  BY <1>7 DEF HubTimeout
<1>8. CASE Reconnect
  <2>1. cut' \in BOOLEAN /\ busy' \in BOOLEAN
    BY <1>8, Zenon DEF Reconnect, Fresh
  <2>2. /\ lost' = "no" /\ pingLeft' = PingEvery /\ writeLeft' = Unset
        /\ agentLeft' = ReadLimit /\ hubLeft' = ReadLimit
    BY <1>8 DEF Reconnect, Fresh
  <2>3. backoff' \in 1..MaxBackoff
    BY <1>8 DEF Reconnect
  <2> QED
    BY <2>1, <2>2, <2>3
<1>9. CASE UNCHANGED linkVars
  BY <1>9 DEF linkVars
<1> HIDE DEF LinkInv
<1> QED
  BY <1>1, <1>2, <1>3, <1>4, <1>5, <1>6, <1>7, <1>8, <1>9 DEF LinkNext

\* With any ping period shorter than the read limit, and any write limit, a connection
\* whose path works is given up by the agent only, after a pong that readLoop could not
\* write because the deadline Hub.Call had set was over.
THEOREM DeadlinesKeepLink == LinkSpec => []LinkIsKept
<1>1. LinkInv => LinkIsKept
  BY KeepAliveAssumption
     DEF LinkInv, LinkTypeOK, LinkIsKept, HubKeepsLink, PongsUnlessExpired, Unset
<1> QED
  BY LinkInvInit, LinkInvNext, <1>1, PTL DEF LinkSpec
=============================================================================
