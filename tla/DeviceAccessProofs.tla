------------------------- MODULE DeviceAccessProofs -------------------------
(***************************************************************************)
(* The hub with revokeDevice and agentConnect, for any number of devices,  *)
(* connections and calls.                                                  *)
(*                                                                         *)
(* A connection in the routing table has gone through agentConnect for     *)
(* that device, and a connection that authenticated before a revocation    *)
(* has been counted as stale by it.                                        *)
(***************************************************************************)
EXTENDS DeviceAccess, RelayHubProofs

Ended == {"looked_up", "lost"}

LinkInv ==
    /\ \A d \in Devices : revoker[d] # "idle" => d \in revoked
    /\ \A d \in Devices : devices[d] # NoConn =>
           link[devices[d]] = "registered" /\ DeviceOf[devices[d]] = d
    /\ \A c \in Conns : link[c] = "authenticated" /\ revoker[DeviceOf[c]] \in Ended => c \in stale

AccessInv == IInv /\ AccessTypeOK /\ LinkInv /\ RevokedOnlyStale

\* What the hub does to a connection once it is registered: the table only loses
\* entries, a close that has begun goes on, and who leaves doomed is being closed.
LEMMA HubStepFrame ==
  ASSUME TypeOK, NEW c \in Conns, HubStep(c)
  PROVE  /\ [Next]_vars /\ UNCHANGED accessVars
         /\ \A d \in Devices : devices'[d] \in {devices[d], NoConn}
         /\ \A x \in Conns : closing[x] # "open" => closing'[x] # "open"
         /\ \A x \in Conns : x \in doomed => x \in doomed' \/ closing'[x] # "open"
<1> USE DEF TypeOK, CloseStates
<1>1. ASSUME CloseOld(c)
      PROVE  devices' = devices /\ doomed' = doomed /\ closing' = Enter(old[c])
  BY <1>1 DEF CloseOld
<1>2. ASSUME CloseDoomed(c)
      PROVE  devices' = devices /\ doomed' = doomed \ {c} /\ closing' = Enter(c)
  BY <1>2 DEF CloseDoomed
<1>3. ASSUME StartReadLoop(c)
      PROVE  devices' = devices /\ doomed' = doomed /\ closing' = closing
  BY <1>3 DEF StartReadLoop
<1>4. ASSUME ReadFails(c)
      PROVE  devices' = devices /\ doomed' = doomed /\ closing' = Enter(c)
  BY SMTT(30), <1>4 DEF ReadFails
<1>5. ASSUME CloseStep(c)
      PROVE  /\ \A d \in Devices : devices'[d] \in {devices[d], NoConn}
             /\ doomed' = doomed
             /\ \A x \in Conns : closing[x] # "open" => closing'[x] # "open"
  BY <1>5, HubAssumption DEF CloseStep, ShutSocket, SignalDone, Unmap, FailPending
<1>6. \A e \in Conns \cup {NoConn} : \A x \in Conns :
          /\ closing[x] # "open" => Enter(e)[x] # "open"
          /\ x = e => Enter(e)[x] # "open"
  BY DEF Enter
<1>7. old[c] \in Conns \cup {NoConn}
  OBVIOUS
<1>8. [Next]_vars /\ UNCHANGED accessVars
  BY DEF HubStep, Next, RegisterStep, ReadStep
<1> QED
  BY <1>1, <1>2, <1>3, <1>4, <1>5, <1>6, <1>7, <1>8 DEF HubStep

\* Every step of the handlers and of the hub is a step or a stutter of RelayHub.
LEMMA AccessStepIsHubStep ==
  ASSUME TypeOK, [AccessNext]_allVars
  PROVE  [Next]_vars
<1>1. ASSUME NEW c \in Conns, AuthenticateDevice(c) \/ UpgradeFails(c) PROVE UNCHANGED vars
  BY <1>1 DEF AuthenticateDevice, UpgradeFails
<1>2. ASSUME NEW c \in Conns, Connect(c) PROVE Next
  BY <1>2 DEF Connect, Next, RegisterStep
<1>3. ASSUME NEW c \in Conns, HubStep(c) PROVE [Next]_vars
  BY <1>3, HubStepFrame
<1>4. ASSUME NEW s \in Subjects, NEW d \in Devices, RevokeDevice(s, d) \/ RevokeLost(s, d)
      PROVE  UNCHANGED vars
  BY SMTT(30), <1>4 DEF RevokeDevice, RevokeLost
<1>5. ASSUME NEW d \in Devices, RevokeDisconnect(d) PROVE [Next]_vars
  BY <1>5 DEF RevokeDisconnect, Next
<1>6. ASSUME AccessIdle \/ UNCHANGED allVars PROVE UNCHANGED vars
  BY <1>6 DEF AccessIdle, allVars
<1> QED
  BY <1>1, <1>2, <1>3, <1>4, <1>5, <1>6 DEF AccessNext

\* Every step preserves LinkInv and RevokedOnlyStale: a Connect after the end of a
\* revocation registers a stale connection, and RevokeLost counts the one it leaves.
LEMMA AccessStep ==
  ASSUME AccessInv, [AccessNext]_allVars
  PROVE  AccessTypeOK' /\ LinkInv' /\ RevokedOnlyStale'
<1>0. /\ TypeOK /\ AccessTypeOK /\ LinkInv /\ RevokedOnlyStale /\ TypeOK'
      /\ devices \in [Devices -> Conns \cup {NoConn}] /\ doomed \subseteq Conns
      /\ closing \in [Conns -> CloseStates]
      /\ revoked \subseteq Devices /\ stale \subseteq Conns
      /\ link \in [Conns -> {"none", "authenticated", "failed", "registered"}]
      /\ revoker \in [Devices -> {"idle", "stored", "looked_up", "lost"}]
      /\ DeviceOf \in [Conns -> Devices] /\ NoConn \notin Conns
  BY ZenonT(30), HubAssumption, AccessStepIsHubStep, TypeStep
  DEF AccessInv, IInv, TypeOK, AccessTypeOK
<1> DEFINE Goal == AccessTypeOK' /\ LinkInv' /\ RevokedOnlyStale'
<1> USE DEF Ended
<1>1. ASSUME UNCHANGED allVars PROVE Goal
  BY <1>0, <1>1 DEF allVars, accessVars, vars, AccessTypeOK, LinkInv, RevokedOnlyStale
<1>2. ASSUME NEW c \in Conns, AuthenticateDevice(c) PROVE Goal
  <2>1. /\ link' = [link EXCEPT ![c] = "authenticated"] /\ link[c] = "none"
        /\ DeviceOf[c] \notin revoked
        /\ UNCHANGED <<devices, doomed, closing, revoked, revoker, stale>>
    BY <1>2 DEF AuthenticateDevice, vars
  <2>2. AccessTypeOK'
    BY <1>0, <2>1 DEF AccessTypeOK
  <2>3. LinkInv'
    BY <1>0, <2>1 DEF LinkInv
  <2>4. RevokedOnlyStale'
    BY <1>0, <2>1 DEF RevokedOnlyStale
  <2> QED
    BY <2>2, <2>3, <2>4
<1>3. ASSUME NEW c \in Conns, UpgradeFails(c) PROVE Goal
  <2>1. /\ link' = [link EXCEPT ![c] = "failed"] /\ link[c] = "authenticated"
        /\ UNCHANGED <<devices, doomed, closing, revoked, revoker, stale>>
    BY <1>3 DEF UpgradeFails, vars
  <2>2. AccessTypeOK'
    BY <1>0, <2>1 DEF AccessTypeOK
  <2>3. LinkInv'
    BY <1>0, <2>1 DEF LinkInv
  <2>4. RevokedOnlyStale'
    BY <1>0, <2>1 DEF RevokedOnlyStale
  <2> QED
    BY <2>2, <2>3, <2>4
<1>4. ASSUME NEW c \in Conns, Connect(c) PROVE Goal
  <2>1. /\ link' = [link EXCEPT ![c] = "registered"] /\ link[c] = "authenticated"
        /\ devices' = [devices EXCEPT ![DeviceOf[c]] = c]
        /\ UNCHANGED <<doomed, closing, revoked, revoker, stale>>
    BY ZenonT(30), <1>4 DEF Connect, Register
  <2>2. AccessTypeOK'
    BY <1>0, <2>1 DEF AccessTypeOK
  <2>3. LinkInv'
    BY <1>0, <2>1 DEF LinkInv
  <2>4. revoker[DeviceOf[c]] \in Ended => c \in stale
    BY <1>0, <2>1 DEF LinkInv
  <2>5. RevokedOnlyStale'
    BY <1>0, <2>1, <2>4 DEF RevokedOnlyStale
  <2> QED
    BY <2>2, <2>3, <2>5
<1>5. ASSUME NEW c \in Conns, HubStep(c) PROVE Goal
  <2>1. /\ UNCHANGED <<revoked, link, revoker, stale>>
        /\ \A d \in Devices : devices'[d] \in {devices[d], NoConn}
        /\ \A x \in Conns : closing[x] # "open" => closing'[x] # "open"
        /\ \A x \in Conns : x \in doomed => x \in doomed' \/ closing'[x] # "open"
    BY Zenon, <1>0, <1>5, HubStepFrame DEF accessVars
  <2>2. AccessTypeOK'
    BY ZenonT(30), <1>0, <2>1 DEF AccessTypeOK
  <2>3. LinkInv'
    BY SMTT(30), <1>0, <2>1 DEF LinkInv
  <2>4. RevokedOnlyStale'
    BY <1>0, <2>1 DEF RevokedOnlyStale
  <2> QED
    BY <2>2, <2>3, <2>4
<1>6. ASSUME NEW s \in Subjects, NEW d \in Devices, RevokeDevice(s, d) PROVE Goal
  <2>1. /\ revoked' = revoked \cup {d} /\ revoker' = [revoker EXCEPT ![d] = "stored"]
        /\ UNCHANGED <<devices, doomed, closing, link, stale>>
    BY <1>6 DEF RevokeDevice, vars
  <2>2. AccessTypeOK'
    BY <1>0, <2>1 DEF AccessTypeOK
  <2>3. LinkInv'
    BY <1>0, <2>1 DEF LinkInv
  <2>4. RevokedOnlyStale'
    BY <1>0, <2>1 DEF RevokedOnlyStale
  <2> QED
    BY <2>2, <2>3, <2>4
<1>7. ASSUME NEW s \in Subjects, NEW d \in Devices, RevokeLost(s, d) PROVE Goal
  <2>1. /\ revoked' = revoked \cup {d} /\ revoker' = [revoker EXCEPT ![d] = "lost"]
        /\ stale' = stale \cup
             {c \in Conns : DeviceOf[c] = d /\ link[c] \in {"authenticated", "registered"}}
        /\ UNCHANGED <<devices, doomed, closing, link>>
    BY <1>7 DEF RevokeLost, vars
  <2>2. AccessTypeOK'
    BY <1>0, <2>1 DEF AccessTypeOK
  <2>3. LinkInv'
    BY <1>0, <2>1 DEF LinkInv
  <2>4. devices[d] # NoConn => devices[d] \in stale'
    BY <1>0, <2>1 DEF LinkInv
  <2>5. RevokedOnlyStale'
    BY <1>0, <2>1, <2>4 DEF RevokedOnlyStale
  <2> QED
    BY <2>2, <2>3, <2>5
<1>8. ASSUME NEW d \in Devices, RevokeDisconnect(d) PROVE Goal
  <2>1. /\ revoker[d] = "stored" /\ revoker' = [revoker EXCEPT ![d] = "looked_up"]
        /\ stale' = stale \cup {c \in Conns : DeviceOf[c] = d /\ link[c] = "authenticated"}
        /\ UNCHANGED <<revoked, link>>
    BY SMTT(30), <1>8 DEF RevokeDisconnect
  <2>2. /\ UNCHANGED <<devices, closing>> /\ doomed \subseteq doomed'
        /\ devices[d] # NoConn => devices[d] \in doomed'
    BY <1>8 DEF RevokeDisconnect, Disconnect, vars
  <2>3. AccessTypeOK'
    BY <1>0, <2>1 DEF AccessTypeOK
  <2>4. LinkInv'
    BY <1>0, <2>1, <2>2 DEF LinkInv
  <2>5. RevokedOnlyStale'
    BY SMTT(30), <1>0, <2>1, <2>2 DEF RevokedOnlyStale
  <2> QED
    BY <2>3, <2>4, <2>5
<1>9. AccessIdle => UNCHANGED allVars
  BY DEF AccessIdle
<1> HIDE DEF Goal
<1>10. Goal
  BY <1>1, <1>2, <1>3, <1>4, <1>5, <1>6, <1>7, <1>8, <1>9 DEF AccessNext
<1> QED
  BY <1>10 DEF Goal

\* Once revokeDevice has ended, a connection that is still open and routed to is about
\* to be closed, or is one that the revocation missed in one of the two known ways.
THEOREM RevocationMissesOnlyStale == AccessSpec => []RevokedOnlyStale
<1>1. AccessInit => AccessInv
  <2> SUFFICES ASSUME AccessInit PROVE AccessInv
    OBVIOUS
  <2>1. IInv
    BY InitIInv DEF AccessInit
  <2>2. AccessTypeOK
    BY <2>1 DEF AccessInit, AccessTypeOK, IInv
  <2>3. LinkInv /\ RevokedOnlyStale
    BY HubAssumption DEF AccessInit, Init, LinkInv, RevokedOnlyStale
  <2> QED
    BY <2>1, <2>2, <2>3 DEF AccessInv
<1>2. AccessInv /\ [AccessNext]_allVars => AccessInv'
  <2> SUFFICES ASSUME AccessInv, [AccessNext]_allVars PROVE AccessInv'
    OBVIOUS
  <2>1. IInv'
    BY AccessStepIsHubStep, TypeStep, CallInvStep, SlotInvStep, ClosedStep, NoOrphanStep
    DEF AccessInv, IInv
  <2> QED
    BY <2>1, AccessStep DEF AccessInv
<1>3. AccessInv => RevokedOnlyStale
  BY DEF AccessInv
<1> QED
  BY <1>1, <1>2, <1>3, PTL DEF AccessSpec
=============================================================================
