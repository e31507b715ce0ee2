--------------------------- MODULE RelayHubProofs ---------------------------
(***************************************************************************)
(* Proofs about the relay hub for any number of devices, connections and   *)
(* calls.                                                                  *)
(*                                                                         *)
(* The inductive invariant of the hub is IInv.  InFlightBounded is not     *)
(* inductive: to keep it over Release one has to know that the releasing   *)
(* call has left the pending map already (CallInv), and to keep sem a      *)
(* natural number one has to know that it counts the holders (SlotInv).    *)
(***************************************************************************)
EXTENDS RelayHub, FiniteSetTheorems, TLAPS

\* A started call has a connection, and a pending entry belongs to a call of
\* that connection which has not yet run its deferred delete.
CallInv ==
    /\ \A k \in Calls : pc[k] \in SlotStates \cup {"acquire"} => conn[k] \in Conns
    /\ \A c \in Conns : \A k \in pending[c] : conn[k] = c /\ pc[k] \in PendStates

\* The counting part of InFlightBounded.
SlotInv ==
    \A c \in Conns : sem[c] = Cardinality(Holders(c)) /\ sem[c] <= MaxInFlight

IInv == TypeOK /\ CallInv /\ SlotInv /\ ClosedHasNoPending /\ NoOrphanConn

\* Holders are a finite set, so counting them is meaningful.
LEMMA HoldersFinite ==
  ASSUME NEW c \in Conns
  PROVE  IsFiniteSet(Holders(c)) /\ Cardinality(Holders(c)) \in Nat
<1>1. Holders(c) \in SUBSET Calls
  BY DEF Holders
<1>2. IsFiniteSet(Holders(c))
  BY <1>1, FS_Subset, HubAssumption
<1> QED
  BY <1>2, FS_CardinalityType

\* The hub starts in a state of the invariant.
LEMMA InitIInv == Init => IInv
<1> SUFFICES ASSUME Init PROVE IInv
  OBVIOUS
<1>1. TypeOK
  BY DEF Init, TypeOK, RegStates, CloseStates, ReadStates, CallStates, Outcomes
<1>2. CallInv
  BY DEF Init, CallInv, SlotStates
<1>3. SlotInv
  <2> SUFFICES ASSUME NEW c \in Conns
               PROVE  sem[c] = Cardinality(Holders(c)) /\ sem[c] <= MaxInFlight
    BY DEF SlotInv
  <2>1. Holders(c) = {}
    BY DEF Init, Holders, SlotStates
  <2> QED
    BY <2>1, FS_EmptySet, HubAssumption DEF Init
<1>4. ClosedHasNoPending /\ NoOrphanConn
  BY DEF Init, ClosedHasNoPending, NoOrphanConn
<1> QED
  BY <1>1, <1>2, <1>3, <1>4 DEF IInv

-----------------------------------------------------------------------------
(* What the steps leave alone, used by the lemmas below. *)

\* Steps of Register, Disconnect, close and readLoop leave the progress of
\* calls and their slots alone, and apart from FailPending the pending map.
LEMMA ConnStepFrame ==
  ASSUME \/ \E c \in Conns : \/ RegisterStep(c) \/ CloseDoomed(c) \/ ReadStep(c)
                             \/ ShutSocket(c) \/ SignalDone(c) \/ Unmap(c)
         \/ \E d \in Devices : Disconnect(d)
         \/ UNCHANGED vars
  PROVE  UNCHANGED <<pc, conn, pending, sem, outcome>>
BY DEF RegisterStep, Register, CloseOld, StartReadLoop, CloseDoomed, ReadStep,
       Deliver, ReadPing, LockPong, EndPong, ReadFails, ReadResult, ShutSocket,
       SignalDone, Unmap, Disconnect, vars, connVars, readVars, callVars

\* Steps of a call leave the routing table and the registrations alone, and
\* close the connection at most as far as entering once.Do.
LEMMA CallStepFrame ==
  ASSUME TypeOK,
         \/ \E k \in Calls : CallStep(k)
         \/ \E k \in Calls, s \in Subjects, d \in Devices :
                LookupMiss(k, s, d) \/ LookupHit(k, s, d)
  PROVE  /\ UNCHANGED <<devices, reg, old, doomed>>
         /\ \/ UNCHANGED closing
            \/ \E c \in Conns \cup {NoConn} : closing' = Enter(c)
<1>1. ASSUME NEW k \in Calls, WriteTooLarge(k) \/ WriteFails(k)
      PROVE  UNCHANGED <<devices, reg, old, doomed>> /\ closing' = Enter(conn[k])
  BY <1>1 DEF WriteTooLarge, WriteFails, CloseOnError
<1>2. ASSUME NEW k \in Calls, CallStep(k), ~(WriteTooLarge(k) \/ WriteFails(k))
      PROVE  UNCHANGED <<devices, reg, old, doomed, closing>>
  BY Zenon, <1>2 DEF CallStep, CallProgress, Acquire, SlotCtx, SlotOffline, PrepareFails,
       AddPending, LockWrite, WriteOK, WriteClosed, AwaitReply, AwaitCtx, Unpend,
       Release, connVars
<1>3. ASSUME NEW k \in Calls, NEW s \in Subjects, NEW d \in Devices,
             LookupMiss(k, s, d) \/ LookupHit(k, s, d)
      PROVE  UNCHANGED <<devices, reg, old, doomed, closing>>
  BY <1>3 DEF LookupMiss, LookupHit, connVars
<1>4. \A k \in Calls : conn[k] \in Conns \cup {NoConn}
  BY SMTT(30) DEF TypeOK
<1> QED
  BY <1>1, <1>2, <1>3, <1>4

-----------------------------------------------------------------------------
\* Every step preserves CallInv.
LEMMA CallInvStep ==
  ASSUME TypeOK, CallInv, [Next]_vars
  PROVE  CallInv'
<1> USE DEF TypeOK, CallInv, SlotStates, PendStates
<1>1. ASSUME UNCHANGED <<pc, conn, pending>> PROVE CallInv'
  BY <1>1
<1>2. ASSUME NEW c \in Conns, FailPending(c) PROVE CallInv'
  BY <1>2 DEF FailPending, callVars
<1>3. ASSUME NEW k \in Calls, Acquire(k) PROVE CallInv'
  BY <1>3 DEF Acquire
<1>4. ASSUME NEW k \in Calls, SlotCtx(k) \/ SlotOffline(k) PROVE CallInv'
  BY <1>4 DEF SlotCtx, SlotOffline, Return
<1>5. ASSUME NEW k \in Calls, PrepareFails(k) PROVE CallInv'
  BY <1>5 DEF PrepareFails, Finish
<1>6. ASSUME NEW k \in Calls, AddPending(k) PROVE CallInv'
  BY <1>6 DEF AddPending
<1>7. ASSUME NEW k \in Calls, LockWrite(k) \/ WriteOK(k) PROVE CallInv'
  BY SMTT(30), <1>7 DEF LockWrite, WriteOK
<1>8. ASSUME NEW k \in Calls, WriteTooLarge(k) \/ WriteFails(k) PROVE CallInv'
  BY <1>8 DEF WriteTooLarge, WriteFails, CloseOnError
<1>9. ASSUME NEW k \in Calls, WriteClosed(k) \/ AwaitReply(k) \/ AwaitCtx(k) PROVE CallInv'
  BY <1>9 DEF WriteClosed, AwaitReply, AwaitCtx, Finish
<1>10. ASSUME NEW k \in Calls, Unpend(k) PROVE CallInv'
  BY <1>10 DEF Unpend
<1>11. ASSUME NEW k \in Calls, Release(k) PROVE CallInv'
  BY <1>11 DEF Release
<1>12. ASSUME NEW k \in Calls, NEW s \in Subjects, NEW d \in Devices,
              LookupMiss(k, s, d) \/ LookupHit(k, s, d)
       PROVE  CallInv'
  BY SMTT(30), <1>12 DEF LookupMiss, LookupHit, Return
<1> QED
  BY <1>1, <1>2, <1>3, <1>4, <1>5, <1>6, <1>7, <1>8, <1>9, <1>10, <1>11, <1>12,
     ConnStepFrame
  DEF Next, CloseStep, CallStep, CallProgress, Quiescent

\* Every step preserves the count of the slots.
LEMMA SlotInvStep ==
  ASSUME TypeOK, CallInv, SlotInv, [Next]_vars
  PROVE  SlotInv'
<1>1. ASSUME sem' = sem, \A c \in Conns : Holders(c)' = Holders(c) PROVE SlotInv'
  BY <1>1 DEF SlotInv
<1>2. ASSUME UNCHANGED <<pc, conn, sem>> PROVE SlotInv'
  BY <1>1, <1>2 DEF Holders
<1>3. ASSUME NEW c \in Conns, FailPending(c) PROVE SlotInv'
  BY <1>2, <1>3 DEF FailPending, callVars
<1>4. ASSUME NEW k \in Calls, CallStep(k), ~Acquire(k), ~Release(k) PROVE SlotInv'
  <2>1. sem' = sem /\ conn' = conn
    BY SMTT(30), <1>4
    DEF CallStep, CallProgress, SlotCtx, SlotOffline, PrepareFails, AddPending,
       LockWrite, WriteTooLarge, WriteFails, CloseOnError, WriteOK, WriteClosed,
       AwaitReply, AwaitCtx, Unpend
  <2>2. \A j \in Calls : pc'[j] \in SlotStates <=> pc[j] \in SlotStates
    BY <1>4 DEF TypeOK, SlotStates, CallStep, CallProgress, SlotCtx, SlotOffline,
       PrepareFails, AddPending, LockWrite, WriteTooLarge, WriteFails, CloseOnError,
       WriteOK, WriteClosed, AwaitReply, AwaitCtx, Unpend, Return, Finish
  <2> QED
    BY SMTT(30), <1>1, <2>1, <2>2 DEF Holders
<1>5. ASSUME NEW k \in Calls, NEW s \in Subjects, NEW d \in Devices,
             LookupMiss(k, s, d) \/ LookupHit(k, s, d)
      PROVE  SlotInv'
  BY <1>1, <1>5 DEF LookupMiss, LookupHit, Return, Holders, TypeOK, SlotStates
<1>6. ASSUME NEW k \in Calls, Acquire(k) PROVE SlotInv'
  <2>0. PICK x \in Conns : x = conn[k]
    BY <1>6 DEF Acquire, CallInv, SlotStates
  <2>1. k \notin Holders(x)
    BY <1>6, <2>0 DEF Acquire, Holders, SlotStates
  <2>2. Holders(x)' = Holders(x) \cup {k}
    BY <1>6, <2>0 DEF Acquire, Holders, TypeOK, SlotStates
  <2>3. Cardinality(Holders(x)') = Cardinality(Holders(x)) + 1
    BY Zenon, <2>1, <2>2, HoldersFinite, FS_AddElement
  <2>4. \A c \in Conns \ {x} : Holders(c)' = Holders(c)
    BY <1>6, <2>0 DEF Acquire, Holders, TypeOK
  <2>5. /\ sem[x] \in Nat /\ sem[x] < MaxInFlight
        /\ sem' = [sem EXCEPT ![x] = sem[x] + 1] /\ sem \in [Conns -> Nat]
    BY <1>6, <2>0 DEF Acquire, TypeOK
  <2> QED
    BY <2>3, <2>4, <2>5, HubAssumption DEF SlotInv
<1>7. ASSUME NEW k \in Calls, Release(k) PROVE SlotInv'
  <2>0. PICK x \in Conns : x = conn[k]
    BY <1>7 DEF Release, CallInv, SlotStates
  <2>1. k \in Holders(x)
    BY <1>7, <2>0 DEF Release, Holders, SlotStates
  <2>2. Holders(x)' = Holders(x) \ {k}
    BY <1>7, <2>0 DEF Release, Holders, TypeOK, SlotStates
  <2>3. Cardinality(Holders(x)') = Cardinality(Holders(x)) - 1
    BY Zenon, <2>1, <2>2, HoldersFinite, FS_RemoveElement
  <2>4. \A c \in Conns \ {x} : Holders(c)' = Holders(c)
    BY <1>7, <2>0 DEF Release, Holders, TypeOK
  <2>5. sem' = [sem EXCEPT ![x] = sem[x] - 1] /\ sem \in [Conns -> Nat]
    BY SMTT(30), <1>7, <2>0 DEF Release, TypeOK
  <2> QED
    BY <2>3, <2>4, <2>5, HubAssumption DEF SlotInv
<1> QED
  BY <1>2, <1>3, <1>4, <1>5, <1>6, <1>7, ConnStepFrame
  DEF Next, CloseStep, Quiescent

-----------------------------------------------------------------------------
\* Every step preserves the emptiness of a closed connection's pending map.
LEMMA ClosedStep ==
  ASSUME TypeOK, CallInv, ClosedHasNoPending, [Next]_vars
  PROVE  ClosedHasNoPending'
<1> USE DEF TypeOK, CloseStates, ClosedHasNoPending
<1>1. ASSUME pending' = pending,
             \A c \in Conns : closing'[c] = "closed" => closing[c] = "closed"
      PROVE  ClosedHasNoPending'
  BY <1>1
<1>2. ASSUME NEW c \in Conns, CloseOld(c) \/ CloseDoomed(c) \/ ReadFails(c)
      PROVE  ClosedHasNoPending'
  BY SMTT(30), <1>1, <1>2 DEF CloseOld, CloseDoomed, ReadFails, Enter
<1>3. ASSUME NEW c \in Conns, ShutSocket(c) \/ SignalDone(c) \/ Unmap(c)
      PROVE  ClosedHasNoPending'
  BY <1>1, <1>3 DEF ShutSocket, SignalDone, Unmap
<1>4. ASSUME NEW c \in Conns, FailPending(c) PROVE ClosedHasNoPending'
  BY <1>4 DEF FailPending
<1>5. ASSUME NEW k \in Calls, AddPending(k) PROVE ClosedHasNoPending'
  BY <1>5 DEF AddPending, connVars, Done, CallInv, SlotStates
<1>6. ASSUME NEW k \in Calls, Unpend(k) PROVE ClosedHasNoPending'
  BY <1>6 DEF Unpend, connVars
<1>7. ASSUME NEW k \in Calls, WriteTooLarge(k) \/ WriteFails(k)
      PROVE  ClosedHasNoPending'
  BY <1>1, <1>7 DEF WriteTooLarge, WriteFails, CloseOnError, Enter
<1>8. ASSUME UNCHANGED <<closing, pending>> PROVE ClosedHasNoPending'
  BY SMTT(30), <1>8
<1>9. ASSUME NEW c \in Conns,
             \/ Register(c) \/ StartReadLoop(c) \/ Deliver(c) \/ ReadPing(c)
             \/ LockPong(c) \/ EndPong(c) \/ \E k \in Calls : ReadResult(c, k)
      PROVE  ClosedHasNoPending'
  BY SMTT(30), <1>8, <1>9 DEF Register, StartReadLoop, Deliver, ReadPing, LockPong, EndPong,
     ReadResult, connVars
<1>10. ASSUME NEW k \in Calls,
              \/ Acquire(k) \/ SlotCtx(k) \/ SlotOffline(k) \/ PrepareFails(k)
              \/ LockWrite(k) \/ WriteOK(k) \/ WriteClosed(k) \/ AwaitReply(k)
              \/ AwaitCtx(k) \/ Release(k)
       PROVE  ClosedHasNoPending'
  BY <1>8, <1>10 DEF Acquire, SlotCtx, SlotOffline, PrepareFails, LockWrite, WriteOK,
     WriteClosed, AwaitReply, AwaitCtx, Release, connVars
<1>11. ASSUME \/ \E d \in Devices : Disconnect(d)
              \/ \E k \in Calls, s \in Subjects, d \in Devices :
                     LookupMiss(k, s, d) \/ LookupHit(k, s, d)
       PROVE  ClosedHasNoPending'
  BY <1>8, <1>11 DEF Disconnect, LookupMiss, LookupHit, connVars
<1> QED
  BY <1>2, <1>3, <1>4, <1>5, <1>6, <1>7, <1>8, <1>9, <1>10, <1>11
  DEF Next, RegisterStep, CloseStep, ReadStep, CallStep, CallProgress, Quiescent, vars

\* Every step preserves NoOrphanConn.  Register hands the displaced connection
\* to itself, and Unmap removes a table entry only if it is its own.
LEMMA NoOrphanStep ==
  ASSUME TypeOK, NoOrphanConn, [Next]_vars
  PROVE  NoOrphanConn'
<1> USE DEF TypeOK, NoOrphanConn, CloseStates, RegStates
<1>1. ASSUME UNCHANGED <<devices, reg, old>>,
             \A c \in Conns : closing'[c] \notin {"unmapped", "closed"}
                               => closing[c] \notin {"unmapped", "closed"}
      PROVE  NoOrphanConn'
  BY <1>1
<1>2. ASSUME NEW c \in Conns, Register(c) PROVE NoOrphanConn'
  <2> SUFFICES ASSUME NEW x \in Conns,
                      reg'[x] # "none", closing'[x] \notin {"unmapped", "closed"}
               PROVE  \/ devices'[DeviceOf[x]] = x
                      \/ \E n \in Conns : old'[n] = x /\ reg'[n] \in {"displace", "await"}
    OBVIOUS
  <2>1. CASE x = c
    BY ZenonT(30), <1>2, <2>1, HubAssumption DEF Register
  <2>2. CASE x # c /\ devices[DeviceOf[x]] = x
    <3>1. CASE DeviceOf[x] = DeviceOf[c]
      BY <1>2, <2>2, <3>1, HubAssumption DEF Register
    <3>2. CASE DeviceOf[x] # DeviceOf[c]
      BY <1>2, <2>2, <3>2, HubAssumption DEF Register
    <3> QED
      BY <3>1, <3>2
  <2>3. CASE x # c /\ devices[DeviceOf[x]] # x
    <3>1. reg[x] # "none" /\ closing[x] \notin {"unmapped", "closed"}
      BY SMTT(30), <1>2, <2>3 DEF Register
    <3>2. PICK n \in Conns : old[n] = x /\ reg[n] \in {"displace", "await"}
      BY <2>3, <3>1
    <3>3. n # c
      BY <1>2, <3>2 DEF Register
    <3> QED
      BY <1>2, <3>2, <3>3 DEF Register
  <2> QED
    BY SMTT(30), <2>1, <2>2, <2>3
<1>3. ASSUME NEW c \in Conns, CloseOld(c) PROVE NoOrphanConn'
  BY SMTT(30), <1>3 DEF CloseOld, Enter
<1>4. ASSUME NEW c \in Conns, StartReadLoop(c) PROVE NoOrphanConn'
  BY <1>4 DEF StartReadLoop
<1>5. ASSUME NEW c \in Conns, Unmap(c) PROVE NoOrphanConn'
  BY SMTT(30), <1>5, HubAssumption DEF Unmap
<1>6. ASSUME NEW c \in Conns,
             \/ CloseDoomed(c) \/ ReadFails(c) \/ ShutSocket(c) \/ SignalDone(c)
             \/ FailPending(c)
      PROVE  NoOrphanConn'
  BY <1>1, <1>6 DEF CloseDoomed, ReadFails, ShutSocket, SignalDone, FailPending, Enter
<1>7. ASSUME NEW c \in Conns,
             \/ Deliver(c) \/ ReadPing(c) \/ LockPong(c) \/ EndPong(c)
             \/ \E k \in Calls : ReadResult(c, k)
      PROVE  NoOrphanConn'
  BY <1>1, <1>7 DEF Deliver, ReadPing, LockPong, EndPong, ReadResult, connVars
<1>8. ASSUME \/ \E k \in Calls : CallStep(k)
             \/ \E k \in Calls, s \in Subjects, d \in Devices :
                    LookupMiss(k, s, d) \/ LookupHit(k, s, d)
      PROVE  NoOrphanConn'
  BY <1>1, <1>8, CallStepFrame DEF Enter
<1>9. ASSUME \/ \E d \in Devices : Disconnect(d)
             \/ UNCHANGED vars
      PROVE  NoOrphanConn'
  BY <1>1, <1>9 DEF Disconnect, vars
<1> QED
  BY ZenonT(30), <1>2, <1>3, <1>4, <1>5, <1>6, <1>7, <1>8, <1>9
  DEF Next, RegisterStep, CloseStep, ReadStep, Quiescent

-----------------------------------------------------------------------------
\* Every step preserves the type invariant; Release needs SlotInv, because a
\* token that is not there could not be taken out of the semaphore.
LEMMA TypeStep ==
  ASSUME TypeOK, CallInv, SlotInv, [Next]_vars
  PROVE  TypeOK'
<1> USE HubAssumption
    DEF TypeOK, RegStates, CloseStates, ReadStates, CallStates, SlotStates, Outcomes,
        connVars, readVars, callVars
<1>1. ASSUME NEW c \in Conns, Register(c) \/ CloseOld(c) \/ StartReadLoop(c) PROVE TypeOK'
  BY SMTT(30), <1>1 DEF Register, CloseOld, StartReadLoop, Enter
<1>2. ASSUME NEW c \in Conns, CloseDoomed(c) PROVE TypeOK'
  BY <1>2 DEF CloseDoomed, Enter
<1>3. ASSUME NEW c \in Conns, ShutSocket(c) \/ SignalDone(c) \/ Unmap(c) PROVE TypeOK'
  BY <1>3 DEF ShutSocket, SignalDone, Unmap
<1>4. ASSUME NEW c \in Conns, FailPending(c) PROVE TypeOK'
  BY SMTT(30), <1>4 DEF FailPending
<1>5. ASSUME NEW c \in Conns, ReadStep(c) PROVE TypeOK'
  <2>1. CASE Deliver(c)
    BY Zenon, <2>1 DEF Deliver
  <2>2. CASE ReadPing(c) \/ LockPong(c) \/ EndPong(c) \/ ReadFails(c)
    BY SMTT(30), <2>2 DEF ReadPing, LockPong, EndPong, ReadFails, Enter
  <2>3. ASSUME NEW k \in Calls, ReadResult(c, k) PROVE TypeOK'
    BY <2>3 DEF ReadResult
  <2> QED
    BY <1>5, <2>1, <2>2, <2>3 DEF ReadStep
<1>6. ASSUME NEW d \in Devices, Disconnect(d) PROVE TypeOK'
  BY SMTT(30), <1>6 DEF Disconnect
<1>7. ASSUME NEW k \in Calls,
             \/ Acquire(k) \/ SlotCtx(k) \/ SlotOffline(k) \/ PrepareFails(k)
             \/ AddPending(k) \/ LockWrite(k) \/ WriteOK(k) \/ WriteClosed(k)
             \/ AwaitReply(k) \/ AwaitCtx(k) \/ Unpend(k)
      PROVE  TypeOK'
  <2>1. CASE Acquire(k) \/ AddPending(k) \/ Unpend(k)
    BY <2>1 DEF Acquire, AddPending, Unpend
  <2>2. CASE SlotCtx(k) \/ SlotOffline(k)
    BY SMTT(30), <2>2 DEF SlotCtx, SlotOffline, Return
  <2>3. CASE PrepareFails(k) \/ WriteClosed(k)
    BY SMTT(30), <2>3 DEF PrepareFails, WriteClosed, Finish
  <2>4. CASE LockWrite(k) \/ WriteOK(k)
    BY <2>4 DEF LockWrite, WriteOK
  <2>5. CASE AwaitReply(k) \/ AwaitCtx(k)
    BY SMTT(30), <2>5 DEF AwaitReply, AwaitCtx, Finish
  <2> QED
    BY SMTT(30), <1>7, <2>1, <2>2, <2>3, <2>4, <2>5
<1>8. ASSUME NEW k \in Calls, WriteTooLarge(k) \/ WriteFails(k) PROVE TypeOK'
  BY <1>8 DEF WriteTooLarge, WriteFails, CloseOnError, Enter
<1>9. ASSUME NEW k \in Calls, Release(k) PROVE TypeOK'
  <2>0. PICK x \in Conns : x = conn[k]
    BY <1>9 DEF Release, CallInv
  <2>1. k \in Holders(x)
    BY <1>9, <2>0 DEF Release, Holders
  <2>2. Cardinality(Holders(x)) # 0
    BY <2>1, HoldersFinite, FS_EmptySet
  <2>3. sem[x] - 1 \in Nat
    BY SMTT(30), <2>2 DEF SlotInv
  <2> QED
    BY <1>9, <2>0, <2>3 DEF Release
<1>10. ASSUME NEW k \in Calls, NEW s \in Subjects, NEW d \in Devices,
              LookupMiss(k, s, d) \/ LookupHit(k, s, d)
       PROVE  TypeOK'
  BY <1>10 DEF LookupMiss, LookupHit, Return
<1>11. CASE UNCHANGED vars
  BY <1>11 DEF vars
<1> QED
  BY ZenonT(30), <1>1, <1>2, <1>3, <1>4, <1>5, <1>6, <1>7, <1>8, <1>9, <1>10, <1>11
  DEF Next, RegisterStep, CloseStep, ReadStep, CallStep, CallProgress, Quiescent

\* Init establishes the invariant and every step keeps it.
THEOREM Invariance == Spec => []IInv
<1>1. IInv /\ [Next]_vars => IInv'
  BY TypeStep, CallInvStep, SlotInvStep, ClosedStep, NoOrphanStep DEF IInv
<1> QED
  BY InitIInv, <1>1, PTL DEF Spec

\* The hub's variables keep their types; sem never goes below zero.
THEOREM TypeCorrect == Spec => []TypeOK
<1>1. IInv => TypeOK
  BY DEF IInv
<1> QED
  BY Invariance, <1>1, PTL

\* Hub.Call never has more than maxInFlight calls in flight on a connection,
\* and its pending map never outgrows the semaphore.
THEOREM InFlightSafe == Spec => []InFlightBounded
<1>1. IInv => InFlightBounded
  BY SMTT(30)
  DEF IInv, TypeOK, CallInv, SlotInv, InFlightBounded, Holders, PendStates, SlotStates
<1> QED
  BY Invariance, <1>1, PTL

\* After deviceConn.close no call is left in the pending map, ever.
THEOREM CloseDrains == Spec => []ClosedHasNoPending
<1>1. IInv => ClosedHasNoPending
  BY DEF IInv
<1> QED
  BY Invariance, <1>1, PTL

\* Register and close keep the routing table in step with the open connections.
THEOREM RoutingSafe == Spec => []NoOrphanConn
<1>1. IInv => NoOrphanConn
  BY DEF IInv
<1> QED
  BY Invariance, <1>1, PTL

\* Only a connection's own close takes its device offline.
THEOREM OfflineSafe == Spec => OfflineOnlyWhenDone
<1>1. ASSUME IInv, [Next]_vars
      PROVE  [\A d \in Devices :
                 devices[d] # NoConn /\ devices'[d] = NoConn => Done(devices[d])]_vars
  <2> SUFFICES ASSUME NEW d \in Devices, devices[d] # NoConn, devices'[d] = NoConn
               PROVE  Done(devices[d])
    OBVIOUS
  <2>0. /\ devices \in [Devices -> Conns \cup {NoConn}]
        /\ DeviceOf \in [Conns -> Devices] /\ NoConn \notin Conns
    BY <1>1, HubAssumption DEF IInv, TypeOK
  <2>1. ASSUME NEW c \in Conns, Register(c) PROVE FALSE
    BY <2>0, <2>1 DEF Register
  <2>2. ASSUME NEW c \in Conns, Unmap(c) PROVE Done(devices[d])
    <3>1. devices[d] = c
      BY SMTT(30), <2>0, <2>2 DEF Unmap
    <3> QED
      BY <2>2, <3>1 DEF Unmap, Done
  <2>3. ASSUME NEW c \in Conns,
               \/ CloseOld(c) \/ StartReadLoop(c) \/ CloseDoomed(c) \/ ReadStep(c)
               \/ ShutSocket(c) \/ SignalDone(c) \/ FailPending(c)
        PROVE  devices' = devices
    BY <2>3 DEF CloseOld, StartReadLoop, CloseDoomed, ReadStep, Deliver, ReadPing,
       LockPong, EndPong, ReadFails, ReadResult, ShutSocket, SignalDone, FailPending,
       connVars
  <2>4. ASSUME \/ \E x \in Devices : Disconnect(x)
               \/ UNCHANGED vars
        PROVE  devices' = devices
    BY <2>4 DEF Disconnect, vars
  <2>5. ASSUME \/ \E k \in Calls : CallStep(k)
               \/ \E k \in Calls, s \in Subjects, x \in Devices :
                      LookupMiss(k, s, x) \/ LookupHit(k, s, x)
        PROVE  devices' = devices
    BY <1>1, <2>5, CallStepFrame DEF IInv
  <2> QED
    BY <1>1, <2>1, <2>2, <2>3, <2>4, <2>5
    DEF Next, RegisterStep, CloseStep, Quiescent
<1> QED
  BY Invariance, <1>1, PTL DEF Spec, OfflineOnlyWhenDone
=============================================================================
