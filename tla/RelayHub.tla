------------------------------ MODULE RelayHub ------------------------------
(***************************************************************************)
(* The relay hub of internal/relay/hub.go: the map of live device          *)
(* connections, the calls multiplexed over them, one readLoop goroutine    *)
(* per connection, and the once-guarded close that tears a connection      *)
(* down in several separately scheduled steps.                             *)
(*                                                                         *)
(* A member of Conns is one deviceConn (one accepted WebSocket), a member  *)
(* of Calls is one execution of Hub.Call together with its random call ID. *)
(* The device at the far end is unconstrained here: it may answer any call *)
(* at any time, twice, late or never, and may send frames that do not      *)
(* parse.  Every mutex-protected block of the code is one step; everything *)
(* the code does outside a lock is a step of its own.                      *)
(***************************************************************************)
EXTENDS Naturals, FiniteSets

CONSTANTS Devices, Subjects, Conns, Calls,
          DeviceOf,     \* the device each connection authenticated as
          OwnerOf,      \* store.Device.OwnerSubject
          MaxInFlight,  \* Hub.maxInFlight, the capacity of deviceConn.sem
          NoConn, NoCall

ASSUME HubAssumption ==
    /\ DeviceOf \in [Conns -> Devices]
    /\ OwnerOf \in [Devices -> Subjects]
    /\ MaxInFlight \in Nat \ {0}
    /\ IsFiniteSet(Calls)
    /\ NoConn \notin Conns
    /\ NoCall \notin Calls

VARIABLES
    devices,  \* Hub.devices: the connection calls to a device are routed to
    reg,      \* progress of Hub.Register for a connection
    old,      \* the connection that a Register in progress displaced
    doomed,   \* connections a Hub.Disconnect has looked up and is about to close
    closing,  \* progress of deviceConn.close inside once.Do
    reader,   \* progress of deviceConn.readLoop
    rid,      \* the call whose channel readLoop holds between lookup and send
    sem,      \* number of tokens in deviceConn.sem
    pending,  \* the keys of deviceConn.pending
    pc,       \* progress of Hub.Call
    conn,     \* the connection Hub.Call looked up
    ch,       \* the one-slot channel of a call
    outcome   \* what Hub.Call returned

connVars == <<devices, reg, old, doomed, closing>>
readVars == <<reader, rid>>
callVars == <<pc, conn, outcome>>
vars == <<devices, reg, old, doomed, closing, reader, rid, sem, pending, pc, conn, ch, outcome>>

RegStates == {"none", "displace", "await", "serving"}
CloseStates == {"open", "entered", "shut", "signalled", "unmapped", "closed"}
ReadStates == {"none", "read", "deliver", "pong", "ponging", "gone"}
SlotStates == {"prepare", "lock", "writing", "closing", "wait", "unpend", "release"}
PendStates == {"lock", "writing", "closing", "wait", "unpend"}
CallStates == {"idle", "acquire", "returned"} \cup SlotStates
Outcomes == {"none", "result", "closed", "offline", "ctx", "error"}

\* close(d.done) has happened.
Done(c) == closing[c] \in {"signalled", "unmapped", "closed"}

\* ws.Conn.wmu is held: a call or the read loop is inside writeFrame.
WriteLocked(c) ==
    \/ reader[c] = "ponging"
    \/ \E k \in Calls : conn[k] = c /\ pc[k] = "writing"

\* Entering d.once.Do: only the first caller of close runs the body.
Enter(c) == [closing EXCEPT ![c] = IF @ = "open" THEN "entered" ELSE @]

Init ==
    /\ devices = [d \in Devices |-> NoConn]
    /\ reg = [c \in Conns |-> "none"]
    /\ old = [c \in Conns |-> NoConn]
    /\ doomed = {}
    /\ closing = [c \in Conns |-> "open"]
    /\ reader = [c \in Conns |-> "none"]
    /\ rid = [c \in Conns |-> NoCall]
    /\ sem = [c \in Conns |-> 0]
    /\ pending = [c \in Conns |-> {}]
    /\ pc = [k \in Calls |-> "idle"]
    /\ conn = [k \in Calls |-> NoConn]
    /\ ch = [k \in Calls |-> "empty"]
    /\ outcome = [k \in Calls |-> "none"]

-----------------------------------------------------------------------------
(* Hub.Register and Hub.Disconnect *)

\* The map is swapped under h.mu; readLoop starts at once when nothing was
\* displaced, and otherwise only after old.close has returned.
Register(c) ==
    LET d == DeviceOf[c] IN
    /\ reg[c] = "none"
    /\ devices' = [devices EXCEPT ![d] = c]
    /\ old' = [old EXCEPT ![c] = devices[d]]
    /\ reg' = [reg EXCEPT ![c] = IF devices[d] = NoConn THEN "serving" ELSE "displace"]
    /\ reader' = [reader EXCEPT ![c] = IF devices[d] = NoConn THEN "read" ELSE "none"]
    /\ UNCHANGED <<doomed, closing, rid, sem, pending, callVars, ch>>

CloseOld(c) ==
    /\ reg[c] = "displace"
    /\ closing' = Enter(old[c])
    /\ reg' = [reg EXCEPT ![c] = "await"]
    /\ UNCHANGED <<devices, old, doomed, readVars, sem, pending, callVars, ch>>

StartReadLoop(c) ==
    /\ reg[c] = "await"
    /\ closing[old[c]] = "closed"
    /\ reg' = [reg EXCEPT ![c] = "serving"]
    /\ reader' = [reader EXCEPT ![c] = "read"]
    /\ old' = [old EXCEPT ![c] = NoConn]
    /\ UNCHANGED <<devices, doomed, closing, rid, sem, pending, callVars, ch>>

\* Disconnect looks the connection up under h.mu and closes it afterwards.
Disconnect(d) ==
    /\ devices[d] # NoConn
    /\ doomed' = doomed \cup {devices[d]}
    /\ UNCHANGED <<devices, reg, old, closing, readVars, sem, pending, callVars, ch>>

CloseDoomed(c) ==
    /\ c \in doomed
    /\ doomed' = doomed \ {c}
    /\ closing' = Enter(c)
    /\ UNCHANGED <<devices, reg, old, readVars, sem, pending, callVars, ch>>

-----------------------------------------------------------------------------
(* deviceConn.close: the body of once.Do *)

\* conn.Close writes a close frame first, so it needs ws.Conn.wmu.
ShutSocket(c) ==
    /\ closing[c] = "entered"
    /\ ~WriteLocked(c)
    /\ closing' = [closing EXCEPT ![c] = "shut"]
    /\ UNCHANGED <<devices, reg, old, doomed, readVars, sem, pending, callVars, ch>>

SignalAfterDrain(c) ==
    /\ closing[c] = "shut"
    /\ pending[c] = {}
    /\ closing' = [closing EXCEPT ![c] = "signalled"]
    /\ UNCHANGED <<devices, reg, old, doomed, readVars, sem, pending, callVars, ch>>

UnmapBeforeSignal(c) ==
    /\ closing[c] = "shut"
    /\ closing' = [closing EXCEPT ![c] = "unmapped"]
    /\ devices' = [devices EXCEPT ![DeviceOf[c]] = IF @ = c THEN NoConn ELSE @]
    /\ UNCHANGED <<reg, old, doomed, readVars, sem, pending, callVars, ch>>

SignalDone(c) ==
    /\ closing[c] = "shut"
    /\ closing' = [closing EXCEPT ![c] = "signalled"]
    /\ UNCHANGED <<devices, reg, old, doomed, readVars, sem, pending, callVars, ch>>

UnmapAnyConn(c) ==
    /\ closing[c] = "signalled"
    /\ closing' = [closing EXCEPT ![c] = "unmapped"]
    /\ devices' = [devices EXCEPT ![DeviceOf[c]] = NoConn]
    /\ UNCHANGED <<reg, old, doomed, readVars, sem, pending, callVars, ch>>

\* A connection that was displaced leaves its successor's entry alone.
Unmap(c) ==
    /\ closing[c] = "signalled"
    /\ closing' = [closing EXCEPT ![c] = "unmapped"]
    /\ devices' = [devices EXCEPT ![DeviceOf[c]] = IF @ = c THEN NoConn ELSE @]
    /\ UNCHANGED <<reg, old, doomed, readVars, sem, pending, callVars, ch>>

FailPending(c) ==
    /\ closing[c] = "unmapped"
    /\ closing' = [closing EXCEPT ![c] = "closed"]
    /\ ch' = [k \in Calls |-> IF k \in pending[c] /\ ch[k] = "empty" THEN "closed" ELSE ch[k]]
    /\ pending' = [pending EXCEPT ![c] = {}]
    /\ UNCHANGED <<devices, reg, old, doomed, readVars, sem, callVars>>

-----------------------------------------------------------------------------
(* Hub.Call *)

Return(k, o) ==
    /\ pc' = [pc EXCEPT ![k] = "returned"]
    /\ outcome' = [outcome EXCEPT ![k] = o]

\* The device has no connection, or its connection belongs to another subject.
LookupMiss(k, s, d) ==
    /\ pc[k] = "idle"
    /\ devices[d] = NoConn \/ OwnerOf[d] # s
    /\ Return(k, "offline")
    /\ UNCHANGED <<connVars, readVars, sem, pending, conn, ch>>

LookupHit(k, s, d) ==
    /\ pc[k] = "idle"
    /\ devices[d] # NoConn /\ OwnerOf[d] = s
    /\ conn' = [conn EXCEPT ![k] = devices[d]]
    /\ pc' = [pc EXCEPT ![k] = "acquire"]
    /\ UNCHANGED <<connVars, readVars, sem, pending, ch, outcome>>

AcquireAlways(k) ==
    /\ pc[k] = "acquire"
    /\ sem' = [sem EXCEPT ![conn[k]] = @ + 1]
    /\ pc' = [pc EXCEPT ![k] = "prepare"]
    /\ UNCHANGED <<connVars, readVars, pending, conn, ch, outcome>>

Acquire(k) ==
    /\ pc[k] = "acquire"
    /\ sem[conn[k]] < MaxInFlight
    /\ sem' = [sem EXCEPT ![conn[k]] = @ + 1]
    /\ pc' = [pc EXCEPT ![k] = "prepare"]
    /\ UNCHANGED <<connVars, readVars, pending, conn, ch, outcome>>

\* The other two cases of the first select.
SlotCtx(k) ==
    /\ pc[k] = "acquire"
    /\ Return(k, "ctx")
    /\ UNCHANGED <<connVars, readVars, sem, pending, conn, ch>>

SlotOffline(k) ==
    /\ pc[k] = "acquire"
    /\ Done(conn[k])
    /\ Return(k, "offline")
    /\ UNCHANGED <<connVars, readVars, sem, pending, conn, ch>>

\* Both ways out of a started call run the deferred functions next.
Finish(k, o, next) ==
    /\ outcome' = [outcome EXCEPT ![k] = o]
    /\ pc' = [pc EXCEPT ![k] = next]

\* randomID or json.Marshal failed, or d.done was closed before d.mu was taken.
PrepareFails(k) ==
    /\ pc[k] = "prepare"
    /\ \/ Finish(k, "error", "release")
       \/ Done(conn[k]) /\ Finish(k, "offline", "release")
    /\ UNCHANGED <<connVars, readVars, sem, pending, conn, ch>>

AddPendingUnchecked(k) ==
    /\ pc[k] = "prepare"
    /\ pending' = [pending EXCEPT ![conn[k]] = @ \cup {k}]
    /\ pc' = [pc EXCEPT ![k] = "lock"]
    /\ UNCHANGED <<connVars, readVars, sem, conn, ch, outcome>>

\* Under d.mu: d.done is checked again before the call becomes pending.
AddPending(k) ==
    /\ pc[k] = "prepare"
    /\ ~Done(conn[k])
    /\ pending' = [pending EXCEPT ![conn[k]] = @ \cup {k}]
    /\ pc' = [pc EXCEPT ![k] = "lock"]
    /\ UNCHANGED <<connVars, readVars, sem, conn, ch, outcome>>

LockWrite(k) ==
    /\ pc[k] = "lock"
    /\ ~WriteLocked(conn[k])
    /\ pc' = [pc EXCEPT ![k] = "writing"]
    /\ UNCHANGED <<connVars, readVars, sem, pending, conn, ch, outcome>>

\* A write can only succeed while the socket has not been closed locally.
WriteOK(k) ==
    /\ pc[k] = "writing"
    /\ closing[conn[k]] \in {"open", "entered"}
    /\ pc' = [pc EXCEPT ![k] = "wait"]
    /\ UNCHANGED <<connVars, readVars, sem, pending, conn, ch, outcome>>

\* WriteMessage failed: the call itself closes the connection.
CloseOnError(k) ==
    /\ pc' = [pc EXCEPT ![k] = "closing"]
    /\ closing' = Enter(conn[k])
    /\ UNCHANGED <<devices, reg, old, doomed, readVars, sem, pending, conn, ch, outcome>>

\* The payload exceeds the frame limit and is refused before the lock.
WriteTooLarge(k) == pc[k] = "lock" /\ CloseOnError(k)

\* The write deadline passed or the socket is gone.
WriteFails(k) == pc[k] = "writing" /\ CloseOnError(k)

WriteClosed(k) ==
    /\ pc[k] = "closing"
    /\ closing[conn[k]] = "closed"
    /\ Finish(k, "offline", "unpend")
    /\ UNCHANGED <<connVars, readVars, sem, pending, conn, ch>>

\* The last select; Go picks any ready case.
AwaitReply(k) ==
    /\ pc[k] = "wait"
    /\ \/ ch[k] # "empty" /\ Finish(k, ch[k], "unpend")
       \/ Done(conn[k]) /\ Finish(k, "offline", "unpend")
    /\ UNCHANGED <<connVars, readVars, sem, pending, conn, ch>>

AwaitCtx(k) ==
    /\ pc[k] = "wait"
    /\ Finish(k, "ctx", "unpend")
    /\ UNCHANGED <<connVars, readVars, sem, pending, conn, ch>>

\* Deferred: delete(d.pending, id) under d.mu, then <-d.sem.
Unpend(k) ==
    /\ pc[k] = "unpend"
    /\ pending' = [pending EXCEPT ![conn[k]] = @ \ {k}]
    /\ pc' = [pc EXCEPT ![k] = "release"]
    /\ UNCHANGED <<connVars, readVars, sem, conn, ch, outcome>>

ReleaseTwice(k) ==
    /\ pc[k] = "release"
    /\ sem' = [sem EXCEPT ![conn[k]] = @ - 2]
    /\ pc' = [pc EXCEPT ![k] = "returned"]
    /\ UNCHANGED <<connVars, readVars, pending, conn, ch, outcome>>

Release(k) ==
    /\ pc[k] = "release"
    /\ sem' = [sem EXCEPT ![conn[k]] = @ - 1]
    /\ pc' = [pc EXCEPT ![k] = "returned"]
    /\ UNCHANGED <<connVars, readVars, pending, conn, ch, outcome>>

-----------------------------------------------------------------------------
(* deviceConn.readLoop *)

\* A result frame: the channel is looked up under d.mu; an unknown ID is dropped.
ReadResult(c, k) ==
    /\ reader[c] = "read"
    /\ reader' = [reader EXCEPT ![c] = IF k \in pending[c] THEN "deliver" ELSE @]
    /\ rid' = [rid EXCEPT ![c] = IF k \in pending[c] THEN k ELSE @]
    /\ UNCHANGED <<connVars, sem, pending, callVars, ch>>

DeliverToAny(c) ==
    /\ reader[c] = "deliver"
    /\ \E k \in pending[c] : ch' = [ch EXCEPT ![k] = IF @ = "empty" THEN "result" ELSE @]
    /\ reader' = [reader EXCEPT ![c] = "read"]
    /\ rid' = [rid EXCEPT ![c] = NoCall]
    /\ UNCHANGED <<connVars, sem, pending, callVars>>

\* The send to the channel happens after d.mu is released and never blocks.
Deliver(c) ==
    /\ reader[c] = "deliver"
    /\ ch' = [ch EXCEPT ![rid[c]] = IF @ = "empty" THEN "result" ELSE @]
    /\ reader' = [reader EXCEPT ![c] = "read"]
    /\ rid' = [rid EXCEPT ![c] = NoCall]
    /\ UNCHANGED <<connVars, sem, pending, callVars>>

\* A ping is answered from the read loop itself, through the same write lock;
\* whether that write succeeds is ignored.
ReadPing(c) ==
    /\ reader[c] = "read"
    /\ reader' = [reader EXCEPT ![c] = "pong"]
    /\ UNCHANGED <<connVars, rid, sem, pending, callVars, ch>>

LockPong(c) ==
    /\ reader[c] = "pong"
    /\ ~WriteLocked(c)
    /\ reader' = [reader EXCEPT ![c] = "ponging"]
    /\ UNCHANGED <<connVars, rid, sem, pending, callVars, ch>>

EndPong(c) ==
    /\ reader[c] = "ponging"
    /\ reader' = [reader EXCEPT ![c] = "read"]
    /\ UNCHANGED <<connVars, rid, sem, pending, callVars, ch>>

\* Read error or deadline, a frame that does not parse or validate, or a call
\* frame from the device: the loop ends and its deferred close runs.
ReadFails(c) ==
    /\ reader[c] = "read"
    /\ reader' = [reader EXCEPT ![c] = "gone"]
    /\ closing' = Enter(c)
    /\ UNCHANGED <<devices, reg, old, doomed, rid, sem, pending, callVars, ch>>

-----------------------------------------------------------------------------
RegisterStep(c) == Register(c) \/ CloseOld(c) \/ StartReadLoop(c)
CloseStep(c) == ShutSocket(c) \/ SignalDone(c) \/ Unmap(c) \/ FailPending(c)
CallProgress(k) ==
    \/ SlotOffline(k) \/ PrepareFails(k) \/ AddPending(k)
    \/ WriteOK(k) \/ WriteFails(k) \/ WriteClosed(k)
    \/ AwaitReply(k) \/ Unpend(k) \/ Release(k)
CallStep(k) ==
    \/ CallProgress(k)
    \/ Acquire(k) \/ SlotCtx(k) \/ LockWrite(k) \/ WriteTooLarge(k) \/ AwaitCtx(k)
ReadStep(c) ==
    \/ Deliver(c) \/ ReadPing(c) \/ LockPong(c) \/ EndPong(c) \/ ReadFails(c)
    \/ \E k \in Calls : ReadResult(c, k)

\* Every call has returned and every connection is closed: nothing is left.
Quiescent ==
    /\ \A k \in Calls : pc[k] = "returned"
    /\ \A c \in Conns : closing[c] = "closed" /\ reader[c] = "gone"
    /\ UNCHANGED vars

Next ==
    \/ \E c \in Conns : RegisterStep(c) \/ CloseDoomed(c) \/ CloseStep(c) \/ ReadStep(c)
    \/ \E d \in Devices : Disconnect(d)
    \/ \E k \in Calls : CallStep(k)
    \/ \E k \in Calls, s \in Subjects, d \in Devices : LookupMiss(k, s, d) \/ LookupHit(k, s, d)
    \/ Quiescent

Spec == Init /\ [][Next]_vars

\* A call has set a write deadline on the connection's socket.
Timed(c) == \E k \in Calls : conn[k] = c /\ pc[k] \in PendStates

(* Fairness: a goroutine that can run does run.  sync.Mutex hands a lock to a  *)
(* waiter that has starved, hence SF for the two waits on the write lock.  A   *)
(* write to the socket (a call, a pong, the close frame) is only known to end  *)
(* when a call has set its 10 s write deadline.  Nothing is assumed of the     *)
(* device, of ctx, or of who registers, disconnects or calls.                  *)
Fairness ==
    /\ \A c \in Conns :
        /\ WF_vars(CloseOld(c) \/ StartReadLoop(c))
        /\ WF_vars(CloseDoomed(c))
        /\ SF_vars(Timed(c) /\ ShutSocket(c))
        /\ WF_vars(SignalDone(c) \/ Unmap(c) \/ FailPending(c))
        /\ WF_vars(Timed(c) /\ EndPong(c))
    /\ \A k \in Calls :
        /\ WF_vars(CallProgress(k) \/ Acquire(k))
        /\ SF_vars(LockWrite(k))

FairSpec == Spec /\ Fairness

-----------------------------------------------------------------------------
(* Properties *)

TypeOK ==
    /\ devices \in [Devices -> Conns \cup {NoConn}]
    /\ reg \in [Conns -> RegStates]
    /\ old \in [Conns -> Conns \cup {NoConn}]
    /\ doomed \subseteq Conns
    /\ closing \in [Conns -> CloseStates]
    /\ reader \in [Conns -> ReadStates]
    /\ rid \in [Conns -> Calls \cup {NoCall}]
    /\ sem \in [Conns -> Nat]
    /\ pending \in [Conns -> SUBSET Calls]
    /\ pc \in [Calls -> CallStates]
    /\ conn \in [Calls -> Conns \cup {NoConn}]
    /\ ch \in [Calls -> {"empty", "result", "closed"}]
    /\ outcome \in [Calls -> Outcomes]

\* The calls that hold a token of a connection's semaphore.
Holders(c) == {k \in Calls : conn[k] = c /\ pc[k] \in SlotStates}

\* Bounded in-flight work: the tokens in deviceConn.sem are exactly the calls
\* between acquire and release, never more than maxInFlight, and the pending map
\* only names calls that still hold a token.
InFlightBounded ==
    \A c \in Conns :
        /\ sem[c] = Cardinality(Holders(c))
        /\ sem[c] <= MaxInFlight
        /\ pending[c] \subseteq Holders(c)

\* No call is left behind: once close has drained the pending map, the map
\* stays empty, whatever calls were between their lookup and their write.
ClosedHasNoPending == \A c \in Conns : closing[c] = "closed" => pending[c] = {}

\* Every registered connection that close has not yet unmapped is either the
\* one calls are routed to, or is about to be closed by the Register that
\* displaced it.  In particular the close of a displaced connection never
\* unregisters its successor, and no open connection is unreachable for good.
NoOrphanConn ==
    \A c \in Conns :
        reg[c] # "none" /\ closing[c] \notin {"unmapped", "closed"} =>
            \/ devices[DeviceOf[c]] = c
            \/ \E n \in Conns : old[n] = c /\ reg[n] \in {"displace", "await"}

\* A device only goes offline when the connection it is routed to has
\* signalled done; it is never unregistered by another connection's close.
OfflineOnlyWhenDone ==
    [][\A d \in Devices :
          devices[d] # NoConn /\ devices'[d] = NoConn => Done(devices[d])]_vars

\* Closing a socket fails all its calls: a call that has looked up a
\* connection returns once that connection's close has begun, with no help
\* from its own context.
ClosingFailsCalls ==
    \A k \in Calls :
        (conn[k] # NoConn /\ closing[conn[k]] # "open") ~> pc[k] = "returned"

\* A reconnecting device is eventually read from: Register gets past the
\* close of the connection it displaced, even if that one is busy with calls,
\* unless conn.Close waits for a socket on which no call has set a deadline.
RegisterCompletes ==
    \A c \in Conns :
        reg[c] # "none" ~>
            \/ reg[c] = "serving"
            \/ reg[c] = "await" /\ closing[old[c]] = "entered" /\ ~Timed(old[c])
=============================================================================
