---------------------------- MODULE DeviceAccess ----------------------------
(***************************************************************************)
(* Who may hold a connection: the control plane's agentConnect and         *)
(* revokeDevice handlers over the device store and the relay hub.  Each    *)
(* handler is several steps, because the store and the hub have separate   *)
(* locks: agentConnect authenticates, upgrades and registers, revokeDevice *)
(* marks the device revoked and then disconnects it.                       *)
(*                                                                         *)
(* Tool calls are left out: they are in RelayHub, and the only effect they *)
(* have on a connection is to close it, as a failed read does here.        *)
(***************************************************************************)
EXTENDS RelayHub

VARIABLES
    revoked,  \* devices whose RevokedAt is set in the store
    link,     \* progress of agentConnect for a connection
    revoker,  \* progress of revokeDevice for a device
    stale     \* connections that revokeDevice did not reach: not registered yet when
              \* it looked, or there when it gave up (history variable)

accessVars == <<revoked, link, revoker, stale>>
allVars == <<vars, accessVars>>

AccessInit ==
    /\ Init
    /\ revoked = {}
    /\ link = [c \in Conns |-> "none"]
    /\ revoker = [d \in Devices |-> "idle"]
    /\ stale = {}

AuthenticateAny(c) ==
    /\ link[c] = "none"
    /\ link' = [link EXCEPT ![c] = "authenticated"]
    /\ UNCHANGED <<vars, revoked, revoker, stale>>

\* store.AuthenticateDevice; a revoked device gets a 401 and nothing changes.
AuthenticateDevice(c) ==
    /\ link[c] = "none"
    /\ DeviceOf[c] \notin revoked
    /\ link' = [link EXCEPT ![c] = "authenticated"]
    /\ UNCHANGED <<vars, revoked, revoker, stale>>

UpgradeFails(c) ==
    /\ link[c] = "authenticated"
    /\ link' = [link EXCEPT ![c] = "failed"]
    /\ UNCHANGED <<vars, revoked, revoker, stale>>

\* ws.Upgrade, TouchDevice (whose failure is only logged) and hub.Register.
Connect(c) ==
    /\ link[c] = "authenticated"
    /\ Register(c)
    /\ link' = [link EXCEPT ![c] = "registered"]
    /\ UNCHANGED <<revoked, revoker, stale>>

\* store.RevokeDevice, for the owner of a device that is not revoked yet.
RevokeDevice(s, d) ==
    /\ OwnerOf[d] = s /\ d \notin revoked
    /\ revoked' = revoked \cup {d}
    /\ revoker' = [revoker EXCEPT ![d] = "stored"]
    /\ UNCHANGED <<vars, link, stale>>

\* The row is updated and the answer of the database is lost: the handler reports an
\* error and never gets to the hub, and a retry finds no device to revoke.  Only
\* NeonHTTP can fail like this.
RevokeLost(s, d) ==
    /\ OwnerOf[d] = s /\ d \notin revoked
    /\ revoked' = revoked \cup {d}
    /\ revoker' = [revoker EXCEPT ![d] = "lost"]
    /\ stale' = stale \cup
           {c \in Conns : DeviceOf[c] = d /\ link[c] \in {"authenticated", "registered"}}
    /\ UNCHANGED <<vars, link>>

RevokeForgetsHub(d) ==
    /\ revoker[d] = "stored"
    /\ UNCHANGED vars
    /\ revoker' = [revoker EXCEPT ![d] = "looked_up"]
    /\ stale' = stale \cup {c \in Conns : DeviceOf[c] = d /\ link[c] = "authenticated"}
    /\ UNCHANGED <<revoked, link>>

\* hub.Disconnect; its close is CloseDoomed.
RevokeDisconnect(d) ==
    /\ revoker[d] = "stored"
    /\ IF devices[d] = NoConn THEN UNCHANGED vars ELSE Disconnect(d)
    /\ revoker' = [revoker EXCEPT ![d] = "looked_up"]
    /\ stale' = stale \cup {c \in Conns : DeviceOf[c] = d /\ link[c] = "authenticated"}
    /\ UNCHANGED <<revoked, link>>

HubStep(c) ==
    /\ \/ CloseOld(c) \/ StartReadLoop(c) \/ CloseDoomed(c) \/ CloseStep(c) \/ ReadFails(c)
    /\ UNCHANGED accessVars

AccessIdle ==
    /\ \A c \in Conns : \/ closing[c] = "closed" \/ link[c] = "failed"
                        \/ link[c] = "none" /\ DeviceOf[c] \in revoked
    /\ UNCHANGED allVars

AccessNext ==
    \/ \E c \in Conns : AuthenticateDevice(c) \/ UpgradeFails(c) \/ Connect(c) \/ HubStep(c)
    \/ \E s \in Subjects, d \in Devices : RevokeDevice(s, d) \/ RevokeLost(s, d)
    \/ \E d \in Devices : RevokeDisconnect(d)
    \/ AccessIdle

AccessSpec == AccessInit /\ [][AccessNext]_allVars

\* The handlers and the hub run to their end, except that the close frame of
\* conn.Close is written without a deadline; devices, owners and peers are free.
AccessFairness ==
    /\ \A c \in Conns :
        /\ WF_allVars(UpgradeFails(c) \/ Connect(c))
        /\ WF_allVars((CloseOld(c) \/ StartReadLoop(c)) /\ UNCHANGED accessVars)
        /\ WF_allVars(CloseDoomed(c) /\ UNCHANGED accessVars)
        /\ WF_allVars((SignalDone(c) \/ Unmap(c) \/ FailPending(c)) /\ UNCHANGED accessVars)
    /\ \A d \in Devices : WF_allVars(RevokeDisconnect(d))

AccessFairSpec == AccessSpec /\ AccessFairness

-----------------------------------------------------------------------------
AccessTypeOK ==
    /\ TypeOK
    /\ revoked \subseteq Devices
    /\ link \in [Conns -> {"none", "authenticated", "failed", "registered"}]
    /\ revoker \in [Devices -> {"idle", "stored", "looked_up", "lost"}]
    /\ stale \subseteq Conns

\* Once revokeDevice has ended, any connection calls are still routed to is being
\* closed, with two exceptions: its agentConnect had authenticated before and
\* registered after, or the answer of the database was lost while it was there.
RevokedOnlyStale ==
    \A d \in Devices :
        revoker[d] \in {"looked_up", "lost"} /\ devices[d] # NoConn =>
            \/ devices[d] \in doomed \cup stale
            \/ closing[devices[d]] # "open"

\* Revocation takes a device off the relay for good when it missed no connection
\* in one of those two ways: all that can remain is a connection whose close is
\* writing its close frame.
RevokedGoesOffline ==
    \A d \in Devices :
        (revoker[d] \in {"looked_up", "lost"} /\ \A c \in stale : DeviceOf[c] # d)
            ~> [](devices[d] = NoConn \/ closing[devices[d]] = "entered")

=============================================================================
