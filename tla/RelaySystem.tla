----------------------------- MODULE RelaySystem -----------------------------
(***************************************************************************)
(* The relay hub connected to the device agent (cmd/orc-agent): the two    *)
(* directions of every WebSocket, the agent's read loop, one handleCall    *)
(* goroutine per received call, lost connections, agent crashes and        *)
(* reconnects.  Every step of the hub is a step of RelayHub, here with the *)
(* call and result frames it moves.  Heartbeat frames are in KeepAlive.    *)
(***************************************************************************)
EXTENDS RelayHub, Sequences

VARIABLES
    toAgent,  \* call IDs on their way to the agent, per connection
    toHub,    \* IDs of results on their way to the hub, per connection
    agent,    \* the agent's end of a connection: "none", "up" or "down"
    job,      \* progress of the handleCall goroutine of a call
    runs      \* how often the agent has executed the tool of a call

agentVars == <<toAgent, toHub, agent, job, runs>>
sysVars == <<vars, agentVars>>

SysInit ==
    /\ Init
    /\ toAgent = [c \in Conns |-> <<>>]
    /\ toHub = [c \in Conns |-> <<>>]
    /\ agent = [c \in Conns |-> "none"]
    /\ job = [k \in Calls |-> "none"]
    /\ runs = [k \in Calls |-> 0]

-----------------------------------------------------------------------------
(* The agent *)

\* The reconnect loop dials again only after connectAndServe has returned and
\* its deferred conn.Close has run; the hub may not have noticed yet.
AgentConnect(c) ==
    /\ \A x \in Conns : DeviceOf[x] = DeviceOf[c] => agent[x] # "up"
    /\ agent[c] = "none"
    /\ Register(c)
    /\ agent' = [agent EXCEPT ![c] = "up"]
    /\ UNCHANGED <<toAgent, toHub, job, runs>>

AgentReceive(c) ==
    /\ agent[c] = "up" /\ toAgent[c] # <<>>
    /\ toAgent' = [toAgent EXCEPT ![c] = Tail(@)]
    /\ job' = [job EXCEPT ![Head(toAgent[c])] = "execute"]
    /\ UNCHANGED <<vars, toHub, agent, runs>>

ReplyFirst(k) ==
    /\ job[k] = "execute"
    /\ job' = [job EXCEPT ![k] = "write"]
    /\ UNCHANGED <<vars, toAgent, toHub, agent, runs>>

\* exec.Execute; it takes the agent's context, so it outlives the connection.
Execute(k) ==
    /\ job[k] = "execute"
    /\ runs' = [runs EXCEPT ![k] = @ + 1]
    /\ job' = [job EXCEPT ![k] = "write"]
    /\ UNCHANGED <<vars, toAgent, toHub, agent>>

\* The result goes to the connection the call came from.
Reply(k) ==
    /\ job[k] = "write"
    /\ agent[conn[k]] = "up"
    /\ job' = [job EXCEPT ![k] = "over"]
    /\ toHub' = [toHub EXCEPT ![conn[k]] = Append(@, k)]
    /\ UNCHANGED <<vars, toAgent, agent, runs>>

\* The result cannot be encoded, exceeds the frame limit, or its connection is
\* gone: handleCall logs and returns.
ReplyLost(k) ==
    /\ job[k] = "write"
    /\ job' = [job EXCEPT ![k] = "over"]
    /\ UNCHANGED <<vars, toAgent, toHub, agent, runs>>

\* connectAndServe returns: read error or deadline, bad frame, ping write error.
AgentDisconnects(c) ==
    /\ agent[c] = "up"
    /\ agent' = [agent EXCEPT ![c] = "down"]
    /\ UNCHANGED <<vars, toAgent, toHub, job, runs>>

\* The agent process ends; its goroutines end with it.
AgentCrash(d) ==
    /\ \E c \in Conns : DeviceOf[c] = d /\ agent[c] = "up"
    /\ agent' = [c \in Conns |-> IF DeviceOf[c] = d /\ agent[c] = "up" THEN "down" ELSE agent[c]]
    /\ job' = [k \in Calls |->
                  IF job[k] \in {"execute", "write"} /\ DeviceOf[conn[k]] = d THEN "over" ELSE job[k]]
    /\ UNCHANGED <<vars, toAgent, toHub, runs>>

-----------------------------------------------------------------------------
(* The hub's socket operations, with the frames they move *)

SendTwice(k) ==
    /\ WriteOK(k)
    /\ toAgent' = [toAgent EXCEPT ![conn[k]] = @ \o <<k, k>>]
    /\ UNCHANGED <<toHub, agent, job, runs>>

SendCall(k) ==
    /\ WriteOK(k)
    /\ toAgent' = [toAgent EXCEPT ![conn[k]] = Append(@, k)]
    /\ UNCHANGED <<toHub, agent, job, runs>>

Receive(c) ==
    /\ toHub[c] # <<>>
    /\ ReadResult(c, Head(toHub[c]))
    /\ toHub' = [toHub EXCEPT ![c] = Tail(@)]
    /\ UNCHANGED <<toAgent, agent, job, runs>>

\* The hub's steps that move no frame.
HubConnStep(c) ==
    \/ CloseOld(c) \/ StartReadLoop(c) \/ CloseDoomed(c) \/ CloseStep(c)
    \/ Deliver(c) \/ ReadFails(c)

HubCallStep(k) ==
    \/ Acquire(k) \/ SlotCtx(k) \/ SlotOffline(k) \/ PrepareFails(k) \/ AddPending(k)
    \/ LockWrite(k) \/ WriteTooLarge(k) \/ WriteFails(k) \/ WriteClosed(k)
    \/ AwaitReply(k) \/ AwaitCtx(k) \/ Unpend(k) \/ Release(k)
    \/ \E s \in Subjects, d \in Devices : LookupMiss(k, s, d) \/ LookupHit(k, s, d)

SysQuiescent == Quiescent /\ UNCHANGED agentVars

SysNext ==
    \/ \E c \in Conns :
        \/ AgentConnect(c) \/ AgentReceive(c) \/ AgentDisconnects(c) \/ Receive(c)
        \/ HubConnStep(c) /\ UNCHANGED agentVars
    \/ \E k \in Calls :
        \/ Execute(k) \/ Reply(k) \/ ReplyLost(k) \/ SendCall(k)
        \/ HubCallStep(k) /\ UNCHANGED agentVars
    \/ \E d \in Devices : AgentCrash(d) \/ (Disconnect(d) /\ UNCHANGED agentVars)
    \/ SysQuiescent

SysSpec == SysInit /\ [][SysNext]_sysVars

-----------------------------------------------------------------------------
\* The refinement mapping to RemoteCall.  A call is refused when it never got a
\* connection, a result counts as got once Hub.Call has taken it, and a second
\* execution would take the call out of ran, which no step of RemoteCall does.
Stage(k) ==
    CASE pc[k] = "idle" -> "idle"
      [] pc[k] = "returned" -> IF conn[k] = NoConn THEN "refused" ELSE "returned"
      [] OTHER -> "open"

stageMap == [k \in Calls |-> Stage(k)]
ranMap == {k \in Calls : runs[k] = 1}
gotMap == {k \in Calls : pc[k] = "returned" /\ outcome[k] = "result"}

RC == INSTANCE RemoteCall WITH stage <- stageMap, ran <- ranMap, got <- gotMap

\* The hub and the agent implement RemoteCall.  Execute runs a tool only for a call that
\* was issued, and at most once: no call frame is sent again on a new connection or
\* after a failed write.  Hub.Call returns a result only for a tool that has run,
\* across displaced connections, late results, disconnects and crashes.
ImplementsRemoteCall == RC!Spec
=============================================================================
