----------------------------- MODULE KeepAlive -----------------------------
(***************************************************************************)
(* The deadlines that keep one device connection alive, in ticks of 10 s.  *)
(* The agent pings every 30 s and gives up when it has read nothing for    *)
(* 90 s; the hub reads with the same limit and answers a ping with a pong. *)
(* Hub.Call sets a write deadline of 10 s on the hub's socket.  A deadline *)
(* of a net.Conn is an absolute time that stays in force until it is set   *)
(* again, and readLoop writes its pongs without setting one.               *)
(*                                                                         *)
(* Frames take no time here, and each of the agent's writes sets a fresh   *)
(* deadline, so nothing but the deadlines themselves can break the link.   *)
(***************************************************************************)
EXTENDS Integers

CONSTANTS PingEvery,   \* period of the agent's ticker
          ReadLimit,   \* read deadline of both ends
          WriteLimit,  \* write deadline set by Hub.Call
          MaxBackoff   \* cap of the reconnect delay, in seconds

ASSUME KeepAliveAssumption ==
    /\ PingEvery \in Nat \ {0} /\ ReadLimit \in Nat /\ WriteLimit \in Nat \ {0}
    /\ PingEvery < ReadLimit
    /\ MaxBackoff \in Nat \ {0}

VARIABLES
    lost,       \* which end gave the connection up: "no", "agent" or "hub"
    pingLeft,   \* time until the agent's ticker fires
    agentLeft,  \* time until the agent's read deadline
    hubLeft,    \* time until the hub's read deadline
    writeLeft,  \* time until the hub's write deadline, Unset if there is none
    cut,        \* the path silently drops every frame from now on
    busy,       \* a call has been sent and has not returned
    backoff     \* delay before the agent's next reconnect

linkVars == <<lost, pingLeft, agentLeft, hubLeft, writeLeft, cut, busy, backoff>>

Unset == -1

\* A new connection: Hijack clears all deadlines, both ends start to read.
Fresh ==
    /\ lost' = "no"
    /\ pingLeft' = PingEvery
    /\ agentLeft' = ReadLimit
    /\ hubLeft' = ReadLimit
    /\ writeLeft' = Unset
    /\ cut' = FALSE
    /\ busy' = FALSE

LinkInit ==
    /\ lost = "no" /\ cut = FALSE /\ busy = FALSE /\ backoff = 1
    /\ pingLeft = PingEvery /\ writeLeft = Unset
    /\ agentLeft = ReadLimit /\ hubLeft = ReadLimit

\* Time passes only when nothing is due.
LinkTick ==
    /\ lost = "no"
    /\ pingLeft > 0 /\ agentLeft > 0 /\ hubLeft > 0
    /\ pingLeft' = pingLeft - 1
    /\ agentLeft' = agentLeft - 1
    /\ hubLeft' = hubLeft - 1
    /\ writeLeft' = IF writeLeft > 0 THEN writeLeft - 1 ELSE writeLeft
    /\ UNCHANGED <<lost, cut, busy, backoff>>

Cut ==
    /\ lost = "no" /\ ~cut
    /\ cut' = TRUE
    /\ UNCHANGED <<lost, pingLeft, agentLeft, hubLeft, writeLeft, busy, backoff>>

Beat(hubReads, agentReads) ==
    /\ lost = "no" /\ pingLeft = 0
    /\ pingLeft' = PingEvery
    /\ hubLeft' = IF hubReads THEN ReadLimit ELSE hubLeft
    /\ agentLeft' = IF agentReads THEN ReadLimit ELSE agentLeft
    /\ UNCHANGED <<lost, writeLeft, cut, busy, backoff>>

PingNotRead == Beat(FALSE, ~cut /\ writeLeft # 0)
PongNeverWritten == Beat(~cut, FALSE)
PingRenewsLocally == Beat(TRUE, TRUE)

\* The heartbeat: the hub reads the ping and renews its read deadline; its pong
\* reaches the agent unless the hub's write deadline has passed.
Ping == Beat(~cut, ~cut /\ writeLeft # 0)

\* Hub.Call writes a call frame under a new deadline, and the agent reads it.
Call ==
    /\ lost = "no" /\ ~busy
    /\ writeLeft' = WriteLimit
    /\ agentLeft' = IF cut THEN agentLeft ELSE ReadLimit
    /\ busy' = TRUE
    /\ UNCHANGED <<lost, pingLeft, hubLeft, cut, backoff>>

\* handleCall writes the result and the hub reads it, or the call times out.
Return ==
    /\ lost = "no" /\ busy
    /\ busy' = FALSE
    /\ hubLeft' \in IF cut THEN {hubLeft} ELSE {hubLeft, ReadLimit}
    /\ UNCHANGED <<lost, pingLeft, agentLeft, writeLeft, cut, backoff>>

AgentTimeout ==
    /\ lost = "no" /\ agentLeft = 0
    /\ lost' = "agent"
    /\ UNCHANGED <<pingLeft, agentLeft, hubLeft, writeLeft, cut, busy, backoff>>

HubTimeout ==
    /\ lost = "no" /\ hubLeft = 0
    /\ lost' = "hub"
    /\ UNCHANGED <<pingLeft, agentLeft, hubLeft, writeLeft, cut, busy, backoff>>

\* The agent's main loop waits for backoff, doubles it up to the cap, and dials
\* again; it never resets the delay.
Reconnect ==
    /\ lost # "no"
    /\ backoff' = IF 2 * backoff > MaxBackoff THEN MaxBackoff ELSE 2 * backoff
    /\ Fresh

LinkNext ==
    \/ LinkTick \/ Cut \/ Ping \/ Call \/ Return \/ AgentTimeout \/ HubTimeout \/ Reconnect

LinkSpec == LinkInit /\ [][LinkNext]_linkVars

\* Time goes on, and what is due at an end happens.
FairLinkSpec ==
    /\ LinkSpec
    /\ WF_linkVars(LinkTick) /\ WF_linkVars(Ping) /\ WF_linkVars(AgentTimeout \/ HubTimeout)

-----------------------------------------------------------------------------
LinkTypeOK ==
    /\ lost \in {"no", "agent", "hub"}
    /\ pingLeft \in 0..PingEvery
    /\ agentLeft \in 0..ReadLimit
    /\ hubLeft \in 0..ReadLimit
    /\ writeLeft \in {Unset} \cup 0..WriteLimit
    /\ cut \in BOOLEAN /\ busy \in BOOLEAN
    /\ backoff \in 1..MaxBackoff

HubKeepsLink == lost = "hub" => cut
PongsUnlessExpired ==
    lost = "agent" \/ agentLeft < ReadLimit - PingEvery => cut \/ writeLeft = 0

\* A connection whose path works is kept: the hub never gives up one over which the
\* agent keeps its heartbeat, and the agent only when pongs were missed because the
\* write deadline of an earlier call had passed; otherwise the last frame it read is
\* at most one ping period old.
LinkIsKept == HubKeepsLink /\ PongsUnlessExpired

\* A half-open connection does not last: once the path is cut, one of the two
\* read deadlines ends the connection, whatever calls are still written to it.
CutIsNoticed == cut ~> lost # "no"

=============================================================================
