------------------------- MODULE RelaySystemProofs --------------------------
(***************************************************************************)
(* The hub with the agent, for any number of devices, connections and      *)
(* calls, implements RemoteCall.                                           *)
(*                                                                         *)
(* A call is in at most one place on its way to the tool: not written yet, *)
(* once in the frames of its own connection, or in the hands of a          *)
(* handleCall goroutine.  That is what keeps runs below two.               *)
(***************************************************************************)
EXTENDS RelaySystem, RelayHubProofs

Written == {"wait", "unpend", "release", "returned"}

AgentTypes ==
    /\ toAgent \in [Conns -> Seq(Calls)] /\ toHub \in [Conns -> Seq(Calls)]
    /\ job \in [Calls -> {"none", "execute", "write", "over"}]
    /\ runs \in [Calls -> {0, 1}]

\* A call that a goroutine has taken, or that has no connection, is in no frame.
JobInv ==
    /\ \A k \in Calls :
        /\ pc[k] = "idle" => conn[k] = NoConn
        /\ job[k] # "none" => conn[k] \in Conns /\ pc[k] \in Written
        /\ job[k] \in {"none", "execute"} => runs[k] = 0
        /\ job[k] = "write" => runs[k] = 1
    /\ \A c \in Conns : \A i \in 1..Len(toAgent[c]) :
        /\ job[toAgent[c][i]] = "none"
        /\ conn[toAgent[c][i]] = c /\ pc[toAgent[c][i]] \in Written
        /\ \A j \in 1..Len(toAgent[c]) : toAgent[c][i] = toAgent[c][j] => i = j

\* A result, wherever it is, belongs to a tool that has run.
ResultInv ==
    /\ \A c \in Conns : \A i \in 1..Len(toHub[c]) : runs[toHub[c][i]] = 1
    /\ \A c \in Conns : reader[c] = "deliver" => rid[c] \in Calls /\ runs[rid[c]] = 1
    /\ \A k \in Calls : ch[k] = "result" \/ outcome[k] = "result" => runs[k] = 1

SysInv == IInv /\ AgentTypes /\ JobInv /\ ResultInv

\* A step of the hub or the agent is, for the hub's own variables, a step of RelayHub.
LEMMA SysStepIsHubStep ==
  ASSUME AgentTypes, [SysNext]_sysVars
  PROVE  [Next]_vars
<1>1. ASSUME NEW c \in Conns, Receive(c) PROVE Next
  <2>1. Head(toHub[c]) \in Calls
    BY <1>1 DEF Receive, AgentTypes
  <2> QED
    BY <1>1, <2>1 DEF Receive, Next, ReadStep
<1>2. ASSUME NEW c \in Conns, AgentConnect(c) \/ HubConnStep(c) PROVE Next
  BY <1>2 DEF AgentConnect, HubConnStep, Next, RegisterStep, ReadStep
<1>3. ASSUME NEW k \in Calls, SendCall(k) \/ HubCallStep(k) PROVE Next
  BY <1>3 DEF SendCall, HubCallStep, Next, CallStep, CallProgress
<1>4. ASSUME NEW d \in Devices, Disconnect(d) PROVE Next
  BY <1>4 DEF Next
<1>5. ASSUME \/ \E c \in Conns : AgentReceive(c) \/ AgentDisconnects(c)
             \/ \E k \in Calls : Execute(k) \/ Reply(k) \/ ReplyLost(k)
             \/ \E d \in Devices : AgentCrash(d)
      PROVE  UNCHANGED vars
  BY <1>5 DEF AgentReceive, AgentDisconnects, Execute, Reply, ReplyLost, AgentCrash
<1>6. ASSUME UNCHANGED sysVars PROVE UNCHANGED vars
  BY <1>6 DEF sysVars
<1> QED
  BY <1>1, <1>2, <1>3, <1>4, <1>5, <1>6 DEF SysNext, SysQuiescent, Next

\* A call takes its connection when it leaves "idle", keeps it, and does not go back
\* behind the write.
LEMMA CallMoves ==
  ASSUME TypeOK, [Next]_vars, NEW k \in Calls
  PROVE  /\ pc[k] \in Written => pc'[k] \in Written
         /\ pc[k] # "idle" => conn'[k] = conn[k]
         /\ pc'[k] = "idle" => pc[k] = "idle" /\ conn'[k] = conn[k]
<1> USE DEF TypeOK, Written
<1> DEFINE Goal == /\ pc[k] \in Written => pc'[k] \in Written
                   /\ pc[k] # "idle" => conn'[k] = conn[k]
                   /\ pc'[k] = "idle" => pc[k] = "idle" /\ conn'[k] = conn[k]
<1>1. ASSUME UNCHANGED <<pc, conn>> PROVE Goal
  BY <1>1
<1>2. ASSUME NEW c \in Conns, FailPending(c) PROVE Goal
  BY SMTT(30), <1>2 DEF FailPending, callVars
<1>3. ASSUME NEW j \in Calls, CallStep(j) PROVE Goal
  BY Zenon, <1>3
  DEF CallStep, CallProgress, Acquire, SlotCtx, SlotOffline, PrepareFails, AddPending,
     LockWrite, WriteTooLarge, WriteFails, CloseOnError, WriteOK, WriteClosed,
     AwaitReply, AwaitCtx, Unpend, Release, Return, Finish
<1>4. ASSUME NEW j \in Calls, NEW s \in Subjects, NEW d \in Devices,
             LookupMiss(j, s, d) \/ LookupHit(j, s, d)
      PROVE  Goal
  BY <1>4 DEF LookupMiss, LookupHit, Return
<1> QED
  BY <1>1, <1>2, <1>3, <1>4, ConnStepFrame DEF Next, CloseStep, Quiescent

\* The agent's variables keep their types.
LEMMA AgentTypesStep ==
  ASSUME SysInv, [SysNext]_sysVars
  PROVE  AgentTypes'
<1> USE DEF SysInv, AgentTypes
<1>1. ASSUME UNCHANGED <<toAgent, toHub, job, runs>> PROVE AgentTypes'
  BY <1>1
<1>2. ASSUME NEW c \in Conns, AgentReceive(c) PROVE AgentTypes'
  BY <1>2 DEF AgentReceive
<1>3. ASSUME NEW c \in Conns, Receive(c) PROVE AgentTypes'
  BY <1>3 DEF Receive
<1>4. ASSUME NEW k \in Calls, Execute(k) PROVE AgentTypes'
  BY <1>4 DEF Execute, JobInv
<1>5. ASSUME NEW k \in Calls, Reply(k) PROVE AgentTypes'
  <2>1. PICK x \in Conns : x = conn[k]
    BY <1>5 DEF Reply, JobInv
  <2>2. Append(toHub[x], k) \in Seq(Calls)
    OBVIOUS
  <2> QED
    BY <1>5, <2>1, <2>2 DEF Reply
<1>6. ASSUME NEW k \in Calls, ReplyLost(k) PROVE AgentTypes'
  BY <1>6 DEF ReplyLost
<1>7. ASSUME NEW k \in Calls, SendCall(k) PROVE AgentTypes'
  <2>1. PICK x \in Conns : x = conn[k]
    BY <1>7 DEF SendCall, WriteOK, IInv, CallInv, SlotStates
  <2>2. Append(toAgent[x], k) \in Seq(Calls)
    OBVIOUS
  <2> QED
    BY <1>7, <2>1, <2>2 DEF SendCall
<1>8. ASSUME NEW d \in Devices, AgentCrash(d) PROVE AgentTypes'
  BY <1>8 DEF AgentCrash
<1>9. ASSUME \/ \E c \in Conns : AgentConnect(c) \/ AgentDisconnects(c)
             \/ UNCHANGED agentVars
      PROVE  AgentTypes'
  BY SMTT(30), <1>1, <1>9 DEF AgentConnect, AgentDisconnects, agentVars
<1> QED
  BY <1>2, <1>3, <1>4, <1>5, <1>6, <1>7, <1>8, <1>9 DEF SysNext, SysQuiescent, sysVars

\* JobInv survives a step of the hub that leaves frames and goroutines alone.
LEMMA JobInvFrame ==
  ASSUME SysInv, [Next]_vars, UNCHANGED <<toAgent, job, runs>>
  PROVE  JobInv'
<1>1. TypeOK /\ JobInv /\ AgentTypes
  BY SMTT(30) DEF SysInv, IInv
<1>2. \A k \in Calls : /\ pc[k] \in Written => pc'[k] \in Written
                       /\ pc[k] # "idle" => conn'[k] = conn[k]
                       /\ pc'[k] = "idle" => pc[k] = "idle" /\ conn'[k] = conn[k]
  BY <1>1, CallMoves
<1>3. \A k \in Calls : pc[k] \in Written => pc[k] # "idle"
  BY DEF Written
<1>4. \A c \in Conns : \A i \in 1..Len(toAgent[c]) : toAgent[c][i] \in Calls
  BY <1>1 DEF AgentTypes
<1> QED
  BY <1>1, <1>2, <1>3, <1>4 DEF JobInv

\* A step that moves no frame keeps JobInv if it takes no call up and keeps what JobInv
\* says of each call.
LEMMA JobKept ==
  ASSUME AgentTypes, JobInv, UNCHANGED <<pc, conn, toAgent>>,
         \A k \in Calls :
             /\ pc[k] = "idle" => conn[k] = NoConn
             /\ job'[k] # "none" => conn[k] \in Conns /\ pc[k] \in Written
             /\ job'[k] \in {"none", "execute"} => runs'[k] = 0
             /\ job'[k] = "write" => runs'[k] = 1,
         \A k \in Calls : job[k] = "none" => job'[k] = "none"
  PROVE  JobInv'
<1>1. ASSUME NEW c \in Conns, NEW i \in 1..Len(toAgent[c])
      PROVE  /\ job'[toAgent[c][i]] = "none"
             /\ conn[toAgent[c][i]] = c /\ pc[toAgent[c][i]] \in Written
             /\ \A j \in 1..Len(toAgent[c]) : toAgent[c][i] = toAgent[c][j] => i = j
  <2>1. toAgent[c][i] \in Calls
    BY DEF AgentTypes
  <2>2. /\ job[toAgent[c][i]] = "none"
        /\ conn[toAgent[c][i]] = c /\ pc[toAgent[c][i]] \in Written
        /\ \A j \in 1..Len(toAgent[c]) : toAgent[c][i] = toAgent[c][j] => i = j
    BY DEF JobInv
  <2> QED
    BY <2>1, <2>2
<1> QED
  BY <1>1 DEF JobInv

\* The steps that move a call on its way to the tool keep it in one place.
LEMMA JobInvStep ==
  ASSUME SysInv, [SysNext]_sysVars
  PROVE  JobInv'
<1>0. TypeOK /\ CallInv /\ AgentTypes /\ JobInv /\ [Next]_vars
  BY SysStepIsHubStep DEF SysInv, IInv
<1>1. ASSUME UNCHANGED <<toAgent, job, runs>> PROVE JobInv'
  BY <1>0, <1>1, JobInvFrame
<1>2. ASSUME NEW c \in Conns, AgentReceive(c) PROVE JobInv'
  <2> DEFINE h == Head(toAgent[c])
  <2>1. /\ toAgent[c] \in Seq(Calls) /\ Len(toAgent[c]) > 0
        /\ h = toAgent[c][1] /\ h \in Calls
    BY SMTT(30), <1>0, <1>2 DEF AgentReceive, AgentTypes
  <2>2. job[h] = "none" /\ conn[h] = c /\ pc[h] \in Written /\ runs[h] = 0
    BY <1>0, <2>1 DEF JobInv
  <2>3. /\ toAgent'[c] = Tail(toAgent[c]) /\ \A x \in Conns \ {c} : toAgent'[x] = toAgent[x]
        /\ job' = [job EXCEPT ![h] = "execute"] /\ UNCHANGED <<pc, conn, runs>>
    BY <1>0, <1>2 DEF AgentReceive, AgentTypes, vars
  <2>4. \A i \in 1..Len(toAgent'[c]) :
            i + 1 \in 1..Len(toAgent[c]) /\ toAgent'[c][i] = toAgent[c][i + 1]
    BY <2>1, <2>3
  <2> HIDE DEF h
  <2>5. \A i, j \in 1..Len(toAgent[c]) : toAgent[c][i] = toAgent[c][j] => i = j
    BY <1>0 DEF JobInv
  <2>6. \A x \in Conns \ {c} : \A i \in 1..Len(toAgent[x]) : toAgent[x][i] # h
    BY <1>0, <2>2 DEF JobInv
  <2>7. \A k \in Calls \ {h} : job'[k] = job[k]
    BY <1>0, <2>3 DEF AgentTypes
  <2>8. job'[h] = "execute"
    BY <1>0, <2>1, <2>3 DEF AgentTypes
  <2>9. \A x \in Conns : \A i \in 1..Len(toAgent[x]) : toAgent[x][i] \in Calls
    BY <1>0 DEF AgentTypes
  <2>10. ASSUME NEW i \in 1..Len(toAgent'[c]) PROVE toAgent'[c][i] # h
    <3>1. i \in Nat \ {0} /\ i + 1 \in 1..Len(toAgent[c]) /\ toAgent'[c][i] = toAgent[c][i + 1]
      BY <2>4
    <3>2. 1 \in 1..Len(toAgent[c]) /\ h = toAgent[c][1]
      BY <2>1
    <3>3. i + 1 # 1
      BY <3>1
    <3> QED
      BY <2>5, <3>1, <3>2, <3>3
  <2>11. ASSUME NEW k \in Calls
         PROVE  /\ pc'[k] = "idle" => conn'[k] = NoConn
                /\ job'[k] # "none" => conn'[k] \in Conns /\ pc'[k] \in Written
                /\ job'[k] \in {"none", "execute"} => runs'[k] = 0
                /\ job'[k] = "write" => runs'[k] = 1
    BY SMTT(30), <1>0, <2>2, <2>3, <2>7, <2>8 DEF JobInv
  <2>12. ASSUME NEW x \in Conns, NEW i \in 1..Len(toAgent'[x])
         PROVE  /\ job'[toAgent'[x][i]] = "none"
                /\ conn'[toAgent'[x][i]] = x /\ pc'[toAgent'[x][i]] \in Written
                /\ \A j \in 1..Len(toAgent'[x]) : toAgent'[x][i] = toAgent'[x][j] => i = j
    <3>1. CASE x = c
      <4>1. i + 1 \in 1..Len(toAgent[c]) /\ toAgent'[c][i] = toAgent[c][i + 1]
        BY <2>4, <3>1
      <4>2. toAgent'[c][i] \in Calls \ {h}
        BY <2>9, <2>10, <3>1, <4>1
      <4>3. ASSUME NEW j \in 1..Len(toAgent'[c]), toAgent'[c][i] = toAgent'[c][j]
            PROVE  i = j
        <5>1. j + 1 \in 1..Len(toAgent[c]) /\ toAgent'[c][j] = toAgent[c][j + 1]
          BY <2>4
        <5>2. i + 1 = j + 1
          BY ZenonT(30), <2>5, <4>1, <4>3, <5>1
        <5> QED
          BY <3>1, <5>2
      <4>4. /\ job[toAgent[c][i + 1]] = "none"
            /\ conn[toAgent[c][i + 1]] = c /\ pc[toAgent[c][i + 1]] \in Written
        BY <1>0, <4>1 DEF JobInv
      <4> QED
        BY ZenonT(30), <2>3, <2>7, <3>1, <4>1, <4>2, <4>3, <4>4
    <3>2. CASE x # c
      BY SMTT(30), <1>0, <2>3, <2>6, <2>7, <2>9, <3>2 DEF JobInv
    <3> QED
      BY <3>1, <3>2
  <2> QED
    BY <2>11, <2>12 DEF JobInv
<1>3. ASSUME NEW k \in Calls, Execute(k) PROVE JobInv'
  <2>1. /\ job[k] = "execute" /\ job'[k] = "write" /\ runs'[k] = runs[k] + 1
        /\ \A j \in Calls \ {k} : job'[j] = job[j] /\ runs'[j] = runs[j]
        /\ UNCHANGED <<pc, conn, toAgent>>
    BY <1>0, <1>3 DEF Execute, AgentTypes, vars
  <2>2. \A j \in Calls :
            /\ pc[j] = "idle" => conn[j] = NoConn
            /\ job'[j] # "none" => conn[j] \in Conns /\ pc[j] \in Written
            /\ job'[j] \in {"none", "execute"} => runs'[j] = 0
            /\ job'[j] = "write" => runs'[j] = 1
    BY <1>0, <2>1 DEF JobInv
  <2>3. \A j \in Calls : job[j] = "none" => job'[j] = "none"
    BY <2>1
  <2> QED
    BY <1>0, <2>1, <2>2, <2>3, JobKept
<1>4. ASSUME NEW k \in Calls, Reply(k) \/ ReplyLost(k) PROVE JobInv'
  <2>1. /\ job[k] = "write" /\ job'[k] = "over"
        /\ \A j \in Calls \ {k} : job'[j] = job[j]
        /\ UNCHANGED <<pc, conn, toAgent, runs>>
    BY <1>0, <1>4 DEF Reply, ReplyLost, AgentTypes, vars
  <2>2. \A j \in Calls :
            /\ pc[j] = "idle" => conn[j] = NoConn
            /\ job'[j] # "none" => conn[j] \in Conns /\ pc[j] \in Written
            /\ job'[j] \in {"none", "execute"} => runs'[j] = 0
            /\ job'[j] = "write" => runs'[j] = 1
    BY <1>0, <2>1 DEF JobInv
  <2>3. \A j \in Calls : job[j] = "none" => job'[j] = "none"
    BY SMTT(30), <2>1
  <2> QED
    BY SMTT(30), <1>0, <2>1, <2>2, <2>3, JobKept
<1>5. ASSUME NEW d \in Devices, AgentCrash(d) PROVE JobInv'
  BY <1>0, <1>5 DEF AgentCrash, JobInv, AgentTypes, vars
<1>6. ASSUME NEW k \in Calls, SendCall(k) PROVE JobInv'
  <2>1. PICK c \in Conns : c = conn[k]
    BY ZenonT(30), <1>0, <1>6 DEF SendCall, WriteOK, CallInv, SlotStates
  <2>2. /\ toAgent'[c] = Append(toAgent[c], k) /\ \A x \in Conns \ {c} : toAgent'[x] = toAgent[x]
        /\ pc' = [pc EXCEPT ![k] = "wait"] /\ UNCHANGED <<conn, job, runs>>
    <3>1. /\ toAgent' = [toAgent EXCEPT ![c] = Append(toAgent[c], k)]
          /\ pc' = [pc EXCEPT ![k] = "wait"] /\ UNCHANGED <<conn, job, runs>>
      BY <1>6, <2>1 DEF SendCall, WriteOK
    <3>2. DOMAIN toAgent = Conns
      BY SMTT(30), <1>0 DEF AgentTypes
    <3> QED
      BY <3>1, <3>2
  <2>3. job[k] = "none" /\ pc[k] \notin Written
    BY SMTT(30), <1>0, <1>6 DEF SendCall, WriteOK, JobInv, Written
  <2>4. pc'[k] \in Written /\ \A j \in Calls \ {k} : pc'[j] = pc[j]
    BY SMTT(30), <1>0, <2>2 DEF TypeOK, Written
  <2>5. \A x \in Conns : \A i \in 1..Len(toAgent[x]) : toAgent[x][i] \in Calls \ {k}
    <3>1. \A x \in Conns : \A i \in 1..Len(toAgent[x]) : toAgent[x][i] \in Calls
      BY <1>0 DEF AgentTypes
    <3>2. \A x \in Conns : \A i \in 1..Len(toAgent[x]) : pc[toAgent[x][i]] \in Written
      BY <1>0 DEF JobInv
    <3> QED
      BY <2>3, <3>1, <3>2
  <2>6. /\ Len(toAgent'[c]) = Len(toAgent[c]) + 1 /\ Len(toAgent[c]) \in Nat
        /\ toAgent'[c][Len(toAgent[c]) + 1] = k
        /\ \A i \in 1..Len(toAgent[c]) : toAgent'[c][i] = toAgent[c][i]
    BY <1>0, <2>2 DEF AgentTypes
  <2>7. ASSUME NEW j \in Calls
        PROVE  /\ pc'[j] = "idle" => conn'[j] = NoConn
               /\ job'[j] # "none" => conn'[j] \in Conns /\ pc'[j] \in Written
               /\ job'[j] \in {"none", "execute"} => runs'[j] = 0
               /\ job'[j] = "write" => runs'[j] = 1
    BY <1>0, <2>2, <2>3, <2>4 DEF JobInv, Written
  <2>8. ASSUME NEW x \in Conns \ {c}, NEW i \in 1..Len(toAgent'[x])
        PROVE  /\ job'[toAgent'[x][i]] = "none"
               /\ conn'[toAgent'[x][i]] = x /\ pc'[toAgent'[x][i]] \in Written
               /\ \A j \in 1..Len(toAgent'[x]) : toAgent'[x][i] = toAgent'[x][j] => i = j
    BY SMTT(30), <1>0, <2>2, <2>4, <2>5 DEF JobInv
  <2>9. ASSUME NEW i \in 1..Len(toAgent'[c])
        PROVE  /\ job'[toAgent'[c][i]] = "none"
               /\ conn'[toAgent'[c][i]] = c /\ pc'[toAgent'[c][i]] \in Written
    <3>1. CASE i \in 1..Len(toAgent[c])
      <4>1. toAgent'[c][i] = toAgent[c][i] /\ toAgent[c][i] \in Calls \ {k}
        BY SMTT(30), <2>5, <2>6, <3>1
      <4>2. /\ job[toAgent[c][i]] = "none"
            /\ conn[toAgent[c][i]] = c /\ pc[toAgent[c][i]] \in Written
        BY SMTT(30), <1>0, <3>1 DEF JobInv
      <4> QED
        BY <2>2, <2>4, <4>1, <4>2
    <3>2. CASE i = Len(toAgent[c]) + 1
      BY SMTT(30), <2>1, <2>2, <2>3, <2>4, <2>6, <3>2
    <3>3. i \in 1..Len(toAgent[c]) \/ i = Len(toAgent[c]) + 1
      BY <2>6
    <3> QED
      BY <3>1, <3>2, <3>3
  <2>10. ASSUME NEW i \in 1..Len(toAgent'[c]), NEW j \in 1..Len(toAgent'[c]),
                toAgent'[c][i] = toAgent'[c][j]
         PROVE  i = j
    <3>1. \A m \in 1..Len(toAgent'[c]) : m \in 1..Len(toAgent[c]) \/ m = Len(toAgent[c]) + 1
      BY <2>6
    <3>2. CASE i \in 1..Len(toAgent[c]) /\ j \in 1..Len(toAgent[c])
      BY <1>0, <2>6, <2>10, <3>2 DEF JobInv
    <3>3. CASE i = Len(toAgent[c]) + 1 \/ j = Len(toAgent[c]) + 1
      BY <2>5, <2>6, <2>10, <3>1, <3>3
    <3> QED
      BY <3>1, <3>2, <3>3
  <2> QED
    BY ZenonT(30), <2>7, <2>8, <2>9, <2>10 DEF JobInv
<1>7. ASSUME \/ \E c \in Conns : AgentConnect(c) \/ AgentDisconnects(c) \/ Receive(c)
             \/ UNCHANGED agentVars
      PROVE  JobInv'
  BY <1>1, <1>7 DEF AgentConnect, AgentDisconnects, Receive, agentVars
<1> QED
  BY <1>2, <1>3, <1>4, <1>5, <1>6, <1>7 DEF SysNext, SysQuiescent, sysVars

\* A step that puts no result into a frame keeps ResultInv if the results it gives to
\* calls come from tools that have run.
LEMMA ResultKept ==
  ASSUME ResultInv, toHub' = toHub, runs' = runs,
         \A c \in Conns : reader'[c] = "deliver" => reader[c] = "deliver" /\ rid'[c] = rid[c],
         \A k \in Calls : ch'[k] = "result" \/ outcome'[k] = "result" => runs[k] = 1
  PROVE  ResultInv'
<1>1. \A c \in Conns : \A i \in 1..Len(toHub[c]) : runs[toHub[c][i]] = 1
  BY DEF ResultInv
<1>2. \A c \in Conns : reader'[c] = "deliver" => rid'[c] \in Calls /\ runs[rid'[c]] = 1
  BY DEF ResultInv
<1> QED
  BY <1>1, <1>2 DEF ResultInv

\* The steps that move a result keep it tied to a run of its tool.
LEMMA ResultInvStep ==
  ASSUME SysInv, [SysNext]_sysVars
  PROVE  ResultInv'
<1>0. TypeOK /\ CallInv /\ AgentTypes /\ JobInv /\ ResultInv
  BY DEF SysInv, IInv
<1> DEFINE Same == UNCHANGED <<toHub, reader, rid, ch, outcome, runs>>
<1>1. ASSUME Same PROVE ResultInv'
  BY ZenonT(30), <1>0, <1>1 DEF ResultInv
<1>2. ASSUME NEW k \in Calls, Execute(k) PROVE ResultInv'
  <2>1. runs[k] = 0
    BY <1>0, <1>2 DEF Execute, JobInv
  <2>2. \A j \in Calls : runs[j] = 1 => runs'[j] = 1
    BY <1>0, <1>2, <2>1 DEF Execute, AgentTypes
  <2>3. \A c \in Conns : \A i \in 1..Len(toHub[c]) : toHub[c][i] \in Calls
    BY <1>0 DEF AgentTypes
  <2>4. UNCHANGED <<toHub, reader, rid, ch, outcome>>
    BY <1>2 DEF Execute, vars
  <2> QED
    BY ZenonT(30), <1>0, <2>2, <2>3, <2>4 DEF ResultInv
<1>3. ASSUME NEW k \in Calls, Reply(k) PROVE ResultInv'
  <2>1. PICK c \in Conns : c = conn[k]
    BY <1>0, <1>3 DEF Reply, JobInv
  <2>2. /\ toHub'[c] = Append(toHub[c], k) /\ \A x \in Conns \ {c} : toHub'[x] = toHub[x]
        /\ UNCHANGED <<reader, rid, ch, outcome, runs>>
    BY <1>0, <1>3, <2>1 DEF Reply, AgentTypes, vars
  <2>3. runs[k] = 1
    BY <1>0, <1>3 DEF Reply, JobInv
  <2>4. /\ Len(toHub'[c]) = Len(toHub[c]) + 1 /\ Len(toHub[c]) \in Nat
        /\ toHub'[c][Len(toHub[c]) + 1] = k
        /\ \A i \in 1..Len(toHub[c]) : toHub'[c][i] = toHub[c][i]
    BY <1>0, <2>2 DEF AgentTypes
  <2>5. ASSUME NEW i \in 1..Len(toHub'[c]) PROVE runs[toHub'[c][i]] = 1
    <3>1. i \in 1..Len(toHub[c]) \/ i = Len(toHub[c]) + 1
      BY <2>4
    <3> QED
      BY <1>0, <2>3, <2>4, <3>1 DEF ResultInv
  <2> QED
    BY SMTT(30), <1>0, <2>2, <2>5 DEF ResultInv
<1>4. ASSUME NEW c \in Conns, Receive(c) PROVE ResultInv'
  <2> DEFINE h == Head(toHub[c])
  <2>1. toHub[c] \in Seq(Calls) /\ Len(toHub[c]) > 0 /\ h = toHub[c][1] /\ h \in Calls
    BY <1>0, <1>4 DEF Receive, AgentTypes
  <2>2. runs[h] = 1
    BY <1>0, <2>1 DEF ResultInv
  <2>3. /\ toHub'[c] = Tail(toHub[c]) /\ \A x \in Conns \ {c} : toHub'[x] = toHub[x]
        /\ UNCHANGED <<ch, outcome, runs>>
    BY <1>0, <1>4 DEF Receive, ReadResult, AgentTypes, callVars
  <2>4. \A i \in 1..Len(toHub'[c]) :
            i + 1 \in 1..Len(toHub[c]) /\ toHub'[c][i] = toHub[c][i + 1]
    BY <2>1, <2>3
  <2>5. \A i \in 1..Len(toHub'[c]) : runs[toHub'[c][i]] = 1
    BY <1>0, <2>4 DEF ResultInv
  <2> HIDE DEF h
  <2>6. /\ reader' = [reader EXCEPT ![c] = IF h \in pending[c] THEN "deliver" ELSE @]
        /\ rid' = [rid EXCEPT ![c] = IF h \in pending[c] THEN h ELSE @]
        /\ reader[c] = "read"
    BY <1>4 DEF Receive, ReadResult, h
  <2>7. ASSUME NEW x \in Conns, reader'[x] = "deliver" PROVE rid'[x] \in Calls /\ runs[rid'[x]] = 1
    <3>1. reader \in [Conns -> ReadStates] /\ rid \in [Conns -> Calls \cup {NoCall}]
      BY <1>0 DEF TypeOK
    <3>2. CASE x = c
      <4>1. h \in pending[c] /\ rid'[c] = h
        BY <2>6, <2>7, <3>1, <3>2
      <4>2. h \in Calls
        BY <2>1
      <4> QED
        BY <2>2, <3>2, <4>1, <4>2
    <3>3. CASE x # c
      <4>1. reader[x] = "deliver" /\ rid'[x] = rid[x]
        BY <2>6, <2>7, <3>1, <3>3
      <4> QED
        BY <1>0, <4>1 DEF ResultInv
    <3> QED
      BY <3>2, <3>3
  <2>8. ASSUME NEW x \in Conns, NEW i \in 1..Len(toHub'[x]) PROVE runs[toHub'[x][i]] = 1
    <3>1. CASE x = c
      BY <2>5, <3>1
    <3>2. CASE x # c
      <4>1. toHub'[x] = toHub[x]
        BY <2>3, <3>2
      <4>2. \A m \in 1..Len(toHub[x]) : runs[toHub[x][m]] = 1
        BY <1>0 DEF ResultInv
      <4> QED
        BY <4>1, <4>2
    <3> QED
      BY <3>1, <3>2
  <2>9. \A k \in Calls : ch'[k] = "result" \/ outcome'[k] = "result" => runs[k] = 1
    BY <1>0, <2>3 DEF ResultInv
  <2>10. runs' = runs
    BY <2>3
  <2> QED
    BY <2>7, <2>8, <2>9, <2>10 DEF ResultInv
<1>5. ASSUME NEW c \in Conns, Deliver(c), UNCHANGED agentVars PROVE ResultInv'
  <2>1. rid[c] \in Calls /\ runs[rid[c]] = 1
    BY <1>0, <1>5 DEF Deliver, ResultInv
  <2>2. \A k \in Calls : ch'[k] = "result" => ch[k] = "result" \/ k = rid[c]
    BY <1>0, <1>5 DEF Deliver, TypeOK
  <2>3. \A x \in Conns : reader'[x] = "deliver" => reader[x] = "deliver" /\ rid'[x] = rid[x]
    BY <1>0, <1>5 DEF Deliver, TypeOK
  <2>4. UNCHANGED <<toHub, outcome, runs>>
    BY <1>5 DEF Deliver, callVars, agentVars
  <2> QED
    <3>1. \A k \in Calls : ch'[k] = "result" \/ outcome'[k] = "result" => runs[k] = 1
      BY <1>0, <2>1, <2>2, <2>4 DEF ResultInv
    <3> QED
      BY <1>0, <2>3, <2>4, <3>1, ResultKept
<1>6. ASSUME NEW c \in Conns, FailPending(c), UNCHANGED agentVars PROVE ResultInv'
  <2>1. \A k \in Calls : ch'[k] = "result" => ch[k] = "result"
    BY <1>0, <1>6 DEF FailPending
  <2>2. UNCHANGED <<toHub, reader, rid, outcome, runs>>
    BY <1>6 DEF FailPending, readVars, callVars, agentVars
  <2> QED
    <3>1. \A k \in Calls : ch'[k] = "result" \/ outcome'[k] = "result" => runs[k] = 1
      BY <1>0, <2>1, <2>2 DEF ResultInv
    <3> QED
      BY <1>0, <2>2, <3>1, ResultKept
<1>7. ASSUME NEW c \in Conns, UNCHANGED agentVars,
             \/ CloseOld(c) \/ CloseDoomed(c) \/ ShutSocket(c) \/ SignalDone(c) \/ Unmap(c)
             \/ \E d \in Devices : Disconnect(d)
      PROVE  ResultInv'
  BY ZenonT(30), <1>1, <1>7
  DEF CloseOld, CloseDoomed, ShutSocket, SignalDone, Unmap, Disconnect,
     readVars, callVars, agentVars
<1>8. ASSUME NEW c \in Conns, StartReadLoop(c) \/ ReadFails(c), UNCHANGED agentVars
      PROVE  ResultInv'
  <2>1. \A x \in Conns : reader'[x] = "deliver" => reader[x] = "deliver"
    BY <1>0, <1>8 DEF StartReadLoop, ReadFails, TypeOK
  <2>2. UNCHANGED <<toHub, rid, ch, outcome, runs>>
    BY SMTT(30), <1>8 DEF StartReadLoop, ReadFails, callVars, agentVars
  <2> QED
    <3>1. \A k \in Calls : ch'[k] = "result" \/ outcome'[k] = "result" => runs[k] = 1
      BY SMTT(30), <1>0, <2>2 DEF ResultInv
    <3> QED
      BY SMTT(30), <1>0, <2>1, <2>2, <3>1, ResultKept
<1>9. ASSUME NEW c \in Conns, AgentConnect(c) PROVE ResultInv'
  <2>1. \A x \in Conns : reader'[x] = "deliver" => reader[x] = "deliver"
    BY SMTT(30), <1>0, <1>9 DEF AgentConnect, Register, TypeOK
  <2>2. UNCHANGED <<toHub, rid, ch, outcome, runs>>
    BY SMTT(30), <1>9 DEF AgentConnect, Register, callVars
  <2> QED
    <3>1. \A k \in Calls : ch'[k] = "result" \/ outcome'[k] = "result" => runs[k] = 1
      BY <1>0, <2>2 DEF ResultInv
    <3> QED
      BY <1>0, <2>1, <2>2, <3>1, ResultKept
<1>10. ASSUME NEW k \in Calls, HubCallStep(k), UNCHANGED agentVars PROVE ResultInv'
  <2>1. \A j \in Calls : outcome'[j] = "result" => outcome[j] = "result" \/ ch[j] = "result"
    BY Zenon, <1>0, <1>10 DEF TypeOK, HubCallStep, Acquire, SlotCtx, SlotOffline, PrepareFails,
       AddPending, LockWrite, WriteTooLarge, WriteFails, CloseOnError, WriteClosed,
       AwaitReply, AwaitCtx, Unpend, Release, LookupMiss, LookupHit, Return, Finish
  <2>2. UNCHANGED <<reader, rid, ch>>
    BY Zenon, <1>10 DEF HubCallStep, Acquire, SlotCtx, SlotOffline, PrepareFails,
       AddPending, LockWrite, WriteTooLarge, WriteFails, CloseOnError, WriteClosed,
       AwaitReply, AwaitCtx, Unpend, Release, LookupMiss, LookupHit, readVars
  <2> QED
    BY <1>0, <1>10, <2>1, <2>2 DEF ResultInv, agentVars
<1>11. ASSUME \/ \E c \in Conns : AgentReceive(c) \/ AgentDisconnects(c)
              \/ \E k \in Calls : ReplyLost(k) \/ SendCall(k)
              \/ \E d \in Devices : AgentCrash(d)
              \/ UNCHANGED sysVars
       PROVE  ResultInv'
  BY Zenon, <1>1, <1>11
  DEF AgentReceive, AgentDisconnects, ReplyLost, SendCall, WriteOK, AgentCrash,
     vars, readVars, sysVars, agentVars
<1>12. ASSUME NEW d \in Devices, Disconnect(d), UNCHANGED agentVars PROVE ResultInv'
  BY <1>1, <1>12 DEF Disconnect, readVars, callVars, agentVars
<1>13. SysQuiescent => UNCHANGED sysVars
  BY DEF SysQuiescent, Quiescent, sysVars
<1> QED
  BY SMTT(30), <1>2, <1>3, <1>4, <1>5, <1>6, <1>7, <1>8, <1>9, <1>10, <1>11, <1>12, <1>13
  DEF SysNext, HubConnStep, CloseStep

\* The hub and the agent start in a state of the invariant and keep it.
THEOREM SysInvariance == SysSpec => []SysInv
<1>1. SysInit => SysInv
  <2> SUFFICES ASSUME SysInit PROVE SysInv
    OBVIOUS
  <2>1. IInv
    BY InitIInv DEF SysInit
  <2>2. AgentTypes
    BY DEF SysInit, AgentTypes
  <2>3. JobInv /\ ResultInv
    BY DEF SysInit, Init, JobInv, ResultInv
  <2> QED
    BY <2>1, <2>2, <2>3 DEF SysInv
<1>2. SysInv /\ [SysNext]_sysVars => SysInv'
  <2> SUFFICES ASSUME SysInv, [SysNext]_sysVars PROVE SysInv'
    OBVIOUS
  <2>1. IInv'
    BY SMTT(30), SysStepIsHubStep, TypeStep, CallInvStep, SlotInvStep, ClosedStep, NoOrphanStep
    DEF SysInv, IInv
  <2> QED
    BY <2>1, AgentTypesStep, JobInvStep, ResultInvStep DEF SysInv
<1> QED
  BY <1>1, <1>2, PTL DEF SysSpec

-----------------------------------------------------------------------------
(* The refinement: what a step does to the mapped variables. *)

\* A step that keeps every call idle, under way or returned is no step of RemoteCall.
LEMMA StageKept ==
  ASSUME \A k \in Calls : /\ pc'[k] = "idle" <=> pc[k] = "idle"
                          /\ pc'[k] = "returned" <=> pc[k] = "returned"
                          /\ pc[k] = "returned" => conn'[k] = conn[k] /\ outcome'[k] = outcome[k]
  PROVE  stageMap' = stageMap /\ gotMap' = gotMap
<1>1. \A k \in Calls : Stage(k)' = Stage(k)
  BY DEF Stage
<1> QED
  BY <1>1 DEF stageMap, gotMap

\* A step of one call changes the mapped variables at that call only.
LEMMA StageMoves ==
  ASSUME NEW k \in Calls,
         \A j \in Calls \ {k} : pc'[j] = pc[j] /\ conn'[j] = conn[j] /\ outcome'[j] = outcome[j]
  PROVE  /\ \A x : Stage(k)' = x => stageMap' = [stageMap EXCEPT ![k] = x]
         /\ stageMap[k] = Stage(k)
         /\ pc[k] # "returned" =>
              gotMap' = IF pc'[k] = "returned" /\ outcome'[k] = "result"
                        THEN gotMap \cup {k} ELSE gotMap
<1>1. \A j \in Calls \ {k} : Stage(j)' = Stage(j)
  BY DEF Stage
<1>2. \A x : Stage(k)' = x => stageMap' = [stageMap EXCEPT ![k] = x]
  BY ZenonT(30), <1>1 DEF stageMap
<1>3. stageMap[k] = Stage(k)
  BY DEF stageMap
<1>4. pc[k] # "returned" =>
        gotMap' = IF pc'[k] = "returned" /\ outcome'[k] = "result"
                  THEN gotMap \cup {k} ELSE gotMap
  BY SMTT(30) DEF gotMap
<1> QED
  BY <1>2, <1>3, <1>4

\* A step of Hub.Call is a step of RemoteCall or changes nothing of it.
LEMMA HubCallRefines ==
  ASSUME SysInv, NEW k \in Calls, HubCallStep(k), UNCHANGED agentVars
  PROVE  [RC!Next]_<<stageMap, ranMap, gotMap>>
<1>0. /\ pc \in [Calls -> CallStates] /\ conn \in [Calls -> Conns \cup {NoConn}]
      /\ outcome \in [Calls -> Outcomes] /\ devices \in [Devices -> Conns \cup {NoConn}]
      /\ NoConn \notin Conns
  BY HubAssumption DEF SysInv, IInv, TypeOK
<1>1. ranMap' = ranMap
  BY DEF ranMap, agentVars
<1>2. ASSUME \/ Acquire(k) \/ PrepareFails(k) \/ AddPending(k) \/ LockWrite(k)
             \/ WriteTooLarge(k) \/ WriteFails(k) \/ WriteClosed(k) \/ AwaitReply(k)
             \/ AwaitCtx(k) \/ Unpend(k)
      PROVE  stageMap' = stageMap /\ gotMap' = gotMap
  <2>1. /\ pc[k] \notin {"idle", "returned"} /\ pc'[k] \notin {"idle", "returned"}
        /\ \A j \in Calls \ {k} : pc'[j] = pc[j] /\ outcome'[j] = outcome[j]
        /\ conn' = conn
    BY Zenon, <1>0, <1>2
    DEF Acquire, PrepareFails, AddPending, LockWrite, WriteTooLarge, WriteFails,
       CloseOnError, WriteClosed, AwaitReply, AwaitCtx, Unpend, Finish
  <2> QED
    BY Zenon, <2>1, StageKept
<1>3. ASSUME SlotCtx(k) \/ SlotOffline(k) PROVE RC!ReturnError(k)
  <2>1. /\ pc[k] = "acquire" /\ pc'[k] = "returned" /\ outcome'[k] \in {"ctx", "offline"}
        /\ \A j \in Calls \ {k} : pc'[j] = pc[j] /\ outcome'[j] = outcome[j]
        /\ conn' = conn
    BY SMTT(30), <1>0, <1>3 DEF SlotCtx, SlotOffline, Return
  <2>2. conn[k] # NoConn
    BY <1>0, <2>1 DEF SysInv, IInv, CallInv
  <2>3. Stage(k) = "open" /\ Stage(k)' = "returned"
    BY SMTT(30), <2>1, <2>2 DEF Stage
  <2>4. stageMap[k] = "open" /\ stageMap' = [stageMap EXCEPT ![k] = "returned"] /\ gotMap' = gotMap
    BY <2>1, <2>3, StageMoves
  <2> QED
    BY <1>1, <2>4 DEF RC!ReturnError
<1>4. ASSUME Release(k) PROVE RC!ReturnError(k) \/ RC!ReturnResult(k)
  <2>1. /\ pc[k] = "release" /\ pc'[k] = "returned" /\ outcome' = outcome
        /\ \A j \in Calls \ {k} : pc'[j] = pc[j]
        /\ conn' = conn
    BY SMTT(30), <1>0, <1>4 DEF Release
  <2>2. conn[k] # NoConn
    BY Zenon, <1>0, <2>1 DEF SysInv, IInv, CallInv, SlotStates
  <2>3. Stage(k) = "open" /\ Stage(k)' = "returned"
    BY SMTT(30), <2>1, <2>2 DEF Stage
  <2>4. /\ stageMap[k] = "open" /\ stageMap' = [stageMap EXCEPT ![k] = "returned"]
        /\ gotMap' = IF outcome[k] = "result" THEN gotMap \cup {k} ELSE gotMap
    BY <2>1, <2>3, StageMoves
  <2>5. outcome[k] = "result" => k \in ranMap
    BY DEF SysInv, ResultInv, ranMap
  <2> QED
    BY <1>1, <2>4, <2>5 DEF RC!ReturnError, RC!ReturnResult
<1>5. ASSUME NEW s \in Subjects, NEW d \in Devices, LookupMiss(k, s, d) PROVE RC!Refuse(k)
  <2>1. /\ pc[k] = "idle" /\ pc'[k] = "returned" /\ outcome'[k] = "offline"
        /\ \A j \in Calls \ {k} : pc'[j] = pc[j] /\ outcome'[j] = outcome[j]
        /\ conn' = conn
    BY SMTT(30), <1>0, <1>5 DEF LookupMiss, Return
  <2>2. conn[k] = NoConn
    BY <2>1 DEF SysInv, JobInv
  <2>3. Stage(k) = "idle" /\ Stage(k)' = "refused"
    BY <2>1, <2>2 DEF Stage
  <2>4. stageMap[k] = "idle" /\ stageMap' = [stageMap EXCEPT ![k] = "refused"] /\ gotMap' = gotMap
    BY <2>1, <2>3, StageMoves
  <2> QED
    BY <1>1, <2>4 DEF RC!Refuse
<1>6. ASSUME NEW s \in Subjects, NEW d \in Devices, LookupHit(k, s, d) PROVE RC!Issue(k)
  <2>1. /\ pc[k] = "idle" /\ pc'[k] = "acquire" /\ outcome' = outcome
        /\ \A j \in Calls \ {k} : pc'[j] = pc[j] /\ conn'[j] = conn[j]
    BY <1>0, <1>6 DEF LookupHit
  <2>2. Stage(k) = "idle" /\ Stage(k)' = "open"
    BY <2>1 DEF Stage
  <2>3. stageMap[k] = "idle" /\ stageMap' = [stageMap EXCEPT ![k] = "open"] /\ gotMap' = gotMap
    BY <2>1, <2>2, StageMoves
  <2> QED
    BY <1>1, <2>3 DEF RC!Issue
<1>7. (\E x \in Calls : RC!ReturnError(x) \/ RC!ReturnResult(x) \/ RC!Refuse(x) \/ RC!Issue(x))
        => [RC!Next]_<<stageMap, ranMap, gotMap>>
  BY DEF RC!Next
<1> QED
  BY SMTT(30), <1>1, <1>2, <1>3, <1>4, <1>5, <1>6, <1>7 DEF HubCallStep

\* Execute is the step Run of RemoteCall: the tool of this call has not run before.
LEMMA ExecuteRefines ==
  ASSUME SysInv, NEW k \in Calls, Execute(k)
  PROVE  RC!Run(k)
<1>1. runs[k] = 0 /\ conn[k] \in Conns /\ pc[k] \in Written
  BY DEF SysInv, JobInv, Execute
<1>2. Stage(k) \in {"open", "returned"} /\ stageMap[k] = Stage(k)
  BY SMTT(30), <1>1, HubAssumption DEF Stage, stageMap, Written
<1>3. k \notin ranMap \cup gotMap
  <2>1. k \notin ranMap
    BY <1>1 DEF ranMap
  <2>2. outcome[k] # "result"
    BY <1>1 DEF SysInv, ResultInv
  <2>3. k \notin gotMap
    BY SMTT(30), <2>2 DEF gotMap
  <2> QED
    BY <2>1, <2>3
<1>4. ranMap' = ranMap \cup {k}
  BY <1>1 DEF SysInv, AgentTypes, Execute, ranMap
<1>5. UNCHANGED <<pc, conn, outcome>>
  BY DEF Execute, vars
<1>6. stageMap' = stageMap /\ gotMap' = gotMap
  BY <1>5, StageKept
<1> QED
  BY SMTT(30), <1>2, <1>3, <1>4, <1>6 DEF RC!Run

\* The hub and the agent implement RemoteCall: no tool runs twice or for a refused
\* call, and a result is returned only for a tool that has run.
THEOREM RelayImplementsRemoteCall == SysSpec => ImplementsRemoteCall
<1>1. SysInit => RC!Init
  BY DEF SysInit, Init, RC!Init, stageMap, ranMap, gotMap, Stage
<1>2. SysInv /\ [SysNext]_sysVars => [RC!Next]_<<stageMap, ranMap, gotMap>>
  <2> SUFFICES ASSUME SysInv, [SysNext]_sysVars
               PROVE  [RC!Next]_<<stageMap, ranMap, gotMap>>
    OBVIOUS
  <2>1. ASSUME UNCHANGED <<pc, conn, outcome, runs>>
        PROVE  UNCHANGED <<stageMap, ranMap, gotMap>>
    <3>1. ranMap' = ranMap
      BY <2>1 DEF ranMap
    <3> QED
      BY <2>1, <3>1, StageKept
  <2>2. ASSUME NEW k \in Calls, Execute(k) PROVE [RC!Next]_<<stageMap, ranMap, gotMap>>
    BY SMTT(30), <2>2, ExecuteRefines DEF RC!Next
  <2>3. ASSUME NEW k \in Calls, SendCall(k) PROVE UNCHANGED <<stageMap, ranMap, gotMap>>
    <3>1. /\ pc[k] = "writing" /\ pc'[k] = "wait" /\ \A j \in Calls \ {k} : pc'[j] = pc[j]
          /\ UNCHANGED <<conn, outcome, runs>>
      BY <2>3 DEF SendCall, WriteOK, SysInv, IInv, TypeOK
    <3>2. ranMap' = ranMap
      BY <3>1 DEF ranMap
    <3> QED
      BY SMTT(30), <3>1, <3>2, StageKept
  <2>4. ASSUME \/ \E c \in Conns : \/ AgentConnect(c) \/ AgentReceive(c) \/ AgentDisconnects(c)
                                   \/ Receive(c)
               \/ \E k \in Calls : Reply(k) \/ ReplyLost(k)
               \/ \E d \in Devices : AgentCrash(d)
               \/ UNCHANGED sysVars
        PROVE  UNCHANGED <<pc, conn, outcome, runs>>
    BY Zenon, <2>4
    DEF AgentConnect, Register, AgentReceive, AgentDisconnects, Receive, ReadResult,
       Reply, ReplyLost, AgentCrash, sysVars, agentVars, vars, callVars
  <2>5. ASSUME UNCHANGED agentVars,
               \/ \E c \in Conns : HubConnStep(c)
               \/ \E d \in Devices : Disconnect(d)
               \/ Quiescent
        PROVE  UNCHANGED <<pc, conn, outcome, runs>>
    BY ZenonT(30), <2>5
    DEF HubConnStep, CloseOld, StartReadLoop, CloseDoomed, CloseStep, ShutSocket,
       SignalDone, Unmap, FailPending, Deliver, ReadFails, Disconnect, Quiescent,
       agentVars, vars, callVars
  <2> QED
    BY <2>1, <2>2, <2>3, <2>4, <2>5, HubCallRefines DEF SysNext, SysQuiescent
<1> QED
  BY SysInvariance, <1>1, <1>2, PTL DEF SysSpec, ImplementsRemoteCall, RC!Spec
=============================================================================
