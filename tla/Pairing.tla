------------------------------ MODULE Pairing ------------------------------
(***************************************************************************)
(* Pairing a device: the agent's pair loop (cmd/orc-agent), the control    *)
(* plane's startPairing, approvePairing and consumePairing handlers, and   *)
(* the two stores behind them.  The in-memory store consumes a pairing in  *)
(* one critical section.  The Neon store runs one atomic statement and,    *)
(* when that changed nothing, a second query to find out why.              *)
(*                                                                         *)
(* A member of Codes is a pairing row with its device code and user code;  *)
(* a member of Reqs is a request to the token endpoint, and names the      *)
(* device ID and token that request has generated.  A request whose token  *)
(* was not stored may be used again.  The agent of one machine pairs when  *)
(* it starts without usable credentials in its file, one pairing after the *)
(* other, and saves what it is given; it may crash at any step.            *)
(***************************************************************************)
EXTENDS Naturals, FiniteSets

CONSTANTS Codes, Subjects, Reqs,
          MaxFaults,  \* bound on lost messages, store errors, rate limiting and crashes
          NoOwner, NoReq,
          Torn        \* what a file holds while it is being written

ASSUME PairingAssumption ==
    /\ MaxFaults \in Nat /\ Codes # {}
    /\ NoOwner \notin Subjects /\ NoReq \notin Reqs /\ Torn \notin Reqs \cup {NoReq}

VARIABLES
    neon,     \* the store the server was started with: NeonHTTP, or else Memory
    parses,   \* Neon's endpoint writes timestamps the way timePtr reads them
    rows,     \* the pairings that exist in the store
    owner,    \* owner_subject; NoOwner while approved_at is null
    used,     \* the request that consumed the pairing, NoReq while consumed_at is null
    devices,  \* the devices created: pairing, owner and token
    clock,    \* a pairing's expiry: "live", "edge" (now = expires_at) or "past"
    agent,    \* progress of the agent's pair loop
    waits,    \* the request the agent is waiting for
    cred,     \* the token the agent has been given
    file,     \* device.json: a token, NoReq if there is none, or Torn
    tmp,      \* device.json.tmp
    loaded,   \* the agent runs with the credentials of the file
    at,       \* progress of a request
    code,     \* the pairing a request is about
    late,     \* the requests in progress that were sent when their pairing had been approved
    faults

diskVars == <<file, tmp, loaded>>
agentVars == <<agent, waits, cred, diskVars>>
setup == <<neon, parses>>
storeVars == <<setup, rows, owner, used, devices>>
reqVars == <<code, late>>
vars == <<storeVars, clock, agentVars, at, reqVars, faults>>

Answers == {"200", "400", "410", "428", "429"}
Stages == {"free", "update", "status", "spent"} \cup Answers

Init ==
    /\ neon \in BOOLEAN /\ parses \in {FALSE, neon}
    /\ rows = {} /\ devices = {} /\ faults = 0
    /\ owner = [c \in Codes |-> NoOwner]
    /\ used = [c \in Codes |-> NoReq]
    /\ clock = [c \in Codes |-> "live"]
    /\ agent = [c \in Codes |-> "off"]
    /\ waits = [c \in Codes |-> NoReq]
    /\ cred = [c \in Codes |-> NoReq]
    /\ file = NoReq /\ tmp = NoReq /\ loaded = FALSE
    /\ at = [r \in Reqs |-> "free"]
    /\ code = [r \in Reqs |-> CHOOSE c \in Codes : TRUE]
    /\ late = {}

\* After its answer a request is gone; the token of a successful one is taken.
Over(r) == IF used[code[r]] = r THEN "spent" ELSE "free"

Fault == faults < MaxFaults /\ faults' = faults + 1

-----------------------------------------------------------------------------
(* The agent starts: loadCredentials, or else startPairing and the pair loop *)

Running == {c \in Codes : agent[c] \in {"polling", "waiting", "paired", "saving", "serving"}}
Up == loaded \/ Running # {}

Load ==
    /\ ~ Up /\ file \in Reqs
    /\ loaded' = TRUE
    /\ UNCHANGED <<storeVars, clock, agent, waits, cred, file, tmp, at, reqVars, faults>>

UnpairedAnyway(c) == ~ Up /\ agent[c] = "off"

Unpaired(c) == ~ Up /\ file \notin Reqs /\ agent[c] = "off"

CreatePairing(c) == rows' = rows \cup {c}

StartPairing(c) ==
    /\ Unpaired(c)
    /\ CreatePairing(c)
    /\ agent' = [agent EXCEPT ![c] = "polling"]
    /\ UNCHANGED <<setup, owner, used, devices, clock, waits, cred, diskVars, at, reqVars, faults>>

\* Refused, or created and the response lost: pair returns an error.
StartFails(c) ==
    /\ Unpaired(c)
    /\ Fault
    /\ UNCHANGED rows \/ CreatePairing(c)
    /\ agent' = [agent EXCEPT ![c] = "failed"]
    /\ UNCHANGED <<setup, owner, used, devices, clock, waits, cred, diskVars, at, reqVars>>

\* Memory refuses when now.After(ExpiresAt), Neon unless expires_at > now().
Unexpired(c) == clock[c] = "live" \/ (~neon /\ clock[c] = "edge")

Approvable(c) == c \in rows /\ Unexpired(c) /\ used[c] = NoReq

\* A second approval of an unconsumed pairing replaces the first.
ApprovePairing(s, c) ==
    /\ Approvable(c)
    /\ owner' = [owner EXCEPT ![c] = s]
    /\ UNCHANGED <<setup, rows, used, devices, clock, agentVars, at, reqVars, faults>>

-----------------------------------------------------------------------------
(* consumePairing *)

Answer(r, status) ==
    /\ at' = [at EXCEPT ![r] = status]
    /\ UNCHANGED storeVars

\* The pairing is consumed and the device created, in one step in both stores.
Success(r) ==
    LET c == code[r] IN
    /\ used' = [used EXCEPT ![c] = r]
    /\ devices' = devices \cup {[code |-> c, owner |-> owner[c], token |-> r]}
    /\ UNCHANGED <<setup, rows, owner>>

Consumable(c) == owner[c] # NoOwner /\ used[c] = NoReq /\ Unexpired(c)

ConsumeMemory(r) ==
    LET c == code[r] IN
    /\ ~neon /\ at[r] = "update"
    /\ IF Consumable(c)
       THEN Success(r) /\ at' = [at EXCEPT ![r] = "200"]
       ELSE Answer(r, IF clock[c] = "past" \/ used[c] # NoReq THEN "410" ELSE "428")
    /\ UNCHANGED <<clock, agentVars, reqVars, faults>>

NeonUpdateTwice(r) ==
    LET c == code[r] IN
    /\ neon /\ at[r] = "update"
    /\ IF owner[c] # NoOwner /\ Unexpired(c)
       THEN Success(r) /\ at' = [at EXCEPT ![r] = "200"]
       ELSE Answer(r, "status")
    /\ UNCHANGED <<clock, agentVars, reqVars, faults>>

NeonUpdate(r) ==
    LET c == code[r] IN
    /\ neon /\ at[r] = "update"
    /\ IF Consumable(c)
       THEN Success(r) /\ at' = [at EXCEPT ![r] = "200"]
       ELSE Answer(r, "status")
    /\ UNCHANGED <<clock, agentVars, reqVars, faults>>

NeonStatusReissues(r) ==
    LET c == code[r] IN
    /\ neon /\ at[r] = "status"
    /\ Answer(r, IF used[c] # NoReq THEN "200" ELSE "428")
    /\ UNCHANGED <<clock, agentVars, reqVars, faults>>

\* timePtr reads RFC 3339 only.  The queries ask for raw text, and Postgres writes a
\* timestamp with a space for the T: timePtr takes that for null.  Another endpoint
\* (ORC_NEON_HTTP_ENDPOINT) may write RFC 3339.
TimePtr(set) == parses /\ set

NeonStatusNoPending(r) ==
    LET c == code[r] IN
    /\ neon /\ at[r] = "status"
    /\ Answer(r, IF TimePtr(used[c] # NoReq) \/ TimePtr(clock[c] = "past") THEN "410" ELSE "400")
    /\ UNCHANGED <<clock, agentVars, reqVars, faults>>

\* The second query: of a row whose timestamps can be read, one that looks consumable
\* by now is reported as not found.
NeonStatus(r) ==
    LET c == code[r] IN
    /\ neon /\ at[r] = "status"
    /\ Answer(r, IF TimePtr(used[c] # NoReq) \/ TimePtr(clock[c] = "past") THEN "410"
                 ELSE IF ~ TimePtr(owner[c] # NoOwner) THEN "428" ELSE "400")
    /\ UNCHANGED <<clock, agentVars, reqVars, faults>>

\* A query fails; the first statement may have been committed all the same.
NeonError(r) ==
    /\ neon /\ at[r] \in {"update", "status"}
    /\ Fault
    /\ \/ UNCHANGED storeVars
       \/ at[r] = "update" /\ Consumable(code[r]) /\ Success(r)
    /\ at' = [at EXCEPT ![r] = "400"]
    /\ UNCHANGED <<clock, agentVars, reqVars>>

\* tokenLimiter refuses the request (or an ID cannot be drawn) before the store is asked.
Refused(r) ==
    /\ at[r] = "update"
    /\ Fault
    /\ Answer(r, "429")
    /\ UNCHANGED <<clock, agentVars, reqVars>>

-----------------------------------------------------------------------------
(* The agent's pair loop *)

Poll(c, r) ==
    /\ agent[c] = "polling" /\ at[r] = "free"
    /\ agent' = [agent EXCEPT ![c] = "waiting"]
    /\ waits' = [waits EXCEPT ![c] = r]
    /\ at' = [at EXCEPT ![r] = "update"]
    /\ code' = [code EXCEPT ![r] = c]
    /\ late' = IF owner[c] # NoOwner THEN late \cup {r} ELSE late
    /\ UNCHANGED <<storeVars, clock, cred, diskVars, faults>>

ReceiveStopsOnPending(c) ==
    LET r == waits[c] IN
    /\ agent[c] = "waiting" /\ at[r] \in Answers
    /\ agent' = [agent EXCEPT ![c] = IF at[r] = "200" THEN "paired" ELSE "failed"]
    /\ cred' = [cred EXCEPT ![c] = IF at[r] = "200" THEN r ELSE @]
    /\ waits' = [waits EXCEPT ![c] = NoReq]
    /\ at' = [at EXCEPT ![r] = Over(r)] /\ late' = late \ {r}
    /\ UNCHANGED <<storeVars, clock, diskVars, code, faults>>

\* 200 ends the loop with credentials, 428 continues it, all else ends it.
Receive(c) ==
    LET r == waits[c] IN
    /\ agent[c] = "waiting" /\ at[r] \in Answers
    /\ agent' = [agent EXCEPT ![c] = CASE at[r] = "200" -> "paired"
                                       [] at[r] = "428" -> "polling"
                                       [] OTHER -> "failed"]
    /\ cred' = [cred EXCEPT ![c] = IF at[r] = "200" THEN r ELSE @]
    /\ waits' = [waits EXCEPT ![c] = NoReq]
    /\ at' = [at EXCEPT ![r] = Over(r)] /\ late' = late \ {r}
    /\ UNCHANGED <<storeVars, clock, diskVars, code, faults>>

\* client.Do fails (10 s timeout, connection lost): the loop polls again while
\* the server may still be working on the abandoned request.
RequestFails(c) ==
    /\ agent[c] = "waiting"
    /\ Fault
    /\ agent' = [agent EXCEPT ![c] = "polling"]
    /\ waits' = [waits EXCEPT ![c] = NoReq]
    /\ UNCHANGED <<storeVars, clock, cred, diskVars, at, reqVars>>

\* The body of a 200 cannot be read: pair returns an error.
BodyLost(c) ==
    /\ agent[c] = "waiting" /\ at[waits[c]] = "200"
    /\ Fault
    /\ agent' = [agent EXCEPT ![c] = "failed"]
    /\ waits' = [waits EXCEPT ![c] = NoReq]
    /\ at' = [at EXCEPT ![waits[c]] = "spent"] /\ late' = late \ {waits[c]}
    /\ UNCHANGED <<storeVars, clock, cred, diskVars, code>>

\* The answer to an abandoned request goes nowhere.
DropAnswer(r) ==
    /\ at[r] \in Answers
    /\ \A c \in Codes : waits[c] # r
    /\ at' = [at EXCEPT ![r] = Over(r)] /\ late' = late \ {r}
    /\ UNCHANGED <<storeVars, clock, agentVars, code, faults>>

\* The agent's own deadline of ExpiresIn seconds.
GiveUp(c) ==
    /\ agent[c] = "polling" /\ clock[c] # "live"
    /\ agent' = [agent EXCEPT ![c] = "failed"]
    /\ UNCHANGED <<storeVars, clock, waits, cred, diskVars, at, reqVars, faults>>

Elapse(c) ==
    /\ c \in rows /\ clock[c] # "past"
    /\ clock' = [clock EXCEPT ![c] = IF @ = "live" THEN "edge" ELSE "past"]
    /\ UNCHANGED <<storeVars, agentVars, at, reqVars, faults>>

-----------------------------------------------------------------------------
(* saveCredentials, and the end of the process *)

SaveInPlace(c) ==
    /\ agent[c] = "paired"
    /\ agent' = [agent EXCEPT ![c] = "saving"]
    /\ file' = Torn
    /\ UNCHANGED <<storeVars, clock, waits, cred, tmp, loaded, at, reqVars, faults>>

SaveBegins(c) ==
    /\ agent[c] = "paired"
    /\ agent' = [agent EXCEPT ![c] = "saving"]
    /\ tmp' = Torn
    /\ UNCHANGED <<storeVars, clock, waits, cred, file, loaded, at, reqVars, faults>>

SaveWritten(c) ==
    /\ agent[c] = "saving" /\ tmp = Torn
    /\ tmp' = cred[c]
    /\ UNCHANGED <<storeVars, clock, agent, waits, cred, file, loaded, at, reqVars, faults>>

SaveRenamed(c) ==
    /\ agent[c] = "saving" /\ tmp # Torn
    /\ agent' = [agent EXCEPT ![c] = "serving"]
    /\ file' = tmp /\ tmp' = NoReq
    /\ UNCHANGED <<storeVars, clock, waits, cred, loaded, at, reqVars, faults>>

\* An error is only logged: the agent serves with what it has, the file stays.
SaveFails(c) ==
    /\ agent[c] = "saving"
    /\ Fault
    /\ agent' = [agent EXCEPT ![c] = "serving"]
    /\ UNCHANGED <<storeVars, clock, waits, cred, diskVars, at, reqVars>>

\* The process ends wherever it is; the next one starts from the file.
Crash ==
    /\ Up
    /\ Fault
    /\ agent' = [c \in Codes |-> IF c \in Running THEN "failed" ELSE agent[c]]
    /\ waits' = [c \in Codes |-> NoReq]
    /\ loaded' = FALSE
    /\ UNCHANGED <<storeVars, clock, cred, file, tmp, at, reqVars>>

Finished ==
    /\ Up \/ \A c \in Codes : agent[c] = "failed"
    /\ \A c \in Codes : agent[c] \in {"off", "serving", "failed"}
    /\ \A r \in Reqs : at[r] \in {"free", "spent"}
    /\ UNCHANGED vars

Handle(r) == ConsumeMemory(r) \/ NeonUpdate(r) \/ NeonStatus(r)

Next ==
    \/ \E c \in Codes :
        \/ StartPairing(c) \/ StartFails(c) \/ Receive(c) \/ RequestFails(c)
        \/ BodyLost(c) \/ GiveUp(c) \/ Elapse(c)
        \/ SaveBegins(c) \/ SaveWritten(c) \/ SaveRenamed(c) \/ SaveFails(c)
        \/ \E s \in Subjects : ApprovePairing(s, c)
        \/ \E r \in Reqs : Poll(c, r)
    \/ \E r \in Reqs : Handle(r) \/ NeonError(r) \/ Refused(r) \/ DropAnswer(r)
    \/ Load \/ Crash \/ Finished

Spec == Init /\ [][Next]_vars

\* The agent's ticker fires, and a request that reached the server is answered.
FairSpec ==
    /\ Spec
    /\ \A c \in Codes : WF_vars(\E r \in Reqs : Poll(c, r)) /\ WF_vars(Receive(c))
    /\ \A r \in Reqs : WF_vars(Handle(r)) /\ WF_vars(DropAnswer(r))

-----------------------------------------------------------------------------
TypeOK ==
    /\ neon \in BOOLEAN /\ parses \in BOOLEAN
    /\ rows \subseteq Codes
    /\ owner \in [Codes -> Subjects \cup {NoOwner}]
    /\ used \in [Codes -> Reqs \cup {NoReq}]
    /\ devices \subseteq [code : Codes, owner : Subjects, token : Reqs]
    /\ clock \in [Codes -> {"live", "edge", "past"}]
    /\ agent \in [Codes -> {"off", "polling", "waiting", "paired", "saving", "serving", "failed"}]
    /\ waits \in [Codes -> Reqs \cup {NoReq}]
    /\ cred \in [Codes -> Reqs \cup {NoReq}]
    /\ file \in Reqs \cup {NoReq, Torn} /\ tmp \in Reqs \cup {NoReq, Torn} /\ loaded \in BOOLEAN
    /\ at \in [Reqs -> Stages]
    /\ code \in [Reqs -> Codes] /\ late \subseteq Reqs
    /\ faults \in 0..MaxFaults

\* "Pairing rows MUST be one-time consumable": ConsumePairing creates at most one
\* device from a pairing, however many requests for it are in progress, and the device
\* belongs to whoever the pairing names as its owner from then on.
OneDevicePerPairing ==
    \A x, y \in devices :
        /\ x.code = y.code => x = y
        /\ x.owner = owner[x.code] /\ x.token = used[x.code]

\* Credentials work wherever the agent gets them from: what consumePairing answered,
\* even if an abandoned request raced that one, and what it finds in its file after
\* a crash at any step of saveCredentials, are those of a device in the store.
CredentialsStored ==
    /\ \A c \in Codes : agent[c] \in {"paired", "saving", "serving"}
                          => \E x \in devices : x.code = c /\ x.token = cred[c]
    /\ file # NoReq => \E x \in devices : x.token = file

\* A machine is registered once: while nothing is lost and nothing crashes no device
\* is created whose token the agent does not have or is about to get, and once its
\* file is written the agent is that device for good, whatever fails.
NoOrphanDevice ==
    /\ faults = 0 => \A x \in devices : cred[x.code] = x.token \/ at[x.token] = "200"
    /\ file # NoReq => Running \subseteq {c \in Codes : cred[c] = file}

\* As long as nothing is lost and nothing fails, a poll that was sent after its pairing
\* was approved gets credentials from consumePairing, unless the pairing has expired
\* meanwhile.  One that was sent before is told to go on (428), or that its code is
\* invalid (400), which ends the agent's loop: that only by a race, when the approval came
\* while the request was between Neon's two queries, and if timePtr can read the answer.
ApprovedIsServed ==
    faults = 0 =>
        \A r \in Reqs : at[r] \in Answers \ {"200"} /\ clock[code[r]] = "live" =>
            /\ r \notin late
            /\ \/ at[r] = "428"
               \/ at[r] = "400" /\ neon /\ parses /\ owner[code[r]] # NoOwner

\* With the in-memory store, and with Neon when timePtr cannot read its timestamps (so
\* that no poll is told that its code is invalid), an approved pairing reaches its agent
\* if it is polling, unless the pairing expires first, a message, a query or the limiter
\* got in the way, or the agent crashed.
ApprovedGetsPaired ==
    \A c \in Codes :
        (~(neon /\ parses) /\ owner[c] # NoOwner /\ agent[c] \in {"polling", "waiting"})
            ~> (agent[c] = "paired" \/ clock[c] # "live" \/ faults > 0)
=============================================================================
