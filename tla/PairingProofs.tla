--------------------------- MODULE PairingProofs ---------------------------
(***************************************************************************)
(* The invariants of Pairing for any number of pairings, people, requests  *)
(* and faults.  StoreInv ties a consumed pairing to the one request that   *)
(* consumed it, which is never used again; AgentInv ties what the agent    *)
(* and its files hold to that request; LossInv says what can only be the   *)
(* case after a loss or a crash.  RaceInv, at the end, follows a request   *)
(* from its poll to its answer.                                            *)
(***************************************************************************)
EXTENDS Pairing, TLAPS

Requests == Reqs \cup {NoReq}
Has == {"paired", "saving", "serving"}

TypeInv ==
    /\ owner \in [Codes -> Subjects \cup {NoOwner}]
    /\ used \in [Codes -> Requests] /\ waits \in [Codes -> Requests]
    /\ cred \in [Codes -> Requests]
    /\ devices \subseteq [code : Codes, owner : Subjects, token : Reqs]
    /\ agent \in [Codes -> {"off", "polling", "waiting", "paired", "saving", "serving", "failed"}]
    /\ at \in [Reqs -> Stages] /\ code \in [Reqs -> Codes]
    /\ faults \in Nat

\* A pairing is consumed by one request, for which it is the pairing asked about.
StoreInv ==
    /\ \A c \in Codes : used[c] # NoReq =>
           /\ code[used[c]] = c /\ at[used[c]] \notin {"free", "update", "status"}
           /\ owner[c] # NoOwner
           /\ \E x \in devices : x.code = c /\ x.token = used[c]
    /\ \A x \in devices : used[x.code] = x.token /\ owner[x.code] = x.owner
    /\ \A r \in Reqs : at[r] = "200" => used[code[r]] = r

\* The agent waits for a request about its own pairing, and has what consumed it.
AgentInv ==
    /\ \A c \in Codes : IF agent[c] = "waiting"
                        THEN /\ waits[c] # NoReq /\ code[waits[c]] = c
                             /\ at[waits[c]] \notin {"free", "spent"}
                        ELSE waits[c] = NoReq
    /\ \A c \in Codes : /\ agent[c] \in Has => used[c] # NoReq /\ cred[c] = used[c]
                        /\ agent[c] \in {"off", "polling", "waiting"} => cred[c] = NoReq

DiskInv ==
    /\ \A c, d \in Running : c = d
    /\ loaded => Running = {}
    /\ \A c \in Codes : agent[c] = "saving" => tmp = Torn \/ tmp = cred[c]
    /\ file # NoReq => file \in Reqs /\ \E c \in Codes : used[c] = file
    /\ file # NoReq => \A c \in Running : cred[c] = file

LossInv ==
    faults = 0 =>
        /\ \A r \in Reqs : at[r] \notin {"free", "spent"} => waits[code[r]] = r
        /\ \A x \in devices : cred[x.code] = x.token \/ at[x.token] = "200"

PairInv == TypeInv /\ StoreInv /\ AgentInv /\ DiskInv /\ LossInv

-----------------------------------------------------------------------------
LEMMA PairInvInit == Init => PairInv
BY PairingAssumption DEF Init, PairInv, TypeInv, StoreInv, AgentInv, DiskInv, LossInv, Running,
   Requests, Stages, Has

LEMMA PairInvImplies == PairInv => OneDevicePerPairing /\ CredentialsStored /\ NoOrphanDevice
<1> SUFFICES ASSUME PairInv PROVE OneDevicePerPairing /\ CredentialsStored /\ NoOrphanDevice
  OBVIOUS
<1> USE DEF PairInv
<1>1. OneDevicePerPairing
  BY DEF OneDevicePerPairing, StoreInv, TypeInv
<1>2. CredentialsStored
  BY DEF CredentialsStored, StoreInv, AgentInv, DiskInv, Has
<1>3. NoOrphanDevice
  BY DEF NoOrphanDevice, LossInv, DiskInv, Running
<1> QED
  BY <1>1, <1>2, <1>3

\* A pairing is consumed: the common part of both stores.
LEMMA SuccessKeeps ==
    ASSUME PairInv, NEW r \in Reqs, at[r] = "update", Consumable(code[r]), Success(r),
           NEW s \in {"200", "400"}, at' = [at EXCEPT ![r] = s],
           s = "400" => faults' # 0, faults' \in Nat,
           faults' = 0 => faults = 0,
           UNCHANGED <<clock, agentVars, reqVars>>
    PROVE  PairInv'
<1> USE PairingAssumption DEF PairInv, TypeInv, Success, Consumable, agentVars, diskVars, reqVars, Requests
<1> DEFINE d == [code |-> code[r], owner |-> owner[code[r]], token |-> r]
<1>0. /\ d \in [code : Codes, owner : Subjects, token : Reqs]
      /\ d.code = code[r] /\ d.owner = owner[code[r]] /\ d.token = r
      /\ devices' = devices \cup {d}
  OBVIOUS
<1> HIDE DEF d
<1>1. TypeInv'
  BY <1>0 DEF Stages, Answers
<1>2. StoreInv'
  BY <1>0 DEF StoreInv, Stages, Answers
<1>3. AgentInv'
  BY DEF AgentInv, StoreInv, Has
<1>4. DiskInv'
  BY DEF DiskInv, Running, StoreInv
<1>5. LossInv'
  BY <1>0 DEF LossInv, StoreInv
<1> QED
  BY <1>1, <1>2, <1>3, <1>4, <1>5

\* A request gets an answer and the store is unchanged.
LEMMA AnswerKeeps ==
    ASSUME PairInv, NEW r \in Reqs, at[r] \in {"update", "status"},
           NEW s \in {"status", "400", "410", "428", "429"}, at' = [at EXCEPT ![r] = s],
           faults' \in Nat, faults' = 0 => faults = 0,
           UNCHANGED <<storeVars, clock, agentVars, reqVars>>
    PROVE  PairInv'
<1> USE PairingAssumption DEF PairInv, TypeInv, agentVars, diskVars, storeVars, reqVars, Requests
<1>1. TypeInv'
  BY DEF Stages, Answers
<1>2. StoreInv'
  BY DEF StoreInv, Stages, Answers
<1>3. AgentInv'
  BY DEF AgentInv, StoreInv, Has
<1>4. DiskInv'
  BY DEF DiskInv, Running, StoreInv
<1>5. LossInv'
  BY DEF LossInv, StoreInv
<1> QED
  BY <1>1, <1>2, <1>3, <1>4, <1>5

\* Steps that concern the agent and its files only.
LEMMA AgentKeeps ==
    ASSUME PairInv, NEW c \in Codes,
           \/ StartPairing(c) \/ StartFails(c) \/ GiveUp(c) \/ RequestFails(c)
           \/ SaveBegins(c) \/ SaveWritten(c) \/ SaveRenamed(c) \/ SaveFails(c)
    PROVE  PairInv'
<1> USE PairingAssumption DEF PairInv, TypeInv, diskVars, storeVars, reqVars, Requests, Fault
<1>1. ASSUME StartPairing(c) \/ StartFails(c) PROVE PairInv'
  <2> USE <1>1 DEF StartPairing, StartFails, Unpaired
  <2>1. TypeInv' /\ StoreInv' /\ LossInv'
    BY DEF StoreInv, LossInv
  <2>2. AgentInv'
    BY DEF AgentInv, Has
  <2>3. DiskInv'
    BY DEF DiskInv, Running, Up
  <2> QED
    BY <2>1, <2>2, <2>3
<1>2. ASSUME GiveUp(c) \/ RequestFails(c) PROVE PairInv'
  <2> USE <1>2 DEF GiveUp, RequestFails
  <2>1. TypeInv' /\ StoreInv' /\ LossInv'
    BY DEF StoreInv, LossInv
  <2>2. AgentInv'
    BY DEF AgentInv, Has
  <2>3. DiskInv'
    BY DEF DiskInv, Running
  <2> QED
    BY <2>1, <2>2, <2>3
<1>3. ASSUME SaveBegins(c) \/ SaveWritten(c) PROVE PairInv'
  <2> USE <1>3 DEF SaveBegins, SaveWritten
  <2>1. TypeInv' /\ StoreInv' /\ LossInv'
    BY DEF StoreInv, LossInv
  <2>2. AgentInv'
    BY DEF AgentInv, Has
  <2>3. DiskInv'
    BY DEF DiskInv, Running
  <2> QED
    BY <2>1, <2>2, <2>3
<1>4. ASSUME SaveRenamed(c) PROVE PairInv'
  <2> USE <1>4 DEF SaveRenamed
  <2>1. TypeInv' /\ StoreInv' /\ LossInv'
    BY DEF StoreInv, LossInv
  <2>2. AgentInv'
    BY DEF AgentInv, Has
  <2>3. tmp = cred[c] /\ cred[c] = used[c] /\ used[c] \in Reqs
    BY DEF DiskInv, AgentInv, Has
  <2>4. DiskInv'
    BY <2>3 DEF DiskInv, Running
  <2> QED
    BY <2>1, <2>2, <2>4
<1>5. ASSUME SaveFails(c) PROVE PairInv'
  <2> USE <1>5 DEF SaveFails
  <2>1. TypeInv' /\ StoreInv' /\ LossInv'
    BY DEF StoreInv, LossInv
  <2>2. AgentInv'
    BY DEF AgentInv, Has
  <2>3. DiskInv'
    BY DEF DiskInv, Running
  <2> QED
    BY <2>1, <2>2, <2>3
<1> HIDE DEF PairInv
<1> QED
  BY <1>1, <1>2, <1>3, <1>4, <1>5

\* The agent asks.
LEMMA PollKeeps ==
    ASSUME PairInv, NEW c \in Codes, NEW r \in Reqs, Poll(c, r)
    PROVE  PairInv'
<1> USE PairingAssumption DEF PairInv, TypeInv, diskVars, storeVars, reqVars, Requests, Poll
<1>1. TypeInv'
  BY DEF Stages
<1>2. StoreInv'
  BY DEF StoreInv
<1>3. AgentInv'
  BY DEF AgentInv, Has
<1>4. DiskInv'
  BY DEF DiskInv, Running
<1>5. LossInv'
  BY DEF LossInv, StoreInv, AgentInv
<1> QED
  BY <1>1, <1>2, <1>3, <1>4, <1>5

\* The agent is answered, or the answer is dropped.
LEMMA AnsweredKeeps ==
    ASSUME PairInv, NEW c \in Codes, Receive(c) \/ BodyLost(c)
    PROVE  PairInv'
<1> USE PairingAssumption DEF PairInv, TypeInv, diskVars, storeVars, reqVars, Requests, Fault
<1>0. /\ waits[c] \in Reqs /\ code[waits[c]] = c
      /\ used[c] = waits[c] \/ at[waits[c]] # "200"
      /\ agent[c] = "waiting" /\ cred[c] = NoReq
      /\ Over(waits[c]) \in {"spent", "free"} /\ (Over(waits[c]) = "free" => used[c] # waits[c])
  BY DEF AgentInv, StoreInv, Receive, BodyLost, Over
<1>1. TypeInv'
  BY <1>0 DEF Receive, BodyLost, Stages
<1>2. StoreInv'
  BY <1>0 DEF StoreInv, Receive, BodyLost
<1>3. AgentInv'
  BY <1>0 DEF AgentInv, Has, Receive, BodyLost
<1>4. DiskInv'
  BY <1>0 DEF DiskInv, Running, Receive, BodyLost
<1>5. LossInv'
  BY <1>0 DEF LossInv, StoreInv, Receive, BodyLost
<1> QED
  BY <1>1, <1>2, <1>3, <1>4, <1>5

LEMMA DropKeeps ==
    ASSUME PairInv, NEW r \in Reqs, DropAnswer(r)
    PROVE  PairInv'
<1> USE PairingAssumption DEF PairInv, TypeInv, agentVars, diskVars, storeVars, reqVars, Requests, DropAnswer
<1>0. Over(r) \in {"spent", "free"} /\ (Over(r) = "free" => used[code[r]] # r)
  BY DEF Over
<1>1. TypeInv'
  BY <1>0 DEF Stages
<1>2. StoreInv'
  BY <1>0 DEF StoreInv
<1>3. AgentInv'
  BY <1>0 DEF AgentInv, Has
<1>4. DiskInv'
  BY DEF DiskInv, Running
<1>5. LossInv'
  BY <1>0 DEF LossInv, StoreInv, Answers
<1> QED
  BY <1>1, <1>2, <1>3, <1>4, <1>5

LEMMA CrashKeeps == PairInv /\ Crash => PairInv'
<1> SUFFICES ASSUME PairInv, Crash PROVE PairInv'
  OBVIOUS
<1> USE PairingAssumption DEF PairInv, TypeInv, diskVars, storeVars, reqVars, Requests, Crash, Fault
<1>1. TypeInv' /\ StoreInv' /\ LossInv'
  BY DEF StoreInv, LossInv
<1>2. Running' = {}
  BY DEF Running
<1>3. AgentInv'
  BY DEF AgentInv, Has, Running
<1>4. DiskInv'
  BY <1>2 DEF DiskInv, Running, Has
<1> QED
  BY <1>1, <1>3, <1>4

LEMMA PairInvNext == PairInv /\ [Next]_vars => PairInv'
<1> SUFFICES ASSUME PairInv, [Next]_vars PROVE PairInv'
  OBVIOUS
<1>1. ASSUME NEW c \in Codes, NEW s \in Subjects, ApprovePairing(s, c) PROVE PairInv'
  <2> USE <1>1, PairingAssumption
      DEF ApprovePairing, Approvable, PairInv, TypeInv, agentVars, diskVars, reqVars, Requests
  <2>1. TypeInv' /\ AgentInv' /\ LossInv'
    BY DEF AgentInv, LossInv
  <2>2. StoreInv'
    BY DEF StoreInv
  <2>3. DiskInv'
    BY DEF DiskInv, Running
  <2> QED
    BY <2>1, <2>2, <2>3
<1>2. ASSUME NEW r \in Reqs, Handle(r) PROVE PairInv'
  <2>1. CASE Consumable(code[r]) /\ at[r] = "update" /\ Success(r)
    BY <1>2, <2>1, SuccessKeeps
       DEF Handle, ConsumeMemory, NeonUpdate, NeonStatus, PairInv, TypeInv
  <2>2. ASSUME NEW s \in {"status", "400", "410", "428", "429"}, Answer(r, s),
               at[r] \in {"update", "status"}, UNCHANGED <<clock, agentVars, reqVars, faults>>
        PROVE  PairInv'
    BY Zenon, <2>2, AnswerKeeps DEF Answer, PairInv, TypeInv
  <2> QED
    BY <1>2, <2>1, <2>2 DEF Handle, ConsumeMemory, NeonUpdate, NeonStatus
<1>3. ASSUME NEW r \in Reqs, NeonError(r) PROVE PairInv'
  <2>1. faults \in Nat /\ faults' \in Nat /\ faults' # 0
    BY <1>3 DEF NeonError, Fault, PairInv, TypeInv
  <2> QED
    BY Zenon, <1>3, <2>1, SuccessKeeps, AnswerKeeps DEF NeonError
<1>4. ASSUME NEW r \in Reqs, Refused(r) PROVE PairInv'
  <2>1. faults \in Nat /\ faults' \in Nat /\ faults' # 0
    BY <1>4 DEF Refused, Fault, PairInv, TypeInv
  <2> QED
    BY Zenon, <1>4, <2>1, AnswerKeeps DEF Refused, Answer
<1>5. ASSUME NEW c \in Codes, Elapse(c) PROVE PairInv'
  BY <1>5 DEF Elapse, PairInv, TypeInv, StoreInv, AgentInv, DiskInv, LossInv, Running,
              storeVars, agentVars, diskVars, reqVars
<1>6. CASE Load
  <2>1. Running = {} /\ UNCHANGED <<storeVars, agent, waits, cred, file, tmp, at, reqVars, faults>>
    BY <1>6 DEF Load, Up
  <2> QED
    BY <2>1 DEF PairInv, TypeInv, StoreInv, AgentInv, DiskInv, LossInv, Running, storeVars, reqVars
<1>7. CASE UNCHANGED vars
  BY <1>7 DEF vars, PairInv, TypeInv, StoreInv, AgentInv, DiskInv, LossInv, Running,
              storeVars, agentVars, diskVars, reqVars
<1> QED
  BY <1>1, <1>2, <1>3, <1>4, <1>5, <1>6, <1>7,
     AgentKeeps, PollKeeps, AnsweredKeeps, DropKeeps, CrashKeeps DEF Next, Finished

LEMMA PairInvariance == Spec => []PairInv
BY PairInvInit, PairInvNext, PTL DEF Spec

\* ConsumePairing makes at most one device of a pairing, which belongs to whoever the
\* pairing names as its owner, for every number of pairings, requests and faults.
THEOREM PairingMakesOneDevice == Spec => []OneDevicePerPairing
BY PairInvariance, PairInvImplies, PTL

\* What consumePairing answered the agent, and what a crash at any step of
\* saveCredentials leaves it to find, are credentials of a device in the store.
THEOREM CredentialsWork == Spec => []CredentialsStored
BY PairInvariance, PairInvImplies, PTL

\* Only a loss or a crash can leave a device without its agent, and an agent that has
\* written its file is that device for good.
THEOREM OnlyLossOrphans == Spec => []NoOrphanDevice
BY PairInvariance, PairInvImplies, PTL

-----------------------------------------------------------------------------
(* The answers.  While nothing is lost, a request that is in progress is the only one  *)
(* about its pairing, so nobody has consumed it; and an approval is never taken back.  *)

RaceInv ==
    faults = 0 =>
        \A r \in Reqs :
            /\ r \in late => at[r] # "free" /\ owner[code[r]] # NoOwner
            /\ at[r] = "status" /\ clock[code[r]] = "live" => r \notin late

LEMMA UnusedWhileAsked ==
    ASSUME PairInv, faults = 0, NEW r \in Reqs, at[r] \in {"update", "status"}
    PROVE  used[code[r]] = NoReq
<1> DEFINE c == code[r]
<1> SUFFICES ASSUME used[c] # NoReq PROVE FALSE
  OBVIOUS
<1>1. c \in Codes /\ used[c] \in Reqs /\ code[used[c]] = c
  BY DEF PairInv, TypeInv, StoreInv, Requests
<1>2. waits[c] = r /\ agent[c] = "waiting" /\ cred[c] = NoReq
  BY <1>1, PairingAssumption DEF PairInv, LossInv, AgentInv
<1>3. PICK x \in devices : x.code = c /\ x.token = used[c]
  BY <1>1 DEF PairInv, StoreInv
<1>4. at[used[c]] = "200"
  BY <1>1, <1>2, <1>3, PairingAssumption DEF PairInv, LossInv
<1>5. waits[c] = used[c]
  BY <1>1, <1>4 DEF PairInv, LossInv
<1> QED
  BY <1>2, <1>4, <1>5

\* A request that is not about to be answered keeps its answer, or loses it.
LEMMA OthersKeepRace ==
    ASSUME TypeInv, RaceInv, ApprovedIsServed, faults' = 0 => faults = 0, setup' = setup,
           \A c \in Codes : /\ owner[c] # NoOwner => owner'[c] # NoOwner
                            /\ clock'[c] = "live" => clock[c] = "live",
           \A r \in Reqs : \/ at'[r] \in {"free", "spent"} /\ r \notin late'
                           \/ at'[r] = at[r] /\ code'[r] = code[r] /\ (r \in late' => r \in late)
    PROVE  RaceInv' /\ ApprovedIsServed'
BY DEF TypeInv, RaceInv, ApprovedIsServed, Answers, setup

\* A handler's step concerns one request, whose pairing nobody has consumed.
LEMMA HandleKeepsRace ==
    ASSUME PairInv, RaceInv, ApprovedIsServed, NEW r \in Reqs,
           Handle(r) \/ NeonError(r) \/ Refused(r)
    PROVE  RaceInv' /\ ApprovedIsServed'
<1> USE DEF storeVars, setup, reqVars
<1>0. TypeInv
  BY DEF PairInv
<1>1. /\ UNCHANGED <<code, late, owner, neon, parses, clock>> /\ faults' \in {faults, faults + 1}
      /\ \A q \in Reqs \ {r} : at'[q] = at[q]
  <2> USE <1>0 DEF TypeInv
  <2>1. CASE ConsumeMemory(r)
    BY <2>1 DEF ConsumeMemory, Success, Answer
  <2>2. CASE NeonUpdate(r)
    BY Zenon, <2>2 DEF NeonUpdate, Success, Answer
  <2>3. CASE NeonStatus(r)
    BY <2>3 DEF NeonStatus, Answer
  <2>4. CASE NeonError(r)
    BY Zenon, <2>4 DEF NeonError, Success, Fault
  <2>5. CASE Refused(r)
    BY <2>5 DEF Refused, Answer, Fault
  <2> QED
    BY <2>1, <2>2, <2>3, <2>4, <2>5 DEF Handle
<1>2. ASSUME faults' = 0, clock[code[r]] = "live"
      PROVE  /\ at'[r] \in {"200", "428", "400", "status"}
             /\ at'[r] # "200" => r \notin late
             /\ at'[r] = "400" => neon /\ parses /\ owner[code[r]] # NoOwner
  <2>1. faults = 0 /\ ~ NeonError(r) /\ ~ Refused(r)
    BY <1>0, <1>1, <1>2 DEF TypeInv, NeonError, Refused, Fault
  <2>2. Handle(r)
    BY <2>1
  <2>3. at[r] \in {"update", "status"}
    BY <2>2 DEF Handle, ConsumeMemory, NeonUpdate, NeonStatus
  <2>4. used[code[r]] = NoReq
    BY <2>1, <2>3, UnusedWhileAsked
  <2>5. r \in late => owner[code[r]] # NoOwner /\ at[r] = "update"
    BY <1>2, <2>1, <2>3 DEF RaceInv
  <2>6. at \in [Reqs -> Stages]
    BY <1>0 DEF TypeInv
  <2>7. CASE ConsumeMemory(r)
    BY <1>2, <2>4, <2>5, <2>6, <2>7 DEF ConsumeMemory, Answer, Consumable, Unexpired
  <2>8. CASE NeonUpdate(r)
    BY ZenonT(30), <1>2, <2>4, <2>5, <2>6, <2>8 DEF NeonUpdate, Answer, Consumable, Unexpired
  <2>9. CASE NeonStatus(r)
    BY <1>2, <2>4, <2>5, <2>6, <2>9 DEF NeonStatus, Answer, TimePtr
  <2> QED
    BY <2>2, <2>7, <2>8, <2>9 DEF Handle
<1>3. faults' = 0 => faults = 0
  BY <1>0, <1>1 DEF TypeInv
<1>4. at[r] # "free" /\ at'[r] # "free"
  <2> USE <1>0 DEF TypeInv
  <2>1. CASE ConsumeMemory(r)
    BY <2>1 DEF ConsumeMemory, Answer
  <2>2. CASE NeonUpdate(r)
    BY Zenon, <2>2 DEF NeonUpdate, Answer
  <2>3. CASE NeonStatus(r)
    BY <2>3 DEF NeonStatus, Answer
  <2>4. CASE NeonError(r) \/ Refused(r)
    BY <2>4 DEF NeonError, Refused, Answer
  <2> QED
    BY Zenon, <2>1, <2>2, <2>3, <2>4 DEF Handle
<1>5. RaceInv'
  BY <1>1, <1>2, <1>3, <1>4 DEF RaceInv
<1>6. ApprovedIsServed'
  BY <1>1, <1>2, <1>3 DEF ApprovedIsServed, Answers
<1> QED
  BY <1>5, <1>6

LEMMA RaceNext ==
    ASSUME PairInv, RaceInv, ApprovedIsServed, [Next]_vars
    PROVE  RaceInv' /\ ApprovedIsServed'
<1> DEFINE Race == RaceInv /\ ApprovedIsServed
<1>0. TypeInv
  BY DEF PairInv
<1> USE <1>0, PairingAssumption DEF TypeInv, storeVars, agentVars, diskVars, reqVars, Fault
<1>1. ASSUME NEW c \in Codes,
             \/ StartPairing(c) \/ StartFails(c) \/ RequestFails(c) \/ GiveUp(c)
             \/ SaveBegins(c) \/ SaveWritten(c) \/ SaveRenamed(c) \/ SaveFails(c)
      PROVE  UNCHANGED <<setup, owner, clock, at, reqVars>> /\ faults' \in {faults, faults + 1}
  BY <1>1 DEF StartPairing, StartFails, RequestFails, GiveUp,
              SaveBegins, SaveWritten, SaveRenamed, SaveFails
<1>2. ASSUME Load \/ Crash \/ UNCHANGED vars
      PROVE  UNCHANGED <<setup, owner, clock, at, reqVars>> /\ faults' \in {faults, faults + 1}
  BY <1>2 DEF Load, Crash, vars
<1>3. ASSUME UNCHANGED <<setup, owner, clock, at, reqVars>>, faults' \in {faults, faults + 1}
      PROVE  Race'
  BY <1>3, OthersKeepRace
<1>4. ASSUME NEW c \in Codes, NEW s \in Subjects, ApprovePairing(s, c)
      PROVE  Race'
  BY <1>4, OthersKeepRace DEF ApprovePairing
<1>5. ASSUME NEW c \in Codes, Elapse(c) PROVE Race'
  <2>1. \A d \in Codes : clock'[d] = "live" => clock[d] = "live"
    BY <1>5 DEF Elapse
  <2> QED
    BY <1>5, <2>1, OthersKeepRace DEF Elapse
<1>6. ASSUME NEW c \in Codes, NEW r \in Reqs, Poll(c, r) PROVE Race'
  <2>1. /\ at'[r] = "update" /\ code'[r] = c /\ UNCHANGED <<setup, owner, clock, faults>>
        /\ faults = 0 /\ r \in late' => owner[c] # NoOwner
        /\ \A q \in Reqs \ {r} : at'[q] = at[q] /\ code'[q] = code[q] /\ (q \in late' <=> q \in late)
    BY SMTT(30), <1>6 DEF Poll, RaceInv
  <2> QED
    BY SMTT(30), <1>6, <2>1 DEF RaceInv, ApprovedIsServed, Answers, setup
<1>7. ASSUME NEW c \in Codes, Receive(c) \/ BodyLost(c) PROVE Race'
  <2>1. /\ waits[c] \in Reqs /\ UNCHANGED <<setup, owner, clock, code>>
        /\ at'[waits[c]] \in {"free", "spent"} /\ late' = late \ {waits[c]}
        /\ \A q \in Reqs \ {waits[c]} : at'[q] = at[q]
        /\ faults' \in {faults, faults + 1}
    BY <1>7 DEF Receive, BodyLost, Over, PairInv, AgentInv, Requests
  <2> QED
    BY <2>1, OthersKeepRace
<1>8. ASSUME NEW r \in Reqs, DropAnswer(r) PROVE Race'
  <2>1. at'[r] \in {"free", "spent"} /\ \A q \in Reqs \ {r} : at'[q] = at[q]
    BY <1>8 DEF DropAnswer, Over
  <2> QED
    BY <1>8, <2>1, OthersKeepRace DEF DropAnswer
<1> HIDE DEF TypeInv
<1> QED
  BY <1>1, <1>2, <1>3, <1>4, <1>5, <1>6, <1>7, <1>8, HandleKeepsRace DEF Next, Finished

\* For every number of pairings, people and requests: as long as nothing is lost, a poll
\* that is sent after the approval gets credentials unless its pairing expires, and one
\* is told that its code is invalid only if the approval came while it was in progress.
THEOREM ApprovalIsServed == Spec => []ApprovedIsServed
<1>1. Init => RaceInv /\ ApprovedIsServed
  BY DEF Init, RaceInv, ApprovedIsServed, Answers
<1>2. PairInv /\ (RaceInv /\ ApprovedIsServed) /\ [Next]_vars => (RaceInv /\ ApprovedIsServed)'
  BY RaceNext
<1> QED
  BY PairInvariance, <1>1, <1>2, PTL DEF Spec
=============================================================================
