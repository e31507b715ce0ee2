----------------------------- MODULE RemoteCall -----------------------------
(***************************************************************************)
(* What the relay promises the caller of a remote tool, with no            *)
(* connections in sight.  A call is refused, or it is open until it        *)
(* returns.  The tool runs at most once, never for a refused call, and a   *)
(* result is returned only after the run; but a call that fails may have   *)
(* run, may still run after it has failed, or may never run.               *)
(***************************************************************************)
CONSTANT Calls

VARIABLES stage,  \* "idle", "open", "returned" or "refused"
          ran,    \* the calls whose tool has run
          got     \* the calls that returned a result

Init == stage = [k \in Calls |-> "idle"] /\ ran = {} /\ got = {}

Refuse(k) ==
    /\ stage[k] = "idle"
    /\ stage' = [stage EXCEPT ![k] = "refused"]
    /\ UNCHANGED <<ran, got>>

Issue(k) ==
    /\ stage[k] = "idle"
    /\ stage' = [stage EXCEPT ![k] = "open"]
    /\ UNCHANGED <<ran, got>>

Run(k) ==
    /\ stage[k] \in {"open", "returned"}
    /\ k \notin ran \cup got
    /\ ran' = ran \cup {k}
    /\ UNCHANGED <<stage, got>>

ReturnResult(k) ==
    /\ stage[k] = "open" /\ k \in ran
    /\ stage' = [stage EXCEPT ![k] = "returned"]
    /\ got' = got \cup {k}
    /\ UNCHANGED ran

ReturnError(k) ==
    /\ stage[k] = "open"
    /\ stage' = [stage EXCEPT ![k] = "returned"]
    /\ UNCHANGED <<ran, got>>

\* Every step changes something.  It is said first because most steps of an
\* implementation do not, and need no further look.
Next ==
    /\ <<stage, ran, got>>' # <<stage, ran, got>>
    /\ \E k \in Calls :
          Refuse(k) \/ Issue(k) \/ Run(k) \/ ReturnResult(k) \/ ReturnError(k)

Spec == Init /\ [][Next]_<<stage, ran, got>>
=============================================================================
