--------------------------- MODULE ProcessManager ---------------------------
(***************************************************************************)
(* The agent's process sessions: internal/processmgr.  Per session there   *)
(* are four goroutines (the caller of the manager, the output copier and   *)
(* the context watcher of os/exec, and the wait goroutine of Start) and    *)
(* the child itself.  p.mu is held for one step by all of them but Write,  *)
(* which keeps it while the stdin pipe is full.                            *)
(*                                                                         *)
(* The child is free to write, read, fork and exit when it likes, or not   *)
(* at all.  Output is counted, not stored: see OutputRing for the bytes.   *)
(* A maxRuntime above zero is modelled (the default is an hour).           *)
(***************************************************************************)
EXTENDS Naturals, FiniteSets

CONSTANTS Procs,     \* session IDs, each used once
          Ops,       \* concurrent tool calls
          MaxProcs,  \* maxProcs
          PipeCap,   \* chunks the output pipe holds
          MaxOut,    \* bound on the chunks a child writes
          Nobody     \* p.mu is free, an operation is idle

ASSUME ProcAssumption ==
    /\ MaxProcs \in Nat /\ PipeCap \in Nat \ {0} /\ MaxOut \in Nat
    /\ Nobody \notin Ops \cup Procs /\ IsFiniteSet(Procs)

VARIABLES
    procs,    \* the sessions in m.procs
    active,   \* m.active
    child,    \* the direct child: "none", "running", "dead"
    left,     \* a descendant holds the child's pipes
    pipe,     \* output chunks in the pipe
    wrote,    \* output chunks written by the child so far
    copier,   \* os/exec's output copier
    stored,   \* chunks passed to outputWriter.Write
    mu,       \* holder of p.mu across steps: an operation inside Write
    ctxDone,  \* p.cancel was called or maxRuntime has passed
    exited,   \* p.exitCode # nil
    waiter,   \* progress of Start's wait goroutine
    op, on    \* operations in progress, and their session

childVars == <<child, left, pipe, wrote>>
sessVars == <<procs, active, ctxDone, exited, waiter>>
opVars == <<op, on>>
vars == <<procs, active, child, left, pipe, wrote, copier, stored, mu,
          ctxDone, exited, waiter, op, on>>

Init ==
    /\ procs = {} /\ active = 0
    /\ child = [p \in Procs |-> "none"]
    /\ left = [p \in Procs |-> FALSE]
    /\ pipe = [p \in Procs |-> 0]
    /\ wrote = [p \in Procs |-> 0]
    /\ copier = [p \in Procs |-> "reading"]
    /\ stored = [p \in Procs |-> 0]
    /\ mu = [p \in Procs |-> Nobody]
    /\ ctxDone = [p \in Procs |-> FALSE]
    /\ exited = [p \in Procs |-> FALSE]
    /\ waiter = [p \in Procs |-> "none"]
    /\ op = [o \in Ops |-> "idle"]
    /\ on = [o \in Ops |-> Nobody]

-----------------------------------------------------------------------------
(* Start and its wait goroutine *)

StartUnlimited(p) ==
    /\ waiter[p] = "none"
    /\ child' = [child EXCEPT ![p] = "running"]
    /\ procs' = procs \cup {p}
    /\ active' = active + 1
    /\ waiter' = [waiter EXCEPT ![p] = "wait"]
    /\ UNCHANGED <<left, pipe, wrote, copier, stored, mu, ctxDone, exited, opVars>>

\* All of Start runs under m.mu; a failing Start changes nothing.
Start(p) ==
    /\ waiter[p] = "none" /\ active < MaxProcs
    /\ child' = [child EXCEPT ![p] = "running"]
    /\ procs' = procs \cup {p}
    /\ active' = active + 1
    /\ waiter' = [waiter EXCEPT ![p] = "wait"]
    /\ UNCHANGED <<left, pipe, wrote, copier, stored, mu, ctxDone, exited, opVars>>

WaitIgnoresOutput(p) ==
    /\ waiter[p] = "wait" /\ child[p] = "dead"
    /\ waiter' = [waiter EXCEPT ![p] = "report"]
    /\ UNCHANGED <<procs, active, childVars, copier, stored, mu, ctxDone, exited, opVars>>

\* cmd.Wait returns when the child is dead and the copier has seen EOF.
WaitReturns(p) ==
    /\ waiter[p] = "wait" /\ child[p] = "dead" /\ copier[p] = "eof"
    /\ waiter' = [waiter EXCEPT ![p] = "report"]
    /\ UNCHANGED <<procs, active, childVars, copier, stored, mu, ctxDone, exited, opVars>>

ReportExit(p) ==
    /\ waiter[p] = "report" /\ mu[p] = Nobody
    /\ exited' = [exited EXCEPT ![p] = TRUE]
    /\ ctxDone' = [ctxDone EXCEPT ![p] = TRUE]
    /\ waiter' = [waiter EXCEPT ![p] = "uncount"]
    /\ UNCHANGED <<procs, active, childVars, copier, stored, mu, opVars>>

Uncount(p) ==
    /\ waiter[p] = "uncount"
    /\ active' = IF active > 0 THEN active - 1 ELSE active
    /\ waiter' = [waiter EXCEPT ![p] = "keep"]
    /\ UNCHANGED <<procs, childVars, copier, stored, mu, ctxDone, exited, opVars>>

\* The timer of ten minutes.
Forget(p) ==
    /\ waiter[p] = "keep"
    /\ procs' = procs \ {p}
    /\ waiter' = [waiter EXCEPT ![p] = "gone"]
    /\ UNCHANGED <<active, childVars, copier, stored, mu, ctxDone, exited, opVars>>

\* context.WithTimeout(maxRuntime) expires; the watcher kills the direct child.
RuntimeLimit(p) ==
    /\ waiter[p] = "wait" /\ ~ctxDone[p]
    /\ ctxDone' = [ctxDone EXCEPT ![p] = TRUE]
    /\ UNCHANGED <<procs, active, exited, waiter, childVars, copier, stored, mu, opVars>>

KillChild(p) ==
    /\ ctxDone[p] /\ child[p] = "running"
    /\ child' = [child EXCEPT ![p] = "dead"]
    /\ UNCHANGED <<left, pipe, wrote, copier, stored, mu, sessVars, opVars>>

-----------------------------------------------------------------------------
(* The child and the copier of its output *)

Alive(p) == child[p] = "running" \/ left[p]

ChildWrites(p) ==
    /\ Alive(p) /\ wrote[p] < MaxOut /\ pipe[p] < PipeCap
    /\ pipe' = [pipe EXCEPT ![p] = @ + 1]
    /\ wrote' = [wrote EXCEPT ![p] = @ + 1]
    /\ UNCHANGED <<child, left, copier, stored, mu, sessVars, opVars>>

ChildForks(p) ==
    /\ child[p] = "running" /\ ~left[p]
    /\ left' = [left EXCEPT ![p] = TRUE]
    /\ UNCHANGED <<child, pipe, wrote, copier, stored, mu, sessVars, opVars>>

ChildExits(p) ==
    /\ \/ child[p] = "running" /\ child' = [child EXCEPT ![p] = "dead"] /\ UNCHANGED left
       \/ left[p] /\ left' = [left EXCEPT ![p] = FALSE] /\ UNCHANGED child
    /\ UNCHANGED <<pipe, wrote, copier, stored, mu, sessVars, opVars>>

CopyRead(p) ==
    /\ copier[p] = "reading" /\ waiter[p] # "none"
    /\ \/ /\ pipe[p] > 0
          /\ pipe' = [pipe EXCEPT ![p] = @ - 1]
          /\ copier' = [copier EXCEPT ![p] = "storing"]
       \/ /\ pipe[p] = 0 /\ ~Alive(p)
          /\ copier' = [copier EXCEPT ![p] = "eof"]
          /\ UNCHANGED pipe
    /\ UNCHANGED <<child, left, wrote, stored, mu, sessVars, opVars>>

\* outputWriter.Write: prefix and data go into the ring under p.mu.
CopyStore(p) ==
    /\ copier[p] = "storing" /\ mu[p] = Nobody
    /\ stored' = [stored EXCEPT ![p] = @ + 1]
    /\ copier' = [copier EXCEPT ![p] = "reading"]
    /\ UNCHANGED <<childVars, mu, sessVars, opVars>>

-----------------------------------------------------------------------------
(* Read, List, Write and Terminate *)

Return(o) ==
    /\ op' = [op EXCEPT ![o] = "idle"]
    /\ on' = [on EXCEPT ![o] = Nobody]

Begin(o, p) ==
    /\ op[o] = "idle" /\ p \in procs
    /\ on' = [on EXCEPT ![o] = p]
    /\ \E kind \in {"read", "write", "terminate"} : op' = [op EXCEPT ![o] = kind]
    /\ UNCHANGED <<childVars, copier, stored, mu, sessVars>>

\* Read, and List for one of its sessions.
ReadOutput(o) ==
    /\ op[o] = "read" /\ mu[on[o]] = Nobody
    /\ Return(o)
    /\ UNCHANGED <<childVars, copier, stored, mu, sessVars>>

WriteBegin(o) ==
    LET p == on[o] IN
    /\ op[o] = "write" /\ mu[p] = Nobody
    /\ IF exited[p]
       THEN Return(o) /\ UNCHANGED mu
       ELSE /\ op' = [op EXCEPT ![o] = "writing"]
            /\ mu' = [mu EXCEPT ![p] = o]
            /\ UNCHANGED on
    /\ UNCHANGED <<childVars, copier, stored, sessVars>>

WriteKeepsLock(o) ==
    /\ op[o] = "writing" /\ ~Alive(on[o])
    /\ Return(o)
    /\ UNCHANGED <<childVars, copier, stored, mu, sessVars>>

\* The pipe breaks when its last reader is gone: stdin.Write fails.
WriteBroken(o) ==
    /\ op[o] = "writing" /\ ~Alive(on[o])
    /\ Return(o)
    /\ mu' = [mu EXCEPT ![on[o]] = Nobody]
    /\ UNCHANGED <<childVars, copier, stored, sessVars>>

\* The pipe has room, at once or when somebody reads from it.
WriteAccepted(o) ==
    /\ op[o] = "writing" /\ Alive(on[o])
    /\ Return(o)
    /\ mu' = [mu EXCEPT ![on[o]] = Nobody]
    /\ UNCHANGED <<childVars, copier, stored, sessVars>>

\* p.cancel and Process.Kill; an error of Kill is passed on.
Terminate(o) ==
    LET p == on[o] IN
    /\ op[o] = "terminate" /\ mu[p] = Nobody
    /\ IF exited[p]
       THEN UNCHANGED <<ctxDone, child>>
       ELSE /\ ctxDone' = [ctxDone EXCEPT ![p] = TRUE]
            /\ child' = [child EXCEPT ![p] = "dead"]
    /\ Return(o)
    /\ UNCHANGED <<left, pipe, wrote, copier, stored, mu, procs, active, exited, waiter>>

WaitStep(p) == WaitReturns(p) \/ ReportExit(p) \/ Uncount(p)
CopyStep(p) == CopyRead(p) \/ CopyStore(p)
OpStep(o) == ReadOutput(o) \/ WriteBegin(o) \/ WriteBroken(o) \/ Terminate(o)

AllOver ==
    /\ \A p \in Procs : waiter[p] = "gone"
    /\ \A o \in Ops : op[o] = "idle"
    /\ UNCHANGED vars

Next ==
    \/ \E p \in Procs :
        \/ Start(p) \/ WaitStep(p) \/ Forget(p) \/ RuntimeLimit(p) \/ KillChild(p)
        \/ ChildWrites(p) \/ ChildForks(p) \/ ChildExits(p) \/ CopyStep(p)
        \/ \E o \in Ops : Begin(o, p)
    \/ \E o \in Ops : OpStep(o) \/ WriteAccepted(o)
    \/ AllOver

Spec == Init /\ [][Next]_vars

\* The runtime limit expires, the goroutines run, and a goroutine waiting for
\* p.mu gets it in the end (sync.Mutex is starvation-free): strong fairness.
FairSpec ==
    /\ Spec
    /\ \A p \in Procs : /\ WF_vars(RuntimeLimit(p)) /\ WF_vars(KillChild(p))
                        /\ SF_vars(WaitStep(p)) /\ SF_vars(CopyStep(p))
    /\ \A o \in Ops : SF_vars(OpStep(o))

-----------------------------------------------------------------------------
TypeOK ==
    /\ procs \subseteq Procs /\ active \in Nat
    /\ child \in [Procs -> {"none", "running", "dead"}]
    /\ left \in [Procs -> BOOLEAN]
    /\ pipe \in [Procs -> 0..PipeCap]
    /\ wrote \in [Procs -> 0..MaxOut]
    /\ copier \in [Procs -> {"reading", "storing", "eof"}]
    /\ stored \in [Procs -> 0..MaxOut]
    /\ mu \in [Procs -> Ops \cup {Nobody}]
    /\ ctxDone \in [Procs -> BOOLEAN]
    /\ exited \in [Procs -> BOOLEAN]
    /\ waiter \in [Procs -> {"none", "wait", "report", "uncount", "keep", "gone"}]
    /\ op \in [Ops -> {"idle", "read", "write", "writing", "terminate"}]
    /\ on \in [Ops -> Procs \cup {Nobody}]

\* "Concurrent process sessions are bounded" (docs/SPEC.md): no more than
\* maxProcs children, or descendants holding on to their pipes, run at a time,
\* although active is adjusted only some time after Wait.
ChildrenBounded == Cardinality({p \in Procs : Alive(p)}) <= MaxProcs

\* An exit status is final: when Read reports Exited, all the output there
\* will ever be is in the ring, nothing the child wrote has been left in the pipe.
ExitMeansAllOutput == \A p \in Procs : exited[p] => stored[p] = wrote[p]

\* A session ends: after at most maxRuntime its exit is reported and its slot
\* is free again, even if a Write was blocked on the child's stdin with p.mu
\* held, unless a descendant keeps the pipes open.
SessionEnds ==
    \A p \in Procs : (waiter[p] = "wait") ~> (waiter[p] = "keep" \/ left[p])

\* Calls into the manager return in the end: none waits for p.mu for ever,
\* unless a descendant keeps the pipes of that session open.
CallsReturn ==
    \A o \in Ops : (op[o] # "idle") ~> (op[o] = "idle" \/ left[on[o]])

=============================================================================
