----------------------------- MODULE ToolCalls -----------------------------
(***************************************************************************)
(* The server's side of a tools/call and its audit record: callTool of     *)
(* internal/mcpserver, the non-blocking writer of internal/audit, and the  *)
(* shutdown at the end of cmd/orc-server's main.  What hub.Call does is in *)
(* RelayHub; here it takes some time and returns one of its outcomes.      *)
(***************************************************************************)
EXTENDS Naturals, Sequences

CONSTANTS Calls, Capacity, NoEvent

ASSUME ToolAssumption == Capacity \in Nat \ {0} /\ NoEvent \notin Calls

VARIABLES
    main,    \* "serving", "shutdown" (http.Server.Shutdown), "closing" (Writer.Close), "exited"
    call,    \* progress of a handler
    queue,   \* Writer.queue
    loop,    \* the writer goroutine: "select", "drain" or "done"
    hand,    \* the event it is writing
    rows,    \* audit rows stored per call
    warned,  \* events given up with a warning: queue full, or write failed
    late     \* events recorded after Close was called

writerVars == <<loop, hand, rows>>
vars == <<main, call, queue, loop, hand, rows, warned, late>>

Init ==
    /\ main = "serving" /\ loop = "select" /\ hand = NoEvent
    /\ call = [c \in Calls |-> "idle"]
    /\ queue = <<>> /\ warned = {} /\ late = {}
    /\ rows = [c \in Calls |-> 0]

Running == main # "exited"
InFlight == {c \in Calls : call[c] \in {"gate", "hub", "record"}}
Move(c, to) == call' = [call EXCEPT ![c] = to]

-----------------------------------------------------------------------------
(* callTool *)

Accept(c) ==
    /\ main = "serving" /\ call[c] = "idle"
    /\ Move(c, "gate")
    /\ UNCHANGED <<main, queue, writerVars, warned, late>>

\* Bad parameters, unknown tool, or GetDevice does not find the subject's device.
Reject(c) ==
    /\ Running /\ call[c] = "gate"
    /\ Move(c, "rejected")
    /\ UNCHANGED <<main, queue, writerVars, warned, late>>

Dispatch(c) ==
    /\ Running /\ call[c] = "gate"
    /\ Move(c, "hub")
    /\ UNCHANGED <<main, queue, writerVars, warned, late>>

HubReturns(c) ==
    /\ Running /\ call[c] = "hub"
    /\ Move(c, "record")
    /\ UNCHANGED <<main, queue, writerVars, warned, late>>

\* The result does not decode: answered without an audit record.
InvalidResponse(c) ==
    /\ Running /\ call[c] = "hub"
    /\ Move(c, "unaudited")
    /\ UNCHANGED <<main, queue, writerVars, warned, late>>

\* Writer.Record never blocks, and does not know whether the writer is closed.
Record(c) ==
    /\ Running /\ call[c] = "record"
    /\ IF Len(queue) < Capacity
       THEN queue' = Append(queue, c) /\ UNCHANGED warned
       ELSE warned' = warned \cup {c} /\ UNCHANGED queue
    /\ late' = IF main = "closing" THEN late \cup {c} ELSE late
    /\ Move(c, "answered")
    /\ UNCHANGED <<main, writerVars>>

-----------------------------------------------------------------------------
(* Writer.loop *)

LoopTake ==
    /\ Running /\ loop # "done" /\ hand = NoEvent /\ queue # <<>>
    /\ hand' = Head(queue)
    /\ queue' = Tail(queue)
    /\ UNCHANGED <<main, call, loop, rows, warned, late>>

LoopWriteRetries ==
    /\ Running /\ hand # NoEvent
    /\ \/ /\ rows' = [rows EXCEPT ![hand] = @ + 1]
          /\ hand' = NoEvent
          /\ UNCHANGED warned
       \/ /\ rows' \in {rows, [rows EXCEPT ![hand] = @ + 1]}
          /\ warned' = warned \cup {hand}
          /\ UNCHANGED hand
    /\ UNCHANGED <<main, call, queue, loop, late>>

LoopStuck ==
    /\ Running /\ hand # NoEvent
    /\ UNCHANGED vars

\* store.WriteAudit, at most five seconds; a write that fails may have been stored.
LoopWrite ==
    /\ Running /\ hand # NoEvent
    /\ \/ /\ rows' = [rows EXCEPT ![hand] = @ + 1]
          /\ UNCHANGED warned
       \/ /\ rows' \in {rows, [rows EXCEPT ![hand] = @ + 1]}
          /\ warned' = warned \cup {hand}
    /\ hand' = NoEvent
    /\ UNCHANGED <<main, call, queue, loop, late>>

\* ctx.Done is seen; select may still prefer a queued event.
LoopCancelled ==
    /\ main = "closing" /\ loop = "select" /\ hand = NoEvent
    /\ loop' = "drain"
    /\ UNCHANGED <<main, call, queue, hand, rows, warned, late>>

LoopDropsQueue ==
    /\ Running /\ loop = "drain" /\ hand = NoEvent
    /\ loop' = "done"
    /\ UNCHANGED <<main, call, queue, hand, rows, warned, late>>

LoopDone ==
    /\ Running /\ loop = "drain" /\ hand = NoEvent /\ queue = <<>>
    /\ loop' = "done"
    /\ UNCHANGED <<main, call, queue, hand, rows, warned, late>>

-----------------------------------------------------------------------------
(* main, after the signal *)

Signal ==
    /\ main = "serving"
    /\ main' = "shutdown"
    /\ UNCHANGED <<call, queue, writerVars, warned, late>>

\* Shutdown returns when the handlers are done or after ten seconds, and the
\* deferred auditWriter.Close cancels the writer and waits for it.
ShutdownReturns ==
    /\ main = "shutdown" /\ InFlight = {}
    /\ main' = "closing"
    /\ UNCHANGED <<call, queue, writerVars, warned, late>>

ShutdownTimeout ==
    /\ main = "shutdown" /\ InFlight # {}
    /\ main' = "closing"
    /\ UNCHANGED <<call, queue, writerVars, warned, late>>

Exit ==
    /\ main = "closing" /\ loop = "done"
    /\ main' = "exited"
    /\ UNCHANGED <<call, queue, writerVars, warned, late>>

Exited == main = "exited" /\ UNCHANGED vars

MainStep == ShutdownReturns \/ ShutdownTimeout \/ Exit
LoopStep == LoopTake \/ LoopWrite \/ LoopCancelled \/ LoopDone

Next ==
    \/ \E c \in Calls : \/ Accept(c) \/ Reject(c) \/ Dispatch(c)
                        \/ HubReturns(c) \/ InvalidResponse(c) \/ Record(c)
    \/ LoopStep \/ MainStep \/ Signal \/ Exited

Spec == Init /\ [][Next]_vars

\* The writer runs, its writes time out, and main is not stopped by handlers.
FairSpec == Spec /\ WF_vars(LoopStep) /\ WF_vars(MainStep)

-----------------------------------------------------------------------------
TypeOK ==
    /\ main \in {"serving", "shutdown", "closing", "exited"}
    /\ call \in [Calls -> {"idle", "gate", "hub", "record",
                           "answered", "rejected", "unaudited"}]
    /\ queue \in Seq(Calls) /\ Len(queue) <= Capacity
    /\ loop \in {"select", "drain", "done"}
    /\ hand \in Calls \cup {NoEvent}
    /\ rows \in [Calls -> Nat]
    /\ warned \subseteq Calls /\ late \subseteq Calls

CloseDrainsEvents ==
    main = "exited" =>
        \A c \in Calls \ late :
            call[c] = "answered" => rows[c] > 0 \/ c \in warned

OneRowPerCall ==
    \A c \in Calls : rows[c] <= 1 /\ (rows[c] = 1 => call[c] = "answered")

\* Close drains what was recorded before it: when the process exits, every such event
\* is stored or has been given up with a warning, also when Record and the last writes
\* race Close.  A call has at most one audit row, and only if it was sent to the relay,
\* although a failed write may have been stored.
AuditIsExact == CloseDrainsEvents /\ OneRowPerCall

\* Shutdown ends: handlers that go on recording cannot keep the writer's
\* drain, and so main, from finishing.
ShutdownEnds == (main = "shutdown") ~> (main = "exited")

=============================================================================
