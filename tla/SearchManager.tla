--------------------------- MODULE SearchManager ---------------------------
(***************************************************************************)
(* The agent's search sessions: internal/searchmgr.  Each session has a    *)
(* goroutine that walks a directory tree and appends matches; tool calls   *)
(* take them out with GetMore, stop the walk, and start further sessions.  *)
(* The tree has no end in the model, so that a walk ends only because the  *)
(* code ends it or the tree happens to be exhausted.  Matches are numbered *)
(* in the order they are found, so a count stands for the results.         *)
(*                                                                         *)
(* A session has two timers, which fire on time: the context's deadline,   *)
(* which the walk sees when it next looks, and the one that forgets the    *)
(* session, whatever the walk does.  A walk may be held up in a file, or   *)
(* in reading a directory, for any time.                                   *)
(***************************************************************************)
EXTENDS Naturals, FiniteSets

CONSTANTS Sessions, MaxSessions, MaxResults,
          Limit,      \* GetMore's limit
          WalkTime,   \* two minutes: the deadline of the context
          KeepTime    \* fifteen minutes: a session is forgotten

ASSUME SearchAssumption ==
    /\ MaxSessions \in Nat \ {0} /\ MaxResults \in Nat \ {0} /\ Limit \in Nat \ {0}
    /\ WalkTime \in Nat /\ KeepTime \in Nat /\ WalkTime < KeepTime

VARIABLES
    sessions,  \* the sessions in m.sessions
    walk,      \* run: "none", "walking", "matched" (before s.add), "counted" (after
               \* it), "ended" (WalkDir returned), "closing", "done"
    ctx,       \* "live", "canceled" or "deadline"
    found,     \* len(s.results)
    next,      \* s.next
    err,       \* s.err
    told,      \* what the last GetMore has answered
    age,       \* time since Start, up to KeepTime
    look       \* age at which the walk last looked at ctx and went on

searchTime == <<age, look>>
searchVars == <<sessions, walk, ctx, found, next, err, told, searchTime>>

NotTold == [done |-> FALSE, err |-> "none", total |-> 0]

SearchInit ==
    /\ sessions = {}
    /\ walk = [s \in Sessions |-> "none"]
    /\ ctx = [s \in Sessions |-> "live"]
    /\ found = [s \in Sessions |-> 0]
    /\ next = [s \in Sessions |-> 0]
    /\ err = [s \in Sessions |-> "none"]
    /\ told = [s \in Sessions |-> NotTold]
    /\ age = [s \in Sessions |-> 0]
    /\ look = [s \in Sessions |-> 0]

-----------------------------------------------------------------------------
(* Start, GetMore, Stop and the timers *)

Active == {s \in sessions : walk[s] # "done"}

StartUnlimited(s) ==
    /\ walk[s] = "none"
    /\ sessions' = sessions \cup {s}
    /\ walk' = [walk EXCEPT ![s] = "walking"]
    /\ UNCHANGED <<ctx, found, next, err, told>>

Start(s) ==
    /\ walk[s] = "none" /\ Cardinality(Active) < MaxSessions
    /\ sessions' = sessions \cup {s}
    /\ walk' = [walk EXCEPT ![s] = "walking"]
    /\ UNCHANGED <<ctx, found, next, err, told>>

GetMoreEager(s) ==
    LET end == IF next[s] + Limit > found[s] THEN found[s] ELSE next[s] + Limit IN
    /\ s \in sessions
    /\ next' = [next EXCEPT ![s] = end]
    /\ told' = [told EXCEPT ![s] = [done |-> end >= found[s],
                                    err |-> err[s], total |-> found[s]]]
    /\ UNCHANGED <<sessions, walk, ctx, found, err>>

GetMore(s) ==
    LET end == IF next[s] + Limit > found[s] THEN found[s] ELSE next[s] + Limit IN
    /\ s \in sessions
    /\ next' = [next EXCEPT ![s] = end]
    /\ told' = [told EXCEPT ![s] = [done |-> walk[s] = "done" /\ end >= found[s],
                                    err |-> err[s], total |-> found[s]]]
    /\ UNCHANGED <<sessions, walk, ctx, found, err>>

\* A context keeps the first of its two reasons to be done.
Stop(s) ==
    /\ s \in sessions /\ ctx[s] = "live"
    /\ ctx' = [ctx EXCEPT ![s] = "canceled"]
    /\ UNCHANGED <<sessions, walk, found, next, err, told>>

\* The two minutes run from Start and do not stop when the walk ends.
Deadline(s) ==
    /\ walk[s] # "none" /\ ctx[s] = "live" /\ age[s] = WalkTime
    /\ ctx' = [ctx EXCEPT ![s] = "deadline"]
    /\ UNCHANGED <<sessions, walk, found, next, err, told>>

ForgetEarly(s) ==
    /\ s \in sessions /\ age[s] = WalkTime
    /\ sessions' = sessions \ {s}
    /\ UNCHANGED <<walk, ctx, found, next, err, told>>

\* The walk is not asked; cancel has no effect after the deadline.
Forget(s) ==
    /\ s \in sessions /\ age[s] = KeepTime
    /\ sessions' = sessions \ {s}
    /\ UNCHANGED <<walk, ctx, found, next, err, told>>

TimerDue(s) ==
    \/ walk[s] # "none" /\ ctx[s] = "live" /\ age[s] = WalkTime
    \/ s \in sessions /\ age[s] = KeepTime

Tick ==
    /\ \A s \in Sessions : ~ TimerDue(s)
    /\ \E s \in Sessions : walk[s] # "none" /\ age[s] < KeepTime
    /\ age' = [s \in Sessions |->
                 IF walk[s] # "none" /\ age[s] < KeepTime THEN age[s] + 1 ELSE age[s]]
    /\ UNCHANGED <<sessions, walk, ctx, found, next, err, told, look>>

-----------------------------------------------------------------------------
(* run *)

\* A callback of WalkDir looks at the context and the result limit first; then
\* a file has a match.
WalkMatch(s) ==
    /\ walk[s] = "walking" /\ ctx[s] = "live" /\ found[s] < MaxResults
    /\ walk' = [walk EXCEPT ![s] = "matched"]
    /\ look' = [look EXCEPT ![s] = age[s]]
    /\ UNCHANGED <<sessions, ctx, found, next, err, told, age>>

\* An entry that is hidden, a directory or a link, or that has no match.
WalkOn(s) ==
    /\ walk[s] = "walking" /\ ctx[s] = "live"
    /\ look' = [look EXCEPT ![s] = age[s]]
    /\ UNCHANGED <<sessions, walk, ctx, found, next, err, told, age>>

WalkStopIgnoresContext(s) ==
    /\ walk[s] = "walking" /\ found[s] >= MaxResults
    /\ walk' = [walk EXCEPT ![s] = "ended"]
    /\ UNCHANGED <<sessions, ctx, found, next, err, told>>

WalkStop(s) ==
    /\ walk[s] = "walking" /\ (ctx[s] # "live" \/ found[s] >= MaxResults)
    /\ walk' = [walk EXCEPT ![s] = "ended"]
    /\ UNCHANGED <<sessions, ctx, found, next, err, told>>

WalkExhausted(s) ==
    /\ walk[s] = "walking"
    /\ walk' = [walk EXCEPT ![s] = "ended"]
    /\ UNCHANGED <<sessions, ctx, found, next, err, told>>

\* s.add: one match is appended.
Add(s) ==
    /\ walk[s] = "matched"
    /\ found' = [found EXCEPT ![s] = @ + 1]
    /\ walk' = [walk EXCEPT ![s] = "counted"]
    /\ UNCHANGED <<sessions, ctx, next, err, told>>

\* A search by file name goes on to the next entry.  A content search stops at
\* the result limit, and else goes on with the next line, with no look at ctx.
Counted(s) ==
    /\ walk[s] = "counted"
    /\ walk' \in {[walk EXCEPT ![s] = to] :
                    to \in {"walking", IF found[s] >= MaxResults THEN "ended" ELSE "matched"}}
    /\ UNCHANGED <<sessions, ctx, found, next, err, told>>

\* The callback returns no error but the context's and errEnough, and only the
\* deadline is reported, even when it passes after the end of the tree.
ReportError(s) ==
    /\ walk[s] = "ended"
    /\ err' = [err EXCEPT ![s] = IF ctx[s] = "deadline" THEN "timeout" ELSE @]
    /\ walk' = [walk EXCEPT ![s] = "closing"]
    /\ UNCHANGED <<sessions, ctx, found, next, told>>

\* The deferred function.
MarkDone(s) ==
    /\ walk[s] = "closing"
    /\ walk' = [walk EXCEPT ![s] = "done"]
    /\ UNCHANGED <<sessions, ctx, found, next, err, told>>

RunStep(s) ==
    /\ WalkStop(s) \/ Add(s) \/ Counted(s) \/ ReportError(s) \/ MarkDone(s)
    /\ UNCHANGED searchTime

\* Every session of the instance has been used up.
AllForgotten ==
    /\ sessions = {} /\ \A s \in Sessions : walk[s] = "done"
    /\ UNCHANGED searchVars

SearchNext ==
    \/ \E s \in Sessions :
        \/ WalkMatch(s) \/ WalkOn(s) \/ RunStep(s)
        \/ /\ \/ Start(s) \/ GetMore(s) \/ Stop(s) \/ Deadline(s) \/ Forget(s)
              \/ WalkExhausted(s)
           /\ UNCHANGED searchTime
    \/ Tick \/ AllForgotten

SearchSpec == SearchInit /\ [][SearchNext]_searchVars

\* Time passes, the timers fire and the walking goroutine runs; no fairness makes
\* the tree end or a match turn up.
FairSearchSpec ==
    /\ SearchSpec /\ WF_searchVars(Tick)
    /\ \A s \in Sessions : /\ WF_searchVars(Deadline(s) /\ UNCHANGED searchTime)
                           /\ WF_searchVars(Forget(s) /\ UNCHANGED searchTime)
                           /\ WF_searchVars(RunStep(s))

-----------------------------------------------------------------------------
SearchTypeOK ==
    /\ sessions \subseteq Sessions
    /\ walk \in [Sessions -> {"none", "walking", "matched", "counted",
                              "ended", "closing", "done"}]
    /\ ctx \in [Sessions -> {"live", "canceled", "deadline"}]
    /\ found \in [Sessions -> 0..MaxResults]
    /\ next \in [Sessions -> 0..MaxResults]
    /\ err \in [Sessions -> {"none", "timeout"}]
    /\ told \in [Sessions -> [done : BOOLEAN, err : {"none", "timeout"},
                              total : 0..MaxResults]]
    /\ age \in [Sessions -> 0..KeepTime] /\ look \in [Sessions -> 0..WalkTime]

\* The walk has been in one file or directory for as long as the two timers are apart.
HeldUp(s) == age[s] + WalkTime >= KeepTime + look[s]

\* Start counts the sessions that are listed and not done, and the timer deletes a
\* session from the list whatever its walk does.  Still no more than maxSessions walks
\* run at a time, listed or not, but for those that one file or directory has held up
\* for thirteen minutes.
WalksBounded ==
    Cardinality({s \in Sessions : walk[s] \notin {"none", "done"} /\ ~ HeldUp(s)}) <= MaxSessions

\* Done is final: once GetMore has answered Done, all matches have been handed
\* out, none will follow, and the error it gave is the error of the search.
DoneIsFinal ==
    \A s \in Sessions :
        told[s].done => /\ found[s] = told[s].total /\ next[s] = found[s]
                        /\ err[s] = told[s].err

\* A search ends, by its deadline at the latest, and frees its place, also in
\* a tree that has no end and no match, and when it has been forgotten by then.
SearchEnds == \A s \in Sessions : (walk[s] = "walking") ~> (walk[s] = "done")
=============================================================================
