---------------------------- MODULE MCLibraries ----------------------------
(***************************************************************************)
(* The leaf packages, side by side: a behaviour exercises one of them,     *)
(* chosen at the start, and leaves the others in their initial state.      *)
(***************************************************************************)
EXTENDS OutputRing, IPLimiter, WsFrames, PathPolicy, McpEndpoint, TLC

VARIABLE package

MCPrefix == <<0>>
MCChunks == {<<1>>, <<2>>, <<1, 2>>, <<2, 1, 1>>, <<1, 2, 1, 2>>}

\* Each of the three forms of a length, and a message that is over the limit.
MCMessages == {<<7, 1>>, <<7, 9, 2, 0, 15, 7>>, <<7>> \o [i \in 1..15 |-> i], <<7>> \o [i \in 1..16 |-> 16 - i]}
MCMasks == {<<5, 9, 14, 3>>}
MCEchoes == {<<>>, <<11>>}
\* It begins with a brace: all else of a protocol frame may be garbled unnoticed.
MCDecodes(out) == out # <<>> /\ out[1] = 7

MCRoot == <<"r">>
MCRequests == {<<"r", "a">>, <<"r", "a", "b">>, <<"r", "b", "a">>, <<"r", "b", "..", "a">>, <<"o", "a">>}
MCPlaces == {<<"o">>, <<"r", "a">>, <<"r", "b">>, <<"r", "a", "b">>}
MCTargets == {<<"o">>, <<"r", "b">>, <<"r", "a">>}

MCSkews == {-3, 0, 2, 5}
\* One thing at a time is wrong with a request, or its versions vary.
MCAsked ==
    {q \in McpRequests :
        /\ q.flaw # "none" => q.id /\ q.method = "tools/call"
        /\ q.flaw # "none" \/ ~ q.id => q.header = "" /\ q.meta = ""}

MCSymmetry == Permutations(Keys) \cup Permutations(Writers)

Init ==
    /\ package \in {"processmgr", "controlplane", "ws", "pathpolicy", "mcpserver"}
    /\ RingInit /\ LimiterInit /\ FramesInit /\ PathsInit /\ EndpointInit
    /\ client => package = "ws"

Next ==
    \/ package = "processmgr" /\ RingNext
          /\ UNCHANGED <<package, limiterVars, framesVars, pathVars, endpointVars>>
    \/ package = "controlplane" /\ LimiterNext
          /\ UNCHANGED <<package, ringVars, framesVars, pathVars, endpointVars>>
    \/ package = "ws" /\ FramesNext
          /\ UNCHANGED <<package, ringVars, limiterVars, pathVars, endpointVars>>
    \/ package = "pathpolicy" /\ PathsNext
          /\ UNCHANGED <<package, ringVars, limiterVars, framesVars, endpointVars>>
    \/ package = "mcpserver" /\ EndpointNext
          /\ UNCHANGED <<package, ringVars, limiterVars, framesVars, pathVars>>

vars == <<package, ringVars, limiterVars, framesVars, pathVars, endpointVars>>

Spec == Init /\ [][Next]_vars
=============================================================================
