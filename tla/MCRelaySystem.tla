---------------------------- MODULE MCRelaySystem ----------------------------
\* RelaySystem on small instances: one device, whose agent reconnects once, or
\* a connection that several calls share.
EXTENDS RelaySystem, TLC

CONSTANTS d1, alice

OneDevice == [c \in Conns |-> d1]
AliceOwns == [d \in Devices |-> alice]

\* Sound for the shared connection: nothing checked there is liveness.
CallSymmetry == Permutations(Calls)
=============================================================================
