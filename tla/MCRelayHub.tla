----------------------------- MODULE MCRelayHub -----------------------------
\* RelayHub on a small instance: one device with two connections.
EXTENDS RelayHub

CONSTANTS d1, alice, bob

OneDevice == [c \in Conns |-> d1]
AliceOwns == [d \in Devices |-> alice]
=============================================================================
