--------------------------- MODULE MCDeviceAccess ---------------------------
\* DeviceAccess with one device that connects up to three times, and no calls.
EXTENDS DeviceAccess

CONSTANTS d1, alice, bob

OneDevice == [c \in Conns |-> d1]
AliceOwns == [d \in Devices |-> alice]
=============================================================================
