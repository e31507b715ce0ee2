----------------------------- MODULE MCPairing -----------------------------
\* Pairing on small instances: two people may approve, requests may overlap.
EXTENDS Pairing
=============================================================================
