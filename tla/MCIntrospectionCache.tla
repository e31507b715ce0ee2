------------------------ MODULE MCIntrospectionCache ------------------------
\* IntrospectionCache with two tokens, room for one, and two overlapping Verifies.
EXTENDS IntrospectionCache, TLC

CONSTANTS t1, t2

MCExpiry == (t1 :> 3) @@ (t2 :> 9)
=============================================================================
