---------------------------- MODULE MCKeepAlive ----------------------------
\* KeepAlive with the periods of the code: 30 s, 90 s, 10 s.
EXTENDS KeepAlive
=============================================================================
