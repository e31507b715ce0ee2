-------------------------- MODULE MCProcessManager --------------------------
\* ProcessManager on a small instance: two sessions compete for one slot.
EXTENDS ProcessManager
=============================================================================
