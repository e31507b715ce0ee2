---------------------------- MODULE MCToolCalls ----------------------------
\* ToolCalls with three calls and room for two events in the queue.
EXTENDS ToolCalls
=============================================================================
