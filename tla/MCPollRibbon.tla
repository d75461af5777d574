---------------------------- MODULE MCPollRibbon ----------------------------
(* Two callers that call again and again.                                  *)
EXTENDS PollRibbon

CONSTANTS c1, c2  \* model values
=============================================================================
