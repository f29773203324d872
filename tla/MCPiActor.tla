------------------------------ MODULE MCPiActor ------------------------------
(* Three tool calls in one, two or three turns; a leader and a descendant.   *)
EXTENDS PiActor
=============================================================================
