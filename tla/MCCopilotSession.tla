-------------------------- MODULE MCCopilotSession --------------------------
(* A small instance of CopilotSession for TLC. *)
EXTENDS CopilotSession, TLC
=============================================================================
