--------------------------- MODULE MCAgentSession ---------------------------
(* AgentSession for TLC. *)
EXTENDS AgentSession
=============================================================================
