--------------------------- MODULE MCAgentFailover ---------------------------
(* A primary and its standby for TLC. *)
EXTENDS AgentFailover

CONSTANTS primary, backup
=============================================================================
