----------------------------- MODULE MCAgentLink -----------------------------
(* A small instance of AgentLink for TLC. *)
EXTENDS AgentLink

CONSTANTS primary, backup, v

\* A change that every agent shows and one it keeps to itself; one that it
\* refuses is what ProposeStrategy proposes.
MCChange == {[type |-> "emergency_pause", value |-> None], [type |-> "list_add", value |-> v]}
=============================================================================
