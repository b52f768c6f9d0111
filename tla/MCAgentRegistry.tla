---- MODULE MCAgentRegistry ----
(* A configured agent and an auto-discovered one. *)
EXTENDS AgentRegistry

CONSTANTS a1, a2
====
