---- MODULE MCRosterSync ----
(* A configured agent and an auto-discovered one. *)
EXTENDS RosterSync

CONSTANTS a1, a2
====
