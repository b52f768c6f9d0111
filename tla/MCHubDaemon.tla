---- MODULE MCHubDaemon ----
(* Two conversations, tasks for a dispatch, its replay and a reply. *)
EXTENDS HubDaemon

CONSTANTS m1, m2
====
