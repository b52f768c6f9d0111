---- MODULE MCInstanceLock ----
(* Three starts and two stop commands: a daemon, its successor, and a start in between. *)
EXTENDS InstanceLock

CONSTANTS p1, p2, p3, s1, s2
====
