---- MODULE MCRelayDelivery ----
(* One publish() call with a progress event and the terminal event after it. *)
EXTENDS RelayDelivery, TLC

CONSTANTS n1, r1, p

MCEventsOf == p :> <<n1, r1>>
====
