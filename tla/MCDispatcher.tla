---- MODULE MCDispatcher ----
(* Three polling attempts and streams of up to three events. *)
EXTENDS Dispatcher
====
