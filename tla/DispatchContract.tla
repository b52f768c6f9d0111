---- MODULE DispatchContract ----
(***************************************************************************)
(* What Dispatcher.dispatch promises the caller that publishes its batches *)
(* (hub/dispatcher.py, _emit_terminal_events): content is shown while the  *)
(* agent streams, then one last batch tells how the message ended, and     *)
(* nothing follows.  A final agent_response is for messages of which       *)
(* nothing was shown: the consumers render each content once.              *)
(***************************************************************************)
Content == {"text", "parts"}

Failed == <<"agent_error", "failed">>
AskUser == <<"task_interactive", "input_required">>
Silent == <<"completed">>
Respond == <<"agent_response", "completed">>

VARIABLES
  shown,  \* the kinds of content yielded as artifact_update
  final   \* the last batch: its events, processing_status by its status; <<>> before

Init == shown = {} /\ final = <<>>

Show ==
  /\ final = <<>>
  /\ shown' \in SUBSET Content /\ shown \subseteq shown'
  /\ UNCHANGED final

Finish ==
  /\ final = <<>>
  /\ \/ final' \in {Failed, AskUser}
     \/ final' = Silent /\ shown # {}
     \/ final' = Respond /\ shown = {}
  /\ UNCHANGED shown

Next == Show \/ Finish

Spec == Init /\ [][Next]_<<shown, final>>
====
