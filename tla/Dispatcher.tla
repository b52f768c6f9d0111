---- MODULE Dispatcher ----
(***************************************************************************)
(* One call of Dispatcher.dispatch (hub/dispatcher.py): the message is     *)
(* sent to an agent, as a stream or as a blocking request with polling     *)
(* behind it, and once more with the fallback interface when the agent     *)
(* answers that it does not know the method or the version.                *)
(*                                                                         *)
(* The agent is free in its answers.  Of content the model keeps whether   *)
(* there is text, or other parts.                                          *)
(***************************************************************************)
EXTENDS Naturals

CONSTANTS
  MaxPolls,  \* max_attempts of _poll_until_terminal
  MaxEvents  \* bound on the events of a stream

ASSUME BoundAssumption == MaxPolls \in Nat \ {0} /\ MaxEvents \in Nat

Failure == {"failed", "rejected"}
Interactive == {"input-required", "auth-required"}
NonTerminal == {"submitted", "working"}
Settled == Failure \cup Interactive \cup {"completed", "canceled"}

\* "unknown" is the one state of A2A 0.3 that the code puts into none of its sets.
State == Settled \cup NonTerminal \cup {"unknown"}

Content == {"text", "parts"}

VARIABLES
  streams,   \* the card's streaming capability, fixed for a call
  fallback,  \* agent.fallback_interface is set, fixed for a call
  iface,     \* the interface dispatch() uses
  pc,        \* what the call waits for
  begun,     \* the stream has yielded its first event
  events,    \* events read from it
  polls,     \* polling attempts that found the task unfinished
  result,    \* the DispatchResult
  shown,     \* the kinds of content yielded as artifact_update
  final,     \* the last batch
  accepted,  \* history: how often the agent took the message
  last,      \* history: the last task state the agent told of
  told       \* history: how it told that state

agentVars == <<streams, fallback>>
vars == <<streams, fallback, iface, pc, begun, events, polls, result, shown, final,
          accepted, last, told>>

Fresh ==
  [state |-> "none", known |-> FALSE, text |-> FALSE, emitted |-> FALSE, error |-> "none"]

TypeOK ==
  /\ streams \in BOOLEAN /\ fallback \in BOOLEAN
  /\ iface \in {"primary", "fallback"}
  /\ pc \in {"send", "stream", "refetch", "poll", "pollFallback", "close", "done", "cancelled"}
  /\ begun \in BOOLEAN
  /\ events \in 0 .. MaxEvents
  /\ polls \in 0 .. MaxPolls - 1
  /\ result \in [state : State \cup {"none"}, known : BOOLEAN, text : BOOLEAN,
                 emitted : BOOLEAN, error : {"none", "version", "polling", "other"}]
  /\ shown \subseteq Content
  /\ final \in {<<>>, <<"agent_error", "failed">>, <<"task_interactive", "input_required">>,
                <<"completed">>, <<"agent_response", "completed">>}
  /\ accepted \in 0 .. 2
  /\ last \in State \cup {"none"}
  /\ told \in {"nothing", "answer", "update", "task", "blank"}

Init ==
  /\ streams \in BOOLEAN /\ fallback \in BOOLEAN
  /\ iface = "primary" /\ pc = "send"
  /\ begun = FALSE /\ events = 0 /\ polls = 0
  /\ result = Fresh
  /\ shown = {} /\ final = <<>>
  /\ accepted = 0 /\ last = "none" /\ told = "nothing"

\* History: the agent tells of a state, or in an event or answer without one of none.
Tells(s, how) ==
  IF s = "none" THEN UNCHANGED <<last, told>> ELSE last' = s /\ told' = how

----------------------------------------------------------------------------
\* What dispatch() makes of an exception

\* A version error of the first try: the whole message is sent again.
Resend ==
  /\ iface = "primary" /\ fallback
  /\ iface' = "fallback"
  /\ result' = Fresh
  /\ pc' = "send"

\* Otherwise the last batch reports it; that of a fallback try names the first error.
Report(err) ==
  /\ result' = IF iface = "fallback" THEN [Fresh EXCEPT !.error = "version"]
                                     ELSE [result EXCEPT !.error = err]
  /\ pc' = "close"
  /\ UNCHANGED iface

Raise(err) ==
  IF err = "version" /\ iface = "primary" /\ fallback THEN Resend ELSE Report(err)

----------------------------------------------------------------------------
\* The blocking request (message/send)

\* What an answer holds: a task in some state, with an id or none, or a message,
\* which has neither.
Answers ==
  {r \in [state : State \cup {"none"}, known : BOOLEAN, text : BOOLEAN] :
     r.state = "none" => ~r.known}

SendAnswered ==
  /\ pc = "send" /\ ~streams
  /\ \E r \in Answers :
       /\ result' = [result EXCEPT !.state = r.state, !.known = r.known, !.text = r.text]
       /\ pc' = IF r.state \in NonTerminal /\ r.known THEN "poll" ELSE "close"
       /\ Tells(r.state, "answer")
  /\ polls' = 0
  /\ accepted' = accepted + 1
  /\ UNCHANGED <<agentVars, iface, begun, events, shown, final>>

SendFails ==
  /\ pc = "send" /\ ~streams
  /\ \E err \in {"version", "other"} : Raise(err)
  /\ UNCHANGED <<agentVars, begun, events, polls, shown, final, accepted, last, told>>

\* Mutant of TaskAnswered: attempts are not counted.
TaskAnsweredUncounted ==
  /\ pc \in {"poll", "pollFallback"}
  /\ \E s \in State \cup {"none"}, text \in BOOLEAN :
       LET state == IF s = "none" THEN result.state ELSE s
           done == state \in Settled
       IN  /\ Tells(s, "answer")
           /\ result' = [result EXCEPT !.state = state, !.text = @ \/ text]
           /\ pc' = IF done THEN "close" ELSE "poll"
  /\ UNCHANGED <<agentVars, iface, begun, events, polls, shown, final, accepted>>

\* Mutant of TaskAnswered: one attempt too many.
TaskAnsweredLate ==
  /\ pc \in {"poll", "pollFallback"}
  /\ \E s \in State \cup {"none"}, text \in BOOLEAN :
       LET state == IF s = "none" THEN result.state ELSE s
           done == state \in Settled
           spent == polls = MaxPolls
       IN  /\ Tells(s, "answer")
           /\ result' = [result EXCEPT !.state = state, !.text = @ \/ text,
                           !.error = IF ~done /\ spent THEN "polling" ELSE @]
           /\ pc' = IF done \/ spent THEN "close" ELSE "poll"
           /\ polls' = IF done \/ spent THEN polls ELSE polls + 1
  /\ UNCHANGED <<agentVars, iface, begun, events, shown, final, accepted>>

\* tasks/get in _poll_until_terminal.  An answer may leave out the state; only a
\* settled one ends the polling.
TaskAnswered ==
  /\ pc \in {"poll", "pollFallback"}
  /\ \E s \in State \cup {"none"}, text \in BOOLEAN :
       LET state == IF s = "none" THEN result.state ELSE s
           done == state \in Settled
           spent == polls + 1 = MaxPolls
       IN  /\ Tells(s, "answer")
           /\ result' = [result EXCEPT !.state = state, !.text = @ \/ text,
                           !.error = IF ~done /\ spent THEN "polling" ELSE @]
           /\ pc' = IF done \/ spent THEN "close" ELSE "poll"
           /\ polls' = IF done \/ spent THEN polls ELSE polls + 1
  /\ UNCHANGED <<agentVars, iface, begun, events, shown, final, accepted>>

\* _fetch_task asks the fallback interface before the version error leaves it.
TaskVersionError ==
  /\ pc = "poll" /\ iface = "primary" /\ fallback
  /\ pc' = "pollFallback"
  /\ UNCHANGED <<agentVars, iface, begun, events, polls, result, shown, final,
                 accepted, last, told>>

TaskFails ==
  /\ \/ pc = "poll" /\ \E err \in {"version", "other"} :
          (err = "version" => ~(iface = "primary" /\ fallback)) /\ Raise(err)
     \/ pc = "pollFallback" /\ \E err \in {"version", "other"} : Raise(err)
  /\ UNCHANGED <<agentVars, begun, events, polls, shown, final, accepted, last, told>>

----------------------------------------------------------------------------
\* The stream (message/stream)

OpenStream ==
  /\ pc = "send" /\ streams
  /\ pc' = "stream" /\ begun' = FALSE /\ events' = 0
  /\ UNCHANGED <<agentVars, iface, polls, result, shown, final, accepted, last, told>>

StreamRead ==
  /\ pc = "stream" /\ events < MaxEvents
  /\ events' = events + 1
  /\ begun' = TRUE
  /\ accepted' = IF begun THEN accepted ELSE accepted + 1
  /\ UNCHANGED <<agentVars, iface, pc, polls, final>>

\* Mutant of StreamContent: the content is not marked as shown.
StreamContentUnmarked ==
  /\ StreamRead
  /\ \E content \in SUBSET Content :
       /\ shown' = shown \cup content
       /\ result' = [result EXCEPT !.text = @ \/ "text" \in content]
  /\ UNCHANGED <<last, told>>

\* An artifact-update or a message, a batch of its own; without content it may also be
\* an event that is passed over: of an unknown kind, or an error after the first event.
StreamContent ==
  /\ StreamRead
  /\ \E content \in SUBSET Content :
       /\ shown' = shown \cup content
       /\ result' = [result EXCEPT !.emitted = @ \/ content # {},
                                   !.text = @ \/ "text" \in content]
  /\ UNCHANGED <<last, told>>

\* A status-update, with a task id and a state or without.  What it has as its state
\* is taken over: without one, the state told before is forgotten.
StreamStatus ==
  /\ StreamRead
  /\ \E s \in State \cup {"none"}, known \in BOOLEAN :
       /\ result' = [result EXCEPT !.state = s, !.known = @ \/ known]
       /\ last' = IF s = "none" THEN last ELSE s
       /\ told' = IF s = "none" THEN "blank" ELSE "update"
  /\ UNCHANGED shown

\* A task event tells of a state, but only its id is taken over.
StreamTask ==
  /\ StreamRead
  /\ \E s \in State \cup {"none"}, known \in BOOLEAN :
       /\ result' = [result EXCEPT !.known = @ \/ known]
       /\ Tells(s, "task")
  /\ UNCHANGED shown

\* Mutant of StreamFails: a version error counts at any event.
StreamFailsAnywhere ==
  /\ pc = "stream"
  /\ \E err \in {"version", "other"} : Raise(err)
  /\ UNCHANGED <<agentVars, begun, events, polls, shown, final, accepted, last, told>>

\* The first event is an error, or the connection breaks; a version error counts
\* only in the first event.
StreamFails ==
  /\ pc = "stream"
  /\ \E err \in {"version", "other"} : (err = "version" => ~begun) /\ Raise(err)
  /\ UNCHANGED <<agentVars, begun, events, polls, shown, final, accepted, last, told>>

StreamEnds ==
  /\ pc = "stream"
  /\ pc' = IF ~result.text /\ result.known THEN "refetch" ELSE "close"
  /\ UNCHANGED <<agentVars, iface, begun, events, polls, result, shown, final,
                 accepted, last, told>>

\* Mutant of Refetch: the state is taken over even when there is none.
RefetchOverwrites ==
  /\ pc = "refetch"
  /\ \E s \in State \cup {"none"}, text \in BOOLEAN :
       /\ result' = [result EXCEPT !.state = s, !.text = text]
       /\ Tells(s, "answer")
  /\ pc' = "close"
  /\ UNCHANGED <<agentVars, iface, begun, events, polls, shown, final, accepted>>

\* _refetch_final_task got an answer; or none from either interface, which is
\* the case that brings neither state nor text.
Refetch ==
  /\ pc = "refetch"
  /\ \E s \in State \cup {"none"}, text \in BOOLEAN :
       LET state == IF s = "none" THEN result.state ELSE s
       IN  /\ result' = [result EXCEPT !.state = state, !.text = text]
           /\ Tells(s, "answer")
  /\ pc' = "close"
  /\ UNCHANGED <<agentVars, iface, begun, events, polls, shown, final, accepted>>

----------------------------------------------------------------------------
\* _emit_terminal_events
Terminal(r) ==
  CASE r.error # "none" \/ r.state \in Failure -> <<"agent_error", "failed">>
    [] r.error = "none" /\ r.state \in Interactive -> <<"task_interactive", "input_required">>
    [] r.error = "none" /\ r.state \notin Failure \cup Interactive ->
         IF r.emitted THEN <<"completed">> ELSE <<"agent_response", "completed">>

EmitTerminal ==
  /\ pc = "close"
  /\ final' = Terminal(result)
  /\ pc' = "done"
  /\ UNCHANGED <<agentVars, iface, begun, events, polls, result, shown, accepted, last, told>>

\* The dispatch task around the call is cancelled.
Cancel ==
  /\ pc \notin {"done", "cancelled"}
  /\ pc' = "cancelled"
  /\ UNCHANGED <<agentVars, iface, begun, events, polls, result, shown, final,
                 accepted, last, told>>

----------------------------------------------------------------------------
SyncStep == SendAnswered \/ SendFails \/ TaskAnswered \/ TaskVersionError \/ TaskFails

StreamStep ==
  \/ OpenStream \/ StreamContent \/ StreamStatus \/ StreamTask
  \/ StreamFails \/ StreamEnds \/ Refetch

Next == SyncStep \/ StreamStep \/ EmitTerminal \/ Cancel

Spec == Init /\ [][Next]_vars

\* Every request has a timeout.  Nothing makes an agent end its stream.
FairSpec == Spec /\ WF_vars(SyncStep) /\ WF_vars(EmitTerminal)

----------------------------------------------------------------------------
\* Properties

\* dispatch() keeps the promise of DispatchContract: content is rendered once, over
\* both tries, and one last batch comes last.
Contract == INSTANCE DispatchContract WITH shown <- shown, final <- final
ImplementsContract == Contract!Spec

\* A message is sent again only when nothing of the first try was shown, and an agent
\* that has taken it gets it again only when neither of its interfaces would tell of
\* the task.
ResendsBeforeOutput ==
  [][iface' # iface => shown = {} /\ (accepted = 0 \/ pc = "pollFallback")]_vars

\* "completed" contradicts a failure or a question the agent told of last in two cases
\* only, however stream, polling and re-fetch follow each other: a task event of the
\* stream told it, or a status-update without a state came after it, and no status-update
\* and no answer has told of a state since.
FailuresAreTold ==
  final \in {<<"completed">>, <<"agent_response", "completed">>} =>
    last \notin Failure \cup Interactive \/ told \in {"task", "blank"}

\* A dispatch without streaming ends, whatever the agent answers.
SyncDispatchEnds == ~streams ~> pc \in {"done", "cancelled"}

\* _refetch_final_task: "Re-fetch the completed task from the agent to get definitive
\* response text", which then is rendered.
TextIsRendered ==
  final \in {<<"completed">>, <<"agent_response", "completed">>} /\ result.text =>
    "text" \in shown \/ final = <<"agent_response", "completed">>
====
