---- MODULE MessagePath ----
(***************************************************************************)
(* One user message from end to end: the relay sends it over SSE, the      *)
(* event loop hands it to a dispatch, the dispatch publishes what the      *)
(* agent answers (hub/main.py, RelayClient.subscribe and publish).         *)
(*                                                                         *)
(* The module puts the parts together on what they promise: of the         *)
(* dispatcher, DispatchContract; of publish() and the queue, that an event *)
(* is delivered, queued or logged as lost (Outbox), or that the call       *)
(* raises; of the daemon, one dispatch of a message at a time (HubDaemon). *)
(* Connections break, also without a sign, the relay is out of reach for a *)
(* while, the daemon dies and is started again.  A message waits at the    *)
(* relay and is sent once on every connection, until there is an answer.   *)
(***************************************************************************)
EXTENDS Naturals, Sequences

CONSTANT
  MaxFaults  \* bound on outages of the relay, broken connections and ends of the daemon

ASSUME FaultAssumption == MaxFaults \in Nat

VARIABLES
  relayUp,         \* the relay can be reached
  faults,          \* how many faults there were
  loop,            \* where the daemon's event loop is
  link,            \* where subscribe() is
  wire,            \* what is on the connection, unread
  whole,           \* how the connection is
  sent,            \* the relay has sent the message on it
  asked,           \* the user has sent the message
  agent,           \* the agent is registered
  stage, todo,     \* where the dispatch is; the rest of the events it publishes
  unreachable,     \* its error is one of CONNECTION_ERROR_TYPES
  shown, final,    \* see DispatchContract
  heard,           \* the kinds of processing_status the relay has
  box,             \* those that are queued
  lost,            \* those given up, with a log line
  raised           \* history: a dispatch of the message has raised, which is logged

linkVars == <<link, wire, whole, sent>>
taskVars == <<stage, todo, unreachable, shown, final, raised>>
eventVars == <<heard, box, lost>>
vars == <<relayUp, faults, loop, linkVars, asked, agent, taskVars, eventVars>>

Dispatch == INSTANCE DispatchContract

Status == {"failed", "input_required", "completed"}
Event == Status \cup
  {"task_submitted", "artifact_update", "agent_error", "task_interactive", "agent_response"}

\* Types; the events of a connection are gone with it.
TypeOK ==
  /\ relayUp \in BOOLEAN /\ faults \in 0 .. MaxFaults
  /\ loop \in {"reading", "syncing", "down"}
  /\ link \in {"connecting", "open", "backoff"}
  /\ wire \in {<<>>, <<"ready">>, <<"ready", "message">>, <<"message">>}
  /\ whole \in {"good", "broken", "closed", "silent"}
  /\ sent \in BOOLEAN /\ asked \in BOOLEAN /\ agent \in BOOLEAN
  /\ stage \in {"none", "begun", "publishing", "dispatching", "closing"}
  /\ todo \in Seq(Event) /\ Len(todo) <= 2
  /\ unreachable \in BOOLEAN
  /\ shown \subseteq Dispatch!Content
  /\ final \in {<<>>, Dispatch!Failed, Dispatch!AskUser, Dispatch!Silent, Dispatch!Respond}
  /\ heard \subseteq Status /\ box \subseteq Status /\ lost \subseteq Status
  /\ raised \in BOOLEAN
  /\ wire # <<>> => link = "open" /\ loop # "down"

Init ==
  /\ relayUp = TRUE /\ faults = 0
  /\ loop = "reading"
  /\ link = "connecting"
  /\ wire = <<>> /\ whole = "good" /\ sent = FALSE
  /\ asked = FALSE /\ agent \in BOOLEAN
  /\ stage = "none" /\ todo = <<>> /\ unreachable = FALSE
  /\ Dispatch!Init
  /\ heard = {} /\ box = {} /\ lost = {}
  /\ raised = FALSE

----------------------------------------------------------------------------
\* The relay, the network and the agents.

AskHub ==
  /\ ~asked
  /\ asked' = TRUE
  /\ UNCHANGED <<relayUp, faults, loop, linkVars, agent, taskVars, eventVars>>

SendMessage ==
  /\ asked /\ heard = {}
  /\ link = "open" /\ whole = "good" /\ ~sent
  /\ wire' = Append(wire, "message")
  /\ sent' = TRUE
  /\ UNCHANGED <<relayUp, faults, loop, link, whole, asked, agent, taskVars,
                 eventVars>>

RelayComesOrGoes ==
  /\ IF relayUp THEN faults < MaxFaults /\ faults' = faults + 1 ELSE UNCHANGED faults
  /\ relayUp' = ~relayUp
  /\ UNCHANGED <<loop, linkVars, asked, agent, taskVars, eventVars>>

LinkBreaks ==
  /\ link = "open" /\ whole = "good" /\ faults < MaxFaults
  /\ whole' \in {"broken", "closed", "silent"}
  /\ faults' = faults + 1
  /\ UNCHANGED <<relayUp, loop, link, wire, sent, asked, agent, taskVars,
                 eventVars>>

\* Discovery, health checks and the dispatches of other messages.
AgentComesOrGoes ==
  /\ loop # "down"
  /\ agent' = ~agent
  /\ UNCHANGED <<relayUp, faults, loop, linkVars, asked, taskVars, eventVars>>

----------------------------------------------------------------------------
\* subscribe: connect, read, wait after an error.

Connect ==
  /\ loop = "reading" /\ link = "connecting"
  /\ IF relayUp
       THEN link' = "open" /\ wire' = <<"ready">> /\ whole' = "good" /\ sent' = FALSE
       ELSE link' = "backoff" /\ UNCHANGED <<wire, whole, sent>>
  /\ UNCHANGED <<relayUp, faults, loop, asked, agent, taskVars, eventVars>>

Wake ==
  /\ loop = "reading" /\ link = "backoff"
  /\ link' = "connecting"
  /\ UNCHANGED <<relayUp, faults, loop, wire, whole, sent, asked, agent, taskVars,
                 eventVars>>

\* Mutant of LinkEnds: a read without a timeout.
LinkEndsLoudly ==
  /\ loop = "reading" /\ link = "open"
  /\ whole = "broken" \/ (whole = "closed" /\ wire = <<>>)
  /\ link' = IF whole = "closed" THEN "connecting" ELSE "backoff"
  /\ wire' = <<>>
  /\ UNCHANGED <<relayUp, faults, loop, whole, sent, asked, agent, taskVars,
                 eventVars>>

\* Mutant of LinkEnds: what a broken connection left unread is kept.
LinkEndsUnread ==
  /\ loop = "reading" /\ link = "open"
  /\ whole = "broken" \/ (whole \in {"closed", "silent"} /\ wire = <<>>)
  /\ link' = IF whole = "closed" THEN "connecting" ELSE "backoff"
  /\ UNCHANGED <<relayUp, faults, loop, wire, whole, sent, asked, agent, taskVars,
                 eventVars>>

\* An error, which may come before the last events are read; the end of the stream,
\* after which subscribe() connects at once; the read timeout.
LinkEnds ==
  /\ loop = "reading" /\ link = "open"
  /\ whole = "broken" \/ (whole \in {"closed", "silent"} /\ wire = <<>>)
  /\ link' = IF whole = "closed" THEN "connecting" ELSE "backoff"
  /\ wire' = <<>>
  /\ UNCHANGED <<relayUp, faults, loop, whole, sent, asked, agent, taskVars,
                 eventVars>>

\* The roster is sent before the loop reads on.
ReadReady ==
  /\ loop = "reading" /\ wire # <<>> /\ Head(wire) = "ready"
  /\ loop' = "syncing"
  /\ wire' = Tail(wire)
  /\ UNCHANGED <<relayUp, faults, link, whole, sent, asked, agent, taskVars,
                 eventVars>>

\* A message under dispatch is a replay, and is ignored.
ReadMessage ==
  /\ loop = "reading" /\ wire # <<>> /\ Head(wire) = "message"
  /\ wire' = Tail(wire)
  /\ stage' = IF stage = "none" THEN "begun" ELSE stage
  /\ UNCHANGED <<relayUp, faults, loop, link, whole, sent, asked, agent, todo,
                 unreachable, shown, final, raised, eventVars>>

DispatchIsOver ==
  /\ stage' = "none" /\ todo' = <<>> /\ unreachable' = FALSE
  /\ shown' = {} /\ final' = <<>>

\* The daemon ends, with the connection and the dispatch.
Down ==
  /\ loop' = "down"
  /\ link' = "connecting" /\ wire' = <<>>
  /\ DispatchIsOver
  /\ UNCHANGED <<relayUp, whole, sent, asked, agent, raised, eventVars>>

\* A roster that cannot be sent ends the loop.
SyncEnds ==
  /\ loop = "syncing"
  /\ IF relayUp
       THEN /\ loop' = "reading"
            /\ UNCHANGED <<relayUp, linkVars, asked, agent, taskVars, eventVars>>
       ELSE Down
  /\ UNCHANGED faults

Crash ==
  /\ loop # "down" /\ faults < MaxFaults
  /\ faults' = faults + 1
  /\ Down

\* _startup discovers the agents; it ends the process when the relay is out of reach.
Restart ==
  /\ loop = "down" /\ relayUp
  /\ loop' = "reading"
  /\ agent' \in BOOLEAN
  /\ UNCHANGED <<relayUp, faults, linkVars, asked, taskVars, eventVars>>

----------------------------------------------------------------------------
\* _handle_user_message

\* An agent that is not registered (any more) is a failure of its own.
TaskBegins ==
  /\ stage = "begun"
  /\ IF agent THEN stage' = "publishing" /\ todo' = <<"task_submitted">>
              ELSE stage' = "closing" /\ todo' = Dispatch!Failed
  /\ UNCHANGED <<relayUp, faults, loop, linkVars, asked, agent, unreachable, shown, final,
                 raised, eventVars>>

\* One event of a publish() call is delivered, queued, or lost with a log line.
Publish ==
  /\ todo # <<>>
  /\ todo' = Tail(todo)
  /\ LET e == {Head(todo)} \cap Status
     IN  \/ relayUp /\ heard' = heard \cup e /\ UNCHANGED <<box, lost>>
         \/ box' = box \cup e /\ UNCHANGED <<heard, lost>>
         \/ lost' = lost \cup e /\ UNCHANGED <<heard, box>>
  /\ UNCHANGED <<relayUp, faults, loop, linkVars, asked, agent, stage, unreachable, shown,
                 final, raised>>

\* The call raises and takes the dispatch with it; the done callback logs it.
PublishRaises ==
  /\ todo # <<>>
  /\ DispatchIsOver
  /\ raised' = TRUE
  /\ UNCHANGED <<relayUp, faults, loop, linkVars, asked, agent, eventVars>>

Published ==
  /\ stage = "publishing" /\ todo = <<>>
  /\ stage' = "dispatching"
  /\ UNCHANGED <<relayUp, faults, loop, linkVars, asked, agent, todo, unreachable, shown,
                 final, raised, eventVars>>

\* A batch with new content.
AgentShows ==
  /\ stage = "dispatching"
  /\ Dispatch!Show /\ shown' # shown
  /\ stage' = "publishing" /\ todo' = <<"artifact_update">>
  /\ UNCHANGED <<relayUp, faults, loop, linkVars, asked, agent, unreachable, raised,
                 eventVars>>

\* The last batch.
AgentEnds ==
  /\ stage = "dispatching"
  /\ Dispatch!Finish
  /\ unreachable' \in {FALSE, final' = Dispatch!Failed}
  /\ stage' = "closing" /\ todo' = final'
  /\ UNCHANGED <<relayUp, faults, loop, linkVars, asked, agent, raised, eventVars>>

\* All is published; an agent that could not be reached is removed.
TaskEnds ==
  /\ stage = "closing" /\ todo = <<>>
  /\ agent' = (agent /\ ~unreachable)
  /\ DispatchIsOver
  /\ UNCHANGED <<relayUp, faults, loop, linkVars, asked, raised, eventVars>>

----------------------------------------------------------------------------
\* The queue loop: a row is delivered, or dropped: refused, too often failed, too old,
\* or one too many.

Drain(e) ==
  /\ loop # "down" /\ e \in box
  /\ box' = box \ {e}
  /\ \/ relayUp /\ heard' = heard \cup {e} /\ UNCHANGED lost
     \/ lost' = lost \cup {e} /\ UNCHANGED heard
  /\ UNCHANGED <<relayUp, faults, loop, linkVars, asked, agent, taskVars>>

World == AskHub \/ RelayComesOrGoes \/ LinkBreaks \/ AgentComesOrGoes \/ Crash
LoopStep == Connect \/ Wake \/ LinkEnds \/ ReadReady \/ ReadMessage \/ SyncEnds
TaskStep ==
  TaskBegins \/ Publish \/ PublishRaises \/ Published \/ AgentShows \/ AgentEnds \/ TaskEnds

Next ==
  \/ World \/ SendMessage \/ LoopStep \/ Restart \/ TaskStep
  \/ \E e \in Status : Drain(e)

Spec == Init /\ [][Next]_vars

Fairness ==
  /\ WF_vars(SendMessage) /\ WF_vars(LoopStep) /\ WF_vars(TaskStep)
  /\ \A e \in Status : WF_vars(Drain(e))

FairSpec == Spec /\ Fairness

----------------------------------------------------------------------------
\* Properties

\* A message is never simply forgotten: when relay and daemon stay up from some time
\* on, the relay hears how the message ended, or the hub's log says what it gave up or
\* which dispatch raised.  Neither a connection that is silently dead, nor one that
\* breaks with the message unread, nor a daemon that dies in the dispatch, nor a replay
\* that is ignored while a dispatch is ending leaves the user without any of these.
MessageIsAnswered ==
  <>[](relayUp /\ loop # "down") => (asked ~> (raised \/ heard \cup lost # {}))
====
