---- MODULE HubDaemon ----
(***************************************************************************)
(* The event loop of HubDaemon (hub/main.py): one coroutine reads relay    *)
(* events, spawns a dispatch task per user_message and user_reply, cancels *)
(* tasks on cancel_task, and stops on a signal.                            *)
(*                                                                         *)
(* Tasks of asyncio interleave at their awaits.  task.cancel() only asks:  *)
(* the task ends at a later step, and its done callback runs at yet a      *)
(* later one, so _inflight_tasks, the tasks and the callbacks can be out   *)
(* of step with each other.                                                *)
(***************************************************************************)
EXTENDS Naturals, FiniteSets

CONSTANTS
  Msg,         \* the agent_message_ids the relay uses
  MaxTasks,    \* bound on dispatch tasks spawned
  MaxSignals,  \* bound on SIGINT/SIGTERM received
  NoTask, NoMsg

ASSUME BoundAssumption ==
  /\ MaxTasks \in Nat /\ MaxSignals \in Nat
  /\ NoTask \notin 1 .. MaxTasks /\ NoMsg \notin Msg

Task == 1 .. MaxTasks
Kind == {"message", "reply"}

\* A task is not yet spawned; created; in dispatcher.dispatch; publishing its last
\* batch; asked to cancel; finished with its done callback still to run; or past it.
Stage == {"unborn", "ready", "working", "closing", "unwinding", "ended", "gone"}
Active == {"ready", "working", "closing"}
Alive == Active \cup {"unwinding"}

VARIABLES
  loop,      \* where run() is
  signals,   \* signals received
  inflight,  \* _inflight_tasks
  gathered,  \* the tasks _cancel_inflight_tasks waits for
  msg, kind, stage,  \* of each task
  asked,     \* messages whose task_interactive event has reached the relay
  cutShort,  \* history: a signal came while the daemon was stopping already
  lost       \* history: messages with a reply ignored as a replay of the message

taskVars == <<msg, kind, stage>>
vars == <<loop, signals, inflight, gathered, msg, kind, stage, asked, cutShort, lost>>

TypeOK ==
  /\ loop \in {"reading", "syncing", "rpc", "stopping", "draining", "closing",
               "teardown", "exited"}
  /\ signals \in 0 .. MaxSignals
  /\ inflight \in [Msg -> Task \cup {NoTask}]
  /\ gathered \subseteq Task
  /\ msg \in [Task -> Msg \cup {NoMsg}]
  /\ kind \in [Task -> Kind]
  /\ stage \in [Task -> Stage]
  /\ \A t \in Task : stage[t] # "unborn" => msg[t] \in Msg
  /\ asked \subseteq Msg /\ lost \subseteq Msg
  /\ cutShort \in BOOLEAN

Init ==
  /\ loop = "reading" /\ signals = 0
  /\ inflight = [m \in Msg |-> NoTask]
  /\ gathered = {}
  /\ msg = [t \in Task |-> NoMsg]
  /\ kind = [t \in Task |-> "message"]
  /\ stage = [t \in Task |-> "unborn"]
  /\ asked = {} /\ lost = {} /\ cutShort = FALSE

----------------------------------------------------------------------------
\* Mutant of Busy: a task that has not begun to work is overlooked.
BusyWorking(m) == inflight[m] # NoTask /\ stage[inflight[m]] = "working"

\* A tracked task of m that is not done(): what _spawn_dispatch looks for.
Busy(m) == inflight[m] # NoTask /\ stage[inflight[m]] \in Alive

\* create_task and the entry; task numbers are given out in order.
Spawn(m, k) ==
  \E t \in Task :
    /\ stage[t] = "unborn" /\ \A u \in Task : u < t => stage[u] # "unborn"
    /\ msg' = [msg EXCEPT ![t] = m]
    /\ kind' = [kind EXCEPT ![t] = k]
    /\ stage' = [stage EXCEPT ![t] = "ready"]
    /\ inflight' = [inflight EXCEPT ![m] = t]

\* A user_message, fresh or replayed by the relay.
UserMessage(m) ==
  /\ loop = "reading"
  /\ IF Busy(m) THEN UNCHANGED <<inflight, taskVars>> ELSE Spawn(m, "message")
  /\ UNCHANGED <<loop, signals, gathered, asked, cutShort, lost>>

\* A user_reply: the relay sends it once the user was asked.
UserReply(m) ==
  /\ loop = "reading" /\ m \in asked
  /\ IF Busy(m)
       THEN /\ lost' = IF kind[inflight[m]] = "message" THEN lost \cup {m} ELSE lost
            /\ UNCHANGED <<inflight, taskVars>>
       ELSE Spawn(m, "reply") /\ UNCHANGED lost
  /\ UNCHANGED <<loop, signals, gathered, asked, cutShort>>

\* Mutant of CancelTask: the entry is popped and its task left alone.
CancelTaskEntry(m) ==
  /\ loop = "reading"
  /\ inflight' = [inflight EXCEPT ![m] = NoTask]
  /\ loop' \in {"reading", "rpc"}
  /\ UNCHANGED <<signals, gathered, taskVars, asked, cutShort, lost>>

\* A cancel_task: the entry is popped, its task asked to cancel if it is not done,
\* and the agent is told when it is known and the event names a task id.
CancelTask(m) ==
  /\ loop = "reading"
  /\ stage' = [t \in Task |->
                 IF t = inflight[m] /\ stage[t] \in Alive THEN "unwinding" ELSE stage[t]]
  /\ inflight' = [inflight EXCEPT ![m] = NoTask]
  /\ loop' \in {"reading", "rpc"}
  /\ UNCHANGED <<signals, gathered, msg, kind, asked, cutShort, lost>>

\* dispatcher.cancel_task returned or failed; either way the loop reads on.
CancelRpcEnds ==
  /\ loop = "rpc"
  /\ loop' = "reading"
  /\ UNCHANGED <<signals, inflight, gathered, taskVars, asked, cutShort, lost>>

\* The SSE stream is up (again): the roster is sent before the next event is read.
Connected ==
  /\ loop = "reading"
  /\ loop' = "syncing"
  /\ UNCHANGED <<signals, inflight, gathered, taskVars, asked, cutShort, lost>>

\* This _sync_agents is outside the try block of the loop: when its POST fails,
\* the exception ends the loop.
SyncEnds ==
  /\ loop = "syncing"
  /\ loop' \in {"reading", "stopping"}
  /\ UNCHANGED <<signals, inflight, gathered, taskVars, asked, cutShort, lost>>

----------------------------------------------------------------------------
\* The dispatch tasks (_handle_user_message, _handle_user_reply)

Move(t, from, to) ==
  /\ stage[t] \in from
  /\ stage' = [stage EXCEPT ![t] = to]
  /\ UNCHANGED <<loop, signals, inflight, gathered, msg, kind, cutShort, lost>>

\* The task runs for the first time: it dispatches, or publishes a failure for an
\* incomplete event or an agent that is not registered.
TaskBegins(t) == \E to \in {"working", "closing"} : Move(t, {"ready"}, to) /\ UNCHANGED asked

\* The dispatcher's last batch is out to be published, one event after the other.
TaskCloses(t) == Move(t, {"working"}, "closing") /\ UNCHANGED asked

\* The same for input_required: the relay has the task_interactive event while the
\* processing_status event behind it is still being published.
TaskAsks(t) == Move(t, {"working"}, "closing") /\ asked' = asked \cup {msg[t]}

\* Everything is published (or publish raised), an unreachable agent removed.
TaskEnds(t) == Move(t, {"working", "closing"}, "ended") /\ UNCHANGED asked

\* The CancelledError has passed through the task.
TaskUnwinds(t) == Move(t, {"unwinding"}, "ended") /\ UNCHANGED asked

\* Mutant of DoneCallback: the entry of the message goes, whoever it names.
DoneCallbackOfMsg(t) ==
  /\ stage[t] = "ended"
  /\ stage' = [stage EXCEPT ![t] = "gone"]
  /\ inflight' = [inflight EXCEPT ![msg[t]] = NoTask]
  /\ UNCHANGED <<loop, signals, gathered, msg, kind, asked, cutShort, lost>>

\* Mutant of DoneCallback: the entry stays.
DoneCallbackIdle(t) ==
  /\ stage[t] = "ended"
  /\ stage' = [stage EXCEPT ![t] = "gone"]
  /\ UNCHANGED <<loop, signals, inflight, gathered, msg, kind, asked, cutShort, lost>>

\* _on_done: a task takes only its own entry along.
DoneCallback(t) ==
  /\ stage[t] = "ended"
  /\ stage' = [stage EXCEPT ![t] = "gone"]
  /\ inflight' = [m \in Msg |-> IF inflight[m] = t THEN NoTask ELSE inflight[m]]
  /\ UNCHANGED <<loop, signals, gathered, msg, kind, asked, cutShort, lost>>

----------------------------------------------------------------------------
\* Shutdown

\* Mutant of CancelAll: without a look at what the task is at.
CancelAnything(S) ==
  stage' = [t \in Task |-> IF t \in S THEN "unwinding" ELSE stage[t]]

\* Every task of S that is not done is asked to cancel.
CancelAll(S) ==
  stage' = [t \in Task |-> IF t \in S /\ stage[t] \in Alive THEN "unwinding" ELSE stage[t]]

\* Mutant of FirstSignal: the handler of the RPC swallows the cancellation.
FirstSignalSwallowed ==
  /\ loop \in {"reading", "syncing", "rpc"}
  /\ loop' = IF loop = "rpc" THEN "reading" ELSE "stopping"
  /\ UNCHANGED <<stage, cutShort>>

\* _signal_shutdown cancels run()'s task wherever it waits: in the event loop, whose
\* finally block then gathers the background tasks; ...
FirstSignal ==
  /\ loop \in {"reading", "syncing", "rpc"}
  /\ loop' = "stopping"
  /\ UNCHANGED <<stage, cutShort>>

\* ... in that gather, where it skips _cancel_inflight_tasks, or in the gather of
\* the dispatch tasks, which it no longer awaits; ...
SignalWhileStopping ==
  /\ loop \in {"stopping", "draining"}
  /\ loop' = "closing"
  /\ cutShort' = TRUE
  /\ UNCHANGED stage

\* ... or in _shutdown, the rest of which is left out.
SignalWhileClosing ==
  /\ loop = "closing"
  /\ loop' = "teardown"
  /\ CancelAll(Task)
  /\ UNCHANGED cutShort

Signal ==
  /\ signals < MaxSignals
  /\ signals' = signals + 1
  /\ FirstSignal \/ SignalWhileStopping \/ SignalWhileClosing
  /\ UNCHANGED <<inflight, gathered, msg, kind, asked, lost>>

\* Mutant of CancelInflight: the entries are cleared before the tasks are collected.
CancelInflightCleared ==
  /\ loop = "stopping"
  /\ loop' = "draining"
  /\ gathered' = {}
  /\ inflight' = [m \in Msg |-> NoTask]
  /\ UNCHANGED <<signals, taskVars, asked, cutShort, lost>>

\* The background tasks have ended: _cancel_inflight_tasks cancels what is tracked.
CancelInflight ==
  /\ loop = "stopping"
  /\ loop' = "draining"
  /\ gathered' = {inflight[m] : m \in Msg} \ {NoTask}
  /\ CancelAll(gathered')
  /\ inflight' = [m \in Msg |-> NoTask]
  /\ UNCHANGED <<signals, msg, kind, asked, cutShort, lost>>

\* Its gather returns when none of these tasks is left.  A task that a cancel_task
\* event had cancelled before is not among them.
InflightDrained ==
  /\ loop = "draining"
  /\ \A t \in gathered : stage[t] \notin Alive
  /\ loop' = "closing"
  /\ UNCHANGED <<signals, inflight, gathered, taskVars, asked, cutShort, lost>>

\* _shutdown has closed the queue and the clients; asyncio.run() cancels whatever
\* is still there ...
CloseAll ==
  /\ loop = "closing"
  /\ loop' = "teardown"
  /\ CancelAll(Task)
  /\ UNCHANGED <<signals, inflight, gathered, msg, kind, asked, cutShort, lost>>

\* ... and waits for it.
Exit ==
  /\ loop = "teardown"
  /\ \A t \in Task : stage[t] \notin Alive
  /\ loop' = "exited"
  /\ UNCHANGED <<signals, inflight, gathered, taskVars, asked, cutShort, lost>>

----------------------------------------------------------------------------
RelayEvent(m) == UserMessage(m) \/ UserReply(m) \/ CancelTask(m)

TaskStep(t) ==
  \/ TaskBegins(t) \/ TaskCloses(t) \/ TaskAsks(t) \/ TaskEnds(t) \/ TaskUnwinds(t)

LoopStep == CancelRpcEnds \/ SyncEnds \/ CancelInflight \/ InflightDrained \/ CloseAll \/ Exit

Next ==
  \/ \E m \in Msg : RelayEvent(m)
  \/ \E t \in Task : TaskStep(t) \/ DoneCallback(t)
  \/ Connected \/ Signal \/ LoopStep

Spec == Init /\ [][Next]_vars

\* A task that can go on is scheduled; the publish attempts and the RPC have timeouts.
\* A task that waits for its agent need not: the timeout of a stream is one for each
\* read.  Nothing makes events or signals arrive.
Fairness ==
  /\ WF_vars(LoopStep)
  /\ \A t \in Task :
       WF_vars(stage[t] # "working" /\ TaskStep(t)) /\ WF_vars(DoneCallback(t))

FairSpec == Spec /\ Fairness

----------------------------------------------------------------------------
\* Properties

\* At most one dispatch of a message is active, however user messages, replies,
\* replays, cancellations and late done callbacks follow each other.
OneActiveDispatch ==
  \A t, u \in Task : stage[t] \in Active /\ stage[u] \in Active /\ msg[t] = msg[u] => t = u

Running == {"reading", "syncing", "rpc"}

\* While the loop runs every active dispatch is the one its message is tracked by,
\* so that a cancel_task can reach it and a replay is recognised.
ActiveIsTracked ==
  loop \in Running => \A t \in Task : stage[t] \in Active => inflight[msg[t]] = t

\* No entry outlives its task's done callback.
EntriesAreLive ==
  \A m \in Msg : inflight[m] # NoTask => msg[inflight[m]] = m /\ stage[inflight[m]] # "gone"

\* Once a cancel_task of m is handled no dispatch of m is active.
CancelStopsDispatch ==
  [][\A m \in Msg : CancelTask(m) =>
       \A t \in Task : msg'[t] = m => stage'[t] \notin Active]_vars

\* Unless another signal comes while the daemon is stopping, the queue and the
\* clients are closed only when no dispatch is active any more: each was drained,
\* or cancelled before by its own event.
DrainedBeforeClose ==
  loop = "closing" /\ ~cutShort => \A t \in Task : stage[t] \notin Active

\* A daemon that was told to stop exits, whatever its tasks are at.
StopsWhenTold == (signals > 0) ~> (loop = "exited")

\* Only an agent that keeps its stream open keeps a dispatch task: one that is not at its
\* agent, or was asked to cancel while it was, ends and leaves no entry behind, under
\* whatever key later tasks and cancellations have used it since.
TasksFinish ==
  \A t \in Task :
    stage[t] \in {"ready", "closing", "unwinding", "ended"} ~>
      stage[t] = "working" \/ (stage[t] = "gone" /\ \A m \in Msg : inflight[m] # t)

\* _handle_user_reply: "Handle a HITL reply by dispatching it to the local agent."
RepliesAreDispatched == lost = {}
====
