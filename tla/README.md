# Verification of hybro-hub

TLA+ models of the hub daemon (`src/hub`): the process that registers local A2A agents with the
hybro.ai relay, receives user messages over SSE, dispatches them to the agents and publishes what
they answer. The modules are translated from the code; docs and comments are used only to say what
the code is meant to do, and a run that finds the code disagreeing is listed under *Findings*.

## 1. The system

### Components, their state and operations

| component | state | operations | module |
|---|---|---|---|
| publish queue (`publish_queue.py`) | SQLite table: row, priority, `retry_count`, `next_retry_at`, `created_at`; file size | enqueue, update_retry, delete, get_ready_events, cleanup_expired, cleanup_by_size | `PublishQueue` |
| relay client (`relay_client.py`) | HTTP clients, the queue, reconnect delay | publish (3 attempts, then queue), drain_queued_events, register, sync_agents, heartbeat, subscribe | `Outbox` (promise), `RelayDelivery` (code); subscribe in `MessagePath`, sync_agents in `RosterSync` |
| agent registry (`agent_registry.py`) | `_agents`, `_failure_counts` | discover, health_check, remove_agent, to_sync_payload | `RegistryContract` (promise), `AgentRegistry` (code) |
| hub daemon (`main.py`) | `_inflight_tasks`, background tasks, `_shutdown_event`, `_last_sync_payload` | event handlers, four loops, signal handler, shutdown | `HubDaemon`; queue loop in `RelayDelivery`, health and resync loops in `AgentRegistry` and `RosterSync` |
| roster synchronisation (`main.py`) | `_last_sync_payload`, the relay's roster | sync after start, reconnect, prune, removal, every resync | `RosterSync` |
| dispatcher (`dispatcher.py`) | per call: interface, `DispatchResult` | dispatch, polling, streaming, re-fetch, cancel_task | `DispatchContract` (promise), `Dispatcher` (code) |
| A2A compatibility (`a2a_compat.py`) | none; per agent the interface chosen | choice of interface and fallback, requests, parts, answers in versions 0.3 and 1.0 | `A2ACompat` |
| configuration, hub id (`config.py`) | `config.yaml`, `hub_id` | load_config, save_api_key, _load_or_create_hub_id | `HubConfig` |
| instance lock, start and stop (`lock.py`, `cli.py`) | `hub.lock`: path, content, flock; processes | acquire_instance_lock, write_lock_pid, _stop_daemon, _remove_lock_file | `InstanceLock` |
| all of these, for one message | the SSE connection, one dispatch, its events | from the user's message to the relay's processing_status | `MessagePath` |
| privacy router, client SDK, examples | none that is shared | pattern matching, HTTP wrappers | not modelled |

### Interactions

One asyncio loop runs the event loop, the health, resync, heartbeat and queue loops, and one task
per dispatch. They share the registry, the queue and `_inflight_tasks` without locks and interleave
at each `await`. A dispatch task iterates over `Dispatcher.dispatch`, calls `RelayClient.publish`
for every batch, and removes an unreachable agent from the registry. The event loop awaits a cancel
RPC and the roster sync itself. `hybro-hub start` and `stop` are other processes; they meet the
daemon only through the lock file and signals, and all commands share `config.yaml` and `hub_id`.

### What is hard, and what must hold

* **Delivery.** Events of a call are sent one after the other; a failure goes to disk, to be sent by
  two drainers that overlap after a restart and act on counts they read earlier. No event may be
  skipped, no row lost or revived, and no row may stay for ever.
* **Registry.** A health check works on a list taken before its awaits, while dispatches remove
  agents and discovery adds them again. No `KeyError`, no unearned pruning; dead agents leave, live
  ones stay.
* **Daemon.** A task ends after `cancel()`, its done callback runs later still, and a replay or reply
  may reuse its key in between. One dispatch per message, always reachable by a cancel, all of them
  drained before the clients close.
* **Dispatcher.** Stream, polling, re-fetch and a second try on the fallback interface overwrite each
  other's result. Content is rendered once, failures are reported, and a call without streaming ends.
* **Lock.** `flock` belongs to an open file, `unlink` to a path, and the PID to the file's content.
  A stop must not take the lock of a daemon it did not mean.
* **Roster.** Five tasks POST the whole roster, each with a payload taken before its POST and
  remembered after it. POSTs overlap, fail and are answered in another order than they arrived, and
  the relay forgets. Live agents get to the relay, dead ones leave it.
* **Two versions.** The interface chosen, the error that allows a second try and the fallback come
  from three functions; parts go through two translations with branches on different keys. No agent
  that can be reached is given up, and no content is lost on the way.
* **Files.** `config.yaml` and `hub_id` are emptied when opened and filled later, by commands that run
  at the same time. The user's own text stays, and all commands agree on the hub id.
* **One message.** The connection it came on may be dead without a sign, the daemon may die in its
  dispatch, its replay may be ignored. In the end the relay has a status, or the log says why not.

`PROJECT.json` lists the hazards line by line with the properties that cover them.

## 2. Modules

| module | what it is |
|---|---|
| `PublishQueue` | the table, one operator per method |
| `Outbox` | abstract: what publish() and the queue promise together |
| `RelayDelivery` | EXTENDS `PublishQueue`: calls of publish(), two drainers, cleanups, crash and restart; implements `Outbox` |
| `RegistryContract` | abstract: how the set of registered agents may change |
| `AgentRegistry` | discovery, health check, removal over shared maps; implements `RegistryContract` |
| `RosterSync` | EXTENDS `RegistryContract`: startup, event, health and resync loops and a dispatch that sync the roster |
| `HubDaemon` | event loop, dispatch tasks, done callbacks, signals, shutdown |
| `DispatchContract` | abstract: what the consumer of dispatch() may see |
| `Dispatcher` | one dispatch; implements `DispatchContract` |
| `A2ACompat` | the translations as operators, and one message and its answer through them |
| `HubConfig` | the two files under commands that run at the same time |
| `InstanceLock` | start and stop commands over one lock file |
| `MessagePath` | one message through relay, connection, event loop, dispatch and queue; INSTANCEs `DispatchContract` |
| `MC*` | model values for TLC |
| `*_proofs` | theorems about the module of that name; those of `HubConfig` and `InstanceLock` are in `HomeFiles_proofs` |

The three contracts are what composes the project: `RosterSync` is built on `RegistryContract`, so it
holds over any registry that implements it, and `AgentRegistry` is shown to. `MessagePath` is built
on `DispatchContract` in the same way; of publish() it takes over that an event is delivered, queued
or logged (`Outbox`), and of the daemon that a message has one dispatch at a time (`HubDaemon`).

Names follow the source. Each module's actions carry the code they stand for in a comment, and
`map` in `PROJECT.json` gives the lines. Operators whose comment begins with "Mutant of" are not
part of any specification: each is a plausible bug in the definition below it, and the property
named with it in `PROJECT.json` fails when it replaces that definition. `HubConfig` calls its
initial predicate, next-state relation, specification and type invariant `ConfigInit`, `ConfigNext`,
`ConfigSpec` and `ConfigTypeOK`, because `HomeFiles_proofs` extends it together with `InstanceLock`.

### Correspondence

* **Outbox.** The mapping of `RelayDelivery` onto it counts the events each call has passed; `closed`
  are the events that were once stored and are no longer in the table.
* **PublishQueue / RelayDelivery.** A row is called by the event it holds (an event is enqueued at
  most once). `disk`, `retry`, `wait`, `age` are the rows' columns; `wait` and `age` keep what is left
  of a timestamp, in units of the 30 s base delay. `pages` is the file size in rows: it shrinks only
  with VACUUM. `pc`, `pos`, `attempt` are a publish() call's place in its loops; `phase`, `batch`,
  `seen`, `cur` are a drainer's. `seen` is the `retry_count` read with the batch: the code computes
  from it, not from the row. A POST is one step that chooses the answer and whether the relay stored
  the event; a timeout may hide a stored event. `DrainRaises` and `PublishRaises` are the httpx errors
  outside the classes `_try_publish_with_retry` catches. Each queue method holds an asyncio lock
  around one thread call, hence one step.
* **AgentRegistry.** An agent is its URL (the id is a hash of it). `stale` marks pending checks whose
  object has left `_agents`: what the loop writes to such an object is not visible in the registry.
  `doomed` is a dispatch between its connection error and `remove_agent`. `failed` is history: checks
  failed in a row.
* **RegistryContract / RosterSync.** The contract leaves open how failures are counted: a health check
  may prune any agent that does not answer. `RosterSync` gives each of the five callers of
  `_sync_agents` a `phase` and the payload it `sent`; a POST is stored by the relay in one step and
  answered in another, so that answers may cross. `last` is `_last_sync_payload`, `count` the health
  loop's `prev_count`. `steady` is history: the agents that have answered since the startup began.
  Every caller forces its sync or resets `_last_sync_payload` just before, so the early return for an
  unchanged payload (`main.py:526`), which the model has, is never taken: theorem `EachSyncIsSent`.
* **HubDaemon.** `inflight` is `_inflight_tasks`; `stage` is where a task is, with `unwinding` after
  `cancel()`, `ended` before its done callback and `gone` after it. `loop` is where `run()` is:
  `reading`, awaiting a roster sync (`syncing`) or a cancel RPC (`rpc`), the finally block
  (`stopping`, `draining`), `_shutdown` (`closing`), asyncio's own teardown.
* **Dispatcher.** `result` is the `DispatchResult`; of text the model keeps whether there is some, of
  an id whether it is known. `shown` and `final` are what the caller saw. `accepted`, `last` and
  `told` are history: how often the agent took the message, the last state it told of, and how. The
  agent is free in its answers, with the states A2A has, `unknown` of 0.3 included, and may leave the
  state out of any of them. A task event of a stream tells of a state that the code does not take
  over (`dispatcher.py:189`); a status-update without one wipes the state told before (line 186).
  Both are in the model as they are in the code.
* **A2ACompat.** A part is a record whose fields are those of the message; the values are tokens, so
  that a field that ends up under a wrong name shows. `serves` is what the agent really answers to,
  whatever its card says. `Written` and `Answered` are the schemas of the two versions as A2A has
  them, not as the code builds them: a file of 0.3 has its metadata beside its nested fields, any
  part of 1.0 may have a media type and a file name, which text and data of 0.3 have no room for. The
  properties compare the translations with the schemas; `Narrow` and `Kept`, which belong to the
  properties, name what does not get through. `Passed` adds the forms the code provides for beside
  the schemas: `mimeType` for `mediaType`, and a `kind` of 0.3 left in a part of 1.0. An agent that
  does not take a request refuses it with one of three codes, in a JSON answer or, for a stream, in
  the first event; `Refused` looks for the code where the dispatcher does.
* **HubConfig.** Of the YAML the model keeps the API key (literal, reference to the environment, or
  none) and whether the user's other settings are there. A hub id is named after the command that
  made it. `torn` and `raced` are history.
* **MessagePath.** `link` is where `subscribe()` is, `wire` what is on the connection unread, `whole`
  whether it is good, broken (an error, with or without the events before it), closed (end of stream)
  or silently dead. `stage` and `todo` are the dispatch and the rest of the events it publishes. Only
  the kinds of `processing_status` are told apart at the relay, in the queue and in the log; content
  and error texts are the matter of the dispatcher. The relay is external: messages wait there until
  the hub reconnects (`README.md:119`) and may be replayed (`main.py:220`).
* **InstanceLock.** A file is called by the process that created it, so that an unlinked file and its
  successor differ. A start command and the daemon it forks are one process.

## 3. Runs

| run | bounds | shows |
|---|---|---|
| `relay_delivery` | 1 call of a normal and a critical event, 2 attempts, budgets 1 and 2, delay cap 1, TTL 1, 1 page, 1 crash | `ImplementsOutbox`, `OvertakesOnlyQueued`, `NoRowLost`, `QueueDrains` |
| `agent_registry` | 2 agents (configured, discovered), threshold 3 | `ImplementsContract`, `DeleteFindsEntry`, `PruneIsEarned`, `DeadAgentsLeave`, `LiveAgentsStay` |
| `roster_sync` | 2 agents, 1 start, 2 changes, 2 POSTs at a time, 1 relay outage | `SteadyAgentsAreFound`, `LiveAgentsReachRelay`, `DeadAgentsLeaveRelay` |
| `hub_daemon` | 2 conversations, 3 tasks, 2 signals | `OneActiveDispatch`, `ActiveIsTracked`, `CancelStopsDispatch`, `DrainedBeforeClose`, `StopsWhenTold`, `TasksFinish` |
| `dispatcher` | 3 polls, 3 stream events, all capabilities | `ImplementsContract`, `FailuresAreTold`, `ResendsBeforeOutput`, `SyncDispatchEnds` |
| `a2a_compat` | 2 URLs, all cards with up to two of 7 interfaces, every set of interfaces served, 6 parts in 4 forms, every refusal, every shape and state of answer | `SpeakersAreReached`, `ContentArrives`, `ReplyIsUnderstood` |
| `hub_config` | 3 commands, 2 keys, symmetric | `UserTextStays`, `IdsAgree` |
| `instance_lock` | 3 starts, 2 stop commands given repeatedly | `PidIsRecorded`, `LiveLockStays`, `StopStops` |
| `message_path` | 1 message, 3 faults | `MessageIsAnswered` |
| `reply_dropped`, `refetch_dropped`, `two_daemons` | as above | one finding each (section 6) |

Each run that is to pass also checks its module's `TypeOK` (`ConfigTypeOK`).

**Why the bounds are enough to be interesting.** Two events make "the next event of the list" and the
priority order happen, and a batch with something left when a POST raises. One crash leaves rows for
the startup drainer, which then overlaps with the loop. Budgets of 1 and 2 are reached by both
drainers together. A page limit of 1 makes every full table oversized. Threshold 3 is the code's
own. Three tasks are a dispatch, its replay after a cancel, and a reply; two signals reach every
point of the shutdown. Three stream events are an opening, a content and a status after it. Three
starts are a daemon, its successor, and one in between; two stops are needed for one to work on what
the other has removed. In `roster_sync` one start is enough because a daemon that has ended takes
nothing with it but the relay's roster, and `RelayForgets` covers what another session may leave
there; two POSTs at a time are what it takes to cross, and `MaxPosts` is needed because each loop
could have one under way. Cards with two interfaces make the order of the list and a fallback that
is listed beside the first choice happen; the seven interfaces are the two versions, a missing and
an unknown one, a missing URL and another binding. The six parts have every content, and each key that
may stand beside it on a part that keeps it and on one that does not. Three faults in `message_path` are, say, a silent
connection, an outage while it is noticed, and a crash in the dispatch of the replay.

`CHECK_DEADLOCK FALSE` is set where the system ends: a call that is over, an exited daemon, start
commands that are used up, a table with nothing to do. The registry never stops and is checked for
deadlock.

## 4. Fairness

Weak fairness of a step means that asyncio schedules a task that can go on, which it does, and that a
request returns, which its timeout guarantees. No fairness is put on the environment: messages,
signals, crashes, agents coming and going, cancellations.

* `RelayDelivery`: the periodic drainer's own steps, time, and a daemon that comes up again. Strong
  fairness on `DrainAnswered("loop")` is an assumption about the network: a POST that raises an
  uncaught error skips the rest of the batch, so a relay that answers *every* one so keeps the queue
  for ever. None on the calls or the startup drainer, which may hang.
* `AgentRegistry`: both loops, every fetch (it has a timeout), and the removal a dispatch decided on.
  The liveness properties assume in their formula that the agent stays dead or alive.
* `RosterSync`: the health and resync loops, every probe, and that a POST is answered or fails. Strong
  fairness on the resync loop's POST being stored is again an assumption about the network: not
  every one may fail. Strong fairness on `Prune` of an agent that stays away stands for the checks
  that add up to one, which `DeadAgentsLeave` of `AgentRegistry` shows.
* `HubDaemon`: the loop's own steps, the callbacks, and the tasks except while they wait for their
  agent. The timeout of a stream is one for each read, so nothing ends a dispatch whose agent goes on
  sending; `TasksFinish` says that nothing else keeps a task, and `StopsWhenTold` does without it,
  because the shutdown cancels what is left.
* `Dispatcher`: the blocking request and polling only. Nothing ends a stream that the agent keeps
  open, so no liveness is stated for streaming.
* `MessagePath`: the loop, the dispatch and the queue loop go on, and the relay sends on a good
  connection what it has no answer to. No fairness on the relay, the network or a restart: the
  property assumes in its formula that from some time on relay and daemon are up. A silent connection
  ends because of the read timeout of 90 s (`relay_client.py:40`). The dispatch is one that ends; see
  `HubDaemon` and `Dispatcher`.
* `A2ACompat`, `HubConfig`: none, their properties are safety properties.
* `InstanceLock`: a stop command runs on (its wait has a time limit) and SIGKILL takes effect. A daemon
  need not obey SIGTERM.

## 5. Proofs

All theorems hold for every value of the constants under the named assumptions of the modules
(`EventAssumption`, `LimitAssumption`, `CallAssumption`, `AgentAssumption`, `ThresholdAssumption`,
`RosterAssumption`, `BoundAssumption`, `ProcAssumption`, `CardAssumption`, `PartAssumption`,
`StyleAssumption`, `NameAssumption`, `FaultAssumption`): sets of events and agents finite, limits
natural, an event in one call only, a threshold of at least 2, cards and parts of the right shape, a
part passed in a known form, model values distinct.

* **RelayDelivery_proofs.** Type correctness; `PassedIsAccounted` by an invariant that places each
  passed event in one of the four sets; `NoRowLost` from two facts about the drainers: the count read
  and the count in the row never exceed the attempts that really failed (`CountsAreReal`), and a
  drainer about to delete has been answered (`DeletesAreSettled`). `NoRowReturns` needs that an event
  to be enqueued was never stored before, which rests on events being in one call once.
  `OvertakesOnlyQueued` rests on two more: what the drainers send was stored (`RowsWereStored`), and
  nothing of a call's events beyond its position has been sent at all (`NoneAhead`).
  `DeliveryImplementsOutbox` maps the code onto `Outbox` step by step: an attempt reaches the relay, a
  call moves on with its event accounted for (`PassedIsAccounted`), rows leave together, the rest
  stutters.
* **AgentRegistry_proofs.** `NoKeyError`: an id without an entry has a count of 0 while its check is
  still to come and of at most 1 after (`OrphanCounts`), so it cannot reach a threshold of 2.
  `PrunesAreEarned`: counts run at most one ahead of the real failures (`CountsAreEarned`), for the
  reason in section 6. `RegistryImplementsContract` rests on the same invariant: a count that reaches
  the threshold belongs to an agent that is registered.
* **RosterSync_proofs.** `SteadyAgentsFound`: during the first discovery an agent that has answered
  since is registered or still to be probed, and after it registered (`Found`); a prune or a removal
  needs an agent that did not answer in this session. `SteadyAgentsStay`, the safety part of
  `LiveAgentsReachRelay`: every payload under way has all the agents that have answered since
  (`Posted`), so no POST takes one away from the relay, in whatever order they are stored.
  `EachSyncIsSent` from the same invariant: before its first POST a daemon remembers no payload, and
  what it remembers later no caller compares with the roster.
* **HubDaemon_proofs.** Until the drain every active task is its message's entry (`Tracked`), an entry
  names a task of its message that is not gone (`Entries`), and after the drain nothing is active
  unless a second signal skipped it (`Quiet`).
* **Dispatcher_proofs.** `Implementation`: `Spec => Contract!Spec`, step by step. The invariant says
  what a try that may still be given up has not done (`Unspoilt`), and that without an error the
  result agrees with what was shown and, unless it was told in one of the two ways the code does not
  take up (`Dropped`), with what was told last (`Knows`). `ResendShowsNothing` and `FailuresReported`
  follow from the same invariant. `TextIsLeftOutAfterPartsOnly` says how far the finding
  `refetch_dropped` goes: in a stream the result has only text that was shown (`Seen`), and what else
  it may have at the end is of a re-fetch after other parts.
* **A2ACompat_proofs.** `EverySpeakerReached` by what the interface in use says about the agent
  (`OnItsWay`, theorem `WayInvariant`): at first it is one the card lists, on a second try the agent
  did not take the first, and the fallback is version 0.3 at the URL of a listed interface. A first
  try that ends at version 1.0 had a fallback, so its refusal was not an eligible one.
  `EveryPartArrives` and `EveryReplyIsUnderstood`: the translations are operators on records, each
  compared with a schema of its own. A part is one of four kinds (`Shapes`, `ContentKey`). What is
  built from it is what the schema says of what is carried (`BuiltAsWritten`); what is read is the part
  as carried, from either version, from the old form with a media type, and from one with a stale kind
  unless it is a file (`ReadBack`, `MimePart`, `StalePart`, `AnyFormIsRead`); what is carried is a part
  again (`NarrowPart`), and no part is dropped on the way (`NotDropped`). From parts this goes on to
  the places of an answer, its state and its body (`PlaceReadBack`, `StateReadBack`, `BodyReadBack`,
  `Understood`). The proofs expand `:>` and `@@`, which the module defines itself instead of taking
  them from `TLC`.
* **HomeFiles_proofs.** Of the lock: a stop about to unlink holds the flock of the very file at the
  path (`Exact`): it had opened the path's file, and a path once left by its target is never taken
  again (`Late`). Hence no live daemon's file is unlinked (`LockStays`) and its PID stays (`PidStays`).
  `OneDaemonIfLocksAreFresh` says how far the finding `two_daemons` goes: where every flock is taken on
  the file that is at the path at that moment, which is the theorem's hypothesis and what the code does
  not check, there is one daemon. Of the configuration: `UserTextIsKept`, because where the user wrote
  a reference no save goes past its read, and a save that is about to open or write has read the
  settings unless one was torn. `IdsAlwaysAgree`: until two commands race, at most one is between
  finding no id and having written one, and no other has an id that the file has not (`OneMaker`).
* **MessagePath_proofs.** `NothingForgotten` is the safety part of `MessageIsAnswered`: a message the
  user sent is on the connection, under dispatch or still to be sent on a connection, or there is a
  status at the relay, in the queue or in the log, or the log has a dispatch that raised. It is
  inductive with what a connection carries (`Connected`: what is on it was sent on it) and with what a
  dispatch has left to publish (`Ending`: the last batch ends with a status, so a dispatch that has
  published all of it has told one). `StatusStays` keeps it so: no status disappears.

Only model-checked: every liveness property, which the prover does not reach (`QueueDrains`,
`DeadAgentsLeave`, `LiveAgentsStay`, `LiveAgentsReachRelay`, `DeadAgentsLeaveRelay`, `StopsWhenTold`,
`TasksFinish`, `SyncDispatchEnds`, `StopStops`, `MessageIsAnswered`). Every safety property of the
passing runs is also a theorem. `NothingSkipped`, `RowsStayAway`, `NoStaleEntry`,
`UnhealthyHasFailures`, `NothingForgotten`, `StatusStays`, `SteadyAgentsStay`, `EachSyncIsSent` and
the two theorems about findings are theorems that no run repeats. `NothingForgotten` and
`SteadyAgentsStay` say of a liveness property what is within a proof's reach; what is left of it is
the fairness argument.

## 6. Findings

| run | code | what it says |
|---|---|---|
| `reply_dropped` | `main.py:217` | "Handle a HITL reply by dispatching it" (line 356); a reply that overtakes the last event of the asking dispatch is dropped as a replay |
| `two_daemons` | `lock.py:36` | "ensures only one hybro-hub daemon runs per machine" (line 1); a lock taken on a file that was unlinked after it was opened excludes nobody |
| `refetch_dropped` | `dispatcher.py:287` | the task is re-fetched "to get definitive response text" (line 410); after a stream of non-text parts that text is left out |

Other places where the code does less than a docstring says or a schema allows. They have no run of
their own: the property that meets them names them as its exceptions, exactly as far as they go.

* `publish()` "Never raises" (`relay_client.py:141`), but only three httpx classes and HTTP statuses are
  caught (line 203). `PublishRaises` is an action of `RelayDelivery` and of `MessagePath`.
* "at-least-once delivery ... across hub crashes" (`publish_queue.py:3`): an event is on disk only after
  its immediate attempts (`relay_client.py:148`), so a crash during them loses it.
* "After HEALTH_FAILURE_THRESHOLD consecutive failures" (`agent_registry.py:202`): a rediscovered agent
  inherits a count of one (line 178), so `PruneIsEarned` says one failure less.
* GetTask is retried "rather than bubbling up" the error that resends the message
  (`dispatcher.py:364`); a second version error while polling does bubble up (line 377).
  `ResendsBeforeOutput` still holds: nothing was shown by then.
* "For v1.0: strips stale `kind`" (`a2a_compat.py:298`): a 1.0 file part with a `kind` of "file" is
  read as a nested 0.3 file and lost (line 312), and text or data with one lose their media type and
  file name. `Kept` in `ContentArrives` says so, and its run and `StalePart` show it.
* A file's metadata, which both versions have, is dropped when a part is written for 0.3
  (`a2a_compat.py:269-282`) and when one is read from 0.3 (lines 312-326): `Narrow` in
  `ContentArrives` and `ReplyIsUnderstood`.
* "If v1.0 dispatch fails with a fallback-eligible JSON-RPC error, retries once with v0.3"
  (`dispatcher.py:113`): not when the error is a JSON answer to a request for a stream. Reading it as
  events raises (line 532), and the dispatch ends as failed (line 148). The second disjunct of
  `SpeakersAreReached`; other errors are not tried again on purpose.
* A failure that only a task event of a stream tells of is published as completed, since its state is
  dropped (`dispatcher.py:189`, `590`), and so is one that is followed by a status-update without a
  state (line 186): the second disjunct of `FailuresAreTold`. An error after the first event of a
  stream is passed over like an unknown event (line 552); `StreamContent` includes it.
* An orderly end of the SSE stream makes `subscribe()` connect again at once, without the back-off
  (`relay_client.py:298`).

## 7. What is not modelled

* Signals before the event loop runs: `_startup` ends by exception, nothing is in flight.
* Events without an `agent_message_id`: the code dispatches them untracked, so no cancel reaches them.
* Windows: `msvcrt` locks and the PID-only branch of `_remove_lock_file`. Reuse of PIDs.
* Roster: a POST that failed for the hub but reaches the relay later; two dispatches that remove agents
  and sync at the same time; an error the relay answers while it is up is a failed POST.
* Message path: replies and cancellations (see `HubDaemon`), incomplete events, the length of the
  back-off. A POST is refused or raises at any time, but content is not tracked.
* Compatibility: card validation, the request configuration, unknown kinds and keys, parts with two
  contents, answers older than 0.3 or not in the schema of the agent's version, the `final` flag.
* Registry: the card's URL, which discovery and checks fetch, and the interface's, which a dispatch
  uses, are taken for one endpoint. An agent that answers at the first and not at the second would be
  removed by each dispatch and found again by each discovery.
* Configuration: defaults, validation, a hub id given in the YAML, permissions.
* Heartbeats: the loop changes only its own back-off.
* Order of events between queue and direct publication: the code promises none.
* In `Dispatcher` the extraction of text from parts: "there is text" or "other parts"; `A2ACompat` has
  the rest.
* Port and process enumeration (`psutil`, sockets): what it finds is an input. CLI commands other than
  start and stop, which touch the shared files only as `HubConfig` and `InstanceLock` have it.
* Privacy patterns, logging, CLI output, the client SDK, examples.

## 8. Plan

1. `MessagePath` with replies: `AskUser`, the user's reply as a second message on the same key, and a
   cancellation between them; the finding `reply_dropped` then shows end to end.
2. The safety part of `DeadAgentsLeaveRelay` as a theorem: an agent that stays away is in no payload
   taken after its prune.
3. `RosterSync` with several removals at a time and two sessions of the daemon.
4. The heartbeat loop and the relay's view of a hub that is online.
