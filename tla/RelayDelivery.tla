---- MODULE RelayDelivery ----
(***************************************************************************)
(* Delivery of the hub's events to the relay: RelayClient.publish with its *)
(* immediate attempts, the disk queue behind it, and the two tasks that    *)
(* drain the queue (hub/relay_client.py, and the queue's part of           *)
(* hub/main.py).                                                           *)
(*                                                                         *)
(* A call of publish() runs in the task of one dispatch; several calls and *)
(* both drainers interleave at every await.  The startup drainer is        *)
(* created when the daemon finds rows from an earlier session; it is not   *)
(* awaited, so it still works on its batch when the periodic drainer reads *)
(* its own.  A POST is one step: whether the relay stored the event and    *)
(* which answer the hub saw are chosen together, and may disagree.         *)
(***************************************************************************)
EXTENDS PublishQueue, Sequences

CONSTANTS
  Call,         \* the calls of publish()
  EventsOf,     \* the events each call is given, in order
  MaxAttempts,  \* the immediate attempts per event (3 in publish)
  Damageable,   \* events whose row may no longer parse as JSON when read back
  MaxDowns,     \* bound on crashes and shutdowns
  NoEvent

ASSUME CallAssumption ==
  /\ EventsOf \in [Call -> Seq(Event)]
  /\ \A c \in Call : EventsOf[c] # <<>>
  /\ \A c, d \in Call : \A i \in DOMAIN EventsOf[c], j \in DOMAIN EventsOf[d] :
       EventsOf[c][i] = EventsOf[d][j] => c = d /\ i = j
  /\ MaxAttempts \in Nat \ {0}
  /\ Damageable \subseteq Event
  /\ MaxDowns \in Nat
  /\ NoEvent \notin Event

Drainer == {"startup", "loop"}

VARIABLES
  enabled,  \* config.publish_queue.enabled, fixed for a session
  up,       \* the daemon runs
  downs,    \* how often it went down
  pc,       \* where each call of publish() is
  pos,      \* the index of the event it works on
  attempt,  \* failed immediate attempts of that event
  phase,    \* where each drainer is
  batch,    \* the rows of its last read it has not handled yet
  seen,     \* the retry_count it read for each of them
  cur,      \* the row whose POST was answered and whose update is pending
  got,      \* history: events the relay has stored
  refused,  \* history: events the relay answered with a 4xx
  dropped,  \* history: events publish() logged as dropped
  stored,   \* history: events that were ever written to the queue
  tries     \* history: failed attempts of the drainers, per event

callVars == <<pc, pos, attempt>>
drainVars == <<phase, batch, seen, cur>>
history == <<got, refused, dropped, stored, tries>>
vars == <<disk, retry, wait, age, pages, enabled, up, downs, pc, pos, attempt,
          phase, batch, seen, cur, got, refused, dropped, stored, tries>>

TypeOK ==
  /\ QueueTypeOK
  /\ enabled \in BOOLEAN /\ up \in BOOLEAN /\ downs \in 0 .. MaxDowns
  /\ pc \in [Call -> {"idle", "sending", "enqueue", "done", "raised", "cancelled", "lost"}]
  /\ pos \in [Call -> Nat] /\ \A c \in Call : pos[c] \in DOMAIN EventsOf[c]
  /\ attempt \in [Call -> 0 .. MaxAttempts - 1]
  /\ phase \in [Drainer -> {"off", "sleep", "drain", "delete", "retry", "sweep", "trim"}]
  /\ batch \in [Drainer -> SUBSET Event]
  /\ seen \in [Drainer -> [Event -> Nat]]
  /\ cur \in [Drainer -> Event \cup {NoEvent}]
  /\ \A d \in Drainer : phase[d] \in {"delete", "retry"} => cur[d] \in Event
  /\ got \subseteq Event /\ refused \subseteq Event /\ dropped \subseteq Event
  /\ stored \subseteq Event /\ disk \subseteq stored
  /\ tries \in [Event -> Nat]

Init ==
  /\ QueueInit
  /\ enabled \in BOOLEAN /\ up = TRUE /\ downs = 0
  /\ pc = [c \in Call |-> "idle"]
  /\ pos = [c \in Call |-> 1]
  /\ attempt = [c \in Call |-> 0]
  /\ phase = [d \in Drainer |-> IF d = "loop" /\ enabled THEN "sleep" ELSE "off"]
  /\ batch = [d \in Drainer |-> {}]
  /\ seen = [d \in Drainer |-> [e \in Event |-> 0]]
  /\ cur = [d \in Drainer |-> NoEvent]
  /\ got = {} /\ refused = {} /\ dropped = {} /\ stored = {}
  /\ tries = [e \in Event |-> 0]

----------------------------------------------------------------------------
\* One POST of event e: `answer` is how _try_publish_with_retry classifies what
\* comes back.  "transient" is a ConnectError, a read or write timeout or a 5xx,
\* "escape" any other httpx error, which the method does not catch; in both the
\* relay may have stored the event all the same.
Post(e, answer) ==
  /\ \E arrived \in BOOLEAN :
       /\ answer = "delivered" => arrived
       /\ answer = "permanent" => ~arrived
       /\ got' = IF arrived THEN got \cup {e} ELSE got
  /\ refused' = IF answer = "permanent" THEN refused \cup {e} ELSE refused

----------------------------------------------------------------------------
\* publish()

Current(c) == EventsOf[c][pos[c]]

\* `continue`: the next event of the list, with fresh attempts.
Advance(c) ==
  /\ IF pos[c] < Len(EventsOf[c])
       THEN /\ pc' = [pc EXCEPT ![c] = "sending"]
            /\ pos' = [pos EXCEPT ![c] = @ + 1]
       ELSE /\ pc' = [pc EXCEPT ![c] = "done"]
            /\ UNCHANGED pos
  /\ attempt' = [attempt EXCEPT ![c] = 0]

StartPublish(c) ==
  /\ up /\ pc[c] = "idle"
  /\ pc' = [pc EXCEPT ![c] = "sending"]
  /\ UNCHANGED <<queueVars, enabled, up, downs, pos, attempt, drainVars, history>>

\* Delivered, or a 4xx that will never succeed: on to the next event.
PublishSettled(c) ==
  /\ pc[c] = "sending"
  /\ \E answer \in {"delivered", "permanent"} : Post(Current(c), answer)
  /\ Advance(c)
  /\ UNCHANGED <<queueVars, enabled, up, downs, drainVars, dropped, stored, tries>>

PublishAgain(c) ==
  /\ pc[c] = "sending" /\ attempt[c] + 1 < MaxAttempts
  /\ Post(Current(c), "transient")
  /\ attempt' = [attempt EXCEPT ![c] = @ + 1]
  /\ UNCHANGED <<queueVars, enabled, up, downs, pc, pos, drainVars,
                 dropped, stored, tries>>

\* Mutant of PublishGivesUp: the next event does not wait for the insert.
PublishGivesUpEarly(c) ==
  /\ pc[c] = "sending" /\ attempt[c] + 1 = MaxAttempts
  /\ Post(Current(c), "transient")
  /\ IF enabled THEN UNCHANGED dropped ELSE dropped' = dropped \cup {Current(c)}
  /\ Advance(c)
  /\ UNCHANGED <<queueVars, enabled, up, downs, drainVars, stored, tries>>

\* The last immediate attempt failed: to the queue, or lost when there is none.
PublishGivesUp(c) ==
  /\ pc[c] = "sending" /\ attempt[c] + 1 = MaxAttempts
  /\ Post(Current(c), "transient")
  /\ IF enabled
       THEN /\ pc' = [pc EXCEPT ![c] = "enqueue"]
            /\ UNCHANGED <<pos, attempt, dropped>>
       ELSE /\ dropped' = dropped \cup {Current(c)}
            /\ Advance(c)
  /\ UNCHANGED <<queueVars, enabled, up, downs, drainVars, stored, tries>>

PublishRaises(c) ==
  /\ pc[c] = "sending"
  /\ Post(Current(c), "escape")
  /\ pc' = [pc EXCEPT ![c] = "raised"]
  /\ UNCHANGED <<queueVars, enabled, up, downs, pos, attempt, drainVars,
                 dropped, stored, tries>>

EnqueueEvent(c) ==
  /\ pc[c] = "enqueue"
  /\ Insert(Current(c))
  /\ stored' = stored \cup {Current(c)}
  /\ Advance(c)
  /\ UNCHANGED <<enabled, up, downs, drainVars, got, refused, dropped, tries>>

\* The insert raised (disk full, database locked): logged and dropped.
EnqueueFails(c) ==
  /\ pc[c] = "enqueue"
  /\ dropped' = dropped \cup {Current(c)}
  /\ Advance(c)
  /\ UNCHANGED <<queueVars, enabled, up, downs, drainVars, got, refused, stored, tries>>

\* The dispatch task around the call is cancelled at one of its awaits.  An
\* insert whose thread had started is the step EnqueueEvent before this one.
CancelPublish(c) ==
  /\ pc[c] \in {"sending", "enqueue"}
  /\ pc' = [pc EXCEPT ![c] = "cancelled"]
  /\ UNCHANGED <<queueVars, enabled, up, downs, pos, attempt, drainVars, history>>

----------------------------------------------------------------------------
\* drain_queued_events(), in the startup task and in _queue_drain_loop

NothingSeen == [e \in Event |-> 0]

Goto(d, p) == phase' = [phase EXCEPT ![d] = p]
Done(d, e) == batch' = [batch EXCEPT ![d] = @ \ {e}]

\* The next row of the batch: critical ones were read first.
NextRows(d) ==
  IF batch[d] \cap Critical # {} THEN batch[d] \cap Critical ELSE batch[d]

BeginDrain(d) ==
  /\ phase[d] = "sleep"
  /\ \E B \in ReadyBatches :
       /\ batch' = [batch EXCEPT ![d] = B]
       /\ seen' = [seen EXCEPT ![d] = [e \in Event |-> IF e \in B THEN retry[e] ELSE 0]]
  /\ Goto(d, "drain")
  /\ UNCHANGED <<queueVars, enabled, up, downs, callVars, cur, history>>

\* Mutant of DropRow: the last attempt of the budget is not made.
DropRowEarly(d) ==
  /\ phase[d] = "drain"
  /\ \E e \in NextRows(d) :
       /\ seen[d][e] + 1 >= MaxRetriesFor(e) \/ e \in Damageable
       /\ Delete(e)
       /\ Done(d, e)
  /\ UNCHANGED <<enabled, up, downs, callVars, phase, seen, cur, history>>

\* Deleted without an attempt: the budget is spent, or the row does not parse.
DropRow(d) ==
  /\ phase[d] = "drain"
  /\ \E e \in NextRows(d) :
       /\ seen[d][e] >= MaxRetriesFor(e) \/ e \in Damageable
       /\ Delete(e)
       /\ Done(d, e)
  /\ UNCHANGED <<enabled, up, downs, callVars, phase, seen, cur, history>>

Attempting(d, e) ==
  /\ phase[d] = "drain"
  /\ e \in NextRows(d)
  /\ seen[d][e] < MaxRetriesFor(e)

DrainSettled(d) ==
  /\ \E e \in NextRows(d) :
       /\ Attempting(d, e)
       /\ \E answer \in {"delivered", "permanent"} : Post(e, answer)
       /\ cur' = [cur EXCEPT ![d] = e]
       /\ Done(d, e)
  /\ Goto(d, "delete")
  /\ UNCHANGED <<queueVars, enabled, up, downs, callVars, seen, dropped, stored, tries>>

DrainFails(d) ==
  /\ \E e \in NextRows(d) :
       /\ Attempting(d, e)
       /\ Post(e, "transient")
       /\ tries' = [tries EXCEPT ![e] = @ + 1]
       /\ cur' = [cur EXCEPT ![d] = e]
       /\ Done(d, e)
  /\ Goto(d, "retry")
  /\ UNCHANGED <<queueVars, enabled, up, downs, callVars, seen, dropped, stored>>

\* The exception leaves drain_queued_events: the rest of the batch is not
\* attempted, no retry_count moves, and the loop skips both cleanups.
DrainRaises(d) ==
  /\ \E e \in NextRows(d) : Attempting(d, e) /\ Post(e, "escape")
  /\ Goto(d, IF d = "loop" THEN "sleep" ELSE "off")
  /\ batch' = [batch EXCEPT ![d] = {}]
  /\ seen' = [seen EXCEPT ![d] = NothingSeen]
  /\ UNCHANGED <<queueVars, enabled, up, downs, callVars, cur, dropped, stored, tries>>

DeleteSettled(d) ==
  /\ phase[d] = "delete"
  /\ Delete(cur[d])
  /\ Goto(d, "drain")
  /\ cur' = [cur EXCEPT ![d] = NoEvent]
  /\ UNCHANGED <<enabled, up, downs, callVars, batch, seen, history>>

\* retry_count + 1 and the delay are computed from the count read with the batch.
Reschedule(d) ==
  /\ phase[d] = "retry"
  /\ UpdateRetry(cur[d], seen[d][cur[d]] + 1, Backoff(seen[d][cur[d]]))
  /\ Goto(d, "drain")
  /\ cur' = [cur EXCEPT ![d] = NoEvent]
  /\ UNCHANGED <<enabled, up, downs, callVars, batch, seen, history>>

\* Mutant of EndDrain: the loop returns after its first batch.
EndDrainForGood(d) ==
  /\ phase[d] = "drain" /\ batch[d] = {}
  /\ Goto(d, "off")
  /\ seen' = [seen EXCEPT ![d] = NothingSeen]
  /\ UNCHANGED <<queueVars, enabled, up, downs, callVars, batch, cur, history>>

\* The batch is handled: the loop goes on to the cleanups, the startup task ends.
EndDrain(d) ==
  /\ phase[d] = "drain" /\ batch[d] = {}
  /\ Goto(d, IF d = "loop" THEN "sweep" ELSE "off")
  /\ seen' = [seen EXCEPT ![d] = NothingSeen]
  /\ UNCHANGED <<queueVars, enabled, up, downs, callVars, batch, cur, history>>

Sweep ==
  /\ phase["loop"] = "sweep"
  /\ CleanupExpired
  /\ Goto("loop", "trim")
  /\ UNCHANGED <<enabled, up, downs, callVars, batch, seen, cur, history>>

Trim ==
  /\ phase["loop"] = "trim"
  /\ CleanupBySize
  /\ Goto("loop", "sleep")
  /\ UNCHANGED <<enabled, up, downs, callVars, batch, seen, cur, history>>

----------------------------------------------------------------------------
\* The daemon

\* A crash, or a shutdown: either way the calls and the drainers end where they
\* are and only the table survives.
GoDown ==
  /\ up /\ downs < MaxDowns
  /\ up' = FALSE
  /\ downs' = downs + 1
  /\ pc' = [c \in Call |-> IF pc[c] \in {"sending", "enqueue"} THEN "lost" ELSE pc[c]]
  /\ phase' = [d \in Drainer |-> "off"]
  /\ batch' = [d \in Drainer |-> {}]
  /\ seen' = [d \in Drainer |-> NothingSeen]
  /\ cur' = [d \in Drainer |-> NoEvent]
  /\ UNCHANGED <<queueVars, enabled, pos, attempt, history>>

\* _startup opens the queue and starts a drain when it is not empty; the
\* periodic loop follows once the hub is registered.
ComeUp ==
  /\ ~up
  /\ up' = TRUE
  /\ phase' = IF ~enabled THEN phase
              ELSE [d \in Drainer |->
                      IF d = "loop" \/ disk # {} THEN "sleep" ELSE "off"]
  /\ UNCHANGED <<queueVars, enabled, downs, callVars, batch, seen, cur, history>>

PassTime == Tick /\ UNCHANGED <<enabled, up, downs, callVars, drainVars, history>>

PublishStep(c) ==
  \/ StartPublish(c) \/ PublishSettled(c) \/ PublishAgain(c) \/ PublishGivesUp(c)
  \/ PublishRaises(c) \/ EnqueueEvent(c) \/ EnqueueFails(c) \/ CancelPublish(c)

\* A POST of a drainer, other than one that raises.
DrainAnswered(d) == DrainSettled(d) \/ DrainFails(d)

DrainStep(d) ==
  \/ BeginDrain(d) \/ DropRow(d) \/ DrainAnswered(d) \/ DrainRaises(d)
  \/ DeleteSettled(d) \/ Reschedule(d) \/ EndDrain(d)

Next ==
  \/ \E c \in Call : PublishStep(c)
  \/ \E d \in Drainer : DrainStep(d)
  \/ Sweep \/ Trim
  \/ GoDown \/ ComeUp \/ PassTime

Spec == Init /\ [][Next]_vars

\* asyncio runs a task that can go on and time passes; the user, or the service
\* manager, starts the daemon again.  Strong fairness is about the network: a
\* drainer that keeps posting is not answered with an uncaught error for ever.
Fairness ==
  /\ WF_vars(BeginDrain("loop")) /\ WF_vars(DropRow("loop"))
  /\ SF_vars(DrainAnswered("loop"))
  /\ WF_vars(DeleteSettled("loop")) /\ WF_vars(Reschedule("loop"))
  /\ WF_vars(EndDrain("loop"))
  /\ WF_vars(Sweep) /\ WF_vars(Trim)
  /\ WF_vars(ComeUp) /\ WF_vars(PassTime)

FairSpec == Spec /\ Fairness

----------------------------------------------------------------------------
\* Properties

\* The events of a call that publish() has moved past.
Passed(c) ==
  LET last == IF pc[c] = "done" THEN pos[c] ELSE pos[c] - 1
  IN  {EventsOf[c][i] : i \in 1 .. last}

Accounted == got \cup refused \cup stored \cup dropped

\* Every event a publish() call has moved past (returned, or gone on to the next
\* event of its list) is stored by the relay, was refused by it, was written to
\* the queue, or was logged as dropped: no order of answers, cancellations and
\* restarts makes publish() skip one.
PassedIsAccounted ==
  \A c \in Call : Passed(c) \subseteq Accounted

\* An event reaches the relay ahead of an earlier one of its list only if that one
\* has been queued, refused or dropped: the queue is the only way to be overtaken,
\* whatever the drainers, timeouts and restarts do to either of them.
OvertakesOnlyQueued ==
  \A c \in Call : \A j \in DOMAIN EventsOf[c] : \A i \in 1 .. j - 1 :
    EventsOf[c][j] \in got => EventsOf[c][i] \in Accounted

\* publish() and the queue together do what Outbox says: calls go on in order, with
\* every event accounted for, and an event is queued at most once.
Promise == INSTANCE Outbox WITH
  passed <- [c \in Call |-> IF pc[c] = "done" THEN pos[c] ELSE pos[c] - 1],
  queued <- disk,
  closed <- stored \ disk

ImplementsOutbox == Promise!Spec

\* The reasons for which the row of e may go.
MayLeave(e) ==
  \/ e \in got \/ e \in refused \/ e \in Damageable
  \/ tries[e] >= MaxRetriesFor(e)
  \/ age[e] > TTL
  \/ Oversized /\ (e \in Critical => disk \ Critical \subseteq disk \ disk')

\* A row leaves the table only when the relay has the event or refused it, when
\* the drainers really failed as often as its budget allows, when it is older
\* than the TTL, when it no longer parses, or when the file is over its limit (a
\* critical row only after the normal ones).  The drainers decide on counts they
\* read earlier and overlap, so this relates their snapshots to the real attempts.
LeavesForReason == \A e \in disk \ disk' : MayLeave(e)

NoRowLost == [][LeavesForReason]_vars

\* A row that left the table stays away: a late UPDATE or the batch of another
\* drainer, which may still be sending it, cannot bring it back.
NoRowReturns == [][(stored \ disk) \cap disk' = {}]_vars

\* Every queued event leaves the queue in the end (delivered, refused, out of
\* budget, expired or evicted), through restarts and whatever the relay answers,
\* as long as some of its POSTs fail in a classified way.
QueueDrains == \A e \in Event : (e \in disk) ~> (e \notin disk)
====
