---- MODULE Outbox ----
(***************************************************************************)
(* What RelayClient.publish and the queue behind it promise together       *)
(* (hub/relay_client.py): the events of a call are worked off in order,    *)
(* none is passed over without the relay's answer, a row in the queue or a *)
(* log line to account for it, and an event is queued at most once.        *)
(* Immediate attempts, batches, retries and restarts do not show.          *)
(***************************************************************************)
EXTENDS Naturals, Sequences

CONSTANTS
  Event,
  Call,     \* the calls of publish()
  EventsOf  \* the events each call is given, in order

VARIABLES
  passed,   \* how many of its events each call has passed
  queued,   \* the events in the table
  closed,   \* the events that were in it
  got,      \* the events the relay has stored
  refused,  \* the events the relay answered with a 4xx
  dropped   \* the events logged as dropped

relayVars == <<got, refused>>
vars == <<passed, queued, closed, got, refused, dropped>>

Init ==
  /\ passed = [c \in Call |-> 0]
  /\ queued = {} /\ closed = {}
  /\ got = {} /\ refused = {} /\ dropped = {}

HasNext(c) == passed[c] < Len(EventsOf[c])
NextOf(c) == EventsOf[c][passed[c] + 1]

\* The relay may store e, or refuse it.
Reach(e) ==
  /\ got' \in {got, got \cup {e}}
  /\ refused' \in {refused, refused \cup {e}}

\* An attempt that settles nothing yet: of the event a call has come to, or of one
\* that is or was queued.
Attempt ==
  /\ \/ \E c \in Call : HasNext(c) /\ Reach(NextOf(c))
     \/ \E e \in queued \cup closed : Reach(e)
  /\ UNCHANGED <<passed, queued, closed, dropped>>

\* A call goes on to its next event, the one before it being accounted for.
Pass(c) ==
  /\ HasNext(c)
  /\ passed' = [passed EXCEPT ![c] = @ + 1]
  /\ Reach(NextOf(c))
  /\ \/ /\ NextOf(c) \in got' \cup refused'
        /\ UNCHANGED <<queued, dropped>>
     \/ /\ NextOf(c) \notin queued \cup closed
        /\ queued' = queued \cup {NextOf(c)}
        /\ UNCHANGED dropped
     \/ /\ dropped' = dropped \cup {NextOf(c)}
        /\ UNCHANGED queued
  /\ UNCHANGED closed

\* Rows go, one or several at a time, and never come back.
Leave ==
  /\ \E E \in SUBSET queued :
       /\ queued' = queued \ E
       /\ closed' = closed \cup E
  /\ UNCHANGED <<passed, relayVars, dropped>>

Next == Attempt \/ Leave \/ \E c \in Call : Pass(c)

Spec == Init /\ [][Next]_vars
====
