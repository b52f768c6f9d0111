---- MODULE PublishQueue ----
(***************************************************************************)
(* The SQLite table behind hub/publish_queue.py, one operator per method.  *)
(*                                                                         *)
(* A row is identified by the event it holds: publish() enqueues an event  *)
(* object at most once and AUTOINCREMENT never reuses an id, so "the row   *)
(* with this id" and "the row of this event" are the same thing.  Every    *)
(* method takes the queue's asyncio.Lock around one thread call, so each   *)
(* operator is a single step.                                              *)
(*                                                                         *)
(* Time is kept as what is left of it: wait[e] is next_retry_at - now,     *)
(* saturated at 0, and age[e] is now - created_at, saturated just above    *)
(* TTL; the unit is the 30 s base delay.  Rows that are all ready carry no *)
(* order beyond their priority.                                            *)
(***************************************************************************)
EXTENDS Naturals, FiniteSets

CONSTANTS
  Event,               \* the events the hub publishes to the relay
  Critical,            \* those whose type is in CRITICAL_EVENTS (priority 1)
  MaxRetriesCritical,  \* PublishQueueConfig.max_retries_critical
  MaxRetriesNormal,    \* PublishQueueConfig.max_retries_normal
  MaxDelay,            \* _MAX_RETRY_DELAY, in units of the base delay
  TTL,                 \* PublishQueueConfig.ttl_hours, in the same units
  BatchSize,           \* PublishQueueConfig.drain_batch_size
  MaxPages,            \* PublishQueueConfig.max_size_mb, in rows
  TrimDivisor,         \* cleanup_by_size deletes 1/10 of the rows
  VacuumDivisor        \* ... and vacuums when that is more than 1/5 of them

ASSUME EventAssumption == IsFiniteSet(Event) /\ Critical \subseteq Event

ASSUME LimitAssumption ==
  /\ MaxRetriesCritical \in Nat /\ MaxRetriesNormal \in Nat
  /\ MaxDelay \in Nat \ {0} /\ TTL \in Nat
  /\ BatchSize \in Nat \ {0} /\ MaxPages \in Nat
  /\ TrimDivisor \in Nat \ {0} /\ VacuumDivisor \in Nat \ {0}

VARIABLES
  disk,   \* the events that have a row
  retry,  \* retry_count of the row, 0 where there is none
  wait,   \* time left until next_retry_at
  age,    \* time since created_at
  pages   \* size of the file: what it grew to since the last VACUUM

queueVars == <<disk, retry, wait, age, pages>>

Least(m, n) == IF m <= n THEN m ELSE n
Greatest(m, n) == IF m >= n THEN m ELSE n

MaxRetriesFor(e) ==
  IF e \in Critical THEN MaxRetriesCritical ELSE MaxRetriesNormal

\* Mutant of Backoff: the delay is not capped.
UncappedBackoff(count) == 2 ^ count

\* min(30 * 2 ** retry_count, _MAX_RETRY_DELAY)
Backoff(count) == IF 2 ^ count \in 0 .. MaxDelay THEN 2 ^ count ELSE MaxDelay

QueueTypeOK ==
  /\ disk \subseteq Event
  /\ retry \in [Event -> Nat]
  /\ wait \in [Event -> 0 .. MaxDelay]
  /\ age \in [Event -> 0 .. TTL + 1]
  /\ pages \in Nat

QueueInit ==
  /\ disk = {}
  /\ retry = [e \in Event |-> 0]
  /\ wait = [e \in Event |-> 0]
  /\ age = [e \in Event |-> 0]
  /\ pages = 0

\* INSERT with next_retry_at = created_at = now and retry_count = 0.
Insert(e) ==
  /\ disk' = disk \cup {e}
  /\ retry' = [retry EXCEPT ![e] = 0]
  /\ wait' = [wait EXCEPT ![e] = 0]
  /\ age' = [age EXCEPT ![e] = 0]
  /\ pages' = Greatest(pages, Cardinality(disk'))

\* Mutant of UpdateRetry: INSERT OR REPLACE instead of UPDATE.
UpsertRetry(e, count, delay) ==
  /\ disk' = disk \cup {e}
  /\ retry' = [retry EXCEPT ![e] = count]
  /\ wait' = [wait EXCEPT ![e] = delay]
  /\ UNCHANGED <<age, pages>>

\* UPDATE ... WHERE id = ?: nothing happens when the row is gone.
UpdateRetry(e, count, delay) ==
  /\ retry' = IF e \in disk THEN [retry EXCEPT ![e] = count] ELSE retry
  /\ wait' = IF e \in disk THEN [wait EXCEPT ![e] = delay] ELSE wait
  /\ UNCHANGED <<disk, age, pages>>

\* DELETE of a set of rows; the file keeps its free pages.
RemoveRows(S) ==
  /\ disk' = disk \ S
  /\ retry' = [e \in Event |-> IF e \in S THEN 0 ELSE retry[e]]
  /\ wait' = [e \in Event |-> IF e \in S THEN 0 ELSE wait[e]]
  /\ age' = [e \in Event |-> IF e \in S THEN 0 ELSE age[e]]

Delete(e) == RemoveRows({e}) /\ UNCHANGED pages

Ready == {e \in disk : wait[e] = 0}

\* The results get_ready_events can return: as many ready rows as the limit
\* allows, a normal one only when every ready critical one is in.
ReadyBatches ==
  {B \in SUBSET Ready :
    /\ Cardinality(B) = Least(BatchSize, Cardinality(Ready))
    /\ B \subseteq Critical \/ Ready \cap Critical \subseteq B}

Expired == {e \in disk : age[e] > TTL}

CleanupExpired == RemoveRows(Expired) /\ UNCHANGED pages

TrimCount == Greatest(1, Cardinality(disk) \div TrimDivisor)

\* The rows cleanup_by_size can pick: normal before critical, then oldest.
TrimSets ==
  {V \in SUBSET disk :
    /\ Cardinality(V) = Least(TrimCount, Cardinality(disk))
    /\ V \cap Critical = {} \/ disk \ Critical \subseteq V
    /\ \A v \in V, e \in disk \ V :
         (v \in Critical <=> e \in Critical) => age[v] >= age[e]}

Oversized == pages > MaxPages

CleanupBySize ==
  \/ /\ ~Oversized
     /\ UNCHANGED queueVars
  \/ /\ Oversized
     /\ \E V \in TrimSets : RemoveRows(V)
     /\ pages' = IF TrimCount * VacuumDivisor > Cardinality(disk)
                   THEN Cardinality(disk') ELSE pages

\* time.time() moves on for every row.
Tick ==
  /\ \E e \in disk : wait[e] > 0 \/ age[e] <= TTL
  /\ wait' = [e \in Event |-> IF wait[e] > 0 THEN wait[e] - 1 ELSE 0]
  /\ age' = [e \in Event |->
               IF e \in disk /\ age[e] <= TTL THEN age[e] + 1 ELSE age[e]]
  /\ UNCHANGED <<disk, retry, pages>>
====
