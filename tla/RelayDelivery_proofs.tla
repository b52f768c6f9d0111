---- MODULE RelayDelivery_proofs ----
(***************************************************************************)
(* Proofs about RelayDelivery for any set of events, calls and limits: its *)
(* type invariant, that publish() accounts for every event it moves past,  *)
(* that the queue loses no row, that a row which left stays away, that     *)
(* only queued events are overtaken, and that all of it implements Outbox. *)
(***************************************************************************)
EXTENDS RelayDelivery, FiniteSetTheorems, TLAPS

----------------------------------------------------------------------------
\* The operators of the table.

\* Backoff: a delay is within the cap, whatever the retry count.
LEMMA BackoffType == ASSUME NEW count PROVE Backoff(count) \in 0 .. MaxDelay
BY LimitAssumption DEF Backoff

\* Insert keeps the table well typed and gives the new row a count of 0.
LEMMA InsertType ==
  ASSUME QueueTypeOK, NEW e \in Event, Insert(e)
  PROVE  /\ QueueTypeOK' /\ disk' = disk \cup {e}
         /\ \A x \in Event : retry'[x] <= retry[x]
<1>1. IsFiniteSet(disk')
  BY EventAssumption, FS_Subset DEF Insert, QueueTypeOK
<1>2. Cardinality(disk') \in Nat
  BY <1>1, FS_CardinalityType
<1>3. pages' \in Nat
  BY <1>2 DEF Insert, Greatest, QueueTypeOK
<1>. QED
  BY <1>3, LimitAssumption DEF Insert, QueueTypeOK

\* UpdateRetry touches one count and one delay, and no row comes or goes.
LEMMA UpdateRetryType ==
  ASSUME QueueTypeOK, NEW e \in Event, NEW count \in Nat, NEW delay \in 0 .. MaxDelay,
         UpdateRetry(e, count, delay)
  PROVE  /\ QueueTypeOK' /\ disk' = disk
         /\ \A x \in Event : retry'[x] = retry[x] \/ (x = e /\ retry'[x] = count)
<1>1. CASE e \in disk
  <2>1. retry' = [retry EXCEPT ![e] = count] /\ wait' = [wait EXCEPT ![e] = delay]
    BY <1>1 DEF UpdateRetry
  <2>. QED
    BY <2>1 DEF UpdateRetry, QueueTypeOK
<1>2. CASE e \notin disk
  BY <1>2 DEF UpdateRetry, QueueTypeOK
<1>. QED
  BY <1>1, <1>2

\* Removing rows only lowers counts, and removes exactly these rows.
LEMMA RemoveRowsType ==
  ASSUME QueueTypeOK, NEW S, RemoveRows(S), pages' \in Nat
  PROVE  /\ QueueTypeOK' /\ disk' = disk \ S
         /\ \A x \in Event : retry'[x] <= retry[x]
BY LimitAssumption DEF RemoveRows, QueueTypeOK

\* CleanupBySize removes rows only from a file over its limit, and critical rows
\* only along with all the normal ones.
LEMMA CleanupBySizeType ==
  ASSUME QueueTypeOK, CleanupBySize
  PROVE  /\ QueueTypeOK' /\ disk' \subseteq disk
         /\ \A x \in Event : retry'[x] <= retry[x]
         /\ \A x \in disk \ disk' :
              Oversized /\ (x \in Critical => disk \ Critical \subseteq disk \ disk')
<1>1. CASE ~Oversized /\ UNCHANGED queueVars
  BY <1>1 DEF queueVars, QueueTypeOK
<1>2. CASE Oversized /\ \E V \in TrimSets : RemoveRows(V)
  <2>1. PICK V \in TrimSets : RemoveRows(V)
    BY <1>2
  <2>2. IsFiniteSet(disk')
    BY <2>1, EventAssumption, FS_Subset DEF RemoveRows, QueueTypeOK
  <2>3. pages' \in Nat
    BY <2>2, FS_CardinalityType, <1>2 DEF CleanupBySize, QueueTypeOK
  <2>4. V \subseteq disk /\ (V \cap Critical = {} \/ disk \ Critical \subseteq V)
    BY DEF TrimSets
  <2>. QED
    BY <1>2, <2>1, <2>3, <2>4, RemoveRowsType
<1>. QED
  BY <1>1, <1>2 DEF CleanupBySize

----------------------------------------------------------------------------
\* The steps that several actions share.

\* Post: the relay forgets nothing, and a settling answer leaves a trace of e.
LEMMA PostType ==
  ASSUME TypeOK, NEW e \in Event, NEW answer, Post(e, answer)
  PROVE  /\ got' \subseteq Event /\ got \subseteq got'
         /\ refused' \subseteq Event /\ refused \subseteq refused'
         /\ answer \in {"delivered", "permanent"} => e \in got' \cup refused'
BY DEF Post, TypeOK

\* The event a call works on is one of its events.
LEMMA CurrentType == ASSUME TypeOK, NEW c \in Call PROVE Current(c) \in Event
BY CallAssumption DEF Current, TypeOK

\* Advance keeps the positions of the calls within their lists.
LEMMA AdvanceType ==
  ASSUME TypeOK, NEW c \in Call, Advance(c)
  PROVE  /\ pc' \in [Call -> {"idle", "sending", "enqueue", "done", "raised",
                              "cancelled", "lost"}]
         /\ pos' \in [Call -> Nat] /\ \A d \in Call : pos'[d] \in DOMAIN EventsOf[d]
         /\ attempt' \in [Call -> 0 .. MaxAttempts - 1]
<1>1. \A d \in Call : EventsOf[d] \in Seq(Event) /\ DOMAIN EventsOf[d] = 1 .. Len(EventsOf[d])
                      /\ Len(EventsOf[d]) \in Nat
  BY CallAssumption
<1>2. pos' \in [Call -> Nat] /\ \A d \in Call : pos'[d] \in DOMAIN EventsOf[d]
  <2>1. CASE pos[c] < Len(EventsOf[c])
    <3>1. pos' = [pos EXCEPT ![c] = pos[c] + 1]
      BY <2>1 DEF Advance
    <3>2. pos[c] \in Nat /\ pos[c] + 1 \in DOMAIN EventsOf[c]
      BY <1>1, <2>1 DEF TypeOK
    <3>. QED
      BY <3>1, <3>2 DEF TypeOK
  <2>2. CASE ~(pos[c] < Len(EventsOf[c]))
    BY <2>2 DEF Advance, TypeOK
  <2>. QED
    BY <2>1, <2>2
<1>3. 0 \in 0 .. MaxAttempts - 1
  BY CallAssumption
<1>. QED
  BY <1>2, <1>3 DEF Advance, TypeOK

\* An event a drainer may take up next is one of its batch.
LEMMA NextRowsType ==
  ASSUME TypeOK, NEW d \in Drainer PROVE NextRows(d) \subseteq batch[d] /\ batch[d] \subseteq Event
BY DEF NextRows, TypeOK

----------------------------------------------------------------------------
\* The hub starts with an empty table and no coroutine under way.
LEMMA InitType == Init => TypeOK
<1>. SUFFICES ASSUME Init PROVE TypeOK
  OBVIOUS
<1>1. QueueTypeOK
  BY LimitAssumption DEF Init, QueueInit, QueueTypeOK
<1>2. \A c \in Call : 1 \in DOMAIN EventsOf[c]
  BY CallAssumption
<1>3. 0 \in 0 .. MaxAttempts - 1 /\ 0 \in 0 .. MaxDowns
  BY CallAssumption
<1>. QED
  BY <1>1, <1>2, <1>3 DEF Init, QueueInit, TypeOK, Drainer

\* The steps of one publish() call, one of one drainer, and the others, keep the types.
LEMMA PublishType ==
  ASSUME TypeOK, NEW c \in Call, PublishStep(c) PROVE TypeOK'
<1>. USE DEF queueVars, drainVars, history, QueueTypeOK
<1>1. Current(c) \in Event
  BY CurrentType
<1>2. CASE StartPublish(c)
  BY <1>2 DEF StartPublish, TypeOK
<1>3. CASE PublishSettled(c)
  <2>1. PICK answer \in {"delivered", "permanent"} : Post(Current(c), answer)
    BY <1>3 DEF PublishSettled
  <2>. QED
    BY <1>1, <1>3, <2>1, PostType, AdvanceType DEF PublishSettled, TypeOK
<1>4. CASE PublishAgain(c)
  <2>1. attempt[c] + 1 \in 0 .. MaxAttempts - 1
    BY <1>4, CallAssumption DEF PublishAgain, TypeOK
  <2>. QED
    BY <1>1, <1>4, <2>1, PostType DEF PublishAgain, TypeOK
<1>5. CASE PublishGivesUp(c)
  <2>1. Post(Current(c), "transient")
    BY <1>5 DEF PublishGivesUp
  <2>2. CASE enabled
    BY <1>1, <1>5, <2>1, <2>2, PostType DEF PublishGivesUp, TypeOK
  <2>3. CASE ~enabled
    BY <1>1, <1>5, <2>1, <2>3, PostType, AdvanceType DEF PublishGivesUp, TypeOK
  <2>. QED
    BY <2>2, <2>3
<1>6. CASE PublishRaises(c)
  BY <1>1, <1>6, PostType DEF PublishRaises, TypeOK
<1>7. CASE EnqueueEvent(c)
  <2>1. QueueTypeOK' /\ disk' = disk \cup {Current(c)}
    BY <1>1, <1>7, InsertType DEF EnqueueEvent, TypeOK
  <2>. QED
    BY <1>1, <1>7, <2>1, AdvanceType DEF EnqueueEvent, TypeOK
<1>8. CASE EnqueueFails(c)
  BY <1>1, <1>8, AdvanceType DEF EnqueueFails, TypeOK
<1>9. CASE CancelPublish(c)
  BY <1>9 DEF CancelPublish, TypeOK
<1>. QED
  BY <1>2, <1>3, <1>4, <1>5, <1>6, <1>7, <1>8, <1>9 DEF PublishStep

\* The steps of a drain keep every variable in its type.
LEMMA DrainType ==
  ASSUME TypeOK, NEW d \in Drainer, DrainStep(d) PROVE TypeOK'
<1>. USE DEF callVars, history, Goto, Done
<1>1. QueueTypeOK
  BY DEF TypeOK
<1>2. CASE BeginDrain(d)
  <2>1. PICK B \in ReadyBatches :
          /\ batch' = [batch EXCEPT ![d] = B]
          /\ seen' = [seen EXCEPT ![d] = [e \in Event |-> IF e \in B THEN retry[e] ELSE 0]]
    BY <1>2 DEF BeginDrain
  <2>2. B \subseteq Event
    BY <1>1 DEF ReadyBatches, Ready, QueueTypeOK
  <2>3. [e \in Event |-> IF e \in B THEN retry[e] ELSE 0] \in [Event -> Nat]
    BY <1>1 DEF QueueTypeOK
  <2>. QED
    BY <1>2, <2>1, <2>2, <2>3 DEF BeginDrain, TypeOK, QueueTypeOK, queueVars
<1>3. CASE DropRow(d)
  <2>1. PICK e \in NextRows(d) : Delete(e) /\ Done(d, e)
    BY <1>3 DEF DropRow
  <2>2. QueueTypeOK' /\ disk' \subseteq disk
    BY <1>1, <2>1, RemoveRowsType DEF Delete, QueueTypeOK
  <2>. QED
    BY <1>3, <2>1, <2>2 DEF DropRow, TypeOK
<1>4. CASE DrainSettled(d)
  <2>1. PICK e \in NextRows(d) : \E answer \in {"delivered", "permanent"} :
          Post(e, answer) /\ cur' = [cur EXCEPT ![d] = e] /\ Done(d, e)
    BY <1>4 DEF DrainSettled
  <2>2. e \in Event
    BY NextRowsType
  <2>3. got' \subseteq Event /\ refused' \subseteq Event
    BY <2>1, <2>2, PostType
  <2>. QED
    BY <1>4, <2>1, <2>2, <2>3 DEF DrainSettled, TypeOK, QueueTypeOK, queueVars
<1>5. CASE DrainFails(d)
  <2>1. PICK e \in NextRows(d) : Post(e, "transient") /\ tries' = [tries EXCEPT ![e] = @ + 1]
          /\ cur' = [cur EXCEPT ![d] = e] /\ Done(d, e)
    BY <1>5 DEF DrainFails
  <2>2. e \in Event
    BY NextRowsType
  <2>3. got' \subseteq Event /\ refused' \subseteq Event
    BY <2>1, <2>2, PostType
  <2>4. tries' \in [Event -> Nat]
    BY <2>1, <2>2 DEF TypeOK
  <2>. QED
    BY <1>5, <2>1, <2>2, <2>3, <2>4 DEF DrainFails, TypeOK, QueueTypeOK, queueVars
<1>6. CASE DrainRaises(d)
  <2>1. PICK e \in NextRows(d) : Post(e, "escape")
    BY <1>6 DEF DrainRaises
  <2>2. got' \subseteq Event /\ refused' \subseteq Event
    BY <2>1, NextRowsType, PostType
  <2>. QED
    BY <1>6, <2>2 DEF DrainRaises, NothingSeen, TypeOK, QueueTypeOK, queueVars
<1>7. CASE DeleteSettled(d)
  <2>1. QueueTypeOK' /\ disk' \subseteq disk
    BY <1>1, <1>7, RemoveRowsType DEF DeleteSettled, Delete, QueueTypeOK
  <2>. QED
    BY <1>7, <2>1 DEF DeleteSettled, TypeOK
<1>8. CASE Reschedule(d)
  <2>1. cur[d] \in Event /\ seen[d][cur[d]] + 1 \in Nat
    BY <1>8 DEF Reschedule, TypeOK
  <2>2. QueueTypeOK' /\ disk' = disk
    BY <1>1, <1>8, <2>1, BackoffType, UpdateRetryType DEF Reschedule
  <2>. QED
    BY <1>8, <2>2 DEF Reschedule, TypeOK
<1>9. CASE EndDrain(d)
  BY <1>9 DEF EndDrain, NothingSeen, TypeOK, QueueTypeOK, queueVars
<1>. QED
  BY <1>2, <1>3, <1>4, <1>5, <1>6, <1>7, <1>8, <1>9 DEF DrainStep, DrainAnswered

\* Every step keeps TypeOK.
LEMMA TypeCorrectStep == ASSUME TypeOK, [Next]_vars PROVE TypeOK'
<1>. USE DEF callVars, drainVars, history
<1>0. QueueTypeOK
  BY DEF TypeOK
<1>1. CASE \E c \in Call : PublishStep(c)
  BY <1>1, PublishType
<1>2. CASE \E d \in Drainer : DrainStep(d)
  BY <1>2, DrainType
<1>3. CASE Sweep
  <2>1. QueueTypeOK' /\ disk' \subseteq disk
    BY <1>0, <1>3, RemoveRowsType DEF Sweep, CleanupExpired, QueueTypeOK
  <2>. QED
    BY <1>3, <2>1 DEF Sweep, Goto, TypeOK, Drainer
<1>4. CASE Trim
  <2>1. QueueTypeOK' /\ disk' \subseteq disk
    BY <1>0, <1>4, CleanupBySizeType DEF Trim
  <2>. QED
    BY <1>4, <2>1 DEF Trim, Goto, TypeOK, Drainer
<1>5. CASE GoDown
  <2>1. downs + 1 \in 0 .. MaxDowns
    BY <1>5, CallAssumption DEF GoDown, TypeOK
  <2>. QED
    BY <1>5, <2>1 DEF GoDown, NothingSeen, TypeOK, QueueTypeOK, queueVars
<1>6. CASE ComeUp
  BY <1>6 DEF ComeUp, TypeOK, QueueTypeOK, queueVars
<1>7. CASE PassTime
  <2>1. QueueTypeOK' /\ disk' = disk
    BY <1>0, <1>7, LimitAssumption DEF PassTime, Tick, QueueTypeOK
  <2>. QED
    BY <1>7, <2>1 DEF PassTime, TypeOK
<1>8. CASE UNCHANGED vars
  BY <1>8 DEF vars, TypeOK, QueueTypeOK
<1>. QED
  BY <1>1, <1>2, <1>3, <1>4, <1>5, <1>6, <1>7, <1>8 DEF Next

\* The type invariant: whatever the answers, crashes and restarts, the state of
\* the queue, the calls and the drainers stays within its types, and every row on
\* disk is one that publish() wrote.
THEOREM TypeCorrect == Spec => []TypeOK
<1>1. TypeOK /\ [Next]_vars => TypeOK'
  BY TypeCorrectStep
<1>. QED
  BY InitType, <1>1, PTL DEF Spec

----------------------------------------------------------------------------
\* The inductive invariants behind the two guarantees.

\* A retry count, in the table or in a drainer's snapshot, never runs ahead of the
\* attempts that failed: overlapping drainers can lose an increment, not invent one.
CountsAreReal ==
  /\ \A e \in Event : retry[e] <= tries[e]
  /\ \A d \in Drainer : \A e \in Event : seen[d][e] <= tries[e]
  /\ \A d \in Drainer : phase[d] = "retry" => seen[d][cur[d]] < tries[cur[d]]

\* A drainer about to delete a row after its POST saw a settling answer.
DeletesAreSettled == \A d \in Drainer : phase[d] = "delete" => cur[d] \in got \cup refused

\* Only an event that publish() has moved past was ever written to the queue.
StoredArePassed == \A e \in stored : \E c \in Call : e \in Passed(c)

QueueInv == CountsAreReal /\ DeletesAreSettled
CallInv == PassedIsAccounted /\ StoredArePassed

\* Advance moves past the current event and nothing else.
LEMMA AdvancePasses ==
  ASSUME TypeOK, NEW c \in Call, Advance(c), pc[c] # "done"
  PROVE  /\ Passed(c)' = Passed(c) \cup {Current(c)}
         /\ \A d \in Call : d # c => Passed(d)' = Passed(d)
<1>1. pos[c] \in Nat /\ pos[c] >= 1 /\ Len(EventsOf[c]) \in Nat /\ pos[c] <= Len(EventsOf[c])
  BY CallAssumption DEF TypeOK
<1>2. Passed(c)' = {EventsOf[c][i] : i \in 1 .. pos[c]}
  <2>1. CASE pos[c] < Len(EventsOf[c])
    <3>1. pc'[c] = "sending" /\ pos'[c] = pos[c] + 1
      BY <2>1 DEF Advance, TypeOK
    <3>2. pos'[c] - 1 = pos[c]
      BY <1>1, <3>1
    <3>. QED
      BY <3>1, <3>2 DEF Passed
  <2>2. CASE ~(pos[c] < Len(EventsOf[c]))
    BY <2>2 DEF Advance, Passed, TypeOK
  <2>. QED
    BY <2>1, <2>2
<1>3. 1 .. pos[c] = (1 .. pos[c] - 1) \cup {pos[c]}
  BY <1>1
<1>4. Passed(c) = {EventsOf[c][i] : i \in 1 .. pos[c] - 1}
  BY DEF Passed
<1>5. \A d \in Call : d # c => pc'[d] = pc[d] /\ pos'[d] = pos[d]
  BY DEF Advance, TypeOK
<1>. QED
  BY <1>2, <1>3, <1>4, <1>5 DEF Passed, Current

\* A step that advances no call and settles no state to "done" moves past nothing.
LEMMA PassedKept ==
  ASSUME TypeOK, UNCHANGED pos, \A c \in Call : pc'[c] = "done" <=> pc[c] = "done"
  PROVE  \A c \in Call : Passed(c)' = Passed(c)
BY DEF Passed

\* The event a call works on is not one any call has moved past: no event is in
\* two lists, or twice in one.
LEMMA CurrentIsNew ==
  ASSUME TypeOK, NEW c \in Call, pc[c] # "done", NEW d \in Call
  PROVE  Current(c) \notin Passed(d)
<1>. SUFFICES ASSUME Current(c) \in Passed(d) PROVE FALSE
  OBVIOUS
<1>1. PICK i \in Nat : /\ 1 <= i /\ i <= pos[d] /\ EventsOf[d][i] = Current(c)
                       /\ pc[d] # "done" => i < pos[d]
  <2>. pos[d] \in Nat
    BY DEF TypeOK
  <2>. QED
    BY DEF Passed
<1>2. i \in DOMAIN EventsOf[d] /\ pos[c] \in DOMAIN EventsOf[c]
  BY <1>1, CallAssumption DEF TypeOK
<1>3. c = d /\ pos[c] = i
  BY <1>1, <1>2, CallAssumption DEF Current
<1>. QED
  BY <1>1, <1>3

\* Drainers do not touch the calls, and every step keeps what happened before.
LEMMA DrainLeavesCalls ==
  ASSUME NEW d \in Drainer, DrainStep(d) PROVE UNCHANGED <<pc, pos, stored, dropped>>
BY DEF DrainStep, DrainAnswered, BeginDrain, DropRow, DrainSettled, DrainFails, DrainRaises,
       DeleteSettled, Reschedule, EndDrain, callVars, history

\* publish() works on its own events: the drains' positions stay.
LEMMA PublishLeavesDrains ==
  ASSUME NEW c \in Call, PublishStep(c)
  PROVE  UNCHANGED <<phase, seen, cur, tries>> /\ (UNCHANGED disk \/ EnqueueEvent(c))
BY DEF PublishStep, StartPublish, PublishSettled, PublishAgain, PublishGivesUp, PublishRaises,
       EnqueueEvent, EnqueueFails, CancelPublish, drainVars, history, queueVars

\* What the relay saw or refused, and what was queued, is never forgotten.
LEMMA HistoryGrows ==
  ASSUME TypeOK, [Next]_vars
  PROVE  /\ got \subseteq got' /\ refused \subseteq refused'
         /\ stored \subseteq stored' /\ dropped \subseteq dropped'
         /\ \A e \in Event : tries[e] <= tries'[e]
<1>. USE DEF history
<1>0. \A e \in Event : tries[e] \in Nat
  BY DEF TypeOK
<1>1. ASSUME NEW c \in Call, PublishStep(c)
      PROVE  /\ got \subseteq got' /\ refused \subseteq refused'
             /\ stored \subseteq stored' /\ dropped \subseteq dropped' /\ tries' = tries
  BY <1>1 DEF PublishStep, StartPublish, PublishSettled, PublishAgain, PublishGivesUp,
     PublishRaises, EnqueueEvent, EnqueueFails, CancelPublish, Post
<1>2. ASSUME NEW d \in Drainer, DrainStep(d)
      PROVE  /\ got \subseteq got' /\ refused \subseteq refused'
             /\ stored \subseteq stored' /\ dropped \subseteq dropped'
             /\ \A e \in Event : tries[e] <= tries'[e]
  <2>1. CASE DrainFails(d)
    <3>1. PICK e \in NextRows(d) : Post(e, "transient") /\ tries' = [tries EXCEPT ![e] = @ + 1]
      BY <2>1 DEF DrainFails
    <3>. QED
      BY <2>1, <3>1, <1>0 DEF DrainFails, Post, TypeOK
  <2>2. CASE ~DrainFails(d)
    BY <1>0, <1>2, <2>2 DEF DrainStep, DrainAnswered, BeginDrain, DropRow, DrainSettled,
       DrainRaises, DeleteSettled, Reschedule, EndDrain, Post
  <2>. QED
    BY <2>1, <2>2
<1>. QED
  BY <1>0, <1>1, <1>2 DEF Next, Sweep, Trim, GoDown, ComeUp, PassTime, vars

\* Every step keeps the accounting of the calls.
LEMMA CallInvStep ==
  ASSUME TypeOK, CallInv, [Next]_vars PROVE CallInv'
<1>. USE DEF CallInv
<1>1. Accounted \subseteq Accounted' /\ stored \subseteq stored'
  BY HistoryGrows DEF Accounted
<1>2. ASSUME \A c \in Call : Passed(c)' = Passed(c), stored' = stored PROVE CallInv'
  BY <1>1, <1>2 DEF PassedIsAccounted, StoredArePassed
<1>3. ASSUME NEW c \in Call, Advance(c), pc[c] # "done", Current(c) \in Accounted',
             stored' \subseteq stored \cup {Current(c)}
      PROVE CallInv'
  BY <1>1, <1>3, AdvancePasses DEF PassedIsAccounted, StoredArePassed
<1>4. ASSUME NEW c \in Call, PublishStep(c) PROVE CallInv'
  <2>. USE DEF history
  <2>1. CASE StartPublish(c) \/ CancelPublish(c)
    BY <1>2, <2>1, PassedKept DEF StartPublish, CancelPublish, TypeOK
  <2>2. CASE PublishSettled(c)
    <3>1. Current(c) \in got' \cup refused'
      BY <2>2, PostType, CurrentType DEF PublishSettled
    <3>. QED
      BY <1>3, <2>2, <3>1 DEF PublishSettled, Accounted
  <2>3. CASE PublishAgain(c)
    BY <1>2, <2>3, PassedKept DEF PublishAgain
  <2>4. CASE PublishGivesUp(c)
    <3>1. CASE enabled
      BY <1>2, <2>4, <3>1, PassedKept DEF PublishGivesUp, TypeOK
    <3>2. CASE ~enabled
      BY <1>3, <2>4, <3>2 DEF PublishGivesUp, Accounted
    <3>. QED
      BY <3>1, <3>2
  <2>5. CASE PublishRaises(c)
    BY <1>2, <2>5, PassedKept DEF PublishRaises, TypeOK
  <2>6. CASE EnqueueEvent(c) \/ EnqueueFails(c)
    BY <1>3, <2>6 DEF EnqueueEvent, EnqueueFails, Accounted
  <2>. QED
    BY <1>4, <2>1, <2>2, <2>3, <2>4, <2>5, <2>6 DEF PublishStep
<1>5. ASSUME NEW d \in Drainer, DrainStep(d) PROVE CallInv'
  BY <1>2, <1>5, DrainLeavesCalls, PassedKept
<1>6. CASE Sweep \/ Trim \/ ComeUp \/ PassTime \/ UNCHANGED vars
  BY <1>2, <1>6, PassedKept DEF Sweep, Trim, ComeUp, PassTime, vars, callVars, history
<1>7. CASE GoDown
  BY <1>2, <1>7, PassedKept DEF GoDown, TypeOK, history
<1>. QED
  BY <1>4, <1>5, <1>6, <1>7 DEF Next

\* The accounting of publish(): an event that a call has passed was delivered,
\* refused or queued.
THEOREM CallInvariant == Spec => []CallInv
<1>1. Init => CallInv
  BY CallAssumption DEF Init, CallInv, PassedIsAccounted, StoredArePassed, Passed
<1>2. TypeOK /\ CallInv /\ [Next]_vars => CallInv'
  BY CallInvStep
<1>. QED
  BY <1>1, <1>2, TypeCorrect, PTL DEF Spec

\* publish() skips no event: each one it moved past is with the relay, refused,
\* written to the queue or logged as dropped, for any lists, answers and restarts.
THEOREM NothingSkipped == Spec => []PassedIsAccounted
BY CallInvariant, PTL DEF CallInv

\* What a step does to the rows: it gives them up for a reason, adds at most the
\* current event of a call, and never raises a count past the failed attempts.
LEMMA QueueInvStep ==
  ASSUME TypeOK, QueueInv, [Next]_vars
  PROVE  /\ QueueInv' /\ LeavesForReason
         /\ \A e \in disk' \ disk : \E c \in Call : pc[c] = "enqueue" /\ e = Current(c)
<1>. USE DEF QueueInv
<1>0. QueueTypeOK /\ \A e \in Event : retry[e] \in Nat /\ tries[e] \in Nat /\ tries[e] <= tries'[e]
      /\ \A d \in Drainer : seen[d][e] \in Nat
  BY HistoryGrows DEF TypeOK, QueueTypeOK
<1>00. TypeOK'
  BY TypeCorrectStep
<1>1. ASSUME UNCHANGED <<phase, seen, cur>>, \A e \in Event : retry'[e] <= retry[e]
      PROVE  QueueInv'
  BY <1>0, <1>00, <1>1, HistoryGrows DEF CountsAreReal, DeletesAreSettled, TypeOK, QueueTypeOK
<1>2. ASSUME NEW c \in Call, PublishStep(c)
      PROVE  /\ QueueInv' /\ disk \subseteq disk'
             /\ \A e \in disk' \ disk : pc[c] = "enqueue" /\ e = Current(c)
  <2>1. CASE EnqueueEvent(c)
    BY <1>0, <1>1, <1>2, <2>1, InsertType, CurrentType, PublishLeavesDrains DEF EnqueueEvent
  <2>2. CASE ~EnqueueEvent(c)
    <3>1. UNCHANGED queueVars
      BY <1>2, <2>2 DEF PublishStep, StartPublish, PublishSettled, PublishAgain,
         PublishGivesUp, PublishRaises, EnqueueFails, CancelPublish
    <3>. QED
      BY <1>0, <1>1, <1>2, <3>1, PublishLeavesDrains DEF queueVars
  <2>. QED
    BY <2>1, <2>2
<1>3. ASSUME NEW d \in Drainer, DrainStep(d)
      PROVE  QueueInv' /\ LeavesForReason /\ disk' \subseteq disk
  <2>. USE DEF Goto, Done
  <2>1. CASE BeginDrain(d)
    BY <1>0, <1>00, <2>1 DEF BeginDrain, queueVars, history, CountsAreReal, DeletesAreSettled,
       LeavesForReason, TypeOK
  <2>2. CASE DropRow(d)
    <3>1. PICK e \in NextRows(d) : /\ seen[d][e] >= MaxRetriesFor(e) \/ e \in Damageable
                                   /\ Delete(e)
      BY <2>2 DEF DropRow
    <3>2. e \in Event
      BY NextRowsType
    <3>3. disk' = disk \ {e} /\ \A x \in Event : retry'[x] <= retry[x]
      BY <1>0, <3>1, RemoveRowsType DEF Delete, QueueTypeOK
    <3>4. MayLeave(e)
      BY <1>0, <3>1, <3>2, LimitAssumption DEF MayLeave, CountsAreReal, MaxRetriesFor
    <3>5. QueueInv'
      <4>1. phase' = phase /\ seen' = seen /\ cur' = cur
        BY <2>2 DEF DropRow
      <4>. QED
        BY <1>1, <3>3, <4>1
    <3>. QED
      BY <3>3, <3>4, <3>5 DEF LeavesForReason
  <2>3. CASE DrainSettled(d)
    <3>1. PICK e \in NextRows(d) : \E answer \in {"delivered", "permanent"} :
            Post(e, answer) /\ cur' = [cur EXCEPT ![d] = e]
      BY <2>3 DEF DrainSettled
    <3>2. e \in got' \cup refused'
      BY <3>1, NextRowsType, PostType
    <3>. QED
      BY <1>0, <1>00, <2>3, <3>1, <3>2, HistoryGrows DEF DrainSettled, queueVars, CountsAreReal,
         DeletesAreSettled, LeavesForReason, TypeOK
  <2>4. CASE DrainFails(d)
    <3>1. PICK e \in NextRows(d) : /\ Post(e, "transient")
                                   /\ tries' = [tries EXCEPT ![e] = @ + 1]
                                   /\ cur' = [cur EXCEPT ![d] = e]
      BY <2>4 DEF DrainFails
    <3>2. e \in Event /\ seen[d][e] < tries'[e]
      BY <1>0, <3>1, NextRowsType DEF CountsAreReal, TypeOK
    <3>3. \A b \in Drainer : phase'[b] = "retry" => seen'[b][cur'[b]] < tries'[cur'[b]]
      <4>1. SUFFICES ASSUME NEW b \in Drainer, phase'[b] = "retry", b # d
                     PROVE  seen'[b][cur'[b]] < tries'[cur'[b]]
        BY <2>4, <3>1, <3>2 DEF DrainFails, TypeOK
      <4>2. phase[b] = "retry" /\ cur'[b] = cur[b] /\ seen'[b] = seen[b] /\ cur[b] \in Event
        BY <2>4, <3>1, <4>1 DEF DrainFails, TypeOK
      <4>. QED
        BY <1>0, <1>00, <4>2 DEF CountsAreReal, TypeOK
    <3>. QED
      BY <1>0, <1>00, <2>4, <3>3, HistoryGrows DEF DrainFails, queueVars, CountsAreReal,
         DeletesAreSettled, LeavesForReason, TypeOK
  <2>5. CASE DrainRaises(d) \/ EndDrain(d)
    <3>1. UNCHANGED <<disk, retry, cur>> /\ seen' = [seen EXCEPT ![d] = NothingSeen]
      BY <2>5 DEF DrainRaises, EndDrain, queueVars
    <3>2. \A b \in Drainer : phase'[b] \in {"retry", "delete"} => phase[b] = phase'[b] /\ b # d
      BY <2>5 DEF DrainRaises, EndDrain, TypeOK
    <3>3. \A b \in Drainer : \A e \in Event : seen'[b][e] <= seen[b][e]
      BY <1>0, <3>1 DEF NothingSeen, TypeOK
    <3>4. CountsAreReal'
      <4>1. \A b \in Drainer : phase'[b] = "retry" =>
              seen'[b][cur'[b]] = seen[b][cur[b]] /\ cur[b] \in Event /\ phase[b] = "retry"
        BY <3>1, <3>2 DEF TypeOK
      <4>2. \A b \in Drainer : \A e \in Event : seen'[b][e] \in Nat /\ tries'[e] \in Nat
        BY <1>00 DEF TypeOK
      <4>. QED
        BY <1>0, <3>1, <3>3, <4>1, <4>2 DEF CountsAreReal
    <3>5. DeletesAreSettled'
      BY <3>1, <3>2, HistoryGrows DEF DeletesAreSettled
    <3>. QED
      BY <3>1, <3>4, <3>5 DEF LeavesForReason
  <2>6. CASE DeleteSettled(d)
    <3>1. disk' = disk \ {cur[d]} /\ \A x \in Event : retry'[x] <= retry[x]
      BY <1>0, <2>6, RemoveRowsType DEF DeleteSettled, Delete, QueueTypeOK
    <3>2. MayLeave(cur[d])
      BY <2>6 DEF DeleteSettled, DeletesAreSettled, MayLeave
    <3>. QED
      BY <1>0, <1>00, <2>6, <3>1, <3>2 DEF DeleteSettled, history, CountsAreReal,
         DeletesAreSettled, LeavesForReason, TypeOK, QueueTypeOK
  <2>7. CASE Reschedule(d)
    <3>1. cur[d] \in Event /\ seen[d][cur[d]] + 1 \in Nat /\ seen[d][cur[d]] + 1 <= tries[cur[d]]
      BY <1>0, <2>7 DEF Reschedule, CountsAreReal, TypeOK
    <3>2. disk' = disk /\ \A x \in Event : retry'[x] <= tries[x]
      BY <1>0, <2>7, <3>1, BackoffType, UpdateRetryType DEF Reschedule, CountsAreReal
    <3>. QED
      BY <1>0, <1>00, <2>7, <3>2 DEF Reschedule, history, CountsAreReal,
         DeletesAreSettled, LeavesForReason, TypeOK
  <2>. QED
    BY <1>3, <2>1, <2>2, <2>3, <2>4, <2>5, <2>6, <2>7 DEF DrainStep, DrainAnswered
<1>4. CASE Sweep
  <2>1. disk' = disk \ Expired /\ \A x \in Event : retry'[x] <= retry[x]
    BY <1>0, <1>4, RemoveRowsType DEF Sweep, CleanupExpired, QueueTypeOK
  <2>2. QueueInv'
    BY <1>0, <1>00, <1>4, <2>1 DEF Sweep, Goto, history, CountsAreReal, DeletesAreSettled,
       TypeOK, QueueTypeOK, Drainer
  <2>. QED
    BY <2>1, <2>2 DEF Expired, LeavesForReason, MayLeave
<1>5. CASE Trim
  <2>1. /\ disk' \subseteq disk /\ \A x \in Event : retry'[x] <= retry[x]
        /\ \A x \in disk \ disk' :
             Oversized /\ (x \in Critical => disk \ Critical \subseteq disk \ disk')
    BY <1>0, <1>5, CleanupBySizeType DEF Trim
  <2>2. QueueInv'
    BY <1>0, <1>00, <1>5, <2>1 DEF Trim, Goto, history, CountsAreReal, DeletesAreSettled,
       TypeOK, QueueTypeOK, Drainer
  <2>. QED
    BY <2>1, <2>2 DEF LeavesForReason, MayLeave
<1>6. CASE GoDown \/ ComeUp \/ PassTime \/ UNCHANGED vars
  <2>1. UNCHANGED <<disk, retry, tries, got, refused>>
    BY <1>6 DEF GoDown, ComeUp, PassTime, Tick, vars, queueVars, history
  <2>2. \A b \in Drainer : phase'[b] \in {"retry", "delete"} =>
          phase'[b] = phase[b] /\ cur'[b] = cur[b] /\ seen'[b] = seen[b]
    BY <1>6 DEF GoDown, ComeUp, PassTime, vars, drainVars, TypeOK
  <2>3. \A b \in Drainer : \A e \in Event : seen'[b][e] <= tries[e]
    BY <1>0, <1>6 DEF GoDown, ComeUp, PassTime, vars, NothingSeen, drainVars, CountsAreReal
  <2>. QED
    BY <2>1, <2>2, <2>3 DEF CountsAreReal, DeletesAreSettled, LeavesForReason
<1>. QED
  BY <1>2, <1>3, <1>4, <1>5, <1>6 DEF Next, LeavesForReason

\* What ties a drain's position and its counters to the rows it works on.
THEOREM QueueInvariant == Spec => []QueueInv
<1>1. Init => QueueInv
  BY DEF Init, QueueInit, QueueInv, CountsAreReal, DeletesAreSettled, Drainer
<1>2. TypeOK /\ QueueInv /\ [Next]_vars => QueueInv'
  BY QueueInvStep
<1>. QED
  BY <1>1, <1>2, TypeCorrect, PTL DEF Spec

\* A row leaves the table only for one of the reasons of MayLeave: in particular a
\* row dropped for its retry count was really tried that often, although the
\* drainers overlap and decide on counts read earlier.
THEOREM RowsLeaveForReason == Spec => NoRowLost
<1>1. TypeOK /\ QueueInv /\ [Next]_vars => [LeavesForReason]_vars
  BY QueueInvStep
<1>. QED
  BY <1>1, TypeCorrect, QueueInvariant, PTL DEF Spec, NoRowLost

\* A row that left stays away: no late update, stale batch or restart restores it.
THEOREM RowsStayAway == Spec => NoRowReturns
<1>1. TypeOK /\ QueueInv /\ CallInv /\ [Next]_vars => [(stored \ disk) \cap disk' = {}]_vars
  <2>. SUFFICES ASSUME TypeOK, QueueInv, CallInv, [Next]_vars,
                       NEW e \in stored \ disk, e \in disk'
                PROVE  FALSE
    OBVIOUS
  <2>1. PICK c \in Call : pc[c] = "enqueue" /\ e = Current(c)
    BY QueueInvStep
  <2>. QED
    BY <2>1, CurrentIsNew DEF CallInv, StoredArePassed
<1>. QED
  BY <1>1, TypeCorrect, QueueInvariant, CallInvariant, PTL DEF Spec, NoRowReturns

----------------------------------------------------------------------------
\* The order of a call's events, and the outbox.

\* What drainers hold comes from the table.
RowsWereStored ==
  \A d \in Drainer : /\ batch[d] \subseteq stored
                     /\ phase[d] \in {"delete", "retry"} => cur[d] \in stored

\* No event ahead of the one its call works on has reached the relay.
NoneAhead ==
  \A c \in Call : \A j \in DOMAIN EventsOf[c] : EventsOf[c][j] \in got => j <= pos[c]

\* A POST of a drainer is about an event that was queued.
LEMMA DrainSends ==
  ASSUME TypeOK, RowsWereStored, NEW d \in Drainer, DrainStep(d), UNCHANGED got => FALSE
  PROVE  \E e \in stored : got' = got \cup {e}
<1>1. NextRows(d) \subseteq stored
  BY NextRowsType DEF RowsWereStored
<1>2. CASE DrainSettled(d)
  BY <1>1, <1>2 DEF DrainSettled, Post
<1>3. CASE DrainFails(d)
  BY <1>1, <1>3 DEF DrainFails, Post
<1>4. CASE DrainRaises(d)
  BY <1>1, <1>4 DEF DrainRaises, Post
<1>. QED
  BY <1>2, <1>3, <1>4 DEF DrainStep, DrainAnswered, BeginDrain, DropRow, DeleteSettled,
     Reschedule, EndDrain, history

\* The rows a drainer works on stay those of the table.
LEMMA RowsWereStoredStep ==
  ASSUME TypeOK, RowsWereStored, [Next]_vars PROVE RowsWereStored'
<1>. USE DEF Goto, Done, history, drainVars
<1>1. stored \subseteq stored'
  BY HistoryGrows
<1>2. ASSUME UNCHANGED <<phase, batch, cur>> PROVE RowsWereStored'
  BY <1>1, <1>2 DEF RowsWereStored
<1>3. ASSUME NEW c \in Call, PublishStep(c) PROVE UNCHANGED <<phase, batch, cur>>
  BY <1>3 DEF PublishStep, StartPublish, PublishSettled, PublishAgain, PublishGivesUp,
     PublishRaises, EnqueueEvent, EnqueueFails, CancelPublish
<1>4. ASSUME NEW d \in Drainer, DrainStep(d) PROVE RowsWereStored'
  <2>1. NextRows(d) \subseteq batch[d] /\ batch[d] \subseteq stored /\ stored' = stored
    BY <1>4, NextRowsType, DrainLeavesCalls DEF RowsWereStored
  <2>2. CASE BeginDrain(d)
    <3>1. PICK B \in ReadyBatches : batch' = [batch EXCEPT ![d] = B]
      BY <2>2 DEF BeginDrain
    <3>2. B \subseteq stored
      BY DEF ReadyBatches, Ready, TypeOK
    <3>. QED
      BY <2>1, <2>2, <3>1, <3>2 DEF BeginDrain, RowsWereStored, TypeOK
  <2>3. CASE DropRow(d)
    BY <2>1, <2>3 DEF DropRow, RowsWereStored, TypeOK
  <2>4. CASE DrainSettled(d)
    BY <2>1, <2>4 DEF DrainSettled, RowsWereStored, TypeOK
  <2>5. CASE DrainFails(d)
    BY <2>1, <2>5 DEF DrainFails, RowsWereStored, TypeOK
  <2>6. CASE DrainRaises(d)
    BY <2>1, <2>6 DEF DrainRaises, RowsWereStored, TypeOK
  <2>7. CASE DeleteSettled(d) \/ Reschedule(d) \/ EndDrain(d)
    BY <2>1, <2>7 DEF DeleteSettled, Reschedule, EndDrain, RowsWereStored, TypeOK
  <2>. QED
    BY <1>4, <2>2, <2>3, <2>4, <2>5, <2>6, <2>7 DEF DrainStep, DrainAnswered
<1>5. CASE Sweep \/ Trim
  BY <1>5 DEF Sweep, Trim, RowsWereStored, TypeOK, Drainer
<1>6. CASE GoDown
  BY <1>6 DEF GoDown, RowsWereStored
<1>7. CASE ComeUp
  BY <1>7 DEF ComeUp, RowsWereStored
<1>8. CASE PassTime \/ UNCHANGED vars
  BY <1>2, <1>8 DEF PassTime, vars
<1>. QED
  BY <1>2, <1>3, <1>4, <1>5, <1>6, <1>7, <1>8 DEF Next

\* A call goes on, never back.
LEMMA PositionsGrow ==
  ASSUME TypeOK, [Next]_vars PROVE \A c \in Call : pos[c] <= pos'[c]
<1>. \A c \in Call : pos[c] \in Nat
  BY DEF TypeOK
<1>1. ASSUME NEW c \in Call, Advance(c) PROVE \A d \in Call : pos[d] <= pos'[d]
  <2>1. pos' = pos \/ pos' = [pos EXCEPT ![c] = pos[c] + 1]
    BY <1>1 DEF Advance
  <2>. QED
    BY <2>1 DEF TypeOK
<1>2. ASSUME NEW c \in Call, PublishStep(c) PROVE UNCHANGED pos \/ Advance(c)
  BY <1>2 DEF PublishStep, StartPublish, PublishSettled, PublishAgain, PublishGivesUp,
     PublishRaises, EnqueueEvent, EnqueueFails, CancelPublish
<1>3. ASSUME NEW d \in Drainer, DrainStep(d) PROVE UNCHANGED pos
  BY <1>3, DrainLeavesCalls
<1>4. CASE Sweep \/ Trim \/ GoDown \/ ComeUp \/ PassTime \/ UNCHANGED vars
  BY <1>4 DEF Sweep, Trim, GoDown, ComeUp, PassTime, vars, callVars
<1>. QED
  BY <1>1, <1>2, <1>3, <1>4 DEF Next

\* No step sends an event ahead of its call.
LEMMA NoneAheadStep ==
  ASSUME TypeOK, CallInv, RowsWereStored, NoneAhead, [Next]_vars PROVE NoneAhead'
<1>. SUFFICES ASSUME NEW c \in Call, NEW j \in DOMAIN EventsOf[c], EventsOf[c][j] \in got'
              PROVE  j <= pos'[c]
  BY DEF NoneAhead
<1>0. DOMAIN EventsOf[c] = 1 .. Len(EventsOf[c]) /\ Len(EventsOf[c]) \in Nat
  BY CallAssumption
<1>1. pos[c] \in Nat /\ pos'[c] \in Nat /\ pos[c] <= pos'[c] /\ j \in Nat
  <2>1. TypeOK'
    BY TypeCorrectStep
  <2>2. pos \in [Call -> Nat] /\ pos' \in [Call -> Nat]
    BY <2>1 DEF TypeOK
  <2>. QED
    BY <1>0, <2>2, PositionsGrow
<1>2. ASSUME NEW x \in Call, EventsOf[c][j] = Current(x) PROVE j <= pos[c]
  <2>1. pos[x] \in DOMAIN EventsOf[x]
    BY DEF TypeOK
  <2>. QED
    BY <1>1, <1>2, <2>1, CallAssumption DEF Current
<1>3. ASSUME EventsOf[c][j] \in stored PROVE j <= pos[c]
  <2>1. PICK x \in Call : EventsOf[c][j] \in Passed(x)
    BY <1>3 DEF CallInv, StoredArePassed
  <2>2. PICK i \in 1 .. pos[x] : EventsOf[c][j] = EventsOf[x][i]
    <3>1. pos[x] \in Nat
      BY DEF TypeOK
    <3>. QED
      BY <2>1, <3>1 DEF Passed
  <2>3. i \in DOMAIN EventsOf[x] /\ i <= pos[x]
    BY <2>2, CallAssumption DEF TypeOK
  <2>. QED
    BY <2>2, <2>3, CallAssumption
<1>4. CASE EventsOf[c][j] \in got
  BY <1>1, <1>4 DEF NoneAhead
<1>5. ASSUME NEW x \in Call, PublishStep(x), EventsOf[c][j] \notin got PROVE j <= pos[c]
  <2>1. EventsOf[c][j] = Current(x)
    BY <1>5 DEF PublishStep, StartPublish, PublishSettled, PublishAgain, PublishGivesUp,
       PublishRaises, EnqueueEvent, EnqueueFails, CancelPublish, Post, history
  <2>. QED
    BY <1>2, <2>1
<1>6. ASSUME NEW d \in Drainer, DrainStep(d), EventsOf[c][j] \notin got PROVE j <= pos[c]
  BY <1>3, <1>6, DrainSends
<1>7. CASE Sweep \/ Trim \/ GoDown \/ ComeUp \/ PassTime \/ UNCHANGED vars
  BY <1>4, <1>7 DEF Sweep, Trim, GoDown, ComeUp, PassTime, vars, history
<1>. QED
  BY <1>1, <1>4, <1>5, <1>6, <1>7 DEF Next

\* What drainers hold was queued, and no event is sent ahead of its call.
THEOREM OrderInvariant == Spec => [](RowsWereStored /\ NoneAhead)
<1>1. Init => RowsWereStored /\ NoneAhead
  BY DEF Init, RowsWereStored, NoneAhead, Drainer
<1>2. TypeOK /\ CallInv /\ RowsWereStored /\ NoneAhead /\ [Next]_vars
        => (RowsWereStored /\ NoneAhead)'
  BY RowsWereStoredStep, NoneAheadStep
<1>. QED
  BY <1>1, <1>2, TypeCorrect, CallInvariant, PTL DEF Spec

\* The queue is the only way to be overtaken, for any lists of events: what the relay
\* has of a call lies at most at the call's position, and all before it is accounted for.
THEOREM OnlyQueuedAreOvertaken == Spec => []OvertakesOnlyQueued
<1>1. TypeOK /\ CallInv /\ NoneAhead => OvertakesOnlyQueued
  <2>. SUFFICES ASSUME TypeOK, CallInv, NoneAhead, NEW c \in Call,
                       NEW j \in DOMAIN EventsOf[c], NEW i \in 1 .. j - 1,
                       EventsOf[c][j] \in got
                PROVE  EventsOf[c][i] \in Accounted
    BY DEF OvertakesOnlyQueued
  <2>1. j <= pos[c] /\ pos[c] \in Nat /\ j \in Nat
    BY CallAssumption DEF NoneAhead, TypeOK
  <2>2. EventsOf[c][i] \in Passed(c)
    BY <2>1 DEF Passed
  <2>. QED
    BY <2>2 DEF CallInv, PassedIsAccounted
<1>. QED
  BY <1>1, TypeCorrect, CallInvariant, OrderInvariant, PTL

----------------------------------------------------------------------------
\* The outbox.

PassedCount == [c \in Call |-> IF pc[c] = "done" THEN pos[c] ELSE pos[c] - 1]

\* A call that is not over has come to its current event.
LEMMA ComesToCurrent ==
  ASSUME TypeOK, NEW c \in Call, pc[c] # "done"
  PROVE  Promise!HasNext(c) /\ Promise!NextOf(c) = Current(c)
<1>1. pos[c] \in Nat /\ pos[c] \in 1 .. Len(EventsOf[c]) /\ Len(EventsOf[c]) \in Nat
  BY CallAssumption DEF TypeOK
<1>2. PassedCount[c] = pos[c] - 1
  BY DEF PassedCount
<1>. QED
  BY <1>1, <1>2 DEF PassedCount, Promise!HasNext, Promise!NextOf, Current

\* Moving past the current event is one step of the count.
LEMMA AdvanceCounts ==
  ASSUME TypeOK, NEW c \in Call, pc[c] # "done", Advance(c)
  PROVE  PassedCount' = [PassedCount EXCEPT ![c] = @ + 1]
<1>1. pos[c] \in Nat /\ \A d \in Call : d # c => pc'[d] = pc[d] /\ pos'[d] = pos[d]
  BY DEF Advance, TypeOK
<1>2. PassedCount[c] = pos[c] - 1
  BY DEF PassedCount
<1>3. PassedCount'[c] = pos[c]
  <2>1. CASE pos[c] < Len(EventsOf[c])
    <3>1. pc'[c] = "sending" /\ pos'[c] = pos[c] + 1
      BY <2>1 DEF Advance, TypeOK
    <3>. QED
      BY <1>1, <3>1 DEF PassedCount
  <2>2. CASE ~(pos[c] < Len(EventsOf[c]))
    BY <2>2 DEF Advance, PassedCount, TypeOK
  <2>. QED
    BY <2>1, <2>2
<1>4. \A d \in Call : PassedCount'[d] = IF d = c THEN PassedCount[c] + 1 ELSE PassedCount[d]
  BY <1>1, <1>2, <1>3 DEF PassedCount
<1>5. /\ PassedCount = [d \in Call |-> PassedCount[d]]
      /\ PassedCount' = [d \in Call |-> PassedCount'[d]]
  BY DEF PassedCount
<1>. QED
  BY <1>4, <1>5

\* A step that ends no call and moves none leaves the count alone.
LEMMA CountKept ==
  ASSUME TypeOK, UNCHANGED pos, \A c \in Call : pc'[c] = "done" <=> pc[c] = "done"
  PROVE  UNCHANGED PassedCount
BY DEF PassedCount

\* What a POST does to the relay is what Outbox lets it do.
LEMMA PostReaches ==
  ASSUME NEW e, NEW answer, Post(e, answer) PROVE Promise!Reach(e)
BY DEF Post, Promise!Reach

\* Each step of publish() is an attempt, a pass or a stutter of Outbox.
LEMMA PublishImplements ==
  ASSUME TypeOK, CallInv, NEW c \in Call, PublishStep(c)
  PROVE  [Promise!Next]_(Promise!vars)
<1>. USE DEF history, queueVars
<1>1. CASE StartPublish(c) \/ CancelPublish(c)
  <2>1. UNCHANGED PassedCount
    BY <1>1, CountKept DEF StartPublish, CancelPublish, TypeOK
  <2>. QED
    BY <1>1, <2>1 DEF StartPublish, CancelPublish, PassedCount, Promise!vars
<1>2. ASSUME pc[c] # "done", Advance(c), Promise!Reach(Current(c)), UNCHANGED <<disk, stored>>,
             \/ Current(c) \in got' \cup refused' /\ UNCHANGED dropped
             \/ dropped' = dropped \cup {Current(c)}
      PROVE  Promise!Next
  BY <1>2, ComesToCurrent, AdvanceCounts DEF PassedCount, Promise!Next, Promise!Pass
<1>3. ASSUME pc[c] # "done", Promise!Reach(Current(c)), UNCHANGED <<disk, stored, dropped>>,
             UNCHANGED PassedCount
      PROVE  Promise!Next
  BY <1>3, ComesToCurrent DEF PassedCount, Promise!Next, Promise!Attempt
<1>4. CASE PublishSettled(c)
  <2>1. PICK answer \in {"delivered", "permanent"} : Post(Current(c), answer)
    BY <1>4 DEF PublishSettled
  <2>. QED
    BY <1>2, <1>4, <2>1, CurrentType, PostType, PostReaches DEF PublishSettled
<1>5. CASE PublishAgain(c)
  BY <1>3, <1>5, CountKept, PostReaches DEF PublishAgain
<1>6. CASE PublishGivesUp(c)
  <2>1. CASE enabled
    <3>1. UNCHANGED PassedCount
      BY <1>6, <2>1, CountKept DEF PublishGivesUp, TypeOK
    <3>. QED
      BY <1>3, <1>6, <2>1, <3>1, PostReaches DEF PublishGivesUp
  <2>2. CASE ~enabled
    BY <1>2, <1>6, <2>2, PostReaches DEF PublishGivesUp
  <2>. QED
    BY <2>1, <2>2
<1>7. CASE PublishRaises(c)
  <2>1. UNCHANGED PassedCount
    BY <1>7, CountKept DEF PublishRaises, TypeOK
  <2>. QED
    BY <1>3, <1>7, <2>1, PostReaches DEF PublishRaises
<1>8. CASE EnqueueEvent(c)
  <2>1. Current(c) \notin stored /\ disk \subseteq stored
    BY <1>8, CurrentIsNew DEF EnqueueEvent, CallInv, StoredArePassed, TypeOK
  <2>2. /\ disk' = disk \cup {Current(c)} /\ stored' = stored \cup {Current(c)}
        /\ UNCHANGED <<got, refused, dropped>>
    BY <1>8 DEF EnqueueEvent, Insert
  <2>3. stored' \ disk' = stored \ disk
    BY <2>1, <2>2
  <2>4. Promise!HasNext(c) /\ Promise!NextOf(c) = Current(c)
        /\ PassedCount' = [PassedCount EXCEPT ![c] = @ + 1]
    BY <1>8, ComesToCurrent, AdvanceCounts DEF EnqueueEvent
  <2>5. Promise!Reach(Current(c))
    BY <2>2 DEF Promise!Reach
  <2>6. Promise!Pass(c)
    BY <2>1, <2>2, <2>3, <2>4, <2>5 DEF PassedCount, Promise!Pass
  <2>. QED
    BY <2>6 DEF Promise!Next
<1>9. CASE EnqueueFails(c)
  <2>1. Promise!Reach(Current(c))
    BY <1>9 DEF EnqueueFails, Promise!Reach
  <2>. QED
    BY <1>2, <1>9, <2>1 DEF EnqueueFails
<1>. QED
  BY <1>1, <1>4, <1>5, <1>6, <1>7, <1>8, <1>9 DEF PublishStep

\* Rows that go without a change for the calls or the relay are a step of Outbox.
LEMMA LeaveImplements ==
  ASSUME disk \subseteq stored, disk' \subseteq disk, UNCHANGED PassedCount,
         UNCHANGED <<stored, got, refused, dropped>>
  PROVE  Promise!Next
<1>. DEFINE E == disk \ disk'
<1>1. E \in SUBSET disk /\ disk' = disk \ E /\ stored' \ disk' = (stored \ disk) \cup E
  OBVIOUS
<1>2. Promise!Leave
  BY <1>1 DEF PassedCount, Promise!Leave, Promise!relayVars
<1>. QED
  BY <1>2 DEF Promise!Next

\* Each step of a drainer attempts a queued event, removes rows or does not show.
LEMMA DrainImplements ==
  ASSUME TypeOK, RowsWereStored, NEW d \in Drainer, DrainStep(d)
  PROVE  [Promise!Next]_(Promise!vars)
<1>. USE DEF history, queueVars
<1>1. QueueTypeOK /\ disk \subseteq stored /\ NextRows(d) \subseteq stored
  BY NextRowsType DEF TypeOK, RowsWereStored
<1>2. UNCHANGED PassedCount /\ UNCHANGED <<stored, dropped>>
  BY DrainLeavesCalls, CountKept
<1>3. ASSUME NEW e \in stored, Promise!Reach(e), UNCHANGED disk PROVE Promise!Next
  <2>1. e \in disk \cup (stored \ disk)
    BY <1>3
  <2>. QED
    BY <1>2, <1>3, <2>1 DEF PassedCount, Promise!Next, Promise!Attempt
<1>4. CASE DrainSettled(d)
  BY <1>1, <1>3, <1>4, PostReaches DEF DrainSettled
<1>5. CASE DrainFails(d)
  BY <1>1, <1>3, <1>5, PostReaches DEF DrainFails
<1>6. CASE DrainRaises(d)
  BY <1>1, <1>3, <1>6, PostReaches DEF DrainRaises
<1>7. CASE DropRow(d) \/ DeleteSettled(d)
  <2>1. disk' \subseteq disk /\ UNCHANGED <<got, refused>>
    BY <1>7 DEF DropRow, DeleteSettled, Delete, RemoveRows
  <2>. QED
    BY <1>1, <1>2, <2>1, LeaveImplements
<1>8. CASE BeginDrain(d) \/ Reschedule(d) \/ EndDrain(d)
  <2>1. UNCHANGED <<disk, got, refused>>
    BY <1>8 DEF BeginDrain, Reschedule, EndDrain, UpdateRetry
  <2>. QED
    BY <1>2, <2>1 DEF PassedCount, Promise!vars
<1>. QED
  BY <1>4, <1>5, <1>6, <1>7, <1>8 DEF DrainStep, DrainAnswered

\* Every step of the delivery is one of Outbox, or does not show there.
LEMMA StepImplements ==
  ASSUME TypeOK, CallInv, RowsWereStored, [Next]_vars
  PROVE  [Promise!Next]_(Promise!vars)
<1>1. CASE \E c \in Call : PublishStep(c)
  BY <1>1, PublishImplements
<1>2. CASE \E d \in Drainer : DrainStep(d)
  BY <1>2, DrainImplements
<1>3. CASE Sweep \/ Trim
  <2>1. QueueTypeOK /\ disk \subseteq stored
    BY DEF TypeOK
  <2>2. disk' \subseteq disk
    BY <1>3, <2>1, CleanupBySizeType DEF Sweep, Trim, CleanupExpired, RemoveRows
  <2>3. UNCHANGED PassedCount
    BY <1>3 DEF Sweep, Trim, callVars, PassedCount
  <2>. QED
    BY <1>3, <2>1, <2>2, <2>3, LeaveImplements DEF Sweep, Trim, history
<1>4. CASE GoDown \/ ComeUp \/ PassTime \/ UNCHANGED vars
  <2>1. UNCHANGED <<disk, stored, got, refused, dropped>>
    BY <1>4 DEF GoDown, ComeUp, PassTime, Tick, vars, queueVars, history
  <2>2. UNCHANGED PassedCount
    <3>1. UNCHANGED pos /\ \A c \in Call : pc'[c] = "done" <=> pc[c] = "done"
      BY <1>4 DEF GoDown, ComeUp, PassTime, vars, callVars, TypeOK
    <3>. QED
      BY <3>1, CountKept
  <2>. QED
    BY <2>1, <2>2 DEF PassedCount, Promise!vars
<1>. QED
  BY <1>1, <1>2, <1>3, <1>4 DEF Next

\* publish() and the queue behind it implement Outbox, for any calls, events, budgets
\* and limits: its attempts, batches, retries and restarts are attempts, rows that go,
\* or nothing at all.
THEOREM DeliveryImplementsOutbox == Spec => ImplementsOutbox
<1>1. Init => Promise!Init
  BY DEF Init, QueueInit, Promise!Init
<1>2. TypeOK /\ CallInv /\ RowsWereStored /\ NoneAhead /\ [Next]_vars
        => [Promise!Next]_(Promise!vars)
  BY StepImplements
<1>. QED
  BY <1>1, <1>2, TypeCorrect, CallInvariant, OrderInvariant, PTL
     DEF Spec, ImplementsOutbox, Promise!Spec
====
