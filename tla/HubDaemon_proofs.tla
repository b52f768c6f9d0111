---- MODULE HubDaemon_proofs ----
(***************************************************************************)
(* Proofs about HubDaemon for any set of messages and any number of tasks  *)
(* and signals: tracking of the dispatch tasks and the drain at shutdown.  *)
(***************************************************************************)
EXTENDS HubDaemon, TLAPS

\* While the loop runs, and until _cancel_inflight_tasks, each active task is the
\* one its message is tracked by.
Tracked ==
  loop \in Running \cup {"stopping"} =>
    \A t \in Task : stage[t] \in Active => msg[t] \in Msg /\ inflight[msg[t]] = t

\* After _cancel_inflight_tasks no task is active, unless a signal skipped it.
Quiet ==
  loop = "draining" \/ (loop = "closing" /\ ~cutShort) => \A t \in Task : stage[t] \notin Active

\* The entries, and the tasks they name.
Entries ==
  \A m \in Msg : inflight[m] # NoTask =>
    msg[inflight[m]] = m /\ stage[inflight[m]] \notin {"unborn", "gone"}

\* NoTask is no task.
LEMMA NoTaskIsNone == NoTask \notin Task
BY BoundAssumption DEF Task

Inv == TypeOK /\ Tracked /\ Quiet /\ Entries /\ OneActiveDispatch

\* The daemon starts with no task.
LEMMA InitInv == Init => Inv
<1>. SUFFICES ASSUME Init PROVE Inv
  OBVIOUS
<1>1. TypeOK
  <2>1. 0 \in 0 .. MaxSignals
    BY BoundAssumption
  <2>. QED
    BY <2>1 DEF Init, TypeOK, Kind, Stage
<1>. QED
  BY <1>1 DEF Init, Inv, Tracked, Quiet, Entries, OneActiveDispatch, Active

\* A new task appears in stage "ready", its message's only entry; the task tracked
\* before, if any, was done.
LEMMA SpawnInv ==
  ASSUME Inv, loop = "reading", NEW m \in Msg, NEW k \in Kind, ~Busy(m), Spawn(m, k),
         UNCHANGED <<loop, signals, gathered, asked, cutShort>>, lost' \subseteq Msg
  PROVE  Inv'
<1>1. PICK t \in Task :
        /\ stage[t] = "unborn"
        /\ msg' = [msg EXCEPT ![t] = m]
        /\ kind' = [kind EXCEPT ![t] = k]
        /\ stage' = [stage EXCEPT ![t] = "ready"]
        /\ inflight' = [inflight EXCEPT ![m] = t]
  BY DEF Spawn
<1>2. TypeOK'
  BY <1>1 DEF Inv, TypeOK, Stage
<1>3. \A u \in Task : u # t => stage'[u] = stage[u] /\ msg'[u] = msg[u]
  BY <1>1 DEF Inv, TypeOK
<1>4. stage'[t] = "ready" /\ msg'[t] = m /\ inflight'[m] = t
  BY <1>1 DEF Inv, TypeOK
<1>5. \A u \in Task : stage[u] \in Active => msg[u] \in Msg /\ inflight[msg[u]] = u /\ msg[u] # m
  BY NoTaskIsNone DEF Inv, Tracked, Busy, Running, Alive, TypeOK
<1>6. \A n \in Msg : n # m => inflight'[n] = inflight[n] /\ inflight[n] # t
  BY <1>1, NoTaskIsNone DEF Inv, Entries, TypeOK
<1>7. Tracked'
  BY <1>3, <1>4, <1>5, <1>6 DEF Tracked
<1>8. OneActiveDispatch'
  BY <1>3, <1>4, <1>5 DEF Inv, OneActiveDispatch
<1>9. Entries'
  BY <1>2, <1>3, <1>4, <1>6, BoundAssumption DEF Inv, Entries, TypeOK
<1>10. Quiet'
  BY DEF Quiet
<1>. QED
  BY <1>2, <1>7, <1>8, <1>9, <1>10 DEF Inv

\* A step that spawns nothing: no task becomes active or unborn, and tracking of
\* the active ones is kept while it matters.
LEMMA QuietStepInv ==
  ASSUME Inv, TypeOK', UNCHANGED msg,
         \A t \in Task : stage'[t] \in Active => stage[t] \in Active,
         Tracked', Quiet', Entries'
  PROVE  Inv'
BY DEF Inv, OneActiveDispatch

\* Events of the relay; a cancel_task leaves no active dispatch of its message.
LEMMA RelayEventInv ==
  ASSUME Inv, NEW m \in Msg, RelayEvent(m)
  PROVE  Inv' /\ (CancelTask(m) => \A t \in Task : msg'[t] = m => stage'[t] \notin Active)
<1>. USE DEF taskVars
<1>0. loop \in Running /\ loop = "reading" /\ TypeOK
  BY DEF RelayEvent, UserMessage, UserReply, CancelTask, Inv, Running
<1>1. CASE UserMessage(m) /\ ~CancelTask(m)
  <2>1. CASE Busy(m)
    BY <1>1, <2>1 DEF UserMessage, Inv, TypeOK, Tracked, Quiet, Entries, OneActiveDispatch
  <2>2. CASE ~Busy(m)
    BY <1>0, <1>1, <2>2, SpawnInv DEF UserMessage, Kind, TypeOK
  <2>. QED
    BY <1>1, <2>1, <2>2
<1>2. CASE UserReply(m) /\ ~CancelTask(m)
  <2>1. CASE Busy(m)
    BY <1>2, <2>1 DEF UserReply, Inv, TypeOK, Tracked, Quiet, Entries, OneActiveDispatch
  <2>2. CASE ~Busy(m)
    BY <1>0, <1>2, <2>2, SpawnInv DEF UserReply, Kind, TypeOK
  <2>. QED
    BY <1>2, <2>1, <2>2
<1>3. CASE CancelTask(m)
  <2>1. /\ stage' = [t \in Task |->
             IF t = inflight[m] /\ stage[t] \in Alive THEN "unwinding" ELSE stage[t]]
        /\ inflight' = [inflight EXCEPT ![m] = NoTask]
        /\ loop' \in {"reading", "rpc"}
        /\ UNCHANGED <<signals, gathered, msg, kind, asked, cutShort, lost>>
    BY <1>3 DEF CancelTask
  <2>2. TypeOK'
    BY <1>0, <2>1 DEF TypeOK, Stage, Active, Alive
  <2>3. \A t \in Task : stage'[t] \in Active => stage[t] \in Active /\ t # inflight[m]
    BY <2>1 DEF Active, Alive
  <2>4. \A t \in Task : stage[t] \in Active => msg[t] \in Msg /\ inflight[msg[t]] = t
    BY <1>0 DEF Inv, Tracked
  <2>5. Tracked'
    BY <1>0, <2>1, <2>3, <2>4 DEF Tracked, TypeOK
  <2>6. Quiet'
    BY <2>1 DEF Quiet
  <2>7. Entries'
    BY <1>0, <2>1, BoundAssumption DEF Inv, Entries, TypeOK
  <2>8. \A t \in Task : msg'[t] = m => stage'[t] \notin Active
    BY <2>1, <2>3, <2>4
  <2>. QED
    BY <2>1, <2>2, <2>3, <2>5, <2>6, <2>7, <2>8, QuietStepInv
<1>. QED
  BY <1>1, <1>2, <1>3 DEF RelayEvent

\* Steps of the tasks and their done callbacks.
LEMMA TaskInv ==
  ASSUME Inv, NEW t \in Task, TaskStep(t) \/ DoneCallback(t)
  PROVE  Inv'
<1>0. TypeOK
  BY DEF Inv
<1>1. CASE TaskStep(t)
  <2>1. PICK to \in Stage \ {"unborn", "gone"} :
          /\ stage' = [stage EXCEPT ![t] = to]
          /\ to \in Active => stage[t] \in Active
          /\ stage[t] # "unborn"
          /\ UNCHANGED <<loop, signals, inflight, gathered, msg, kind, cutShort, lost>>
    BY <1>1 DEF TaskStep, TaskBegins, TaskCloses, TaskAsks, TaskEnds, TaskUnwinds, Move,
       Stage, Active
  <2>2. asked' \subseteq Msg
    <3>1. CASE TaskAsks(t)
      <4>1. stage[t] # "unborn" /\ asked' = asked \cup {msg[t]}
        BY <3>1 DEF TaskAsks, Move
      <4>. QED
        BY <1>0, <4>1 DEF TypeOK
    <3>. QED
      BY <1>0, <1>1, <3>1 DEF TaskStep, TaskBegins, TaskCloses, TaskEnds, TaskUnwinds, TypeOK
  <2>3. TypeOK'
    BY <1>0, <2>1, <2>2 DEF TypeOK
  <2>4. \A u \in Task : stage'[u] \in Active => stage[u] \in Active
    BY <1>0, <2>1 DEF TypeOK
  <2>5. Tracked' /\ Quiet'
    BY <2>1, <2>4 DEF Inv, Tracked, Quiet
  <2>6. Entries'
    BY <1>0, <2>1 DEF Inv, Entries, TypeOK
  <2>. QED
    BY <2>1, <2>3, <2>4, <2>5, <2>6, QuietStepInv
<1>2. CASE DoneCallback(t)
  <2>1. /\ stage[t] = "ended" /\ stage' = [stage EXCEPT ![t] = "gone"]
        /\ inflight' = [m \in Msg |-> IF inflight[m] = t THEN NoTask ELSE inflight[m]]
        /\ UNCHANGED <<loop, signals, gathered, msg, kind, asked, cutShort, lost>>
    BY <1>2 DEF DoneCallback
  <2>2. TypeOK'
    BY <1>0, <2>1 DEF TypeOK, Stage
  <2>3. \A u \in Task : stage'[u] \in Active => stage[u] \in Active /\ u # t
    BY <1>0, <2>1 DEF TypeOK, Active
  <2>4. Tracked' /\ Quiet'
    BY <2>1, <2>3 DEF Inv, Tracked, Quiet
  <2>5. Entries'
    BY <1>0, <2>1 DEF Inv, Entries, TypeOK
  <2>. QED
    BY <2>1, <2>2, <2>3, <2>4, <2>5, QuietStepInv
<1>. QED
  BY <1>1, <1>2

\* task.cancel() on the tasks of S leaves none of S active and starts nothing.
LEMMA CancelAllStops ==
  ASSUME TypeOK, NEW S, CancelAll(S)
  PROVE  /\ stage' \in [Task -> Stage]
         /\ \A t \in Task : stage'[t] \in Active => stage[t] \in Active /\ t \notin S
         /\ \A t \in Task : /\ stage'[t] = "unborn" <=> stage[t] = "unborn"
                            /\ stage'[t] = "gone" <=> stage[t] = "gone"
BY DEF CancelAll, TypeOK, Stage, Active, Alive

\* A step of the loop that leaves the tasks and their entries alone keeps the
\* invariant when it neither returns to tracking nor closes over active tasks.
LEMMA LoopMoveInv ==
  ASSUME Inv, UNCHANGED <<inflight, gathered, msg, kind, stage, asked, lost>>,
         signals' \in 0 .. MaxSignals, cutShort' \in BOOLEAN,
         loop' \in {"reading", "syncing", "rpc", "stopping", "closing", "exited"},
         loop' \in Running \cup {"stopping"} => loop \in Running \cup {"stopping"},
         loop' = "closing" => cutShort' \/ (loop = "draining" /\ ~cutShort)
  PROVE  Inv'
<1>1. TypeOK'
  BY DEF Inv, TypeOK
<1>2. Tracked' /\ Quiet' /\ Entries' /\ OneActiveDispatch'
  BY DEF Inv, Tracked, Quiet, Entries, OneActiveDispatch
<1>. QED
  BY <1>1, <1>2 DEF Inv

\* A step of the loop that cancels every task of S and ends the tracking.
LEMMA CancelAllInv ==
  ASSUME Inv, NEW S, CancelAll(S), gathered' \subseteq Task,
         signals' \in 0 .. MaxSignals, loop' \in {"draining", "teardown"},
         UNCHANGED <<msg, kind, asked, cutShort, lost>>,
         inflight' = inflight \/ inflight' = [m \in Msg |-> NoTask],
         loop' = "draining" => \A t \in Task : stage[t] \in Active => t \in S
  PROVE  Inv'
<1>1. TypeOK /\ Entries
  BY DEF Inv
<1>2. /\ stage' \in [Task -> Stage]
      /\ \A t \in Task : stage'[t] \in Active => stage[t] \in Active /\ t \notin S
      /\ \A t \in Task : /\ stage'[t] = "unborn" <=> stage[t] = "unborn"
                         /\ stage'[t] = "gone" <=> stage[t] = "gone"
  BY <1>1, CancelAllStops
<1>3. TypeOK'
  BY <1>1, <1>2 DEF TypeOK
<1>4. Tracked' /\ Quiet'
  BY <1>2 DEF Tracked, Quiet, Running
<1>5. Entries'
  BY <1>1, <1>2 DEF Entries, TypeOK
<1>. QED
  BY <1>2, <1>3, <1>4, <1>5, QuietStepInv

\* The steps of the loop, and signals.
LEMMA ShutdownInv ==
  ASSUME Inv, Signal \/ LoopStep \/ Connected
  PROVE  Inv'
<1>. USE DEF taskVars
<1>0. TypeOK
  BY DEF Inv
<1>1. CASE Connected \/ CancelRpcEnds \/ SyncEnds \/ Exit
  BY <1>0, <1>1, LoopMoveInv
     DEF Connected, CancelRpcEnds, SyncEnds, Exit, TypeOK, Running
<1>2. CASE Signal
  <2>0. signals' \in 0 .. MaxSignals
    BY <1>0, <1>2, BoundAssumption DEF Signal, TypeOK
  <2>1. CASE FirstSignal
    BY <1>0, <1>2, <2>0, <2>1, LoopMoveInv DEF Signal, FirstSignal, TypeOK, Running
  <2>2. CASE SignalWhileStopping
    BY <1>0, <1>2, <2>0, <2>2, LoopMoveInv DEF Signal, SignalWhileStopping, TypeOK, Running
  <2>3. CASE SignalWhileClosing
    BY <1>0, <1>2, <2>0, <2>3, CancelAllInv DEF Signal, SignalWhileClosing, TypeOK
  <2>. QED
    BY <1>2, <2>1, <2>2, <2>3 DEF Signal
<1>3. CASE CancelInflight
  <2>1. gathered' \subseteq Task
    BY <1>0, <1>3 DEF CancelInflight, TypeOK
  <2>2. \A t \in Task : stage[t] \in Active => t \in gathered'
    BY <1>3, NoTaskIsNone DEF CancelInflight, Inv, Tracked
  <2>. QED
    BY <1>0, <1>3, <2>1, <2>2, CancelAllInv DEF CancelInflight, TypeOK
<1>4. CASE InflightDrained
  BY <1>0, <1>4, LoopMoveInv DEF InflightDrained, TypeOK, Running, Quiet, Inv
<1>5. CASE CloseAll
  BY <1>0, <1>5, CancelAllInv DEF CloseAll, TypeOK
<1>. QED
  BY <1>1, <1>2, <1>3, <1>4, <1>5 DEF LoopStep

----------------------------------------------------------------------------
\* Inv is inductive.
THEOREM Invariance == Spec => []Inv
<1>1. ASSUME Inv, Next PROVE Inv'
  BY <1>1, RelayEventInv, TaskInv, ShutdownInv DEF Next
<1>2. Inv /\ UNCHANGED vars => Inv'
  BY DEF vars, Inv, TypeOK, Tracked, Quiet, Entries, OneActiveDispatch
<1>. QED
  BY InitInv, <1>1, <1>2, PTL DEF Spec

\* Every variable keeps to its type.
THEOREM TypeCorrect == Spec => []TypeOK
BY Invariance, PTL DEF Inv

\* No interleaving of user messages, replies, replays, cancellations and done
\* callbacks has a message dispatched twice at a time (_spawn_dispatch).
THEOREM OneDispatchAtATime == Spec => []OneActiveDispatch
BY Invariance, PTL DEF Inv

\* What a cancel_task needs to reach a dispatch is there as long as the loop runs.
THEOREM EveryDispatchIsTracked == Spec => []ActiveIsTracked
<1>1. Inv => ActiveIsTracked
  BY DEF Inv, Tracked, ActiveIsTracked
<1>. QED
  BY <1>1, Invariance, PTL

\* _on_done takes its own entry along: none is left to a task that is gone.
THEOREM NoStaleEntry == Spec => []EntriesAreLive
<1>1. Inv => EntriesAreLive
  BY DEF Inv, Entries, EntriesAreLive
<1>. QED
  BY <1>1, Invariance, PTL

\* A cancel_task leaves no active dispatch of its message (_handle_cancel_task).
THEOREM CancelReachesDispatch == Spec => CancelStopsDispatch
<1>1. ASSUME Inv, [Next]_vars
      PROVE  \A m \in Msg : CancelTask(m) =>
               \A t \in Task : msg'[t] = m => stage'[t] \notin Active
  BY <1>1, RelayEventInv DEF RelayEvent
<1>. QED
  BY <1>1, Invariance, PTL DEF Spec, CancelStopsDispatch

\* A single signal closes the queue and the clients only after the drain.
THEOREM ClosedAfterDrain == Spec => []DrainedBeforeClose
<1>1. Inv => DrainedBeforeClose
  BY DEF Inv, Quiet, DrainedBeforeClose
<1>. QED
  BY <1>1, Invariance, PTL
====
