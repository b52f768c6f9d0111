---- MODULE MessagePath_proofs ----
(***************************************************************************)
(* Proofs about MessagePath, for any number of faults: the type invariant, *)
(* and the safety part of the argument that a message is answered.  What   *)
(* the relay has no answer to is on the connection, under dispatch, queued *)
(* or still to be sent, or the log says what became of it.                 *)
(***************************************************************************)
EXTENDS MessagePath, SequenceTheorems, TLAPS

\* The message is on the connection, unread.
Carries == wire \in {<<"ready", "message">>, <<"message">>}

\* A status is at the relay, in the queue or in the log, or the log has an exception.
Told == raised \/ heard \cup box \cup lost # {}

\* There is always one more thing that is to happen to a message, or it has been told
\* how it ended: no break of a connection, end of the daemon, ignored replay or
\* unregistered agent takes the last copy of it away.  A connection that is not good,
\* or on which the message was not sent, is one the relay will send it after.
NotForgotten ==
  asked => \/ Told
           \/ Carries \/ stage # "none"
           \/ ~ (sent /\ link = "open" /\ whole = "good")

\* The daemon that is down has no connection, and only what the user has asked is sent.
Connected ==
  /\ link = "open" => loop # "down"
  /\ Carries => sent
  /\ sent => asked

\* What a last batch has left to publish while its status is not published.
Rests ==
  {<<"agent_error", "failed">>, <<"failed">>,
   <<"task_interactive", "input_required">>, <<"input_required">>,
   <<"agent_response", "completed">>, <<"completed">>}

\* What a dispatch has to publish, by its stage; a last batch ends with a status.
Ending ==
  /\ stage \in {"none", "begun", "dispatching"} => todo = <<>>
  /\ stage = "publishing" => todo \in {<<>>, <<"task_submitted">>, <<"artifact_update">>}
  /\ stage = "closing" => \/ todo \in Rests
                          \/ todo = <<>> /\ heard \cup box \cup lost # {}

Inv == TypeOK /\ Connected /\ Ending /\ NotForgotten

----------------------------------------------------------------------------
\* What the last batches and what is left of them consist of.
LEMMA Batches ==
  ASSUME NEW s \in Rests
  PROVE  /\ s # <<>> /\ s \in Seq(Event) /\ Len(s) <= 2
         /\ Tail(s) \in Rests \/ (Tail(s) = <<>> /\ Head(s) \in Status)
<1>1. \/ s = <<"agent_error", "failed">> \/ s = <<"failed">>
      \/ s = <<"task_interactive", "input_required">> \/ s = <<"input_required">>
      \/ s = <<"agent_response", "completed">> \/ s = <<"completed">>
  BY DEF Rests
<1>2. {"failed", "input_required", "completed", "agent_error", "task_interactive",
       "agent_response"} \subseteq Event
  BY DEF Event, Status
<1>3. CASE s = <<"agent_error", "failed">>
  BY <1>2, <1>3 DEF Rests
<1>4. CASE s = <<"task_interactive", "input_required">>
  BY <1>2, <1>4 DEF Rests
<1>5. CASE s = <<"agent_response", "completed">>
  BY <1>2, <1>5 DEF Rests
<1>6. CASE \E e \in Status : s = <<e>>
  BY <1>2, <1>6 DEF Status
<1>. QED
  BY <1>1, <1>3, <1>4, <1>5, <1>6 DEF Status

\* The batches of the contract are such.
LEMMA LastBatches ==
  {Dispatch!Failed, Dispatch!AskUser, Dispatch!Silent, Dispatch!Respond} \subseteq Rests
BY DEF Rests, Dispatch!Failed, Dispatch!AskUser, Dispatch!Silent, Dispatch!Respond

\* The other batches.
LEMMA OtherBatches ==
  /\ <<>> \in Seq(Event) /\ Len(<<>>) <= 2
  /\ \A e \in {"task_submitted", "artifact_update"} :
       /\ <<e>> # <<>> /\ <<e>> \in Seq(Event) /\ Len(<<e>>) <= 2
       /\ Head(<<e>>) \notin Status /\ Tail(<<e>>) = <<>>
<1>1. {"task_submitted", "artifact_update"} \subseteq Event \ Status
  BY DEF Event, Status
<1>. QED
  BY <1>1

\* What is on a connection, after one event more or less.
LEMMA Wires ==
  /\ <<>> # <<"ready">> /\ <<>> # <<"message">> /\ <<>> # <<"ready", "message">>
  /\ <<"ready">> # <<"message">> /\ <<"ready">> # <<"ready", "message">>
  /\ Head(<<"ready">>) = "ready" /\ Tail(<<"ready">>) = <<>>
  /\ Head(<<"ready", "message">>) = "ready" /\ Tail(<<"ready", "message">>) = <<"message">>
  /\ Head(<<"message">>) = "message" /\ Tail(<<"message">>) = <<>>
  /\ Append(<<>>, "message") = <<"message">>
  /\ Append(<<"ready">>, "message") = <<"ready", "message">>
<1>. DEFINE s == Append(<<"ready">>, "message")
            t == <<"ready", "message">>
            S == {"ready", "message"}
<1>1. s = t
  <2>1. s \in Seq(S) /\ Len(s) = 2 /\ s[1] = "ready" /\ s[2] = "message"
    OBVIOUS
  <2>2. t \in Seq(S) /\ Len(t) = 2 /\ t[1] = "ready" /\ t[2] = "message"
    OBVIOUS
  <2>. HIDE DEF s, t, S
  <2>3. \A i \in 1 .. Len(s) : s[i] = t[i]
    BY <2>1, <2>2
  <2>. QED
    BY <2>1, <2>2, <2>3, SeqEqual
<1>. QED
  BY <1>1

\* Every step keeps to these, and sends what the user has asked on an open connection.
LEMMA WireStep ==
  ASSUME TypeOK, Connected, [Next]_vars
  PROVE  /\ wire' \in {<<>>, <<"ready">>, <<"ready", "message">>, <<"message">>}
         /\ wire' # <<>> => link' = "open" /\ loop' # "down"
         /\ Connected'
<1>. USE DEF Connected, Carries, TypeOK, linkVars, taskVars, eventVars
<1>1. CASE SendMessage
  <2>1. wire \in {<<>>, <<"ready">>}
    BY <1>1 DEF SendMessage
  <2>2. wire' \in {<<"message">>, <<"ready", "message">>}
    BY <1>1, <2>1, Wires DEF SendMessage
  <2>. QED
    BY <1>1, <2>2 DEF SendMessage
<1>2. CASE ReadReady
  <2>1. wire \in {<<"ready">>, <<"ready", "message">>}
    BY <1>2, Wires DEF ReadReady
  <2>2. \/ wire = <<"ready">> /\ wire' = <<>>
        \/ wire = <<"ready", "message">> /\ wire' = <<"message">>
    BY <1>2, <2>1, Wires DEF ReadReady
  <2>. QED
    BY <1>2, <2>2, Wires DEF ReadReady
<1>3. CASE ReadMessage
  <2>1. wire' = <<>>
    BY <1>3, Wires DEF ReadMessage
  <2>. QED
    BY <1>3, <2>1, Wires DEF ReadMessage
<1>4. CASE Connect \/ Wake \/ LinkEnds
  <2>1. CASE Connect /\ relayUp
    BY <1>4, <2>1, Wires DEF Connect
  <2>2. CASE (Connect /\ ~relayUp) \/ Wake
    BY <1>4, <2>2, Wires DEF Connect, Wake
  <2>3. CASE LinkEnds
    BY <1>4, <2>3, Wires DEF LinkEnds
  <2>. QED
    BY <1>4, <2>1, <2>2, <2>3
<1>5. CASE SyncEnds \/ Crash
  <2>1. Down \/ (loop = "syncing" /\ loop' = "reading" /\ UNCHANGED <<link, wire, sent, asked>>)
    BY <1>5 DEF SyncEnds, Crash
  <2>. QED
    BY <2>1, Wires DEF Down
<1>6. CASE Restart
  BY <1>6 DEF Restart
<1>7. CASE World \/ TaskStep \/ (\E e \in Status : Drain(e)) \/ UNCHANGED vars
  <2>1. CASE UNCHANGED <<loop, link, wire, sent>> /\ (asked => asked')
    BY <2>1
  <2>. QED
    BY <1>5, <1>7, <2>1 DEF World, AskHub, RelayComesOrGoes, LinkBreaks, AgentComesOrGoes,
       TaskStep, TaskBegins, Publish, PublishRaises, Published, AgentShows, AgentEnds,
       TaskEnds, Drain, vars
<1>. QED
  BY <1>1, <1>2, <1>3, <1>4, <1>5, <1>6, <1>7 DEF Next, LoopStep

\* What a dispatch has left to publish in every stage, and what it leaves behind.
LEMMA EndingStep ==
  ASSUME TypeOK, Ending, [Next]_vars PROVE Ending'
<1>. USE DEF Ending, taskVars, eventVars
<1>1. CASE TaskBegins
  BY <1>1, LastBatches DEF TaskBegins
<1>2. CASE Publish
  <2>1. CASE stage = "publishing"
    BY <1>2, <2>1, OtherBatches DEF Publish
  <2>2. CASE stage = "closing"
    <3>1. todo \in Rests
      BY <1>2, <2>2 DEF Publish
    <3>2. CASE Head(todo) \in Status
      <4>1. (heard \cup box \cup lost)' # {}
        BY <1>2, <3>2 DEF Publish
      <4>2. todo' \in Rests \/ todo' = <<>>
        BY <1>2, <3>1, Batches DEF Publish
      <4>. QED
        BY <1>2, <2>2, <4>1, <4>2 DEF Publish
    <3>3. CASE Head(todo) \notin Status
      <4>1. todo' \in Rests
        BY <1>2, <3>1, <3>3, Batches DEF Publish
      <4>. QED
        BY <1>2, <2>2, <4>1 DEF Publish
    <3>. QED
      BY <3>2, <3>3
  <2>. QED
    BY <1>2, <2>1, <2>2 DEF Publish, TypeOK
<1>3. CASE PublishRaises \/ TaskEnds
  BY <1>3 DEF PublishRaises, TaskEnds, DispatchIsOver
<1>4. CASE Published \/ AgentShows
  BY <1>4 DEF Published, AgentShows
<1>5. CASE AgentEnds
  <2>1. final' \in Rests
    BY <1>5, LastBatches DEF AgentEnds, Dispatch!Finish
  <2>. QED
    BY <1>5, <2>1 DEF AgentEnds
<1>6. CASE ReadMessage
  BY <1>6 DEF ReadMessage
<1>7. CASE SyncEnds \/ Crash
  <2>1. Down \/ UNCHANGED <<taskVars, eventVars>>
    BY <1>7 DEF SyncEnds, Crash
  <2>. QED
    BY <2>1 DEF Down, DispatchIsOver
<1>8. CASE \E e \in Status : Drain(e)
  <2>1. PICK e \in Status : Drain(e)
    BY <1>8
  <2>2. e \in (heard \cup lost)' /\ UNCHANGED taskVars
    BY <2>1 DEF Drain
  <2>. QED
    BY <2>2
<1>9. CASE UNCHANGED <<taskVars, eventVars>>
  BY <1>9
<1>. QED
  BY <1>1, <1>2, <1>3, <1>4, <1>5, <1>6, <1>7, <1>8, <1>9 DEF Next, World, SendMessage, AskHub,
     RelayComesOrGoes, LinkBreaks, AgentComesOrGoes, LoopStep, Connect, Wake, LinkEnds,
     ReadReady, Restart, TaskStep, vars

\* The history and the flags.
LEMMA FlagStep ==
  ASSUME TypeOK, [Next]_vars
  PROVE  /\ relayUp' \in BOOLEAN /\ sent' \in BOOLEAN /\ asked' \in BOOLEAN
         /\ agent' \in BOOLEAN /\ unreachable' \in BOOLEAN /\ raised' \in BOOLEAN
<1>. USE DEF TypeOK, linkVars, taskVars
<1>1. CASE World
  BY Zenon, <1>1 DEF World, AskHub, RelayComesOrGoes, LinkBreaks, AgentComesOrGoes, Crash, Down,
     DispatchIsOver
<1>2. CASE SendMessage \/ LoopStep \/ Restart
  BY Zenon, <1>2 DEF SendMessage, LoopStep, Connect, Wake, LinkEnds, ReadReady, ReadMessage,
     SyncEnds, Restart, Down, DispatchIsOver
<1>3. CASE TaskStep
  BY Zenon, <1>3 DEF TaskStep, TaskBegins, Publish, PublishRaises, Published, AgentShows,
     AgentEnds, TaskEnds, DispatchIsOver
<1>4. CASE \E e \in Status : Drain(e)
  BY Zenon, <1>4 DEF Drain
<1>5. CASE UNCHANGED vars
  BY Zenon, <1>5 DEF vars
<1>. QED
  BY <1>1, <1>2, <1>3, <1>4, <1>5 DEF Next

\* Where the loop, the connection and the dispatch are, and what the dispatch has shown.
LEMMA PlaceStep ==
  ASSUME TypeOK, [Next]_vars
  PROVE  /\ faults' \in 0 .. MaxFaults
         /\ loop' \in {"reading", "syncing", "down"}
         /\ link' \in {"connecting", "open", "backoff"}
         /\ whole' \in {"good", "broken", "closed", "silent"}
         /\ stage' \in {"none", "begun", "publishing", "dispatching", "closing"}
         /\ shown' \subseteq Dispatch!Content
         /\ final' \in {<<>>, Dispatch!Failed, Dispatch!AskUser, Dispatch!Silent,
                        Dispatch!Respond}
<1>. USE FaultAssumption DEF TypeOK, linkVars, taskVars
<1>1. CASE World
  BY <1>1 DEF World, AskHub, RelayComesOrGoes, LinkBreaks, AgentComesOrGoes, Crash, Down,
     DispatchIsOver
<1>2. CASE SendMessage \/ LoopStep \/ Restart
  BY <1>2 DEF SendMessage, LoopStep, Connect, Wake, LinkEnds, ReadReady, ReadMessage,
     SyncEnds, Restart, Down, DispatchIsOver
<1>3. CASE TaskStep
  BY <1>3 DEF TaskStep, TaskBegins, Publish, PublishRaises, Published, AgentShows,
     AgentEnds, TaskEnds, DispatchIsOver, Dispatch!Show, Dispatch!Finish
<1>4. CASE \E e \in Status : Drain(e)
  BY <1>4 DEF Drain
<1>5. CASE UNCHANGED vars
  BY <1>5 DEF vars
<1>. QED
  BY <1>1, <1>2, <1>3, <1>4, <1>5 DEF Next

\* No step loses a status: it stays at the relay, in the queue or in the log.
LEMMA StatusStep ==
  ASSUME TypeOK, [Next]_vars
  PROVE  /\ heard' \subseteq Status /\ box' \subseteq Status /\ lost' \subseteq Status
         /\ heard \cup box \cup lost \subseteq (heard \cup box \cup lost)'
<1>. USE DEF TypeOK, eventVars
<1>1. CASE Publish
  BY <1>1 DEF Publish
<1>2. CASE \E e \in Status : Drain(e)
  BY <1>2 DEF Drain
<1>3. CASE UNCHANGED eventVars
  BY <1>3
<1>. QED
  BY <1>1, <1>2, <1>3 DEF Next, World, SendMessage, AskHub, RelayComesOrGoes, LinkBreaks,
     AgentComesOrGoes, Crash, Down, LoopStep, Connect, Wake, LinkEnds, ReadReady, ReadMessage,
     SyncEnds, Restart, TaskStep, TaskBegins, PublishRaises, Published, AgentShows, AgentEnds,
     TaskEnds, vars

\* Every step keeps the types.
LEMMA TypeStep ==
  ASSUME TypeOK, Connected, Ending, [Next]_vars PROVE TypeOK' /\ Connected' /\ Ending'
<1>1. Ending'
  BY EndingStep
<1>2. stage' \in {"none", "begun", "publishing", "dispatching", "closing"}
  BY PlaceStep
<1>3. todo' \in Seq(Event) /\ Len(todo') <= 2
  BY <1>1, <1>2, Batches, OtherBatches DEF Ending
<1>. QED
  BY <1>1, <1>3, WireStep, FlagStep, PlaceStep, StatusStep DEF TypeOK

----------------------------------------------------------------------------
\* What has been told once stays told.
LEMMA ToldStays == ASSUME TypeOK, [Next]_vars PROVE Told => Told'
<1>1. raised => raised'
  BY DEF Next, World, SendMessage, AskHub, RelayComesOrGoes, LinkBreaks, AgentComesOrGoes,
     Crash, Down, LoopStep, Connect, Wake, LinkEnds, ReadReady, ReadMessage, SyncEnds,
     Restart, TaskStep, TaskBegins, Publish, PublishRaises, Published, AgentShows, AgentEnds,
     TaskEnds, Drain, vars, taskVars
<1>. QED
  BY <1>1, StatusStep DEF Told

\* Every step leaves the message somewhere.
LEMMA PathStep ==
  ASSUME TypeOK, Connected, Ending, NotForgotten, [Next]_vars PROVE NotForgotten'
<1>0. Told => Told'
  BY ToldStays
<1>. USE DEF NotForgotten, Carries, Connected, linkVars, taskVars
<1>1. CASE AskHub
  BY <1>0, <1>1 DEF AskHub
<1>2. CASE SendMessage
  <2>1. wire \in {<<>>, <<"ready">>}
    BY <1>2 DEF SendMessage, TypeOK
  <2>. QED
    BY <1>2, <2>1, Wires DEF SendMessage
<1>3. CASE ReadReady
  <2>1. Carries => wire' = <<"message">>
    BY <1>3, Wires DEF ReadReady
  <2>. QED
    BY <1>0, <1>3, <2>1 DEF ReadReady
<1>4. CASE ReadMessage
  BY <1>4 DEF ReadMessage
<1>5. CASE Connect \/ LinkEnds
  BY <1>5 DEF Connect, LinkEnds
<1>6. CASE SyncEnds \/ Crash
  <2>1. Down \/ UNCHANGED <<asked, wire, stage, sent, link, whole>>
    BY <1>6 DEF SyncEnds, Crash
  <2>. QED
    BY <1>0, <2>1 DEF Down
<1>7. CASE TaskEnds
  <2>1. Told
    BY <1>7, Batches DEF TaskEnds, Ending, Told
  <2>. QED
    BY <1>0, <2>1
<1>8. CASE PublishRaises
  BY <1>8 DEF PublishRaises, Told
<1>9. CASE LinkBreaks
  BY <1>9 DEF LinkBreaks
<1>10. CASE TaskBegins \/ Published \/ AgentShows \/ AgentEnds
  BY <1>10 DEF TaskBegins, Published, AgentShows, AgentEnds
<1>11. CASE UNCHANGED <<asked, wire, stage, sent, whole>> /\ (link' = link \/ link' # "open")
  BY <1>0, <1>11
<1>12. \A e \in Status : Drain(e) => UNCHANGED <<asked, wire, stage, sent, whole, link>>
  BY DEF Drain
<1>. QED
  BY <1>1, <1>2, <1>3, <1>4, <1>5, <1>6, <1>7, <1>8, <1>9, <1>10, <1>11, <1>12 DEF Next, World,
     RelayComesOrGoes, AgentComesOrGoes, LoopStep, Wake, Restart, TaskStep, Publish, vars

\* Inv is inductive.
THEOREM Invariance == Spec => []Inv
<1>1. Init => Inv
  <2>1. Init => TypeOK
    <3>. SUFFICES ASSUME Init PROVE TypeOK
      OBVIOUS
    <3>1. relayUp \in BOOLEAN /\ sent \in BOOLEAN /\ asked \in BOOLEAN
      BY DEF Init
    <3>2. agent \in BOOLEAN /\ unreachable \in BOOLEAN /\ raised \in BOOLEAN
      BY DEF Init
    <3>3. faults \in 0 .. MaxFaults
      BY FaultAssumption DEF Init
    <3>4. todo \in Seq(Event) /\ Len(todo) <= 2
      BY OtherBatches DEF Init
    <3>5. shown = {} /\ final = <<>>
      BY DEF Init, Dispatch!Init
    <3>. QED
      BY <3>1, <3>2, <3>3, <3>4, <3>5 DEF Init, TypeOK
  <2>2. Init => Connected /\ Ending /\ NotForgotten
    BY Wires DEF Init, Connected, Ending, NotForgotten, Carries
  <2>. QED
    BY <2>1, <2>2 DEF Inv
<1>2. Inv /\ [Next]_vars => Inv'
  BY TypeStep, PathStep DEF Inv
<1>. QED
  BY <1>1, <1>2, PTL DEF Spec

\* Every variable keeps to its type: among others, a batch is never longer than two
\* events, and a connection that the daemon does not have carries nothing.
THEOREM TypeCorrect == Spec => []TypeOK
BY Invariance, PTL DEF Inv

\* For any number of faults, a message the user has sent is never without a copy of it
\* or a sign of how it ended.
THEOREM NothingForgotten == Spec => []NotForgotten
BY Invariance, PTL DEF Inv

\* A status never disappears: whatever breaks or ends, each one that a dispatch has
\* published stays at the relay, in the queue or in the log.
THEOREM StatusStays ==
  Spec => [][heard \cup box \cup lost \subseteq (heard \cup box \cup lost)']_vars
<1>1. TypeOK /\ [Next]_vars => heard \cup box \cup lost \subseteq (heard \cup box \cup lost)'
  BY StatusStep
<1>. QED
  BY <1>1, TypeCorrect, PTL DEF Spec
====
