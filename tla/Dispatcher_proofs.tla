---- MODULE Dispatcher_proofs ----
(***************************************************************************)
(* Proofs about Dispatcher for any number of polling attempts and stream   *)
(* events: the call keeps the promise of DispatchContract, never sends a   *)
(* message again of which something was shown, and reports every failure   *)
(* and question the agent told of last, but for the ways of telling that   *)
(* FailuresAreTold names.                                                  *)
(***************************************************************************)
EXTENDS Dispatcher, TLAPS

Bad == Failure \cup Interactive

\* The ways to tell of a state that the code does not take up.
Dropped == {"task", "blank"}

\* A try that can still be given up for the other interface has shown nothing and
\* has been told of no failure.
Untouched == pc \in {"send", "poll", "pollFallback"} \/ (pc = "stream" /\ ~begun)
Unspoilt == Untouched => shown = {} /\ last \notin Bad

\* Polling goes on only over an unfinished state.
Unfinished == pc \in {"poll", "pollFallback"} => result.state \notin Settled

\* The result knows what was shown and what the agent told of, unless it is an error.
Knows ==
  result.error = "none" =>
    /\ result.emitted <=> shown # {}
    /\ last \in Bad /\ told \notin Dropped => result.state = last

\* An error is what ends a try; a last batch is what ends the call.
Errors == pc \notin {"close", "done", "cancelled"} => result.error = "none"
Ends == final # <<>> => pc = "done"

\* Each interface takes the message once at most.
Sends ==
  /\ accepted <= IF iface = "primary" THEN 1 ELSE 2
  /\ pc = "send" \/ (pc = "stream" /\ ~begun) =>
       accepted <= IF iface = "primary" THEN 0 ELSE 1

Inv ==
  TypeOK /\ Unspoilt /\ Unfinished /\ Knows /\ Errors /\ Ends /\ Sends /\ FailuresAreTold

Unfold == TypeOK /\ Unspoilt /\ Unfinished /\ Knows /\ Errors /\ Ends /\ Sends

\* How the sets of states lie to each other.
LEMMA States == "none" \notin Bad /\ Bad \subseteq Settled /\ NonTerminal \cap Settled = {}
BY DEF Bad, Failure, Interactive, NonTerminal, Settled

\* What is known of the state the agent told of last.
LEMMA Telling ==
  ASSUME TypeOK, NEW s \in State \cup {"none"}, NEW how \in {"answer", "task"}, Tells(s, how)
  PROVE  /\ last' \in State \cup {"none"}
         /\ told' \in {"nothing", "answer", "update", "task", "blank"}
         /\ s = "none" => last' = last /\ told' = told
         /\ s # "none" => last' = s /\ told' = how
BY DEF Tells, TypeOK

\* What both outcomes of an exception come to.
LEMMA RaiseResult ==
  ASSUME TypeOK, Untouched \/ pc = "stream", NEW err \in {"version", "other"}, Raise(err)
  PROVE  \/ /\ iface = "primary" /\ iface' = "fallback" /\ err = "version"
            /\ result' = Fresh /\ pc' = "send"
         \/ /\ iface' = iface /\ pc' = "close"
            /\ result' = [result EXCEPT !.error = result'.error]
               \/ result' = [Fresh EXCEPT !.error = "version"]
            /\ result'.error \in {"version", "other"}
BY DEF Raise, Resend, Report, TypeOK, Fresh

\* An exception of a try that was untouched, or any but a version error, keeps the
\* invariant.
LEMMA RaiseInv ==
  ASSUME Inv, NEW err \in {"version", "other"}, Raise(err),
         Untouched \/ (pc = "stream" /\ err # "version"),
         UNCHANGED <<agentVars, begun, events, polls, shown, final, accepted, last, told>>
  PROVE  Inv'
<1>1. Unfold /\ final = <<>>
  BY DEF Inv, Unfold, Ends, Untouched
<1>2. CASE /\ iface = "primary" /\ iface' = "fallback" /\ err = "version"
           /\ result' = Fresh /\ pc' = "send"
  <2>1. Untouched
    BY <1>2
  <2>2. shown = {} /\ last \notin Bad
    BY <1>1, <2>1 DEF Unfold, Unspoilt
  <2>3. TypeOK'
    BY <1>1, <1>2 DEF Unfold, TypeOK, Fresh, agentVars
  <2>4. Unspoilt' /\ Knows' /\ Unfinished' /\ Errors'
    BY <1>2, <2>2 DEF Unspoilt, Untouched, Knows, Unfinished, Errors, Fresh
  <2>5. Ends' /\ FailuresAreTold'
    BY <1>1 DEF Ends, FailuresAreTold
  <2>6. Sends'
    BY <1>1, <1>2 DEF Unfold, Sends, TypeOK
  <2>. QED
    BY <2>3, <2>4, <2>5, <2>6 DEF Inv
<1>3. CASE /\ iface' = iface /\ pc' = "close"
           /\ result' = [result EXCEPT !.error = result'.error]
              \/ result' = [Fresh EXCEPT !.error = "version"]
           /\ result'.error \in {"version", "other"}
  <2>1. TypeOK'
    BY <1>1, <1>3 DEF Unfold, TypeOK, Fresh, agentVars
  <2>2. Unspoilt' /\ Knows' /\ Unfinished' /\ Errors'
    BY <1>3 DEF Unspoilt, Untouched, Knows, Unfinished, Errors
  <2>3. Ends' /\ FailuresAreTold'
    BY <1>1 DEF Ends, FailuresAreTold
  <2>4. Sends'
    BY <1>1, <1>3 DEF Unfold, Sends
  <2>. QED
    BY <2>1, <2>2, <2>3, <2>4 DEF Inv
<1>. QED
  BY <1>1, <1>2, <1>3, RaiseResult DEF Unfold

\* Nothing has been sent.
LEMMA InitInv == Init => Inv
<1>. SUFFICES ASSUME Init PROVE Inv
  OBVIOUS
<1>1. 0 \in 0 .. MaxPolls - 1 /\ 0 \in 0 .. MaxEvents
  BY BoundAssumption
<1>2. TypeOK
  <2>1. result \in [state : State \cup {"none"}, known : BOOLEAN, text : BOOLEAN,
                    emitted : BOOLEAN, error : {"none", "version", "polling", "other"}]
    BY DEF Init, Fresh
  <2>2. polls \in 0 .. MaxPolls - 1 /\ events \in 0 .. MaxEvents
    BY <1>1 DEF Init
  <2>3. streams \in BOOLEAN /\ fallback \in BOOLEAN /\ begun \in BOOLEAN
    BY DEF Init
  <2>4. accepted \in 0 .. 2
    BY DEF Init
  <2>5. /\ iface \in {"primary", "fallback"} /\ pc = "send"
        /\ last \in State \cup {"none"} /\ shown \subseteq Content /\ final = <<>>
        /\ told = "nothing"
    BY DEF Init
  <2>. QED
    BY <2>1, <2>2, <2>3, <2>4, <2>5 DEF TypeOK
<1>3. last \notin Bad
  BY DEF Init, Bad, Failure, Interactive
<1>4. Unspoilt /\ Unfinished /\ Knows /\ Errors /\ Ends /\ Sends
  BY <1>3 DEF Init, Fresh, Unspoilt, Untouched, Unfinished, Knows, Errors, Ends, Sends
<1>5. FailuresAreTold
  BY DEF Init, FailuresAreTold
<1>. QED
  BY <1>2, <1>4, <1>5 DEF Inv

\* The steps of the blocking request keep the invariant.
LEMMA SyncInv == ASSUME Inv, SyncStep PROVE Inv'
<1>1. Unfold
  BY DEF Inv, Unfold
<1>2. CASE SendAnswered
  <2>1. PICK s \in State \cup {"none"}, known \in BOOLEAN, text \in BOOLEAN :
          /\ result' = [result EXCEPT !.state = s, !.known = known, !.text = text]
          /\ pc' = IF s \in NonTerminal /\ known THEN "poll" ELSE "close"
          /\ Tells(s, "answer")
    BY <1>2 DEF SendAnswered, Answers
  <2>2. pc = "send" /\ final = <<>> /\ shown = {} /\ result.error = "none" /\ polls' = 0
        /\ last \notin Bad
    BY <1>1, <1>2 DEF SendAnswered, Unfold, Ends, Unspoilt, Untouched, Errors
  <2>0. /\ last' \in State \cup {"none"}
        /\ told' \in {"nothing", "answer", "update", "task", "blank"}
        /\ s = "none" => last' = last
        /\ s # "none" => last' = s
    BY <1>1, <2>1, Telling DEF Unfold
  <2>3. TypeOK'
    <3>1. polls' \in 0 .. MaxPolls - 1
      BY <2>2, BoundAssumption
    <3>2. accepted' \in 0 .. 2
      BY <1>1, <1>2 DEF SendAnswered, Unfold, TypeOK, Sends
    <3>. QED
      BY <1>1, <1>2, <2>0, <2>1, <3>1, <3>2 DEF SendAnswered, Unfold, TypeOK, agentVars
  <2>4. result'.state = s /\ result'.emitted = result.emitted /\ result'.error = "none"
    BY <1>1, <2>1, <2>2 DEF Unfold, TypeOK
  <2>5. shown' = {} /\ final' = <<>>
    BY <1>2, <2>2 DEF SendAnswered
  <2>6. Unspoilt' /\ Unfinished' /\ Errors'
    <3>1. s \in NonTerminal => last' \notin Bad /\ s \notin Settled
      BY <2>0, <2>2, States
    <3>. QED
      BY <2>1, <2>4, <2>5, <3>1 DEF Unspoilt, Untouched, Unfinished, Errors
  <2>7. Knows'
    <3>1. last' \in Bad => last' = s
      BY <2>0, <2>2
    <3>2. ~result.emitted
      BY <1>1, <2>2 DEF Unfold, Knows
    <3>. QED
      BY <2>4, <2>5, <3>1, <3>2 DEF Knows
  <2>8. Ends' /\ FailuresAreTold'
    BY <2>5 DEF Ends, FailuresAreTold
  <2>9. Sends'
    BY <1>1, <1>2, <2>1, <2>2 DEF SendAnswered, Unfold, Sends, TypeOK
  <2>. QED
    BY <2>3, <2>6, <2>7, <2>8, <2>9 DEF Inv
<1>3. CASE SendFails
  <2>. SUFFICES ASSUME NEW err \in {"version", "other"}, Raise(err) PROVE Inv'
    BY <1>3 DEF SendFails
  <2>. QED
    BY <1>3, RaiseInv DEF SendFails, Untouched
<1>4. CASE TaskAnswered
  <2>1. PICK s \in State \cup {"none"}, text \in BOOLEAN :
          LET state == IF s = "none" THEN result.state ELSE s
              done == state \in Settled
              spent == polls + 1 = MaxPolls
          IN  /\ Tells(s, "answer")
              /\ result' = [result EXCEPT !.state = state, !.text = @ \/ text,
                              !.error = IF ~done /\ spent THEN "polling" ELSE @]
              /\ pc' = IF done \/ spent THEN "close" ELSE "poll"
              /\ polls' = IF done \/ spent THEN polls ELSE polls + 1
    BY <1>4 DEF TaskAnswered
  <2>2. /\ pc \in {"poll", "pollFallback"} /\ final = <<>> /\ shown = {}
        /\ result.error = "none" /\ last \notin Bad
    BY <1>1, <1>4 DEF TaskAnswered, Unfold, Ends, Unspoilt, Untouched, Errors
  <2>3. UNCHANGED <<agentVars, iface, begun, events, shown, final, accepted>>
    BY <1>4 DEF TaskAnswered
  <2>4. TypeOK'
    <3>1. polls' \in 0 .. MaxPolls - 1
      BY <1>1, <2>1, BoundAssumption DEF Unfold, TypeOK
    <3>2. /\ last' \in State \cup {"none"}
          /\ told' \in {"nothing", "answer", "update", "task", "blank"}
      BY <1>1, <2>1, Telling DEF Unfold
    <3>. QED
      BY <1>1, <2>1, <2>3, <3>1, <3>2 DEF Unfold, TypeOK, agentVars
  <2>5. /\ result'.emitted = result.emitted
        /\ last' = result'.state \/ last' = last
        /\ \/ pc' = "close"
           \/ pc' = "poll" /\ result'.state \notin Settled /\ result'.error = "none"
    BY <1>1, <2>1, <2>2 DEF Unfold, TypeOK, Tells
  <2>6. Unspoilt' /\ Unfinished' /\ Errors'
    BY <2>2, <2>3, <2>5
       DEF Unspoilt, Untouched, Unfinished, Errors, Bad, Settled
  <2>7. Knows'
    BY <1>1, <2>2, <2>3, <2>5 DEF Unfold, Knows
  <2>8. Ends' /\ FailuresAreTold'
    BY <2>2, <2>3 DEF Ends, FailuresAreTold
  <2>9. Sends'
    BY <1>1, <2>3, <2>5 DEF Unfold, Sends
  <2>. QED
    BY <2>4, <2>6, <2>7, <2>8, <2>9 DEF Inv
<1>5. CASE TaskVersionError
  <2>1. /\ pc = "poll" /\ pc' = "pollFallback"
        /\ UNCHANGED <<agentVars, iface, begun, events, polls, result, shown, final,
                       accepted, last, told>>
    BY <1>5 DEF TaskVersionError
  <2>. QED
    BY <1>1, <2>1
       DEF Unfold, Inv, TypeOK, Unspoilt, Untouched, Unfinished, Knows, Errors, Ends,
           Sends, FailuresAreTold, agentVars
<1>6. CASE TaskFails
  <2>. SUFFICES ASSUME NEW err \in {"version", "other"}, Raise(err) PROVE Inv'
    BY <1>6 DEF TaskFails
  <2>. QED
    BY <1>6, RaiseInv DEF TaskFails, Untouched
<1>. QED
  BY <1>2, <1>3, <1>4, <1>5, <1>6 DEF SyncStep

\* The steps of the stream keep the invariant.
LEMMA StreamInv == ASSUME Inv, StreamStep PROVE Inv'
<1>1. Unfold
  BY DEF Inv, Unfold
<1>2. CASE OpenStream
  <2>1. /\ pc = "send" /\ pc' = "stream" /\ begun' = FALSE /\ events' = 0
        /\ UNCHANGED <<agentVars, iface, polls, result, shown, final, accepted, last, told>>
    BY <1>2 DEF OpenStream
  <2>2. events' \in 0 .. MaxEvents
    BY <2>1, BoundAssumption
  <2>3. /\ pc' = "stream" /\ begun' \in BOOLEAN
        /\ UNCHANGED <<agentVars, iface, polls, result, shown, final, accepted, last, told>>
    BY <2>1
  <2>4. TypeOK'
    BY <1>1, <2>2, <2>3 DEF Unfold, TypeOK, agentVars
  <2>. QED
    BY <1>1, <2>1, <2>4
       DEF Inv, Unfold, Unspoilt, Untouched, Unfinished, Knows, Errors, Ends, Sends,
           FailuresAreTold
<1>10. CASE StreamEnds
  <2>1. /\ pc = "stream" /\ pc' \in {"refetch", "close"}
        /\ UNCHANGED <<agentVars, iface, begun, events, polls, result, shown, final,
                       accepted, last, told>>
    BY <1>10 DEF StreamEnds
  <2>2. TypeOK'
    BY <1>1, <2>1 DEF Unfold, TypeOK, agentVars
  <2>. QED
    BY <1>1, <2>1, <2>2
       DEF Inv, Unfold, Unspoilt, Untouched, Unfinished, Knows, Errors, Ends, Sends,
           FailuresAreTold
<1>3. ASSUME StreamRead,
             result' = [result EXCEPT !.state = result'.state, !.known = result'.known,
                                      !.text = result'.text, !.emitted = result'.emitted],
             result'.state \in State \cup {"none"}, result'.known \in BOOLEAN,
             result'.text \in BOOLEAN, result'.emitted \in BOOLEAN,
             shown' \in SUBSET Content, last' \in State \cup {"none"},
             told' \in {"nothing", "answer", "update", "task", "blank"},
             result'.emitted <=> shown' # {},
             last' \in Bad /\ told' \notin Dropped => result'.state = last'
      PROVE  Inv'
  <2>1. /\ pc = "stream" /\ pc' = "stream" /\ begun' = TRUE /\ events < MaxEvents
        /\ events' = events + 1
        /\ accepted' = IF begun THEN accepted ELSE accepted + 1
        /\ UNCHANGED <<agentVars, iface, polls, final>>
    BY <1>3 DEF StreamRead
  <2>2. final = <<>> /\ result.error = "none"
    BY <1>1, <2>1 DEF Unfold, Ends, Errors
  <2>3. result'.error = "none"
    BY <1>1, <1>3, <2>2 DEF Unfold, TypeOK
  <2>4. Sends'
    BY <1>1, <2>1 DEF Unfold, Sends, TypeOK
  <2>5. result' \in [state : State \cup {"none"}, known : BOOLEAN, text : BOOLEAN,
                     emitted : BOOLEAN, error : {"none", "version", "polling", "other"}]
    BY <1>1, <1>3 DEF Unfold, TypeOK
  <2>6. events' \in 0 .. MaxEvents /\ accepted' \in 0 .. 2
    BY <1>1, <2>1, <2>4, BoundAssumption DEF Unfold, TypeOK, Sends
  <2>7. TypeOK'
    BY <1>1, <1>3, <2>1, <2>5, <2>6 DEF Unfold, TypeOK, agentVars
  <2>8. Unspoilt' /\ Unfinished' /\ Knows' /\ Errors' /\ Ends' /\ FailuresAreTold'
    BY <1>3, <2>1, <2>2, <2>3
       DEF Unspoilt, Untouched, Unfinished, Knows, Errors, Ends, FailuresAreTold
  <2>. QED
    BY <2>4, <2>7, <2>8 DEF Inv
<1>4. ASSUME pc = "stream"
      PROVE  /\ result.emitted <=> shown # {}
             /\ last \in Bad /\ told \notin Dropped => result.state = last
  BY <1>1, <1>4 DEF Unfold, Knows, Errors
<1>5. CASE StreamContent
  <2>1. PICK content \in SUBSET Content :
          /\ shown' = shown \cup content /\ last' = last /\ told' = told
          /\ result' = [result EXCEPT !.emitted = @ \/ content # {},
                                      !.text = @ \/ "text" \in content]
    BY <1>5 DEF StreamContent
  <2>2. pc = "stream" /\ StreamRead
    BY <1>5 DEF StreamContent, StreamRead
  <2>. QED
    BY <1>1, <1>3, <1>4, <2>1, <2>2 DEF Unfold, TypeOK
<1>6. CASE StreamStatus
  <2>1. PICK s \in State \cup {"none"}, known \in BOOLEAN :
          /\ result' = [result EXCEPT !.state = s, !.known = @ \/ known]
          /\ last' = IF s = "none" THEN last ELSE s
          /\ told' = IF s = "none" THEN "blank" ELSE "update"
          /\ shown' = shown
    BY <1>6 DEF StreamStatus
  <2>2. pc = "stream" /\ StreamRead
    BY <1>6 DEF StreamStatus, StreamRead
  <2>. QED
    BY <1>1, <1>3, <1>4, <2>1, <2>2 DEF Unfold, TypeOK, Dropped
<1>7. CASE StreamTask
  <2>1. PICK s \in State \cup {"none"}, known \in BOOLEAN :
          /\ result' = [result EXCEPT !.known = @ \/ known]
          /\ Tells(s, "task") /\ shown' = shown
    BY <1>7 DEF StreamTask
  <2>2. pc = "stream" /\ StreamRead
    BY <1>7 DEF StreamTask, StreamRead
  <2>. QED
    BY <1>1, <1>3, <1>4, <2>1, <2>2 DEF Unfold, TypeOK, Tells, Dropped
<1>8. CASE StreamFails
  <2>. SUFFICES ASSUME NEW err \in {"version", "other"}, err = "version" => ~begun, Raise(err)
                PROVE  Inv'
    BY <1>8 DEF StreamFails
  <2>. QED
    BY <1>8, RaiseInv DEF StreamFails, Untouched
<1>9. CASE Refetch
  <2>1. PICK s \in State \cup {"none"}, text \in BOOLEAN :
          LET state == IF s = "none" THEN result.state ELSE s
          IN  /\ result' = [result EXCEPT !.state = state, !.text = text]
              /\ Tells(s, "answer")
    BY <1>9 DEF Refetch
  <2>2. /\ pc = "refetch" /\ pc' = "close"
        /\ UNCHANGED <<agentVars, iface, begun, events, polls, shown, final, accepted>>
    BY <1>9 DEF Refetch
  <2>3. final = <<>> /\ result.error = "none"
    BY <1>1, <2>2 DEF Unfold, Ends, Errors
  <2>4. /\ result'.emitted = result.emitted
        /\ \/ last' = result'.state
           \/ last' = last /\ told' = told /\ result'.state = result.state
    BY <1>1, <2>1 DEF Unfold, TypeOK, Tells
  <2>5. Knows'
    BY <1>1, <2>2, <2>3, <2>4 DEF Unfold, Knows
  <2>6. TypeOK'
    <3>1. /\ last' \in State \cup {"none"}
          /\ told' \in {"nothing", "answer", "update", "task", "blank"}
      BY <1>1, <2>1, Telling DEF Unfold
    <3>. QED
      BY <1>1, <2>1, <2>2, <3>1 DEF Unfold, TypeOK, agentVars
  <2>. QED
    BY <1>1, <2>2, <2>3, <2>5, <2>6
       DEF Unfold, Inv, Unspoilt, Untouched, Unfinished, Errors, Ends, Sends, FailuresAreTold
<1>. QED
  BY <1>2, <1>5, <1>6, <1>7, <1>8, <1>9, <1>10 DEF StreamStep

\* The end of the call keeps the invariant.
LEMMA EndInv == ASSUME Inv, EmitTerminal \/ Cancel PROVE Inv'
<1>1. CASE EmitTerminal
  <2>1. /\ pc = "close" /\ pc' = "done" /\ final' = Terminal(result)
        /\ UNCHANGED <<agentVars, iface, begun, events, polls, result, shown, accepted, last, told>>
    BY <1>1 DEF EmitTerminal
  <2>2. CASE result.error # "none" \/ result.state \in Failure
    <3>1. final' = <<"agent_error", "failed">>
      BY <2>1, <2>2 DEF Terminal, Failure, Interactive
    <3>. QED
      BY <2>1, <3>1
         DEF Inv, TypeOK, Unspoilt, Untouched, Unfinished, Knows, Errors, Ends, Sends,
             FailuresAreTold, agentVars
  <2>3. CASE result.error = "none" /\ result.state \in Interactive
    <3>1. final' = <<"task_interactive", "input_required">>
      BY <2>1, <2>3 DEF Terminal, Failure, Interactive
    <3>. QED
      BY <2>1, <3>1
         DEF Inv, TypeOK, Unspoilt, Untouched, Unfinished, Knows, Errors, Ends, Sends,
             FailuresAreTold, agentVars
  <2>4. CASE result.error = "none" /\ result.state \notin Bad
    <3>1. final' \in {<<"completed">>, <<"agent_response", "completed">>}
      BY <2>1, <2>4 DEF Terminal, Bad
    <3>2. last \notin Bad \/ told \in Dropped
      BY <2>4 DEF Inv, Knows
    <3>. QED
      BY <2>1, <3>1, <3>2
         DEF Inv, TypeOK, Unspoilt, Untouched, Unfinished, Knows, Errors, Ends, Sends,
             FailuresAreTold, Bad, Dropped, agentVars
  <2>. QED
    BY <2>2, <2>3, <2>4 DEF Bad
<1>2. CASE Cancel
  BY <1>2
     DEF Cancel, Inv, TypeOK, Unspoilt, Untouched, Unfinished, Knows, Errors, Ends, Sends,
         FailuresAreTold, agentVars
<1>. QED
  BY <1>1, <1>2

\* The invariant holds in every reachable state, for any bounds.
THEOREM Invariance == Spec => []Inv
<1>1. Inv /\ [Next]_vars => Inv'
  <2>. SUFFICES ASSUME Inv, [Next]_vars PROVE Inv'
    OBVIOUS
  <2>1. CASE Next
    BY <2>1, SyncInv, StreamInv, EndInv DEF Next
  <2>2. CASE UNCHANGED vars
    BY <2>2 DEF vars, agentVars, Inv, TypeOK, Unspoilt, Untouched, Unfinished, Knows, Errors,
         Ends, Sends, FailuresAreTold
  <2>. QED
    BY <2>1, <2>2
<1>. QED
  BY InitInv, <1>1, PTL DEF Spec

\* Every variable keeps to its type: polling stops at its limit, and no agent takes
\* the message more than twice.
THEOREM TypeCorrect == Spec => []TypeOK
<1>1. Inv => TypeOK
  BY DEF Inv
<1>. QED
  BY Invariance, <1>1, PTL

\* For streams of any length and any polling limit: "completed" is published over a
\* failure or a question the agent told of last only when a task event told it or a
\* status-update without a state wiped it (_dispatch_with_interface,
\* _emit_terminal_events); never by polling, by a re-fetch, or on a second try.
THEOREM FailuresReported == Spec => []FailuresAreTold
<1>1. Inv => FailuresAreTold
  BY DEF Inv
<1>. QED
  BY Invariance, <1>1, PTL

\* dispatch() sends the message over the fallback interface only when nothing of the
\* first try was shown; the agent had not taken it, or it answered tasks/get with a
\* version error on both interfaces.
THEOREM ResendShowsNothing == Spec => ResendsBeforeOutput
<1>. DEFINE Fresh0 == shown = {} /\ (accepted = 0 \/ pc = "pollFallback")
<1>1. Inv /\ [Next]_vars => [iface' # iface => Fresh0]_vars
  <2>. SUFFICES ASSUME Inv, Next, iface' # iface PROVE Fresh0
    OBVIOUS
  <2>0. accepted \in 0 .. 2 /\ Sends /\ Unspoilt
    BY DEF Inv, TypeOK
  <2>1. CASE SendFails
    <3>1. pc = "send" /\ iface = "primary"
      BY <2>1 DEF SendFails, Raise, Resend, Report
    <3>. QED
      BY <2>0, <3>1 DEF Unspoilt, Untouched, Sends
  <2>4. CASE TaskFails
    <3>1. iface = "primary" /\ pc = "pollFallback"
      BY <2>4 DEF TaskFails, Raise, Resend, Report
    <3>. QED
      BY <2>0, <3>1 DEF Unspoilt, Untouched
  <2>2. CASE StreamFails
    <3>1. PICK err \in {"version", "other"} : (err = "version" => ~begun) /\ Raise(err)
      BY <2>2 DEF StreamFails
    <3>2. err = "version"
      BY <3>1 DEF Raise, Report
    <3>3. pc = "stream" /\ ~begun /\ iface = "primary"
      BY <2>2, <3>1, <3>2 DEF StreamFails, Raise, Resend, Report
    <3>. QED
      BY <2>0, <3>3 DEF Unspoilt, Untouched, Sends
  <2>. QED
    BY <2>1, <2>2, <2>4
       DEF Next, SyncStep, StreamStep, SendAnswered, TaskAnswered, TaskVersionError,
           OpenStream, StreamContent, StreamStatus, StreamTask, StreamRead, StreamEnds,
           Refetch, EmitTerminal, Cancel
<1>. QED
  BY Invariance, <1>1, PTL DEF Spec, ResendsBeforeOutput

\* Every step of dispatch() shows content, ends the call as the contract says, or
\* leaves what the contract speaks of alone.
LEMMA StepImplements ==
  ASSUME Inv, [Next]_vars PROVE [Contract!Next]_<<shown, final>>
<1>. SUFFICES ASSUME UNCHANGED <<shown, final>> => FALSE PROVE Contract!Next
  OBVIOUS
<1>1. StreamContent \/ EmitTerminal
  BY DEF Next, vars, SyncStep, StreamStep, SendAnswered, SendFails, TaskAnswered,
         TaskVersionError, TaskFails, OpenStream, StreamStatus, StreamTask, StreamRead,
         StreamFails, StreamEnds, Refetch, Cancel
<1>2. CASE StreamContent
  <2>1. final = <<>> /\ final' = final /\ shown \subseteq shown' /\ shown' \in SUBSET Content
    BY <1>2 DEF StreamContent, StreamRead, Inv, Ends, TypeOK
  <2>. QED
    BY <2>1 DEF Contract!Next, Contract!Show, Contract!Content, Content
<1>3. CASE EmitTerminal
  <2>1. pc = "close" /\ final = <<>> /\ final' = Terminal(result) /\ shown' = shown
    BY <1>3 DEF EmitTerminal, Inv, Ends
  <2>2. CASE result.error # "none" \/ result.state \in Bad
    <3>1. final' \in {<<"agent_error", "failed">>, <<"task_interactive", "input_required">>}
      BY <2>1, <2>2 DEF Terminal, Bad, Failure, Interactive
    <3>. QED
      BY <2>1, <3>1 DEF Contract!Next, Contract!Finish, Contract!Failed, Contract!AskUser
  <2>3. CASE result.error = "none" /\ result.state \notin Bad
    <3>1. final' = IF result.emitted THEN <<"completed">> ELSE <<"agent_response", "completed">>
      BY <2>1, <2>3 DEF Terminal, Bad
    <3>2. result.emitted <=> shown # {}
      BY <2>3 DEF Inv, Knows
    <3>. QED
      BY <2>1, <3>1, <3>2
         DEF Contract!Next, Contract!Finish, Contract!Silent, Contract!Respond
  <2>. QED
    BY <2>2, <2>3
<1>. QED
  BY <1>1, <1>2, <1>3

\* dispatch() implements DispatchContract: content is rendered once over both tries,
\* and one last batch comes last.
THEOREM Implementation == Spec => ImplementsContract
<1>1. Init => Contract!Init
  BY DEF Init, Contract!Init
<1>2. Inv /\ [Next]_vars => [Contract!Next]_<<shown, final>>
  BY StepImplements
<1>. QED
  BY Invariance, <1>1, <1>2, PTL DEF Spec, ImplementsContract, Contract!Spec

----------------------------------------------------------------------------
\* How far text may be left out.

\* In a stream the result has the text that was shown; only a re-fetch, which needs a
\* task id, brings other text after something was shown.
Seen ==
  /\ pc \in {"stream", "refetch"} \/ shown # {} => streams
  /\ pc = "send" => ~result.text
  /\ pc = "stream" => (result.text => "text" \in shown)
  /\ pc = "refetch" => result.known
  /\ result.error = "none" /\ result.text /\ shown # {} /\ "text" \notin shown => result.known

\* "completed" is what an answer without an error comes to.
Completes ==
  final \in {<<"completed">>, <<"agent_response", "completed">>} =>
    /\ result.error = "none"
    /\ final = IF result.emitted THEN <<"completed">> ELSE <<"agent_response", "completed">>

\* What an exception leads to has no text, or ends the call with an error.
LEMMA RaiseSeen ==
  ASSUME Inv, Seen, NEW err \in {"version", "other"}, Raise(err), Untouched \/ pc = "stream",
         UNCHANGED <<agentVars, shown>>
  PROVE  Seen'
<1>1. TypeOK
  BY DEF Inv
<1>2. CASE result' = Fresh /\ pc' = "send"
  BY <1>2 DEF Seen, Fresh, agentVars
<1>3. CASE pc' = "close" /\ result'.error \in {"version", "other"}
  BY <1>3 DEF Seen, agentVars
<1>. QED
  BY <1>1, <1>2, <1>3, RaiseResult

\* Every step keeps Seen.
LEMMA SeenStep == ASSUME Inv, Seen, [Next]_vars PROVE Seen'
<1>0. TypeOK /\ Unspoilt /\ Errors
  BY DEF Inv
<1>. USE DEF agentVars
<1>1. CASE SendAnswered
  BY <1>0, <1>1 DEF SendAnswered, Seen, Unspoilt, Untouched
<1>2. CASE SendFails \/ TaskFails
  <2>. SUFFICES ASSUME NEW err \in {"version", "other"}, Raise(err) PROVE Seen'
    BY <1>2 DEF SendFails, TaskFails
  <2>. QED
    BY <1>2, RaiseSeen DEF SendFails, TaskFails, Untouched
<1>3. CASE TaskAnswered
  <2>1. shown = {} /\ shown' = shown /\ pc' \in {"close", "poll"} /\ UNCHANGED streams
    BY <1>0, <1>3 DEF TaskAnswered, Unspoilt, Untouched
  <2>. QED
    BY <2>1 DEF Seen
<1>4. CASE TaskVersionError
  BY <1>4 DEF TaskVersionError, Seen
<1>5. CASE OpenStream
  BY <1>5 DEF OpenStream, Seen
<1>6. CASE StreamContent
  <2>1. PICK content \in SUBSET Content :
          /\ shown' = shown \cup content
          /\ result' = [result EXCEPT !.emitted = @ \/ content # {},
                                      !.text = @ \/ "text" \in content]
    BY <1>6 DEF StreamContent
  <2>2. pc = "stream" /\ pc' = "stream" /\ streams' = streams
    BY <1>6 DEF StreamContent, StreamRead
  <2>3. result'.text => "text" \in shown'
    BY <1>0, <2>1, <2>2 DEF Seen, TypeOK
  <2>. QED
    BY <2>2, <2>3 DEF Seen
<1>7. CASE StreamStatus \/ StreamTask
  <2>1. pc = "stream" /\ pc' = "stream" /\ UNCHANGED <<streams, shown>>
    BY <1>7 DEF StreamStatus, StreamTask, StreamRead
  <2>2. result'.text = result.text
    BY <1>0, <1>7 DEF StreamStatus, StreamTask, TypeOK
  <2>. QED
    BY <2>1, <2>2 DEF Seen
<1>8. CASE StreamFails
  <2>. SUFFICES ASSUME NEW err \in {"version", "other"}, Raise(err) PROVE Seen'
    BY <1>8 DEF StreamFails
  <2>. QED
    BY <1>8, RaiseSeen DEF StreamFails
<1>9. CASE StreamEnds
  BY <1>9 DEF StreamEnds, Seen
<1>10. CASE Refetch
  <2>1. pc = "refetch" /\ pc' = "close" /\ UNCHANGED <<streams, shown>>
    BY <1>10 DEF Refetch
  <2>2. result'.known = result.known
    BY <1>0, <1>10 DEF Refetch, TypeOK
  <2>. QED
    BY <2>1, <2>2 DEF Seen
<1>11. CASE EmitTerminal \/ Cancel \/ UNCHANGED vars
  BY <1>11 DEF EmitTerminal, Cancel, vars, Seen
<1>. QED
  BY <1>1, <1>2, <1>3, <1>4, <1>5, <1>6, <1>7, <1>8, <1>9, <1>10, <1>11
     DEF Next, SyncStep, StreamStep

\* Every step keeps Completes.
LEMMA CompletesStep == ASSUME Inv, Completes, [Next]_vars PROVE Completes'
<1>1. CASE EmitTerminal
  <2>1. final' = Terminal(result) /\ result' = result
    BY <1>1 DEF EmitTerminal
  <2>. QED
    BY <2>1 DEF Terminal, Completes, Failure, Interactive
<1>2. CASE final # <<>>
  <2>1. pc = "done"
    BY <1>2 DEF Inv, Ends
  <2>2. UNCHANGED vars
    BY <2>1 DEF Next, SyncStep, StreamStep, SendAnswered, SendFails, TaskAnswered,
       TaskVersionError, TaskFails, OpenStream, StreamContent, StreamStatus, StreamTask,
       StreamRead, StreamFails, StreamEnds, Refetch, EmitTerminal, Cancel
  <2>. QED
    BY <2>2 DEF vars, Completes
<1>3. CASE final = <<>> /\ ~EmitTerminal
  <2>1. final' = <<>>
    BY <1>3 DEF Next, vars, SyncStep, StreamStep, SendAnswered, SendFails, TaskAnswered,
       TaskVersionError, TaskFails, OpenStream, StreamContent, StreamStatus, StreamTask,
       StreamRead, StreamFails, StreamEnds, Refetch, Cancel
  <2>. QED
    BY <2>1 DEF Completes
<1>. QED
  BY <1>1, <1>2, <1>3

\* Text that is known at the end of a completed call is left out in one case only: a
\* stream has shown other parts and no text, and the text came with the re-fetch.  No
\* blocking request, and no stream that showed text or nothing, loses any.
THEOREM TextIsLeftOutAfterPartsOnly ==
  Spec => [](~TextIsRendered => streams /\ result.known /\ shown = {"parts"})
<1>1. Init => Seen /\ Completes
  BY DEF Init, Fresh, Seen, Completes
<1>2. Inv /\ Seen /\ Completes /\ [Next]_vars => Seen' /\ Completes'
  BY SeenStep, CompletesStep
<1>3. Inv /\ Seen /\ Completes => (~TextIsRendered => streams /\ result.known /\ shown = {"parts"})
  <2>. SUFFICES ASSUME Inv, Seen, Completes, ~TextIsRendered
                PROVE  streams /\ result.known /\ shown = {"parts"}
    OBVIOUS
  <2>1. result.text /\ "text" \notin shown /\ result.error = "none" /\ result.emitted
    BY DEF TextIsRendered, Completes
  <2>2. shown # {} /\ shown \subseteq Content
    BY <2>1 DEF Inv, Knows, TypeOK
  <2>3. shown = {"parts"}
    BY <2>1, <2>2 DEF Content
  <2>. QED
    BY <2>1, <2>2, <2>3 DEF Seen
<1>. QED
  BY <1>1, <1>2, <1>3, Invariance, PTL DEF Spec
====
