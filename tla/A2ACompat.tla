---- MODULE A2ACompat ----
(***************************************************************************)
(* The two versions of the A2A protocol (hub/a2a_compat.py) and one        *)
(* message that goes to an agent and is answered: the interface chosen     *)
(* from the agent's card, the request in the version of that interface,    *)
(* the second try, and what the hub makes of the answer.                   *)
(*                                                                         *)
(* A part of a message is a function from its keys to their values.  The   *)
(* canonical form is that of version 1.0; a message and an answer have one *)
(* part at each place that has parts.                                      *)
(***************************************************************************)
EXTENDS Naturals, Sequences

CONSTANTS
  Url, NoUrl,
  Card,   \* agent cards; their interfaces as the card lists them
  Part,   \* canonical parts
  Style   \* the forms in which the relay may pass a part, see Passed

Version == {"0.3", "1.0"}

\* As in module TLC, where they are not defined for the provers.
k :> v == [x \in {k} |-> v]
f @@ g == [x \in DOMAIN f \cup DOMAIN g |-> IF x \in DOMAIN f THEN f[x] ELSE g[x]]

ContentKeys == {"text", "url", "raw", "data"}

\* A part has one content; any of these may stand beside it.
Beside == {"mediaType", "filename", "metadata"}

IsPart(p) ==
  /\ p = [k \in DOMAIN p |-> p[k]]
  /\ \E c \in ContentKeys : c \in DOMAIN p /\ DOMAIN p \subseteq {c} \cup Beside

ASSUME CardAssumption ==
  /\ NoUrl \notin Url
  /\ \A card \in Card :
       /\ card.url \in Url \cup {NoUrl} /\ card.lists \in BOOLEAN
       /\ card.interfaces \in Seq([binding : {"JSONRPC", "GRPC"},
                                   version : {"absent", "0.3", "1.0", "2.0"},
                                   url : Url \cup {NoUrl}])

ASSUME PartAssumption == \A p \in Part : IsPart(p)

ASSUME StyleAssumption == Style \subseteq Version \cup {"mime", "stale"}

----------------------------------------------------------------------------
\* Interfaces

Interface == [version : Version, url : Url]
None == [version |-> "none", url |-> NoUrl]

\* The listed interfaces that speak version v of JSON-RPC; a version that is not
\* given is 0.3.
Usable(card, v) ==
  {i \in DOMAIN card.interfaces :
     LET iface == card.interfaces[i]
     IN  /\ iface.binding = "JSONRPC" /\ iface.url # NoUrl
         /\ v = IF iface.version = "absent" THEN "0.3" ELSE iface.version}

FirstUsable(card, v) ==
  LET i == CHOOSE i \in Usable(card, v) : \A j \in Usable(card, v) : i <= j
  IN  [version |-> v, url |-> card.interfaces[i].url]

\* Mutant of SelectInterface: the first interface listed, whatever its version.
SelectFirst(card) ==
  IF card.lists
    THEN IF card.interfaces = <<>> THEN None
         ELSE [version |-> card.interfaces[1].version, url |-> card.interfaces[1].url]
    ELSE IF card.url # NoUrl THEN [version |-> "0.3", url |-> card.url] ELSE None

\* The card's own url counts only without a list.
SelectInterface(card) ==
  IF card.lists
    THEN CASE Usable(card, "1.0") # {} -> FirstUsable(card, "1.0")
           [] Usable(card, "1.0") = {} /\ Usable(card, "0.3") # {} -> FirstUsable(card, "0.3")
           [] OTHER -> None
    ELSE IF card.url # NoUrl THEN [version |-> "0.3", url |-> card.url] ELSE None

\* Mutant of SelectFallback: only an interface the card lists.
SelectListed(card, primary) ==
  IF primary.version = "0.3" \/ Usable(card, "0.3") = {} THEN None
  ELSE FirstUsable(card, "0.3")

SelectFallback(card, primary) ==
  CASE primary.version = "0.3" -> None
    [] primary.version # "0.3" /\ Usable(card, "0.3") # {} -> FirstUsable(card, "0.3")
    [] OTHER -> [version |-> "0.3", url |-> primary.url]

----------------------------------------------------------------------------
\* Parts

Has(p, k) == k \in DOMAIN p

\* The fields names lists that p has: names[new] is the key in p.
Fields(p, names) == [k \in {n \in DOMAIN names : Has(p, names[n])} |-> p[names[k]]]

WithMetadata(p, k) == Fields(p, (k :> k) @@ [metadata |-> "metadata"])

FileNames == [mimeType |-> "mediaType", name |-> "filename"]

\* build_message_parts: the first content key counts.
BuildPart(p, version) ==
  IF version # "0.3" THEN p
  ELSE CASE Has(p, "text") -> [kind |-> "text"] @@ WithMetadata(p, "text")
         [] ~Has(p, "text") /\ Has(p, "url") ->
              [kind |-> "file", file |-> Fields(p, [uri |-> "url"] @@ FileNames)]
         [] ~Has(p, "text") /\ ~Has(p, "url") /\ Has(p, "raw") ->
              [kind |-> "file", file |-> Fields(p, [bytes |-> "raw"] @@ FileNames)]
         [] OTHER -> [kind |-> "data"] @@ WithMetadata(p, "data")

FlatNames == [text |-> "text", url |-> "url", raw |-> "raw", data |-> "data",
              metadata |-> "metadata", mediaType |-> "mediaType", filename |-> "filename"]

FileOf(p) == IF Has(p, "file") THEN p.file ELSE <<>>

\* A flat part; an old mimeType takes the place of mediaType.
Flat(p) == Fields(p, IF Has(p, "mimeType") THEN [FlatNames EXCEPT !.mediaType = "mimeType"]
                     ELSE FlatNames)

\* Mutant of NormalizePart: the media type of a file is lost.
NormalizeUntyped(p) ==
  IF Has(p, "kind") /\ p.kind = "file"
    THEN Fields(FileOf(p), [url |-> "uri", raw |-> "bytes", filename |-> "name"])
    ELSE IF Has(p, "kind") THEN WithMetadata(p, p.kind) ELSE Flat(p)

\* normalize_inbound_parts, for a part of a known kind or without one; it does the
\* same for both versions.
NormalizePart(p) ==
  IF Has(p, "kind") /\ p.kind = "file"
    THEN Fields(FileOf(p), [url |-> "uri", raw |-> "bytes", mediaType |-> "mimeType",
                            filename |-> "name"])
    ELSE IF Has(p, "kind") THEN WithMetadata(p, p.kind) ELSE Flat(p)

\* A part without content is dropped.
Normalize(p) ==
  IF DOMAIN NormalizePart(p) \cap ContentKeys = {} THEN <<>>
  ELSE <<NormalizePart(p)>>

\* The A2A schemas: how a part is written in a version.  In 0.3 text and data have
\* room for metadata only; a file has it beside its nested fields.
NestedNames == [uri |-> "url", bytes |-> "raw", mimeType |-> "mediaType", name |-> "filename"]

Written(p, version) ==
  LET c == CHOOSE c \in ContentKeys : Has(p, c)
  IN  CASE version = "1.0" -> p
        [] version = "0.3" /\ c \in {"text", "data"} ->
             [kind |-> c] @@ [k \in DOMAIN p \cap {c, "metadata"} |-> p[k]]
        [] OTHER -> [kind |-> "file", file |-> Fields(p, NestedNames)] @@
                      Fields(p, [metadata |-> "metadata"])

IsFile(p) == Has(p, "url") \/ Has(p, "raw")

\* Forms met in messages: that of a version; the media type under its old name; a part
\* of version 1.0 with the kind of version 0.3 left in it.
Passed(p, style) ==
  CASE style \in Version -> Written(p, style)
    [] style = "mime" -> Fields(p, [k \in (DOMAIN p \ {"mediaType"}) |-> k] @@
                                   (IF Has(p, "mediaType") THEN [mimeType |-> "mediaType"]
                                    ELSE <<>>))
    [] style = "stale" ->
         [kind |-> IF IsFile(p) THEN "file" ELSE IF Has(p, "text") THEN "text" ELSE "data"] @@ p

----------------------------------------------------------------------------
\* Requests

MethodMapV03 == [send |-> "message/send", stream |-> "message/stream"]
MethodMapV10 == [send |-> "SendMessage", stream |-> "SendStreamingMessage"]

\* What build_request_params, get_method_name, get_headers and build_role make of the
\* user's message; the parts of any form are normalised first.
Request(base, part, iface) ==
  LET v == iface.version
  IN  [url |-> iface.url,
       method |-> IF v = "1.0" THEN MethodMapV10[base] ELSE MethodMapV03[base],
       header |-> IF v = "1.0" THEN "1.0" ELSE "absent",
       role |-> IF v = "1.0" THEN "ROLE_USER" ELSE "user",
       parts |-> [i \in DOMAIN Normalize(part) |-> BuildPart(Normalize(part)[i], v)]]

----------------------------------------------------------------------------
\* Answers

StateMap ==
  [submitted |-> "TASK_STATE_SUBMITTED", working |-> "TASK_STATE_WORKING",
   completed |-> "TASK_STATE_COMPLETED", failed |-> "TASK_STATE_FAILED",
   canceled |-> "TASK_STATE_CANCELED", rejected |-> "TASK_STATE_REJECTED"] @@
  ("input-required" :> "TASK_STATE_INPUT_REQUIRED") @@
  ("auth-required" :> "TASK_STATE_AUTH_REQUIRED")

State == DOMAIN StateMap

NormalizeState(s) ==
  IF \E t \in State : StateMap[t] = s THEN CHOOSE t \in State : StateMap[t] = s ELSE s

Kind == [task |-> "task", message |-> "message", statusUpdate |-> "status-update",
         artifactUpdate |-> "artifact-update"]

\* What an agent answers: the task of a blocking request, the same fetched later, a
\* message, or an event of a stream.  A message has its part in "status".
AtMostOne(S) == {<<>>} \cup {<<p>> : p \in S}
Reply ==
  {r \in [shape : DOMAIN Kind \cup {"fetched"}, state : State,
          status : AtMostOne(Part), artifact : AtMostOne(Part)] :
     /\ r.shape = "message" => r.artifact = <<>> /\ r.state = "completed"
     /\ r.shape = "statusUpdate" => r.artifact = <<>>
     /\ r.shape = "artifactUpdate" => r.status = <<>> /\ r.state = "completed"}

\* The A2A schemas again: version 0.3 marks a result with a kind, 1.0 wraps it in a
\* field of that name, except for a fetched task.
Answered(r, version) ==
  LET ps(s) == [i \in DOMAIN s |-> Written(s[i], version)]
      body == [state |-> IF version = "1.0" THEN StateMap[r.state] ELSE r.state,
               status |-> ps(r.status), artifact |-> ps(r.artifact)]
  IN  CASE version = "0.3" ->
             [kind |-> IF r.shape = "fetched" THEN "task" ELSE Kind[r.shape]] @@ body
        [] version = "1.0" /\ r.shape = "fetched" -> body
        [] OTHER -> r.shape :> body

\* normalize_inbound_parts on the one part of a place.
NormalizeParts(ps) == IF ps = <<>> THEN <<>> ELSE Normalize(ps[1])

\* The parts and, in version 1.0, the state.
Canonical(body, version) ==
  [body EXCEPT !.state = IF version = "1.0" THEN NormalizeState(@) ELSE @,
               !.status = NormalizeParts(@), !.artifact = NormalizeParts(@)]

\* Mutant of Understand: a task that is not wrapped is left as it is.
UnderstandWrapped(raw, version) ==
  LET wrapper == CHOOSE k \in DOMAIN Kind : Has(raw, k)
  IN  CASE version # "1.0" -> Canonical(raw, version)
        [] version = "1.0" /\ \E k \in DOMAIN Kind : Has(raw, k) ->
             [kind |-> Kind[wrapper]] @@ Canonical(raw[wrapper], version)
        [] OTHER -> raw

\* extract_response, and classify_stream_event for the events of a stream.
Understand(raw, version) ==
  LET wrapper == CHOOSE k \in DOMAIN Kind : Has(raw, k)
  IN  CASE version # "1.0" -> Canonical(raw, version)
        [] version = "1.0" /\ \E k \in DOMAIN Kind : Has(raw, k) ->
             [kind |-> Kind[wrapper]] @@ Canonical(raw[wrapper], version)
        [] OTHER -> Canonical(raw, version)

\* _collect_parts
Collect(ps) ==
  [text |-> SelectSeq(ps, LAMBDA p : Has(p, "text")),
   parts |-> SelectSeq(ps, LAMBDA p : ~Has(p, "text"))]

\* The text of a task is that of its artifacts, or else of its status.
CollectFromTask(m) ==
  LET artifact == Collect(m.artifact)
      status == Collect(m.status)
  IN  IF artifact.text # <<>> THEN artifact
      ELSE [text |-> status.text, parts |-> artifact.parts \o status.parts]

\* _extract_response_content and the events of _dispatch_streaming, by kind; a fetched
\* task needs none.
Content(m, kind) ==
  [state |-> m.state] @@
  CASE kind = "task" -> CollectFromTask(m)
    [] kind = "message" -> Collect(m.status)
    [] kind = "status-update" -> [Collect(m.status) EXCEPT !.parts = <<>>]
    [] kind = "artifact-update" -> Collect(m.artifact)

----------------------------------------------------------------------------
VARIABLES
  card,     \* the agent's card
  serves,   \* what the agent really serves
  iface,    \* the interface in use
  pc,
  message,  \* the user's part, and the form in which the relay passed it
  got,      \* the parts the agent has read
  refusal,  \* the last refusal by an agent at the url
  reply,    \* what the agent answered
  heard     \* what the hub made of it

vars == <<card, serves, iface, pc, message, got, refusal, reply, heard>>

\* -32601 and -32009, and any other error: of JSON-RPC, of HTTP, or no JSON at all.
FALLBACK_ELIGIBLE_CODES == {"MethodNotFound", "VersionNotSupported"}
Code == FALLBACK_ELIGIBLE_CODES \cup {"other"}

\* A blocking request is answered with JSON; a stream is refused in its first event, or
\* with JSON in place of the stream.
Refusal ==
  {e \in [base : {"send", "stream"}, code : Code, form : {"json", "event"}] :
     e.base = "send" => e.form = "json"}

NoMessage == <<>>
NoRefusal == <<>>
Message == Part \X Style

TypeOK ==
  /\ card \in Card /\ serves \subseteq Interface
  /\ iface \in Interface \cup {None}
  /\ pc \in {"found", "unusable", "send", "resend", "taken", "working", "failed", "heard"}
  /\ message \in Message \cup {NoMessage}
  /\ refusal \in Refusal \cup {NoRefusal}
  /\ reply \in Reply \cup {NoMessage}
  /\ pc \in {"send", "resend", "taken", "working"} => iface # None
  /\ pc \in {"send", "resend", "taken"} => message # NoMessage
  /\ pc = "resend" => iface.version = "0.3"

Init ==
  /\ card \in Card /\ serves \in SUBSET Interface
  /\ iface = None /\ pc = "found"
  /\ message = NoMessage /\ got = <<>> /\ refusal = NoRefusal
  /\ reply = NoMessage /\ heard = <<>>

\* The agent is registered with an interface, or skipped; then a message comes.
Choose ==
  /\ pc = "found"
  /\ iface' = SelectInterface(card)
  /\ IF iface' = None THEN pc' = "unusable" /\ UNCHANGED message
                      ELSE pc' = "send" /\ message' \in Message
  /\ UNCHANGED <<card, serves, got, refusal, reply, heard>>

\* An agent takes a request in a version it serves at the url, when method, header
\* and role are those of that version.
Speaks(request, v) ==
  /\ [version |-> v, url |-> request.url] \in serves
  /\ request.method \in
       IF v = "1.0" THEN {"SendMessage", "SendStreamingMessage"}
                    ELSE {"message/send", "message/stream"}
  /\ request.header = IF v = "1.0" THEN "1.0" ELSE "absent"
  /\ request.role = IF v = "1.0" THEN "ROLE_USER" ELSE "user"

Send(base) == Request(base, Passed(message[1], message[2]), iface)

Taken ==
  /\ pc \in {"send", "resend"}
  /\ \E base \in {"send", "stream"} :
       /\ \E v \in Version : Speaks(Send(base), v)
       /\ got' = Send(base).parts
  /\ pc' = "taken"
  /\ UNCHANGED <<card, serves, iface, message, refusal, reply, heard>>

\* The url serves another version.  The second try is made for an eligible code, in the
\* answer to a blocking request (_check_response) or in the first event of a stream; JSON
\* in place of a stream is no event, and ends the dispatch like any other error.
Refused ==
  /\ pc \in {"send", "resend"}
  /\ \E i \in serves : i.url = iface.url
  /\ \E e \in Refusal :
       /\ ~\E v \in Version : Speaks(Send(e.base), v)
       /\ refusal' = e
       /\ LET fallback == SelectFallback(card, iface)
              eligible == /\ e.code \in FALLBACK_ELIGIBLE_CODES
                          /\ e.base = "stream" => e.form = "event"
          IN  IF pc = "send" /\ eligible /\ fallback # None
                THEN pc' = "resend" /\ iface' = fallback
                ELSE pc' = "failed" /\ UNCHANGED iface
  /\ UNCHANGED <<card, serves, message, got, reply, heard>>

Unreachable ==
  /\ pc \in {"send", "resend"}
  /\ \A i \in serves : i.url # iface.url
  /\ pc' = "failed"
  /\ UNCHANGED <<card, serves, iface, message, got, refusal, reply, heard>>

\* The agent works on what it has read.
Work ==
  /\ pc = "taken"
  /\ pc' = "working"
  /\ message' = NoMessage /\ got' = <<>> /\ refusal' = NoRefusal
  /\ UNCHANGED <<card, serves, iface, reply, heard>>

Hear ==
  /\ pc = "working"
  /\ \E r \in Reply :
       LET m == Understand(Answered(r, iface.version), iface.version)
       IN  /\ reply' = r
           /\ heard' = Content(m, IF r.shape = "fetched" THEN "task" ELSE m.kind)
  /\ pc' = "heard"
  /\ UNCHANGED <<card, serves, iface, message, got, refusal>>

Next == Choose \/ Taken \/ Refused \/ Unreachable \/ Work \/ Hear

Spec == Init /\ [][Next]_vars

----------------------------------------------------------------------------
\* Properties

Listed ==
  {i \in Interface : IF card.lists THEN \E j \in Usable(card, i.version) :
                                          card.interfaces[j].url = i.url
                     ELSE i = [version |-> "0.3", url |-> card.url]}

\* A message reaches every agent that serves what its card lists, and every agent that
\* is still at version 0.3 behind a card that promises 1.0: no choice of interfaces
\* leaves the hub at one the agent does not have, and the second try is made where an
\* old agent listens.  Only an old agent that refuses the first try with another error,
\* or a stream with JSON, is not tried again.
SpeakersAreReached ==
  pc = "failed" =>
    /\ ~ Listed \subseteq serves
    /\ \/ \E i \in Listed : [version |-> "0.3", url |-> i.url] \notin serves
       \/ /\ iface.version = "1.0" /\ refusal \in Refusal
          /\ refusal.code = "other" \/ (refusal.base = "stream" /\ refusal.form = "json")

\* What the hub carries of a part through version 0.3: what that version has room for,
\* but for the metadata of a file, which the hub drops although both versions have it.
Narrow(p) ==
  [k \in DOMAIN p \cap IF IsFile(p) THEN {"url", "raw", "mediaType", "filename"}
                                     ELSE {"text", "data", "metadata"} |-> p[k]]

Carried(p, version) == IF version = "0.3" THEN Narrow(p) ELSE p

\* What the hub reads from a form: a file with a kind left in it is lost, and other
\* parts are then read as of version 0.3.
Kept(p, style) ==
  CASE style = "stale" /\ IsFile(p) -> <<>>
    [] style = "0.3" \/ (style = "stale" /\ ~IsFile(p)) -> <<Narrow(p)>>
    [] OTHER -> <<p>>

\* The part the agent reads is the one the user sent, written as the schema of the
\* agent's version has it, whatever form the relay passed it in and on whichever try:
\* nothing but what Kept and Carried name is lost, and that on both ways.
ContentArrives ==
  pc = "taken" =>
    LET kept == Kept(message[1], message[2])
        v == iface.version
    IN  got = [i \in DOMAIN kept |-> Written(Carried(kept[i], v), v)]

Body(r, version) ==
  LET ps(s) == [i \in DOMAIN s |-> Carried(s[i], version)]
  IN  [state |-> r.state, status |-> ps(r.status), artifact |-> ps(r.artifact)]

\* Text, other parts and state of an answer are the same to the hub in both versions
\* and in every shape of answer, but for what version 0.3 does not carry.
ReplyIsUnderstood ==
  pc = "heard" =>
    heard = Content(Body(reply, iface.version),
                    IF reply.shape = "fetched" THEN "task" ELSE Kind[reply.shape])
====
