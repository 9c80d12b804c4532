---------------------------- MODULE ProxyRequest ----------------------------
(***************************************************************************)
(* One request to the proxy, from its body to its row in the log.          *)
(*                                                                         *)
(* The handler (handleChatCompletions, handleStream and the two relays)    *)
(* runs beside a client that may go away and an upstream that answers,     *)
(* fails, stalls or streams.  Requests share nothing but the config, which *)
(* each reads once, and the log, to which each adds a row of its own.      *)
(*                                                                         *)
(* A step of the handler is what it does between two points at which it    *)
(* waits for, or writes to, somebody else.  A frame of a stream stands for *)
(* its last byte: the relays act on complete frames only, and what is left *)
(* at the end of a stream is dropped.                                      *)
(***************************************************************************)
EXTENDS ProxyRouting, SseConverters, FiniteSets

CONSTANTS
    Requests,       \* the requests that are made
    Configs,        \* the contents the config file may have
    MaxFrames,      \* bound: frames of an upstream stream
    None            \* no request, no config, no route

ASSUME RequestAssumption ==
    /\ Requests \subseteq Request /\ Configs \subseteq Config
    /\ MaxFrames \in Nat
    /\ None \notin Requests \cup Configs

VARIABLES
    client,     \* there, lost (a write may fail), or gone (the context ended)
    pc,         \* where the handler is
    request,    \* what the client asked for
    snapshot,   \* the config that was read
    route,      \* the channel that was chosen, and its format
    calls,      \* the calls of the upstream, with what they returned
    relay,      \* the state of a stream
    sent,       \* what the handler has written to the client
    todo,       \* how the request ends: what is still to be done
    log         \* the rows of this request

vars == <<client, pc, request, snapshot, route, calls, relay, sent, todo, log>>

\* What an upstream returns: an answer, one that cannot be converted, a 400
\* invalid_request_error, or another status of at least 400.
Replies == {"ok", "garbled", "invalid", "refused"}
Failed(reply) == reply \in {"invalid", "refused"}

\* Statuses: 200 is any below 400, "upstream" any the upstream failed with.
Statuses == {"200", "400", "413", "499", "500", "502", "upstream"}

Row(success, status)    == [success |-> success, status |-> status]
Answer(status, format)  == [type |-> "answer", status |-> status, format |-> format]

Logs(success, status)   == [do |-> "log", row |-> Row(success, status)]
Says(status, format)    == [do |-> "answer", event |-> Answer(status, format)]

\* The stream: what the loop has seen of it, what waits to be written, and why
\* it counts as failed.  reported is a ghost: the upstream reported a failure
\* before the end of its answer.
NewRelay == [conv |-> NewConverter, out |-> <<>>, frames |-> 0, over |-> FALSE,
             terminal |-> FALSE, reported |-> FALSE, failed |-> FALSE, canceled |-> FALSE]

Init ==
    /\ client = "there" /\ pc = "idle"
    /\ request = None /\ snapshot = None /\ route = None
    /\ calls = <<>> /\ sent = <<>> /\ todo = <<>> /\ log = <<>>
    /\ relay = NewRelay

Converts == route.format # request.from
Call(reply) == [at |-> route.at, short |-> calls # <<>>, reply |-> reply]

-----------------------------------------------------------------------------
(* The client *)

\* The connection breaks, and later the server notices and ends the context.
Lose ==
    /\ client = "there" /\ pc \notin {"idle", "done"}
    /\ client' = "lost"
    /\ UNCHANGED <<pc, request, snapshot, route, calls, relay, sent, todo, log>>

Cancel ==
    /\ client # "gone" /\ pc \notin {"idle", "done"}
    /\ client' = "gone"
    /\ UNCHANGED <<pc, request, snapshot, route, calls, relay, sent, todo, log>>

-----------------------------------------------------------------------------
(* Up to the first call *)

\* Refused before any call: an answer, and no row.
Refuse(status) ==
    /\ sent' = Append(sent, Answer(status, request'.from))
    /\ pc' = "done"

Receive(r) ==
    /\ pc = "idle"
    /\ request' = r
    /\ IF r.large THEN Refuse("413") ELSE pc' = "load" /\ UNCHANGED sent
    /\ UNCHANGED <<client, snapshot, route, calls, relay, todo, log>>

\* The file may hold anything the writers of the config leave in it.
LoadConfig(cfg) ==
    /\ pc = "load"
    /\ snapshot' = cfg
    /\ pc' = "route"
    /\ UNCHANGED <<client, request, route, calls, relay, sent, todo, log>>

LoadFails ==
    /\ pc = "load"
    /\ UNCHANGED request
    /\ Refuse("500")
    /\ UNCHANGED <<client, snapshot, route, calls, relay, todo, log>>

RouteRefused ==
    /\ pc = "route" /\ ~Servable(snapshot, request)
    /\ UNCHANGED request
    /\ Refuse(IF request.model = Slashed THEN "400" ELSE "502")
    /\ UNCHANGED <<client, snapshot, route, calls, relay, todo, log>>

Route ==
    /\ pc = "route" /\ Servable(snapshot, request)
    /\ LET at == RouteOf(snapshot, Requested(request))
       IN  route' = [at |-> at, format |-> ApiAt(snapshot, at)]
    /\ calls' = <<[at |-> route'.at, short |-> FALSE, reply |-> None]>>
    /\ pc' = "call"
    /\ UNCHANGED <<client, request, snapshot, relay, sent, todo, log>>

-----------------------------------------------------------------------------
(* Calls of the upstream *)

\* The request ends: what is still to be done, in the order of the code.
EndsWith(effects) == todo' = effects /\ pc' = "ending"

\* An attempt failed below HTTP: 499 and no answer when the client caused it.
Aborted ==
    IF client = "gone" THEN <<Logs(FALSE, "499")>>
    ELSE <<Logs(FALSE, "502"), Says("502", request.from)>>

\* A status of the upstream, or the 400 before the retry, in its own format.
Relayed == <<Says("upstream", route.format), Logs(FALSE, "upstream")>>

Retried == Len(calls) = 2
Returned(reply) == calls' = [calls EXCEPT ![Len(calls)].reply = reply]

CallReturns(reply) ==
    /\ pc = "call"
    /\ Returned(reply)
    /\ IF ~request.stream THEN pc' = "body" /\ UNCHANGED todo
       ELSE IF Failed(reply) THEN EndsWith(Relayed)
       ELSE pc' = "stream" /\ UNCHANGED todo
    /\ UNCHANGED <<client, request, snapshot, route, relay, sent, log>>

\* Mutant: no return after the row of an aborted retry.
CallFails_NoReturn ==
    /\ pc = "call"
    /\ EndsWith(IF ~Retried THEN Aborted
                ELSE (IF client = "gone" THEN Aborted ELSE <<>>) \o Relayed)
    /\ UNCHANGED <<client, request, snapshot, route, calls, relay, sent, log>>

\* A retry that fails for another reason falls back on the 400 before it.
CallFails ==
    /\ pc = "call"
    /\ EndsWith(IF Retried /\ client # "gone" THEN Relayed ELSE Aborted)
    /\ UNCHANGED <<client, request, snapshot, route, calls, relay, sent, log>>

\* The body could not be read, or the client went while it was.
BodyFails ==
    /\ pc = "body"
    /\ EndsWith(Aborted)
    /\ UNCHANGED <<client, request, snapshot, route, calls, relay, sent, log>>

Reply == calls[Len(calls)].reply

\* Mutant: every 400 is tried again.
Retry_Always ==
    /\ pc = "body" /\ client # "gone"
    /\ Reply = "invalid"
    /\ calls' = Append(calls, Call(None))
    /\ pc' = "call"
    /\ UNCHANGED <<client, request, snapshot, route, relay, sent, todo, log>>

\* A 400 invalid_request_error is tried again, once, with 16 tokens.
Retry ==
    /\ pc = "body" /\ client # "gone"
    /\ Reply = "invalid" /\ ~Retried
    /\ calls' = Append(calls, Call(None))
    /\ pc' = "call"
    /\ UNCHANGED <<client, request, snapshot, route, relay, sent, todo, log>>

UpstreamRefuses ==
    /\ pc = "body" /\ client # "gone"
    /\ Failed(Reply) /\ (Reply = "invalid" => Retried)
    /\ EndsWith(Relayed)
    /\ UNCHANGED <<client, request, snapshot, route, calls, relay, sent, log>>

ConversionFails ==
    /\ pc = "body" /\ client # "gone"
    /\ Reply = "garbled" /\ Converts
    /\ EndsWith(<<Logs(FALSE, "502"), Says("502", request.from)>>)
    /\ UNCHANGED <<client, request, snapshot, route, calls, relay, sent, log>>

\* transformResponseBody gives the client its own format.
Succeed ==
    /\ pc = "body" /\ client # "gone"
    /\ ~Failed(Reply) /\ (Converts => Reply = "ok")
    /\ EndsWith(<<Logs(TRUE, "200"), Says("200", IF Converts THEN request.from ELSE route.format)>>)
    /\ UNCHANGED <<client, request, snapshot, route, calls, relay, sent, log>>

\* A row or an answer; a broken connection is not noticed.
Effect ==
    /\ pc = "ending" /\ todo # <<>>
    /\ IF Head(todo).do = "log"
       THEN log' = Append(log, Head(todo).row) /\ UNCHANGED sent
       ELSE sent' = Append(sent, Head(todo).event) /\ UNCHANGED log
    /\ todo' = Tail(todo)
    /\ pc' = IF Tail(todo) = <<>> THEN "done" ELSE "ending"
    /\ UNCHANGED <<client, request, snapshot, route, calls, relay>>

-----------------------------------------------------------------------------
(* Streams *)

Reading == pc = "stream" /\ relay.out = <<>> /\ ~relay.over

\* Both relays look at each frame; the converter's errors fail the stream, and
\* so does, when frames are passed through, what the upstream reports.
ReadFrame(f) ==
    /\ Reading /\ relay.frames < MaxFrames
    /\ LET events == IF Converts THEN EventsOf(request.from, relay.conv, f) ELSE <<f>>
       IN  relay' = [relay EXCEPT
             !.frames = @ + 1,
             !.conv = IF Converts THEN Pushed(request.from, @, f) ELSE @,
             !.out = events,
             !.terminal = @ \/ IsSSETerminal(route.format, f),
             !.reported = @ \/ (IsSSEFailure(route.format, f) /\ ~relay.terminal),
             !.failed = \/ @
                        \/ Converts /\ \E i \in DOMAIN events : events[i].type = "error"
                        \/ ~Converts /\ IsSSEFailure(route.format, f)]
    /\ UNCHANGED <<client, pc, request, snapshot, route, calls, sent, todo, log>>

ReadEnds ==
    /\ Reading
    /\ relay' = [relay EXCEPT !.over = TRUE]
    /\ UNCHANGED <<client, pc, request, snapshot, route, calls, sent, todo, log>>

ReadFails ==
    /\ Reading
    /\ relay' = [relay EXCEPT !.over = TRUE, !.failed = TRUE]
    /\ UNCHANGED <<client, pc, request, snapshot, route, calls, sent, todo, log>>

Writing == pc \in {"stream", "finish"} /\ relay.out # <<>>

\* Each event is written after a look at the context.
Emit ==
    /\ Writing /\ client # "gone"
    /\ sent' = Append(sent, Head(relay.out))
    /\ relay' = [relay EXCEPT !.out = Tail(@)]
    /\ UNCHANGED <<client, pc, request, snapshot, route, calls, todo, log>>

\* The context has ended, or the write fails: the rest is dropped, the upstream
\* body closed.
EmitFails ==
    /\ Writing /\ client # "there"
    /\ relay' = [relay EXCEPT !.out = <<>>, !.over = TRUE, !.failed = TRUE, !.canceled = TRUE]
    /\ UNCHANGED <<client, pc, request, snapshot, route, calls, sent, todo, log>>

\* Mutant: the end of the body is the end of the answer.
Conclude_AtEof ==
    /\ pc = "stream" /\ relay.over /\ relay.out = <<>>
    /\ LET canceled == relay.canceled \/ client = "gone"
           failed   == relay.failed \/ canceled
       IN  relay' = [relay EXCEPT
             !.canceled = canceled,
             !.failed = failed,
             !.out = IF failed \/ ~Converts THEN <<>>
                     ELSE Finish(request.from, relay.conv)
                          \o Only(request.from = "chat", Event("[DONE]", NoItem))]
    /\ pc' = "finish"
    /\ UNCHANGED <<client, request, snapshot, route, calls, sent, todo, log>>

\* The loop has ended.  A stream that failed, or whose end nobody announced,
\* is not closed for the client.
Conclude ==
    /\ pc = "stream" /\ relay.over /\ relay.out = <<>>
    /\ LET canceled == relay.canceled \/ client = "gone"
           failed   == relay.failed \/ canceled \/ ~relay.terminal
       IN  relay' = [relay EXCEPT
             !.canceled = canceled,
             !.failed = failed,
             !.out = IF failed \/ ~Converts THEN <<>>
                     ELSE Finish(request.from, relay.conv)
                          \o Only(request.from = "chat", Event("[DONE]", NoItem))]
    /\ pc' = "finish"
    /\ UNCHANGED <<client, request, snapshot, route, calls, sent, todo, log>>

LogStream ==
    /\ pc = "finish" /\ relay.out = <<>>
    /\ log' = Append(log, Row(~relay.failed, IF relay.canceled THEN "499"
                                             ELSE IF relay.failed THEN "502" ELSE "200"))
    /\ pc' = "done"
    /\ UNCHANGED <<client, request, snapshot, route, calls, relay, sent, todo>>

-----------------------------------------------------------------------------
(* Specification *)

Handler == \/ \E cfg \in Configs : LoadConfig(cfg)
           \/ LoadFails \/ RouteRefused \/ Route \/ Effect
           \/ Emit \/ EmitFails \/ Conclude \/ LogStream

\* Frames that are passed through differ in whether they end or fail the stream.
Incoming ==
    IF ~Reading THEN {}
    ELSE {f \in Frames(route.format) :
             \/ Converts \/ f.type = "text"
             \/ IsSSETerminal(route.format, f) \/ IsSSEFailure(route.format, f)}

\* The upstream answers, and its body or a part of its stream arrives.
Upstream == \/ \E reply \in Replies : CallReturns(reply)
            \/ Retry \/ UpstreamRefuses \/ ConversionFails \/ Succeed
            \/ \E f \in Incoming : ReadFrame(f)
            \/ ReadEnds

\* A call, a body or a stream that comes to nothing.
Breaks == CallFails \/ BodyFails \/ ReadFails

Finished == pc = "done" /\ UNCHANGED vars

Next == \/ \E r \in Requests : Receive(r)
        \/ Lose \/ Cancel \/ Handler \/ Upstream \/ Breaks \/ Finished

\* Mutant: an outbound request without the context of the client.
Due_NoContext == Breaks /\ ~request.stream

\* The client of a call has a timeout of 30 s, that of a stream none; both end
\* with the context of the request.
Due == Breaks /\ (client = "gone" \/ ~request.stream)

Spec == Init /\ [][Next]_vars /\ WF_vars(Handler) /\ WF_vars(Due)

-----------------------------------------------------------------------------
(* Properties *)

\* Every variable holds a value of its type.
TypeOK ==
    /\ client \in {"there", "lost", "gone"}
    /\ pc \in {"idle", "load", "route", "call", "body", "stream", "finish", "ending", "done"}
    /\ request \in Requests \cup {None}
    /\ snapshot \in Configs \cup {None}
    /\ route = None \/ (route.at.supplier \in Suppliers /\ route.format \in Formats)
    /\ \A i \in DOMAIN calls : calls[i].reply \in Replies \cup {None} /\ calls[i].short \in BOOLEAN
    /\ relay.conv \in Converter /\ relay.frames \in 0..MaxFrames
    /\ {relay.over, relay.terminal, relay.reported, relay.failed, relay.canceled} \subseteq BOOLEAN
    /\ \A i \in DOMAIN log : log[i] \in [success : BOOLEAN, status : Statuses]

Answers == {i \in DOMAIN sent : sent[i].type = "answer"}
Relaying == relay.over \/ pc = "stream"

\* A request that reached an upstream has exactly one row when it ends, one
\* that was refused before has none.  It is answered once, and the row names
\* the status of the answer, unless the client went away (499) or the answer
\* is a stream.  (The order of log and answer in each of the ends of
\* handleChatCompletions and handleStream.)
Accounted ==
    /\ Len(log) <= 1 /\ \A i, j \in Answers : i = j
    /\ pc = "done" => (log = <<>> <=> calls = <<>>)
    /\ pc = "done" /\ ~Relaying =>
          \/ log # <<>> /\ log[1].status = "499" /\ Answers = {}
          \/ /\ Answers # {}
             /\ log # <<>> => \A i \in Answers : sent[i].status = log[1].status

DistinctNames(cfg, s) ==
    \A i, j \in DOMAIN cfg[s].channels :
        cfg[s].channels[i].name = cfg[s].channels[j].name => i = j

\* The upstream is called once, and a second time only without a stream, after
\* a 400 invalid_request_error, with the small limit.  Every call goes to the
\* one channel that exposes the model in the config that was read, as long as
\* its supplier names its channels differently; and there is a way back for
\* what it will answer.  (resolveRoute, narrowToChannel, PlanRequest and the
\* retry of handleChatCompletions, system contract 2.4.3, 2.4.4 and 2.4.9.)
CallsAreDue ==
    /\ Len(calls) <= 2
    /\ Len(calls) = 2 =>
          ~request.stream /\ calls[1].reply = "invalid" /\ calls[2].short /\ ~calls[1].short
    /\ \A i \in DOMAIN calls :
          /\ calls[i].at = route.at
          /\ DistinctNames(snapshot, route.at.supplier) =>
                Matches(snapshot, Requested(request)) = {calls[i].at}
          /\ request.from # route.format => request.convertible
          /\ request.stream /\ Converts => HasStreamConverter(request.from, route.format)

Success == log # <<>> /\ log[1].success

\* A stream that goes from a Chat upstream to a Responses client.
ChatToResponses == Converts /\ request.from = "responses"

\* What is logged as a success was whole: the upstream ended it and reported no
\* failure, the client was there to the end, and got it in its own format.
\* (System contract 2.4.7 and 2.4.10; streamPassthrough, streamConvert,
\* transformResponseBody.)
WholeStream == relay.terminal /\ ~relay.canceled /\ ~relay.reported
WholeAnswer ==
    /\ ~Failed(Reply) /\ (Converts => Reply = "ok")
    /\ \A i \in Answers : sent[i].status = "200" /\ sent[i].format = request.from
SuccessIsWhole == Success => IF request.stream THEN WholeStream ELSE WholeAnswer

\* The same, apart from a failure that a Chat upstream reports to a Responses
\* client: the converter passes over it.
SuccessIsWholeUnlessUnreported ==
    Success /\ ~(request.stream /\ ChatToResponses /\ relay.reported) =>
        IF request.stream THEN WholeStream ELSE WholeAnswer

Sent(types) == {i \in DOMAIN sent : sent[i].type \in types}

\* A Chat client gets its role before anything else, the head of a tool call
\* never after its arguments, one end, and [DONE] directly after a good one.
\* (ResponsesSseToChat, with the relay's [DONE].)
ChatGrammar ==
    request # None /\ relay.frames > 0 /\ Converts /\ request.from = "chat" =>
        /\ Sent({"content", "tool.header", "tool.arguments"}) # {} => sent[1].type = "role"
        /\ \A i \in Sent({"tool.header"}), j \in Sent({"tool.header", "tool.arguments"}) :
              sent[i].item = sent[j].item => i <= j
        /\ \A i \in Sent({"finish", "error"}) : \A j \in DOMAIN sent :
              j > i => sent[i].type = "finish" /\ j = i + 1 /\ sent[j].type = "[DONE]"
        /\ \A j \in Sent({"[DONE]"}) : j > 1 /\ sent[j - 1].type = "finish"

Told(type) == {sent[i].item : i \in Sent({type})}

\* The events of a Responses client, as an EventStream.
Stream == INSTANCE EventStream WITH
    phase  <- IF Sent({"response.completed", "response.incomplete"}) # {} THEN "ended"
              ELSE IF Sent({"response.created"}) # {} THEN "created" ELSE "fresh",
    added  <- Told("item.added"),
    deltas <- [k \in Items |-> Cardinality({i \in Sent({"delta"}) : sent[i].item = k})],
    closed <- Told("item.done")

\* ChatSseToResponses with its relay keeps what EventStream promises.
ResponsesGrammar == Stream!Spec

\* A request without a stream ends, whatever the upstream does, and so does a
\* stream whose client has gone.  (The timeout of 30 s, and the context that
\* every outbound request inherits.)
RequestEnds ==
    (pc # "idle" /\ (~request.stream \/ client = "gone")) ~> (pc = "done")
=============================================================================
