---------------------------- MODULE ProxyProofs ----------------------------
(***************************************************************************)
(* Proofs about ProxyRequest, for any configs, requests and number of      *)
(* frames.                                                                 *)
(***************************************************************************)
EXTENDS ProxyRequest, FiniteSetTheorems, SequenceTheorems, TLAPS

-----------------------------------------------------------------------------
(* The route                                                               *)

(* A channel that exposes the model is a place of a supplier.              *)
LEMMA MatchesType ==
    ASSUME NEW cfg, NEW m, NEW at \in Matches(cfg, m)
    PROVE  /\ at.supplier \in Suppliers
           /\ at = [supplier |-> at.supplier, index |-> at.index]
           /\ at.index \in DOMAIN cfg[at.supplier].channels
BY DEF Matches, Places

(* Without two channels of one name, pinning does not move the place.      *)
LEMMA PinnedStays ==
    ASSUME NEW cfg, NEW m, NEW at \in Matches(cfg, m), DistinctNames(cfg, at.supplier)
    PROVE  Pinned(cfg, at) = at
<1> DEFINE channels == cfg[at.supplier].channels
           named == {j \in DOMAIN channels : channels[j].name = ChannelAt(cfg, at).name}
<1>1. at.index \in DOMAIN channels /\ at = [supplier |-> at.supplier, index |-> at.index]
  BY MatchesType
<1>2. named = {at.index}
  BY <1>1 DEF DistinctNames, ChannelAt
<1>3. (CHOOSE j \in named : \A k \in named : j <= k) = at.index
           \/ ChannelAt(cfg, at).name = Unnamed
  <2>1. CASE at.index <= at.index
    BY <1>2, <2>1
  <2>2. QED
    BY <1>2, <2>1
<1>4. QED
  BY <1>1, <1>3 DEF Pinned

LEMMA RouteFound ==
    ASSUME NEW cfg, NEW m, HasRoute(cfg, m)
    PROVE  /\ RouteOf(cfg, m).supplier \in Suppliers
           /\ DistinctNames(cfg, RouteOf(cfg, m).supplier) => Matches(cfg, m) = {RouteOf(cfg, m)}
<1>1. PICK at \in Matches(cfg, m) : Matches(cfg, m) = {at}
  BY DEF HasRoute
<1>2. RouteOf(cfg, m) = Pinned(cfg, at)
  BY <1>1 DEF RouteOf
<1>3. Pinned(cfg, at).supplier = at.supplier
  <2>1. at = [supplier |-> at.supplier, index |-> at.index]
    BY MatchesType
  <2>2. QED
    BY <2>1 DEF Pinned
<1>4. QED
  BY <1>1, <1>2, <1>3, MatchesType, PinnedStays

(* An upstream that is called speaks a format the proxy knows.             *)
LEMMA PlannedFormat ==
    ASSUME NEW r \in Request, NEW cfg, Servable(cfg, r)
    PROVE  ApiAt(cfg, RouteOf(cfg, Requested(r))) \in Formats
BY DEF Servable, CanPlan, Formats, Request

-----------------------------------------------------------------------------
(* The converters                                                          *)

\* What a relay may write, and an answer.
Frame == [type : {"text", "begin", "stop", "length", "error", "done", "other", "head", "tool",
                  "created", "message", "completed", "cut", "unknown", "failed", "added", "args",
                  "message_stop"}, item : Calls \cup {NoItem}]
Wire  == Frame \cup Events

LEMMA FramesType == ASSUME NEW format, NEW f \in Frames(format)
                    PROVE  f \in Frame
BY DEF Frames, Frame

LEMMA OnlyType ==
    ASSUME NEW S, NEW event \in S, NEW condition \in BOOLEAN
    PROVE  Only(condition, event) \in Seq(S)
BY DEF Only

LEMMA ConcatType ==
    ASSUME NEW S, NEW s \in Seq(S), NEW t \in Seq(S)
    PROVE  s \o t \in Seq(S)
OBVIOUS

LEMMA LearnType ==
    ASSUME NEW c \in Converter, NEW item \in Items
    PROVE  Learn(c, item) \in Converter
<1>1. CASE Knows(c, item)
  BY <1>1 DEF Learn, Converter
<1>2. CASE ~Knows(c, item) /\ item = Message
  BY <1>2 DEF Learn, Converter
<1>3. CASE ~Knows(c, item) /\ item # Message
  <2>1. item \in Calls /\ c.calls \in Seq(Calls)
    BY <1>3 DEF Items, Converter
  <2>2. Append(c.calls, item) \in Seq(Calls)
    BY <2>1
  <2>3. QED
    BY <1>3, <2>2 DEF Learn, Converter
<1>4. QED
  BY <1>1, <1>2, <1>3

(* A converter stays one.                                                  *)
LEMMA PushedType ==
    ASSUME NEW from \in {"chat", "responses"}, NEW c \in Converter,
           NEW f \in Frames(IF from = "chat" THEN "responses" ELSE "chat")
    PROVE  Pushed(from, c, f) \in Converter
<1>1. CASE from = "responses"
  <2>1. Opens(f) => ItemOf(f) \in Items
    BY <1>1 DEF Frames, ItemOf, Items, Opens
  <2>2. ChatPushed(c, f) \in Converter
    BY <2>1, LearnType DEF ChatPushed, Converter
  <2>3. QED
    BY <1>1, <2>2 DEF Pushed
<1>2. CASE from = "chat"
  <2> SUFFICES ResponsesPushed(c, f) \in Converter
    BY <1>2 DEF Pushed
  <2>1. f.type \in {"added", "args"} => f.item \in Items
    BY <1>2 DEF Frames, Items
  <2>2. CASE f.type \in {"added", "args"}
    <3>1. Learn(c, f.item) \in Converter
      BY <2>1, <2>2, LearnType
    <3>2. QED
      BY <2>2, <3>1 DEF ResponsesPushed
  <2>3. CASE f.type \notin {"added", "args"}
    <3>1. ASSUME NEW started \in BOOLEAN, NEW done \in BOOLEAN
          PROVE  [c EXCEPT !.started = started, !.done = done] \in Converter
      BY DEF Converter
    <3>2. [c EXCEPT !.started = @ \/ f.type \in Begins, !.done = f.type \in Ends] \in Converter
      <4>1. (c.started \/ f.type \in Begins) \in BOOLEAN /\ (f.type \in Ends) \in BOOLEAN
        OBVIOUS
      <4>2. QED
        BY <3>1, <4>1, Zenon
    <3>3. QED
      BY <2>3, <3>2 DEF ResponsesPushed
  <2>4. QED
    BY <2>2, <2>3
<1>3. QED
  BY <1>1, <1>2

(* Its events are events of the client's protocol.                         *)
LEMMA ChatEventsType ==
    ASSUME NEW c \in Converter, NEW f \in Frames("chat")
    PROVE  ChatEvents(c, f) \in Seq(Wire)
<1>1. /\ Opens(f) => ItemOf(f) \in Items
      /\ f.type \in {"text", "tool"} => Opens(f)
  BY DEF Frames, ItemOf, Items, Opens
<1> DEFINE item == IF Opens(f) THEN ItemOf(f) ELSE NoItem
           one == Only((Opens(f) \/ f.type = "begin") /\ ~c.started, Event("response.created", NoItem))
           two == Only(Opens(f) /\ ~Knows(c, item), Event("item.added", item))
           three == Only(f.type \in {"text", "tool"}, Event("delta", item))
<1>2. /\ Event("response.created", NoItem) \in Wire
      /\ Event("item.added", item) \in Wire
      /\ Event("delta", item) \in Wire
  BY <1>1 DEF Event, Wire, Events
<1>3. one \in Seq(Wire) /\ two \in Seq(Wire) /\ three \in Seq(Wire)
  BY <1>2 DEF Only
<1>4. ChatEvents(c, f) = (one \o two) \o three
  BY <1>1 DEF ChatEvents, Only
<1> HIDE DEF one, two, three
<1>5. QED
  BY <1>3, <1>4, ConcatType

LEMMA ResponsesEventsType ==
    ASSUME NEW c \in Converter, NEW f \in Frames("responses")
    PROVE  ResponsesEvents(c, f) \in Seq(Wire)
<1> DEFINE e1 == Only(f.type = "created" \/ (f.type \in Begins /\ ~c.started), Event("role", NoItem))
           e2 == Only(f.type = "text", Event("content", NoItem))
           e3 == Only(f.type = "added", Event("tool.header", f.item))
           e4 == Only(f.type = "args", Event("tool.arguments", f.item))
           e5 == Only(f.type \in {"completed", "cut"}, Event("finish", NoItem))
           e6 == Only(f.type \in {"unknown", "failed"}, Event("error", NoItem))
<1>1. f.item \in Items \cup {NoItem}
  BY DEF Frames, Items
<1>2. /\ Event("role", NoItem) \in Wire /\ Event("content", NoItem) \in Wire
      /\ Event("tool.header", f.item) \in Wire /\ Event("tool.arguments", f.item) \in Wire
      /\ Event("finish", NoItem) \in Wire /\ Event("error", NoItem) \in Wire
  BY <1>1 DEF Event, Wire, Events
<1>3. /\ e1 \in Seq(Wire) /\ e2 \in Seq(Wire) /\ e3 \in Seq(Wire)
      /\ e4 \in Seq(Wire) /\ e5 \in Seq(Wire) /\ e6 \in Seq(Wire)
  BY <1>2 DEF Only
<1>4. ResponsesEvents(c, f) = IF c.done \/ (f.type = "added" /\ Knows(c, f.item)) THEN <<>>
                               ELSE ((((e1 \o e2) \o e3) \o e4) \o e5) \o e6
  BY DEF ResponsesEvents
<1> HIDE DEF e1, e2, e3, e4, e5, e6
<1>5. ((((e1 \o e2) \o e3) \o e4) \o e5) \o e6 \in Seq(Wire)
  BY <1>3, ConcatType
<1>6. <<>> \in Seq(Wire)
  OBVIOUS
<1>7. QED
  BY <1>4, <1>5, <1>6, Zenon

(* What is left for the end of a stream.                                   *)
LEMMA FinishType ==
    ASSUME NEW from, NEW c \in Converter
    PROVE  Finish(from, c) \o Only(from = "chat", Event("[DONE]", NoItem)) \in Seq(Wire)
<1> DEFINE message == Only(c.open, Event("item.done", Message))
           calling == [i \in DOMAIN c.calls |-> Event("item.done", c.calls[i])]
           last == <<Event(IF c.reason = "length" THEN "response.incomplete"
                           ELSE "response.completed", NoItem)>>
<1>1. /\ Event("item.done", Message) \in Wire /\ Event("finish", NoItem) \in Wire
      /\ Event("[DONE]", NoItem) \in Wire
      /\ Event("response.incomplete", NoItem) \in Wire
      /\ Event("response.completed", NoItem) \in Wire
      /\ \A k \in Calls : Event("item.done", k) \in Wire
  BY DEF Event, Wire, Events, Items
<1>2. message \in Seq(Wire) /\ last \in Seq(Wire)
  BY <1>1 DEF Only
<1>3. calling \in Seq(Wire)
  <2>1. c.calls \in Seq(Calls)
    BY DEF Converter
  <2>2. DOMAIN c.calls = 1..Len(c.calls) /\ Len(c.calls) \in Nat
        /\ \A i \in DOMAIN c.calls : c.calls[i] \in Calls
    BY <2>1
  <2>3. calling \in [1..Len(c.calls) -> Wire]
    BY <1>1, <2>2
  <2>4. QED
    BY <2>2, <2>3
<1>4. Only(from = "chat", Event("[DONE]", NoItem)) \in Seq(Wire)
  BY <1>1 DEF Only
<1>5. ResponsesFinish(c) \in Seq(Wire)
  BY <1>1 DEF ResponsesFinish, Only
<1>6. ChatFinish(c) = (message \o calling) \o last
  BY DEF ChatFinish
<1> HIDE DEF message, calling, last
<1>7. ChatFinish(c) \in Seq(Wire)
  BY <1>2, <1>3, <1>6, ConcatType
<1>8. Finish(from, c) \in Seq(Wire)
  BY <1>5, <1>7 DEF Finish
<1>9. QED
  BY <1>4, <1>8, ConcatType

(* A failure that the upstream reports before its end becomes an error.    *)
LEMMA FailureIsTold ==
    ASSUME NEW c \in Converter, ~c.done, NEW f \in Frames("responses"), f.type = "failed"
    PROVE  \E i \in DOMAIN ResponsesEvents(c, f) : ResponsesEvents(c, f)[i].type = "error"
<1>1. ResponsesEvents(c, f) = <<Event("error", NoItem)>>
  BY DEF ResponsesEvents, Only, Begins
<1>2. QED
  BY <1>1 DEF Event

-----------------------------------------------------------------------------
(* The inductive invariant                                                 *)

Replying == [type : {"answer"}, status : Statuses, format : Formats]
Rows     == [success : BOOLEAN, status : Statuses]

Relays   == [conv : Converter, out : Seq(Wire), frames : 0..MaxFrames, over : BOOLEAN,
             terminal : BOOLEAN, reported : BOOLEAN, failed : BOOLEAN, canceled : BOOLEAN]

\* TypeOK, and what the variables hold where they are used.
ControlType ==
    /\ client \in {"there", "lost", "gone"}
    /\ pc \in {"idle", "load", "route", "call", "body", "stream", "finish", "ending", "done"}
    /\ request \in Requests \cup {None} /\ (pc # "idle" => request \in Requests)
    /\ snapshot \in Configs \cup {None}
Made == [at : {route.at}, short : BOOLEAN, reply : Replies \cup {None}]
CallsType ==
    /\ route = None \/ (route.at.supplier \in Suppliers /\ route.format \in Formats)
    /\ calls = <<>> \/ calls \in Seq(Made)
OutputType ==
    /\ sent \in Seq(Wire \cup Replying)
    /\ log \in Seq(Rows)
TypeInv == ControlType /\ CallsType /\ OutputType /\ relay \in Relays

\* The upstream is called on the way that the config shows, at most twice.
CallInv ==
    /\ pc = "route" => snapshot \in Configs
    /\ pc \in {"call", "body", "stream", "finish", "ending"} => calls # <<>>
    /\ calls # <<>> =>
          /\ Servable(snapshot, request) /\ request \in Requests
          /\ route = [at |-> RouteOf(snapshot, Requested(request)),
                      format |-> ApiAt(snapshot, RouteOf(snapshot, Requested(request)))]
          /\ ~calls[1].short
    /\ Len(calls) <= 2
    /\ Len(calls) = 2 => ~request.stream /\ calls[1].reply = "invalid" /\ calls[2].short
    /\ pc \in {"stream", "finish"} => request.stream
    /\ pc = "body" => ~request.stream

\* A row and an answer that go together.
Fits(success, status, format) ==
    success =>
        /\ ~request.stream /\ ~Failed(Reply) /\ (Converts => Reply = "ok")
        /\ status = "200" /\ format = request.from

\* The ways to end, and how far they have come.
EndInv ==
    pc = "ending" =>
        \/ sent = <<>> /\ log = <<>> /\ todo = <<Logs(FALSE, "499")>>
        \/ \E success \in BOOLEAN, status \in Statuses, format \in Formats :
              /\ Fits(success, status, format)
              /\ \/ sent = <<>> /\ log = <<>>
                    /\ todo \in {<<Logs(success, status), Says(status, format)>>,
                                <<Says(status, format), Logs(success, status)>>}
                 \/ sent = <<>> /\ log = <<Row(success, status)>> /\ todo = <<Says(status, format)>>
                 \/ sent = <<Answer(status, format)>> /\ log = <<>> /\ todo = <<Logs(success, status)>>

\* What is left of it.
DoneInv ==
    pc = "done" =>
        \/ calls = <<>> /\ log = <<>> /\ \E status \in Statuses, format \in Formats :
              sent = <<Answer(status, format)>>
        \/ calls # <<>> /\ ~relay.over /\ sent = <<>> /\ log = <<Row(FALSE, "499")>>
        \/ calls # <<>> /\ ~relay.over
           /\ \E success \in BOOLEAN, status \in Statuses, format \in Formats :
                 /\ Fits(success, status, format)
                 /\ sent = <<Answer(status, format)>> /\ log = <<Row(success, status)>>
        \/ /\ calls # <<>> /\ relay.over /\ sent \in Seq(Wire) /\ request.stream
           /\ \E status \in Statuses : log = <<Row(~relay.failed, status)>>

\* Before the end nothing is logged or answered, and only a stream has begun.
EarlyInv ==
    /\ pc \in {"idle", "load", "route", "call", "body", "stream", "finish"} => log = <<>>
    /\ pc \in {"idle", "load", "route"} => calls = <<>>
    /\ pc \in {"idle", "load", "route", "call", "body"} => sent = <<>>
    /\ pc \in {"stream", "finish"} => sent \in Seq(Wire)
    /\ pc \in {"idle", "load", "route", "call", "body", "ending"} => relay = NewRelay

\* A stream that did not fail has ended, with the client there; a failure that
\* the upstream reported is one, save in a Chat stream for a Responses client;
\* a converter to the Chat format is done only after the end.
StreamInv ==
    /\ relay.canceled => relay.failed
    /\ relay.over /\ pc # "stream" /\ ~relay.failed => relay.terminal
    /\ relay.reported => calls # <<>> /\ (relay.failed \/ ChatToResponses)
    /\ calls # <<>> /\ Converts /\ request.from = "chat" /\ relay.conv.done => relay.terminal
    /\ pc = "finish" => relay.over

IInv == TypeInv /\ CallInv /\ EndInv /\ DoneInv /\ EarlyInv /\ StreamInv

-----------------------------------------------------------------------------
(* Its steps                                                               *)

LEMMA InitInv == Init => IInv
<1> SUFFICES ASSUME Init PROVE IInv
  OBVIOUS
<1>1. NewRelay \in Relays
  BY RequestAssumption DEF NewConverter, Converter, NewRelay, Relays
<1>2. TypeInv
  BY <1>1 DEF Init, TypeInv, ControlType, CallsType, OutputType
<1>3. CallInv /\ EndInv /\ DoneInv /\ EarlyInv /\ StreamInv
  BY DEF Init, CallInv, EndInv, DoneInv, EarlyInv, StreamInv, NewRelay, NewConverter
<1>4. QED
  BY <1>2, <1>3 DEF IInv

(* A new step does not say more than its part.                             *)
LEMMA AppendType ==
    ASSUME NEW S, NEW s \in Seq(S), NEW e \in S
    PROVE  Append(s, e) \in Seq(S)
OBVIOUS

LEMMA LastType ==
    ASSUME NEW S, NEW s \in Seq(S), s # <<>>
    PROVE  Len(s) \in Nat /\ Len(s) # 0 /\ Len(s) \in DOMAIN s /\ s[Len(s)] \in S
<1>1. Len(s) \in Nat /\ Len(s) # 0
  OBVIOUS
<1>2. QED
  BY <1>1

LEMMA OneOrTwo == \A n \in Nat : n # 0 /\ n <= 2 => n \in {1, 2}
OBVIOUS

LEMMA SecondType ==
    ASSUME NEW S, NEW s \in Seq(S), Len(s) = 1, NEW e \in S
    PROVE  /\ Append(s, e) # <<>> /\ Len(Append(s, e)) = 2
           /\ Append(s, e)[1] = s[1] /\ Append(s, e)[2] = e
<1>1. Len(Append(s, e)) = 2
  OBVIOUS
<1>2. Append(s, e)[2] = e
  <2>1. Append(s, e)[Len(s) + 1] = e
    BY AppendProperties
  <2>2. Len(s) + 1 = 2
    OBVIOUS
  <2>3. QED
    BY <2>1, <2>2, Zenon
<1>3. Append(s, e)[1] = s[1] /\ Append(s, e) # <<>>
  OBVIOUS
<1>4. QED
  BY <1>1, <1>2, <1>3

LEMMA ControlStep == IInv /\ [Next]_vars => ControlType'
<1> SUFFICES ASSUME ControlType, [Next]_vars
             PROVE  ControlType'
  BY DEF IInv, TypeInv
<1> USE DEF ControlType
<1>1. ASSUME NEW r \in Requests, Receive(r) PROVE ControlType'
  BY <1>1 DEF Receive, Refuse
<1>2. CASE Lose \/ Cancel
  BY <1>2 DEF Lose, Cancel
<1>3. CASE Handler
  BY <1>3 DEF Handler, LoadConfig, LoadFails, RouteRefused, Route, Effect, Emit, EmitFails,
              Conclude, LogStream, Refuse
<1>4. CASE Upstream
  BY <1>4 DEF Upstream, CallReturns, Retry, UpstreamRefuses, ConversionFails, Succeed, ReadFrame,
              ReadEnds, EndsWith, Reading
<1>5. CASE Breaks
  BY <1>5 DEF Breaks, CallFails, BodyFails, ReadFails, EndsWith, Reading
<1>6. CASE Finished \/ UNCHANGED vars
  BY <1>6 DEF Finished, vars
<1>7. QED
  BY <1>1, <1>2, <1>3, <1>4, <1>5, <1>6 DEF Next

LEMMA CallsTypeStep == IInv /\ [Next]_vars => CallsType'
<1> SUFFICES ASSUME CallsType, ControlType, CallInv, [Next]_vars
             PROVE  CallsType'
  BY DEF IInv, TypeInv
<1> USE DEF Made
<1>1. CASE UNCHANGED <<route, calls>>
  BY <1>1 DEF CallsType
<1>2. CASE Route
  <2>1. HasRoute(snapshot, Requested(request)) /\ request \in Request
    BY <1>2, RequestAssumption DEF Route, Servable, ControlType
  <2>2. RouteOf(snapshot, Requested(request)).supplier \in Suppliers
    BY <2>1, RouteFound
  <2>3. ApiAt(snapshot, RouteOf(snapshot, Requested(request))) \in Formats
    BY <1>2, <2>1, PlannedFormat DEF Route
  <2>4. [at |-> route'.at, short |-> FALSE, reply |-> None]
            \in [at : {route'.at}, short : BOOLEAN, reply : Replies \cup {None}]
    OBVIOUS
  <2>5. QED
    BY <1>2, <2>2, <2>3, <2>4 DEF Route, CallsType
<1>3. ASSUME NEW reply \in Replies, CallReturns(reply) PROVE CallsType'
  <2>1. calls \in Seq(Made) /\ calls # <<>>
    BY <1>3 DEF CallReturns, CallInv, CallsType
  <2>2. Len(calls) \in DOMAIN calls /\ calls[Len(calls)] \in Made
    BY <2>1, LastType
  <2>3. [calls[Len(calls)] EXCEPT !.reply = reply] \in Made
    BY <2>2
  <2>4. calls' = [calls EXCEPT ![Len(calls)] = [calls[Len(calls)] EXCEPT !.reply = reply]]
    BY <1>3 DEF CallReturns, Returned
  <2>5. calls' \in Seq(Made)
    BY <2>1, <2>2, <2>3, <2>4
  <2>6. QED
    BY <1>3, <2>5 DEF CallReturns, CallsType
<1>4. CASE Retry
  <2>1. calls \in Seq(Made)
    BY <1>4 DEF Retry, CallInv, CallsType
  <2>2. Call(None) \in Made
    BY DEF Call
  <2>3. calls' \in Seq(Made) /\ route' = route
    BY <1>4, <2>1, <2>2, AppendType DEF Retry
  <2>4. QED
    BY <2>3 DEF CallsType
<1>5. QED
  BY <1>1, <1>2, <1>3, <1>4
  DEF Next, Receive, Lose, Cancel, Handler, LoadConfig, LoadFails, RouteRefused, Effect, Emit,
      EmitFails, Conclude, LogStream, Upstream, UpstreamRefuses, ConversionFails, Succeed,
      ReadFrame, ReadEnds, Breaks, CallFails, BodyFails, ReadFails, Finished, vars

(* A request ends in rows and answers.                                     *)
LEMMA EffectHead ==
    ASSUME EndInv, Effect
    PROVE  \E success \in BOOLEAN, status \in Statuses, format \in Formats :
               Head(todo) = Logs(success, status) \/ Head(todo) = Says(status, format)
<1>1. todo # <<>> /\ pc = "ending"
  BY DEF Effect
<1>2. "499" \in Statuses /\ "chat" \in Formats
  BY DEF Statuses, Formats
<1>3. CASE todo = <<Logs(FALSE, "499")>>
  <2>1. Head(todo) = Logs(FALSE, "499")
    BY <1>3
  <2>2. QED
    BY <1>2, <2>1
<1>4. CASE todo # <<Logs(FALSE, "499")>>
  <2>1. PICK success \in BOOLEAN, status \in Statuses, format \in Formats :
            todo \in {<<Logs(success, status), Says(status, format)>>,
                     <<Says(status, format), Logs(success, status)>>,
                     <<Says(status, format)>>, <<Logs(success, status)>>}
    BY <1>1, <1>4 DEF EndInv
  <2>2. Head(todo) = Logs(success, status) \/ Head(todo) = Says(status, format)
    BY <2>1
  <2>3. QED
    BY <2>2
<1>5. QED
  BY <1>3, <1>4

LEMMA OutputStep == IInv /\ [Next]_vars => OutputType'
<1> SUFFICES ASSUME OutputType, ControlType, EndInv, relay \in Relays, [Next]_vars
             PROVE  OutputType'
  BY DEF IInv, TypeInv
<1>1. CASE UNCHANGED <<sent, log>>
  BY <1>1 DEF OutputType
<1>2. ASSUME NEW status \in Statuses, NEW r \in Requests,
             sent' = Append(sent, Answer(status, r.from)), log' = log
      PROVE  OutputType'
  <2>1. Answer(status, r.from) \in Wire \cup Replying
    BY <1>2, RequestAssumption DEF Answer, Replying, Request
  <2>2. sent \in Seq(Wire \cup Replying)
    BY DEF OutputType
  <2>3. sent' \in Seq(Wire \cup Replying)
    BY <1>2, <2>1, <2>2, AppendType
  <2>4. QED
    BY <1>2, <2>3 DEF OutputType
<1>3. ASSUME NEW r \in Requests, Receive(r) PROVE OutputType'
  <2>1. CASE r.large
    BY <1>2, <1>3, <2>1 DEF Receive, Refuse, Statuses
  <2>2. CASE ~r.large
    BY <1>1, <1>3, <2>2 DEF Receive
  <2>3. QED
    BY <2>1, <2>2
<1>4. CASE LoadFails \/ RouteRefused
  <2>1. request \in Requests
    BY <1>4 DEF LoadFails, RouteRefused, ControlType
  <2>2. PICK status \in Statuses : sent' = Append(sent, Answer(status, request.from)) /\ log' = log
    BY <1>4 DEF LoadFails, RouteRefused, Refuse, Statuses
  <2>3. QED
    BY <1>2, <2>1, <2>2
<1>5. CASE Effect
  <2>1. /\ Head(todo).do = "log" => Head(todo).row \in Rows
        /\ Head(todo).do # "log" => Head(todo).event \in Wire \cup Replying
    <3>1. \E success \in BOOLEAN, status \in Statuses, format \in Formats :
              Head(todo) = Logs(success, status) \/ Head(todo) = Says(status, format)
      BY <1>5, EffectHead
    <3>2. QED
      BY <3>1 DEF Logs, Says, Row, Rows, Answer, Replying
  <2>2. QED
    BY <1>5, <2>1, AppendType DEF Effect, OutputType
<1>6. CASE Emit
  <2>1. Head(relay.out) \in Wire \cup Replying
    BY <1>6 DEF Emit, Writing, Relays
  <2>2. QED
    BY <1>6, <2>1, AppendType DEF Emit, OutputType
<1>7. CASE LogStream
  <2>1. Row(~relay.failed, IF relay.canceled THEN "499" ELSE IF relay.failed THEN "502" ELSE "200")
            \in Rows
    BY DEF Row, Rows, Statuses
  <2>2. QED
    BY <1>7, <2>1, AppendType DEF LogStream, OutputType
<1>8. QED
  BY <1>1, <1>3, <1>4, <1>5, <1>6, <1>7
  DEF Next, Lose, Cancel, Handler, LoadConfig, Route, EmitFails, Conclude, Upstream, CallReturns,
      Retry, UpstreamRefuses, ConversionFails, Succeed, ReadFrame, ReadEnds, Breaks, CallFails,
      BodyFails, ReadFails, Finished, vars

(* A stream that is converted goes between the Chat and the Responses      *)
(* format.                                                                 *)
LEMMA Converting ==
    ASSUME CallInv, calls # <<>>, request.stream, Converts
    PROVE  \/ request.from = "responses" /\ route.format = "chat"
           \/ request.from = "chat" /\ route.format = "responses"
<1>1. {request.from, route.format} = {"responses", "chat"}
  BY DEF CallInv, Servable, Converts, HasStreamConverter
<1>2. QED
  BY <1>1 DEF Converts

LEMMA RelayStep == IInv /\ [Next]_vars => relay' \in Relays
<1> SUFFICES ASSUME TypeInv, CallInv, [Next]_vars
             PROVE  relay' \in Relays
  BY DEF IInv
<1>1. relay \in Relays
  BY DEF TypeInv
<1>2. ASSUME NEW f \in Incoming, ReadFrame(f) PROVE relay' \in Relays
  <2>1. /\ Reading /\ calls # <<>> /\ request.stream /\ f \in Frames(route.format)
        /\ relay.frames + 1 \in 0..MaxFrames
    BY <1>1, <1>2, RequestAssumption DEF Incoming, ReadFrame, Reading, CallInv, Relays
  <2> DEFINE events == IF Converts THEN EventsOf(request.from, relay.conv, f) ELSE <<f>>
             conv == IF Converts THEN Pushed(request.from, relay.conv, f) ELSE relay.conv
  <2>2. events \in Seq(Wire) /\ conv \in Converter
    <3>1. relay.conv \in Converter
      BY <1>1 DEF Relays
    <3>2. CASE ~Converts
      BY <2>1, <3>1, <3>2, FramesType DEF Wire
    <3>3. CASE Converts /\ request.from = "responses" /\ route.format = "chat"
      BY <2>1, <3>1, <3>3, PushedType, ChatEventsType DEF EventsOf
    <3>4. CASE Converts /\ request.from = "chat" /\ route.format = "responses"
      BY <2>1, <3>1, <3>4, PushedType, ResponsesEventsType DEF EventsOf
    <3>5. QED
      BY <2>1, <3>2, <3>3, <3>4, Converting
  <2> HIDE DEF events, conv
  <2>3. ASSUME NEW terminal \in BOOLEAN, NEW reported \in BOOLEAN, NEW failed \in BOOLEAN
        PROVE  [relay EXCEPT !.frames = @ + 1, !.conv = conv, !.out = events,
                             !.terminal = terminal, !.reported = reported, !.failed = failed]
                   \in Relays
    BY <1>1, <2>1, <2>2 DEF Relays
  <2>4. \E terminal, reported, failed \in BOOLEAN :
            relay' = [relay EXCEPT !.frames = @ + 1, !.conv = conv, !.out = events,
                             !.terminal = terminal, !.reported = reported, !.failed = failed]
    BY <1>2, Zenon DEF ReadFrame, conv, events
  <2>5. QED
    BY <2>3, <2>4
<1>3. CASE Conclude
  <2>1. Finish(request.from, relay.conv)
            \o Only(request.from = "chat", Event("[DONE]", NoItem)) \in Seq(Wire)
    BY <1>1, FinishType DEF Relays
  <2> DEFINE canceled == relay.canceled \/ client = "gone"
             failed == relay.failed \/ canceled \/ ~relay.terminal
             out == IF failed \/ ~Converts THEN <<>>
                    ELSE Finish(request.from, relay.conv)
                         \o Only(request.from = "chat", Event("[DONE]", NoItem))
  <2>2. relay' = [relay EXCEPT !.canceled = canceled, !.failed = failed, !.out = out]
    BY <1>3 DEF Conclude
  <2>3. canceled \in BOOLEAN /\ failed \in BOOLEAN
    OBVIOUS
  <2>4. out \in Seq(Wire)
    BY <2>1
  <2> HIDE DEF canceled, failed, out
  <2>5. QED
    BY <1>1, <2>2, <2>3, <2>4 DEF Relays
<1>4. CASE Emit
  <2>1. Tail(relay.out) \in Seq(Wire)
    BY <1>1, <1>4 DEF Emit, Writing, Relays
  <2>2. QED
    BY <1>1, <1>4, <2>1 DEF Emit, Relays
<1>5. CASE EmitFails
  <2>1. <<>> \in Seq(Wire)
    OBVIOUS
  <2>2. QED
    BY <1>1, <1>5, <2>1 DEF EmitFails, Relays
<1>6. CASE ReadEnds \/ ReadFails
  BY <1>1, <1>6 DEF ReadEnds, ReadFails, Relays
<1>7. QED
  BY <1>1, <1>2, <1>3, <1>4, <1>5, <1>6
  DEF Next, Receive, Lose, Cancel, Handler, LoadConfig, LoadFails, RouteRefused, Route, Effect,
      LogStream, Upstream, CallReturns, Retry, UpstreamRefuses, ConversionFails, Succeed, Breaks,
      CallFails, BodyFails, Finished, vars

LEMMA CallStep == IInv /\ [Next]_vars => CallInv'
<1> SUFFICES ASSUME TypeInv, CallInv, EarlyInv, [Next]_vars
             PROVE  CallInv'
  BY DEF IInv
<1>1. CASE UNCHANGED <<request, snapshot, route, calls>> /\ pc' \in {pc, "done", "finish", "ending"}
           /\ (pc' = "ending" => pc \in {"call", "body", "ending"})
           /\ (pc' = "finish" => pc \in {"stream", "finish"})
  BY <1>1 DEF CallInv
<1>2. ASSUME NEW r \in Requests, Receive(r) PROVE CallInv'
  BY <1>2 DEF Receive, Refuse, CallInv, EarlyInv
<1>3. ASSUME NEW cfg \in Configs, LoadConfig(cfg) PROVE CallInv'
  BY <1>3 DEF LoadConfig, CallInv, EarlyInv
<1>4. CASE LoadFails \/ RouteRefused
  BY <1>1, <1>4 DEF LoadFails, RouteRefused, Refuse
<1>5. CASE Route
  BY <1>5 DEF Route, CallInv, TypeInv, ControlType
<1>6. ASSUME NEW reply \in Replies, CallReturns(reply) PROVE CallInv'
  <2>1. calls # <<>> /\ calls \in Seq(Made)
    BY <1>6 DEF CallReturns, CallInv, TypeInv, CallsType
  <2>2. Len(calls) \in {1, 2}
    <3>1. Len(calls) \in Nat /\ Len(calls) # 0
      BY <2>1, LastType
    <3>2. Len(calls) <= 2
      BY DEF CallInv
    <3>3. QED
      BY <3>1, <3>2, OneOrTwo
  <2>3. /\ calls' # <<>> /\ Len(calls') = Len(calls)
        /\ calls'[1].short = calls[1].short
        /\ Len(calls) = 2 => calls'[1] = calls[1] /\ calls'[2].short = calls[2].short
    BY <1>6, <2>1, <2>2 DEF CallReturns, Returned
  <2>4. /\ UNCHANGED <<request, snapshot, route>> /\ pc = "call"
        /\ IF request.stream THEN pc' \in {"stream", "ending"} ELSE pc' = "body"
    BY <1>6 DEF CallReturns, EndsWith
  <2>5. QED
    BY <2>1, <2>3, <2>4 DEF CallInv
<1>7. CASE Retry
  <2>1. calls # <<>> /\ calls \in Seq(Made)
    BY <1>7 DEF Retry, CallInv, TypeInv, CallsType
  <2>2. Len(calls) = 1
    <3>1. Len(calls) \in Nat /\ Len(calls) # 0
      BY <2>1, LastType
    <3>2. Len(calls) <= 2
      BY DEF CallInv
    <3>3. Len(calls) # 2
      BY <1>7 DEF Retry, Retried
    <3>4. QED
      BY <3>1, <3>2, <3>3, OneOrTwo
  <2>3. calls' # <<>> /\ Len(calls') = 2 /\ calls'[1] = calls[1] /\ calls'[2] = Call(None)
    <3>1. calls' = Append(calls, Call(None))
      BY <1>7 DEF Retry
    <3>2. Call(None) \in Made
      BY DEF Call, Made
    <3>3. QED
      BY <2>1, <2>2, <3>1, <3>2, SecondType
  <2>4. Call(None).short
    BY <2>1 DEF Call
  <2>5. QED
    BY <1>7, <2>1, <2>2, <2>3, <2>4 DEF Retry, Reply, CallInv
<1>8. CASE Lose \/ Cancel \/ Finished \/ UNCHANGED vars
  BY <1>1, <1>8 DEF Lose, Cancel, Finished, vars
<1>9. CASE Effect \/ Emit \/ EmitFails \/ Conclude \/ LogStream
  BY <1>1, <1>9 DEF Effect, Emit, EmitFails, Conclude, LogStream
<1>10. CASE UpstreamRefuses \/ ConversionFails \/ Succeed \/ CallFails \/ BodyFails
  BY <1>1, <1>10 DEF UpstreamRefuses, ConversionFails, Succeed, CallFails, BodyFails, EndsWith
<1>11. ASSUME ReadEnds \/ ReadFails \/ \E f \in Incoming : ReadFrame(f) PROVE CallInv'
  BY <1>1, <1>11 DEF ReadFrame, ReadEnds, ReadFails
<1>12. QED
  BY <1>2, <1>3, <1>4, <1>5, <1>6, <1>7, <1>8, <1>9, <1>10, <1>11 DEF Next, Handler, Upstream,
     Breaks

LEMMA EarlyStep == IInv /\ [Next]_vars => EarlyInv'
<1> SUFFICES ASSUME EarlyInv, CallInv, relay \in Relays, [Next]_vars
             PROVE  EarlyInv'
  BY DEF IInv, TypeInv
<1>1. CASE UNCHANGED <<calls, relay, sent, log>> /\ pc' \in {pc, "done"}
  BY <1>1 DEF EarlyInv
<1>2. ASSUME NEW r \in Requests, Receive(r) PROVE EarlyInv'
  BY <1>2 DEF Receive, Refuse, EarlyInv
<1>3. CASE LoadFails \/ RouteRefused
  BY <1>3 DEF LoadFails, RouteRefused, Refuse, EarlyInv
<1>4. ASSUME NEW cfg \in Configs, LoadConfig(cfg) PROVE EarlyInv'
  BY <1>4 DEF LoadConfig, EarlyInv
<1>5. CASE Route
  BY <1>5 DEF Route, EarlyInv
<1>6. CASE Effect
  BY <1>6 DEF Effect, EarlyInv
<1>7. CASE Emit
  <2>1. Head(relay.out) \in Wire /\ sent \in Seq(Wire)
    BY <1>7 DEF Emit, Writing, Relays, EarlyInv
  <2>2. sent' \in Seq(Wire)
    BY <1>7, <2>1, AppendType DEF Emit
  <2>3. QED
    BY <1>7, <2>2 DEF Emit, Writing, EarlyInv
<1>8. CASE EmitFails \/ Conclude
  BY <1>8 DEF EmitFails, Writing, Conclude, EarlyInv
<1>9. CASE LogStream
  BY <1>9 DEF LogStream, EarlyInv
<1>10. ASSUME NEW reply \in Replies, CallReturns(reply) PROVE EarlyInv'
  <2>1. <<>> \in Seq(Wire)
    OBVIOUS
  <2>2. QED
    BY <1>10, <2>1 DEF CallReturns, EndsWith, EarlyInv
<1>11. CASE Retry
  BY <1>11 DEF Retry, EarlyInv
<1>12. CASE UpstreamRefuses \/ ConversionFails \/ Succeed \/ CallFails \/ BodyFails
  BY <1>12 DEF UpstreamRefuses, ConversionFails, Succeed, CallFails, BodyFails, EndsWith, EarlyInv
<1>13. ASSUME ReadEnds \/ ReadFails \/ \E f \in Incoming : ReadFrame(f) PROVE EarlyInv'
  BY <1>13 DEF ReadFrame, ReadEnds, ReadFails, Reading, EarlyInv
<1>14. CASE Lose \/ Cancel \/ Finished \/ UNCHANGED vars
  BY <1>1, <1>14 DEF Lose, Cancel, Finished, vars
<1>15. QED
  BY <1>2, <1>3, <1>4, <1>5, <1>6, <1>7, <1>8, <1>9, <1>10, <1>11, <1>12, <1>13, <1>14
  DEF Next, Handler, Upstream, Breaks

(* How a request may begin to end.                                         *)
LEMMA EndsWell ==
    ASSUME NEW success \in BOOLEAN, NEW status \in Statuses, NEW format \in Formats,
           Fits(success, status, format)', sent' = <<>>, log' = <<>>,
           todo' \in {<<Logs(FALSE, "499")>>,
                     <<Logs(success, status), Says(status, format)>>,
                     <<Says(status, format), Logs(success, status)>>}
    PROVE  EndInv'
BY DEF EndInv

LEMMA EndStep == IInv /\ [Next]_vars => EndInv'
<1> SUFFICES ASSUME TypeInv, CallInv, EndInv, EarlyInv, [Next]_vars
             PROVE  EndInv'
  BY DEF IInv
<1>1. CASE UNCHANGED <<pc, request, route, calls, sent, todo, log>>
  BY <1>1, ZenonT(30) DEF EndInv, Fits, Converts, Reply
<1>2. CASE pc' # "ending"
  BY <1>2 DEF EndInv
<1>3. CASE Effect /\ pc' = "ending"
  <2>1. todo # <<>> /\ Tail(todo) # <<>> /\ pc = "ending"
    BY <1>3 DEF Effect
  <2>2. PICK success \in BOOLEAN, status \in Statuses, format \in Formats :
            /\ Fits(success, status, format) /\ sent = <<>> /\ log = <<>>
            /\ todo \in {<<Logs(success, status), Says(status, format)>>,
                        <<Says(status, format), Logs(success, status)>>}
    <3>1. \A x : Tail(<<x>>) = <<>>
      OBVIOUS
    <3>2. PICK success \in BOOLEAN, status \in Statuses, format \in Formats :
              /\ Fits(success, status, format)
              /\ \/ sent = <<>> /\ log = <<>>
                    /\ todo \in {<<Logs(success, status), Says(status, format)>>,
                                <<Says(status, format), Logs(success, status)>>}
                 \/ todo = <<Says(status, format)>>
                 \/ todo = <<Logs(success, status)>>
      BY <2>1, <3>1, Zenon DEF EndInv
    <3>3. QED
      BY <2>1, <3>1, <3>2, Zenon
  <2>3. Fits(success, status, format)'
    BY <1>3, <2>2 DEF Effect, Fits, Converts, Reply
  <2>4. CASE todo = <<Logs(success, status), Says(status, format)>>
    <3>1. sent' = <<>> /\ log' = <<Row(success, status)>> /\ todo' = <<Says(status, format)>>
      BY <1>3, <2>2, <2>4 DEF Effect, Logs
    <3>2. QED
      BY <2>3, <3>1 DEF EndInv
  <2>5. CASE todo = <<Says(status, format), Logs(success, status)>>
    <3>1. sent' = <<Answer(status, format)>> /\ log' = <<>> /\ todo' = <<Logs(success, status)>>
      BY <1>3, <2>2, <2>5 DEF Effect, Says
    <3>2. QED
      BY <2>3, <3>1 DEF EndInv
  <2>6. QED
    BY <2>2, <2>4, <2>5
<1>4. ASSUME pc \in {"call", "body"},
             todo' \in {Aborted, Relayed, <<Logs(FALSE, "502"), Says("502", request.from)>>},
             UNCHANGED <<sent, log>>
      PROVE  EndInv'
  <2>1. sent' = <<>> /\ log' = <<>> /\ route.format \in Formats /\ request.from \in Formats
    <3>1. calls # <<>> /\ request \in Request
      BY <1>4, RequestAssumption DEF CallInv, TypeInv, ControlType
    <3>2. route.format \in Formats
      BY <3>1, PlannedFormat DEF CallInv
    <3>3. QED
      BY <1>4, <3>1, <3>2 DEF EarlyInv, Request
  <2>2. {"499", "502", "upstream"} \subseteq Statuses
    BY DEF Statuses
  <2>3. \A status, format : Fits(FALSE, status, format)'
    BY DEF Fits
  <2>4. QED
    BY <1>4, <2>1, <2>2, <2>3, EndsWell DEF Aborted, Relayed
<1>5. CASE CallFails \/ BodyFails \/ UpstreamRefuses \/ ConversionFails
  BY <1>4, <1>5 DEF CallFails, BodyFails, UpstreamRefuses, ConversionFails, EndsWith
<1>6. ASSUME NEW reply \in Replies, CallReturns(reply) PROVE EndInv'
  BY <1>2, <1>4, <1>6 DEF CallReturns, EndsWith
<1>7. CASE Succeed
  <2>1. calls # <<>> /\ request \in Request /\ ~request.stream
    BY <1>7, RequestAssumption DEF Succeed, CallInv, TypeInv, ControlType
  <2>2. request.from \in Formats
    BY <2>1 DEF Request
  <2>3. PICK format \in Formats : format = request.from
    BY <2>2
  <2>4. todo' = <<Logs(TRUE, "200"), Says("200", format)>>
    BY <1>7, <2>3 DEF Succeed, EndsWith, Converts
  <2>5. Fits(TRUE, "200", format)'
    BY <1>7, <2>1, <2>3 DEF Succeed, Fits, Converts, Reply
  <2>6. sent' = <<>> /\ log' = <<>> /\ "200" \in Statuses
    BY <1>7 DEF Succeed, EarlyInv, Statuses
  <2>7. QED
    BY <2>4, <2>5, <2>6, EndsWell
<1>8. CASE Lose \/ Cancel \/ Finished \/ UNCHANGED vars
  BY <1>1, <1>8 DEF Lose, Cancel, Finished, vars
<1>9. CASE Emit \/ EmitFails \/ ReadEnds \/ ReadFails \/ \E f \in Incoming : ReadFrame(f)
  BY <1>2, <1>9 DEF Emit, EmitFails, Writing, ReadFrame, ReadEnds, ReadFails, Reading
<1>10. CASE Conclude \/ LogStream \/ Retry \/ Route \/ LoadFails \/ RouteRefused
            \/ \E cfg \in Configs : LoadConfig(cfg)
  BY <1>2, <1>10 DEF Conclude, LogStream, Retry, Route, LoadFails, RouteRefused, LoadConfig,
     Refuse
<1>11. ASSUME NEW r \in Requests, Receive(r) PROVE EndInv'
  BY <1>2, <1>11 DEF Receive, Refuse
<1>12. QED
  BY <1>2, <1>3, <1>5, <1>6, <1>7, <1>8, <1>9, <1>10, <1>11 DEF Next, Handler, Upstream, Breaks

(* A refusal is one answer, and a stream one row.                          *)
LEMMA RefusedWell ==
    ASSUME NEW status \in Statuses, NEW format \in Formats, sent = <<>>,
           sent' = Append(sent, Answer(status, format)), log' = <<>>, calls' = <<>>
    PROVE  DoneInv'
<1>1. sent' = <<Answer(status, format)>>
  OBVIOUS
<1>2. QED
  BY <1>1 DEF DoneInv

LEMMA DoneStep == IInv /\ [Next]_vars => DoneInv'
<1> SUFFICES ASSUME TypeInv, CallInv, EndInv, DoneInv, EarlyInv, StreamInv, [Next]_vars
             PROVE  DoneInv'
  BY DEF IInv
<1>1. CASE UNCHANGED <<pc, request, route, calls, relay, sent, log>>
  BY <1>1 DEF DoneInv, Fits, Converts, Reply
<1>2. CASE pc' # "done"
  BY <1>2 DEF DoneInv
<1>3. CASE Effect /\ pc' = "done"
  <2>1. todo # <<>> /\ Tail(todo) = <<>> /\ pc = "ending"
    BY <1>3 DEF Effect
  <2>2. /\ calls' # <<>> /\ ~relay'.over /\ UNCHANGED <<request, route, calls>>
    BY <1>3, <2>1 DEF Effect, CallInv, EarlyInv, NewRelay
  <2>3. CASE todo = <<Logs(FALSE, "499")>> /\ sent = <<>> /\ log = <<>>
    <3>1. \A row : Head(<<[do |-> "log", row |-> row]>>) = [do |-> "log", row |-> row]
      OBVIOUS
    <3>2. Head(todo) = [do |-> "log", row |-> Row(FALSE, "499")]
      BY <2>3, <3>1, Zenon DEF Logs
    <3>3. \A row : [do |-> "log", row |-> row].do = "log" /\ [do |-> "log", row |-> row].row = row
      OBVIOUS
    <3>4. sent' = <<>> /\ log' = Append(<<>>, Row(FALSE, "499"))
      BY <1>3, <2>3, <3>2, <3>3, Zenon DEF Effect
    <3>5. \A row : Append(<<>>, row) = <<row>>
      OBVIOUS
    <3>6. log' = <<Row(FALSE, "499")>>
      BY <3>4, <3>5, Zenon
    <3>7. QED
      BY <2>2, <3>4, <3>6 DEF DoneInv
  <2>4. ASSUME NEW success \in BOOLEAN, NEW status \in Statuses, NEW format \in Formats,
               Fits(success, status, format),
               \/ sent = <<>> /\ log = <<Row(success, status)>> /\ todo = <<Says(status, format)>>
               \/ sent = <<Answer(status, format)>> /\ log = <<>> /\ todo = <<Logs(success, status)>>
        PROVE  DoneInv'
    <3>1. Fits(success, status, format)'
      BY <2>2, <2>4 DEF Fits, Converts, Reply
    <3>2. sent' = <<Answer(status, format)>> /\ log' = <<Row(success, status)>>
      BY <1>3, <2>4 DEF Effect, Logs, Says
    <3>3. QED
      BY <2>2, <3>1, <3>2 DEF DoneInv
  <2>5. \A x, y : Tail(<<x, y>>) # <<>>
    OBVIOUS
  <2>6. QED
    BY <2>1, <2>3, <2>4, <2>5, Zenon DEF EndInv
<1>4. CASE LogStream
  <2>1. PICK status \in Statuses : log' = Append(log, Row(~relay.failed, status))
    BY <1>4 DEF LogStream, Statuses
  <2>2. log = <<>> /\ sent \in Seq(Wire) /\ relay.over /\ request.stream /\ calls # <<>>
    BY <1>4 DEF LogStream, EarlyInv, StreamInv, CallInv
  <2>3. log' = <<Row(~relay.failed, status)>> /\ UNCHANGED <<sent, relay, request, calls>>
    BY <1>4, <2>1, <2>2 DEF LogStream
  <2>4. QED
    BY <2>2, <2>3 DEF DoneInv
<1>5. ASSUME NEW r \in Requests, Receive(r) PROVE DoneInv'
  <2>1. CASE r.large
    <3>1. sent = <<>> /\ log' = <<>> /\ calls' = <<>>
      BY <1>5 DEF Receive, EarlyInv
    <3>2. r.from \in Formats /\ "413" \in Statuses
      BY RequestAssumption DEF Request, Statuses
    <3>3. sent' = Append(sent, Answer("413", r.from))
      BY <1>5, <2>1 DEF Receive, Refuse
    <3>4. QED
      BY <3>1, <3>2, <3>3, RefusedWell
  <2>2. CASE ~r.large
    BY <1>2, <1>5, <2>2 DEF Receive
  <2>3. QED
    BY <2>1, <2>2
<1>6. CASE LoadFails \/ RouteRefused
  <2>1. sent = <<>> /\ log' = <<>> /\ calls' = <<>> /\ request' = request
    BY <1>6 DEF LoadFails, RouteRefused, EarlyInv
  <2>2. request \in Request
    BY <1>6, RequestAssumption DEF LoadFails, RouteRefused, TypeInv, ControlType
  <2>3. PICK format \in Formats : format = request.from
    BY <2>2 DEF Request
  <2>4. PICK status \in Statuses : sent' = Append(sent, Answer(status, format))
    BY <1>6, <2>1, <2>3 DEF LoadFails, RouteRefused, Refuse, Statuses
  <2>5. QED
    BY <2>1, <2>4, RefusedWell
<1>7. CASE Lose \/ Cancel \/ Finished \/ UNCHANGED vars
  BY <1>1, <1>7 DEF Lose, Cancel, Finished, vars
<1>8. CASE Emit \/ EmitFails \/ ReadEnds \/ ReadFails \/ \E f \in Incoming : ReadFrame(f)
  BY <1>2, <1>8 DEF Emit, EmitFails, Writing, ReadFrame, ReadEnds, ReadFails, Reading
<1>9. CASE Conclude \/ Retry \/ Route \/ \E cfg \in Configs : LoadConfig(cfg)
  BY <1>2, <1>9 DEF Conclude, Retry, Route, LoadConfig
<1>10. CASE CallFails \/ BodyFails \/ UpstreamRefuses \/ ConversionFails \/ Succeed
            \/ \E reply \in Replies : CallReturns(reply)
  BY <1>2, <1>10
  DEF CallFails, BodyFails, UpstreamRefuses, ConversionFails, Succeed, CallReturns, EndsWith
<1>11. QED
  BY <1>2, <1>3, <1>4, <1>5, <1>6, <1>7, <1>8, <1>9, <1>10 DEF Next, Handler, Upstream, Breaks

(* What a frame tells about the stream.                                    *)
LEMMA FrameStep ==
    ASSUME TypeInv, CallInv, StreamInv, NEW f \in Incoming, ReadFrame(f)
    PROVE  StreamInv'
<1>1. /\ Reading /\ calls # <<>> /\ request.stream /\ f \in Frames(route.format)
      /\ relay \in Relays /\ UNCHANGED <<pc, request, route, calls>>
  BY DEF Incoming, ReadFrame, Reading, CallInv, TypeInv
<1> DEFINE events == IF Converts THEN EventsOf(request.from, relay.conv, f) ELSE <<f>>
           error == \E i \in DOMAIN events : events[i].type = "error"
<1>2. /\ relay'.over = relay.over /\ relay'.canceled = relay.canceled
      /\ relay'.terminal <=> relay.terminal \/ IsSSETerminal(route.format, f)
      /\ relay'.reported <=>
            relay.reported \/ (IsSSEFailure(route.format, f) /\ ~relay.terminal)
      /\ relay'.failed <=> \/ relay.failed
                           \/ Converts /\ error
                           \/ ~Converts /\ IsSSEFailure(route.format, f)
      /\ relay'.conv = IF Converts THEN Pushed(request.from, relay.conv, f) ELSE relay.conv
  BY <1>1 DEF ReadFrame, Relays
<1> HIDE DEF error
<1>3. ASSUME Converts, request.from = "chat", route.format = "responses"
      PROVE  /\ IsSSEFailure(route.format, f) /\ ~relay.terminal => error
             /\ relay'.conv.done => relay'.terminal
  <2>1. relay.conv.done => relay.terminal
    BY <1>1, <1>3 DEF StreamInv
  <2>2. CASE relay.conv.done
    BY <1>2, <2>1, <2>2
  <2>3. CASE ~relay.conv.done
    <3>1. relay.conv \in Converter
      BY <1>1 DEF Relays
    <3>2. f \in Frames("responses") /\ events = ResponsesEvents(relay.conv, f)
      BY <1>1, <1>3 DEF EventsOf
    <3>3. IsSSEFailure(route.format, f) => error
      BY <1>3, <2>3, <3>1, <3>2, FailureIsTold DEF IsSSEFailure, error
    <3>4. relay'.conv = ResponsesPushed(relay.conv, f)
      BY <1>2, <1>3 DEF Pushed
    <3>5. relay'.conv.done => f.type \in Ends
      <4>1. Learn(relay.conv, f.item).done = relay.conv.done
        BY <3>1 DEF Learn, Converter
      <4>2. \A started, done \in BOOLEAN :
                [relay.conv EXCEPT !.started = started, !.done = done].done = done
        BY <3>1 DEF Converter
      <4>3. CASE f.type \in {"added", "args"}
        BY <2>3, <3>4, <4>1, <4>3, Zenon DEF ResponsesPushed
      <4>4. CASE f.type \notin {"added", "args"}
        <5>1. (relay.conv.started \/ f.type \in Begins) \in BOOLEAN /\ (f.type \in Ends) \in BOOLEAN
          OBVIOUS
        <5>2. [relay.conv EXCEPT !.started = @ \/ f.type \in Begins, !.done = f.type \in Ends].done
                  = (f.type \in Ends)
          BY <4>2, <5>1, Zenon
        <5>3. QED
          BY <2>3, <3>4, <4>4, <5>2, Zenon DEF ResponsesPushed
      <4>5. QED
        BY <4>3, <4>4
    <3>6. f.type \in Ends => IsSSETerminal(route.format, f)
      BY <1>3 DEF IsSSETerminal, Ends
    <3>7. QED
      BY <1>2, <3>3, <3>5, <3>6
  <2>4. QED
    BY <2>2, <2>3
<1>4. Converts => \/ request.from = "responses"
                  \/ request.from = "chat" /\ route.format = "responses"
  BY <1>1, Converting
<1>5. relay'.reported => relay'.failed \/ ChatToResponses
  BY <1>2, <1>3, <1>4 DEF StreamInv, ChatToResponses
<1>6. Converts /\ request.from = "chat" => (relay'.conv.done => relay'.terminal)
  BY <1>3, <1>4
<1>7. /\ pc' = "stream" /\ calls' # <<>> /\ Converts' = Converts
      /\ request' = request /\ ChatToResponses' = ChatToResponses
  BY <1>1 DEF Reading, Converts, ChatToResponses
<1>8. relay'.canceled => relay'.failed
  BY <1>2 DEF StreamInv
<1>9. QED
  BY <1>5, <1>6, <1>7, <1>8 DEF StreamInv

LEMMA StreamStep == IInv /\ [Next]_vars => StreamInv'
<1> SUFFICES ASSUME TypeInv, CallInv, EarlyInv, StreamInv, [Next]_vars
             PROVE  StreamInv'
  BY DEF IInv
<1>1. CASE UNCHANGED <<pc, request, route, calls, relay>>
  BY <1>1 DEF StreamInv, ChatToResponses, Converts
<1>2. CASE relay' = NewRelay /\ pc' # "finish"
  BY <1>2 DEF StreamInv, NewRelay, NewConverter
<1>3. relay \in Relays
  BY DEF TypeInv
<1>4. ASSUME NEW f \in Incoming, ReadFrame(f) PROVE StreamInv'
  BY <1>4, FrameStep
<1>5. CASE ReadEnds \/ ReadFails \/ Emit \/ EmitFails
  <2>1. /\ UNCHANGED <<pc, request, route, calls>>
        /\ relay'.conv = relay.conv /\ relay'.terminal = relay.terminal
        /\ relay'.reported = relay.reported
    BY <1>3, <1>5 DEF ReadEnds, ReadFails, Emit, EmitFails, Relays
  <2>2. /\ relay.failed => relay'.failed
        /\ relay'.canceled => relay'.failed
        /\ pc = "finish" => relay'.over
        /\ pc # "stream" /\ ~relay'.failed => relay'.over = relay.over
    BY <1>3, <1>5 DEF ReadEnds, ReadFails, Emit, EmitFails, Reading, Relays, StreamInv
  <2>3. QED
    BY <2>1, <2>2 DEF StreamInv, ChatToResponses, Converts
<1>6. CASE Conclude
  <2>1. /\ UNCHANGED <<request, route, calls>> /\ relay'.over
        /\ relay'.conv = relay.conv /\ relay'.terminal = relay.terminal
        /\ relay'.reported = relay.reported
    BY <1>3, <1>6 DEF Conclude, Relays
  <2>2. /\ relay.failed => relay'.failed
        /\ relay'.canceled => relay'.failed
        /\ ~relay'.failed => relay.terminal
    BY <1>3, <1>6 DEF Conclude, Relays
  <2>3. QED
    BY <2>1, <2>2 DEF StreamInv, ChatToResponses, Converts
<1>7. CASE LogStream
  <2>1. pc = "finish" /\ UNCHANGED <<request, route, calls, relay>> /\ pc' = "done"
    BY <1>7 DEF LogStream
  <2>2. QED
    BY <2>1 DEF StreamInv, ChatToResponses, Converts
<1>8. CASE \/ LoadFails \/ RouteRefused \/ Route \/ Effect
           \/ \E r \in Requests : Receive(r)
           \/ \E cfg \in Configs : LoadConfig(cfg)
  BY <1>2, <1>8 DEF LoadFails, RouteRefused, Route, Effect, Receive, LoadConfig, Refuse, EarlyInv
<1>9. CASE \/ CallFails \/ BodyFails \/ UpstreamRefuses \/ ConversionFails \/ Succeed \/ Retry
           \/ \E reply \in Replies : CallReturns(reply)
  BY <1>2, <1>9
  DEF CallFails, BodyFails, UpstreamRefuses, ConversionFails, Succeed, Retry, CallReturns,
      EndsWith, EarlyInv
<1>10. CASE Lose \/ Cancel \/ Finished \/ UNCHANGED vars
  BY <1>1, <1>10 DEF Lose, Cancel, Finished, vars
<1>11. QED
  BY <1>4, <1>5, <1>6, <1>7, <1>8, <1>9, <1>10 DEF Next, Handler, Upstream, Breaks

-----------------------------------------------------------------------------
(* Theorems                                                                *)

(* Whatever clients and upstreams do, a request stays within the           *)
(* invariant.                                                              *)
THEOREM ProxyInvariance == Spec => []IInv
<1>1. IInv /\ [Next]_vars => IInv'
  <2> SUFFICES ASSUME IInv, [Next]_vars PROVE IInv'
    OBVIOUS
  <2>1. TypeInv'
    BY ControlStep, CallsTypeStep, OutputStep, RelayStep DEF TypeInv
  <2>2. CallInv' /\ EndInv' /\ DoneInv' /\ EarlyInv' /\ StreamInv'
    BY CallStep, EndStep, DoneStep, EarlyStep, StreamStep
  <2>3. QED
    BY <2>1, <2>2 DEF IInv
<1>2. QED
  BY InitInv, <1>1, PTL DEF Spec

(* Every variable of a request holds a value of its type, for any config   *)
(* the file may hold and any stream.                                       *)
THEOREM ProxyTypeCorrect == Spec => []TypeOK
<1>1. IInv => TypeOK
  <2> SUFFICES ASSUME TypeInv PROVE TypeOK
    BY DEF IInv
  <2>1. \A i \in DOMAIN calls : calls[i].reply \in Replies \cup {None} /\ calls[i].short \in BOOLEAN
    <3>1. CASE calls = <<>>
      BY <3>1
    <3>2. CASE calls \in Seq(Made)
      <4>1. \A i \in DOMAIN calls : calls[i] \in Made
        BY <3>2
      <4>2. QED
        BY <4>1 DEF Made
    <3>3. QED
      BY <3>1, <3>2 DEF TypeInv, CallsType
  <2>2. \A i \in DOMAIN log : log[i] \in Rows
    BY DEF TypeInv, OutputType
  <2>3. /\ relay.conv \in Converter /\ relay.frames \in 0..MaxFrames
        /\ {relay.over, relay.terminal, relay.reported, relay.failed, relay.canceled}
               \subseteq BOOLEAN
    BY DEF TypeInv, Relays
  <2>4. QED
    BY <2>1, <2>2, <2>3 DEF TypeInv, ControlType, CallsType, TypeOK, Rows
<1>2. QED
  BY ProxyInvariance, <1>1, PTL

(* What a stream carries is no answer.                                     *)
LEMMA WireIsNoAnswer ==
    ASSUME sent \in Seq(Wire)
    PROVE  Answers = {}
<1>1. \A e \in Wire : e.type # "answer"
  BY DEF Wire, Frame, Events
<1>2. \A i \in DOMAIN sent : sent[i] \in Wire
  OBVIOUS
<1>3. QED
  BY <1>1, <1>2, Zenon DEF Answers

LEMMA OneAnswer ==
    ASSUME NEW status, NEW format, sent = <<Answer(status, format)>>
    PROVE  Answers = {1} /\ sent[1].status = status /\ sent[1].format = format
BY DEF Answers, Answer

LEMMA AtMostOne == Len(<<>>) <= 1 /\ \A x : <<x>> # <<>> /\ Len(<<x>>) <= 1
OBVIOUS

(* Every request that reached an upstream has one row when it ends, and    *)
(* one answer that the row agrees with.                                    *)
THEOREM AllAccounted == Spec => []Accounted
<1>1. IInv => Accounted
  <2> SUFFICES ASSUME TypeInv, CallInv, EndInv, DoneInv, EarlyInv PROVE Accounted
    BY DEF IInv
  <2>1. log = <<>> \/ \E success, status : log = <<Row(success, status)>>
    BY DEF EndInv, DoneInv, EarlyInv, TypeInv, ControlType
  <2>2. sent \in Seq(Wire) \/ \E status, format : sent = <<Answer(status, format)>>
    <3>1. <<>> \in Seq(Wire)
      OBVIOUS
    <3>2. QED
      BY <3>1 DEF EndInv, DoneInv, EarlyInv, TypeInv, ControlType
  <2>3. Len(log) <= 1
    BY <2>1, AtMostOne, Zenon
  <2>4. \A i, j \in Answers : i = j
    BY <2>2, WireIsNoAnswer, OneAnswer
  <2>5. pc = "done" => (log = <<>> <=> calls = <<>>)
    BY AtMostOne, Zenon DEF DoneInv
  <2>6. ASSUME pc = "done", ~Relaying
        PROVE  \/ log # <<>> /\ log[1].status = "499" /\ Answers = {}
               \/ /\ Answers # {}
                  /\ log # <<>> => \A i \in Answers : sent[i].status = log[1].status
    <3>1. CASE \E status \in Statuses, format \in Formats :
                  log = <<>> /\ sent = <<Answer(status, format)>>
      BY <3>1, OneAnswer
    <3>2. CASE sent = <<>> /\ log = <<Row(FALSE, "499")>>
      BY <3>2 DEF Row, Answers
    <3>3. CASE \E success \in BOOLEAN, status \in Statuses, format \in Formats :
                  sent = <<Answer(status, format)>> /\ log = <<Row(success, status)>>
      BY <3>3, OneAnswer DEF Row
    <3>4. QED
      BY <2>6, <3>1, <3>2, <3>3 DEF DoneInv, Relaying
  <2>7. QED
    BY <2>3, <2>4, <2>5, <2>6 DEF Accounted
<1>2. QED
  BY ProxyInvariance, <1>1, PTL

(* The upstream is called as the config and the request say, and a second  *)
(* time only for a 400 invalid_request_error.                              *)
THEOREM CallsDue == Spec => []CallsAreDue
<1>1. IInv => CallsAreDue
  <2> SUFFICES ASSUME TypeInv, CallInv PROVE CallsAreDue
    BY DEF IInv
  <2>1. Len(calls) = 2 =>
            ~request.stream /\ calls[1].reply = "invalid" /\ calls[2].short /\ ~calls[1].short
    BY DEF CallInv
  <2>2. ASSUME NEW i \in DOMAIN calls
        PROVE  /\ calls[i].at = route.at
               /\ DistinctNames(snapshot, route.at.supplier) =>
                     Matches(snapshot, Requested(request)) = {calls[i].at}
               /\ request.from # route.format => request.convertible
               /\ request.stream /\ Converts => HasStreamConverter(request.from, route.format)
    <3>1. calls # <<>> /\ calls \in Seq(Made)
      BY <2>2 DEF TypeInv, CallsType
    <3>2. calls[i].at = route.at
      <4>1. calls[i] \in Made
        BY <2>2, <3>1
      <4>2. QED
        BY <4>1 DEF Made
    <3>3. /\ Servable(snapshot, request)
          /\ route.at = RouteOf(snapshot, Requested(request))
          /\ route.format = ApiAt(snapshot, RouteOf(snapshot, Requested(request)))
      BY <3>1 DEF CallInv
    <3>4. DistinctNames(snapshot, route.at.supplier) =>
              Matches(snapshot, Requested(request)) = {route.at}
      BY <3>3, RouteFound DEF Servable
    <3>5. QED
      BY <3>2, <3>3, <3>4 DEF Servable, Converts
  <2>3. QED
    BY <2>1, <2>2 DEF CallsAreDue, CallInv
<1>2. QED
  BY ProxyInvariance, <1>1, PTL

(* What is logged as a success was whole, but for a failure that a Chat    *)
(* upstream reports to a Responses client.                                 *)
THEOREM SuccessesWhole == Spec => []SuccessIsWholeUnlessUnreported
<1>1. IInv => SuccessIsWholeUnlessUnreported
  <2> SUFFICES ASSUME TypeInv, EndInv, DoneInv, EarlyInv, StreamInv, Success
               PROVE  ~(request.stream /\ ChatToResponses /\ relay.reported) =>
                          IF request.stream THEN WholeStream ELSE WholeAnswer
    BY DEF IInv, SuccessIsWholeUnlessUnreported
  <2>1. ASSUME NEW status, NEW format, Fits(TRUE, status, format),
               sent = <<>> \/ sent = <<Answer(status, format)>>
        PROVE  ~request.stream /\ WholeAnswer
    <3>1. \A i \in Answers : sent[i].status = status /\ sent[i].format = format
      BY <2>1, OneAnswer DEF Answers
    <3>2. QED
      BY <2>1, <3>1 DEF Fits, WholeAnswer
  <2>2. CASE \E status \in Statuses, format \in Formats :
                /\ Fits(TRUE, status, format)
                /\ sent = <<>> \/ sent = <<Answer(status, format)>>
    BY <2>1, <2>2
  <2>3. CASE pc = "done" /\ request.stream /\ relay.over /\ ~relay.failed
    BY <2>3 DEF StreamInv, WholeStream
  <2>4. \A success, status : log = <<Row(success, status)>> => success
    BY DEF Success, Row
  <2>5. QED
    BY <2>2, <2>3, <2>4 DEF Success, EndInv, DoneInv, EarlyInv, TypeInv, ControlType
<1>2. QED
  BY ProxyInvariance, <1>1, PTL

-----------------------------------------------------------------------------
(* What a Chat client is told                                              *)

\* ChatGrammar, of any sequence of events.
ChatOrder(w) ==
    /\ \A i \in DOMAIN w : w[i].type \in {"content", "tool.header", "tool.arguments"} =>
          w[1].type = "role"
    /\ \A i, j \in DOMAIN w :
          /\ w[i].type = "tool.header" /\ w[j].type \in {"tool.header", "tool.arguments"}
          /\ w[i].item = w[j].item
          => i <= j
    /\ \A i, j \in DOMAIN w : w[i].type \in {"finish", "error"} /\ j > i =>
          w[i].type = "finish" /\ j = i + 1 /\ w[j].type = "[DONE]"
    /\ \A j \in DOMAIN w : w[j].type = "[DONE]" => j > 1 /\ w[j - 1].type = "finish"

\* What the converter c remembers of the events w: the calls it named, and that
\* it has not ended.
Recalled(w, c) ==
    /\ \A i \in DOMAIN w : w[i].type \in {"tool.header", "tool.arguments"} =>
          \E j \in DOMAIN c.calls : c.calls[j] = w[i].item
    /\ ~c.done => \A i \in DOMAIN w : w[i].type \notin {"finish", "error"}

\* As long as nothing was dropped: that it gave the role.
Begun(w, c) ==
    /\ c.started => w # <<>> /\ w[1].type = "role"
    /\ ~c.started /\ ~c.done => w = <<>>

EndsAs(w, type) == w # <<>> /\ w[Len(w)].type = type

LEMMA Added ==
    ASSUME NEW S, NEW w \in Seq(S), NEW x \in S
    PROVE  /\ Append(w, x) \in Seq(S) /\ Append(w, x) # <<>>
           /\ Len(Append(w, x)) = Len(w) + 1 /\ Len(w) \in Nat
           /\ DOMAIN Append(w, x) = DOMAIN w \cup {Len(w) + 1}
           /\ DOMAIN w = 1..Len(w)
           /\ \A i \in DOMAIN w : Append(w, x)[i] = w[i]
           /\ Append(w, x)[Len(w) + 1] = x
           /\ w # <<>> => 1 \in DOMAIN w /\ Len(w) \in DOMAIN w
           /\ w = <<>> => Len(w) + 1 = 1
<1>1. Append(w, x) \in Seq(S) /\ Len(Append(w, x)) = Len(w) + 1 /\ Len(w) \in Nat
  OBVIOUS
<1>2. DOMAIN Append(w, x) = 1..(Len(w) + 1) /\ DOMAIN w = 1..Len(w)
  BY <1>1
<1>3. \A i \in DOMAIN w : Append(w, x)[i] = w[i]
  BY <1>2
<1>4. Append(w, x)[Len(w) + 1] = x
  BY AppendProperties
<1>5. /\ 1..(Len(w) + 1) = (1..Len(w)) \cup {Len(w) + 1}
      /\ w # <<>> => 1 \in DOMAIN w /\ Len(w) \in DOMAIN w
      /\ w = <<>> => Len(w) + 1 = 1
  BY <1>1, <1>2
<1>6. Append(w, x) # <<>>
  BY <1>1
<1>7. QED
  BY <1>1, <1>2, <1>3, <1>4, <1>5, <1>6, Zenon

(* One more event, in its turn.                                            *)
LEMMA ChatAppend ==
    ASSUME NEW w \in Seq(Wire), NEW x \in Wire, ChatOrder(w),
           x.type \in {"content", "tool.header", "tool.arguments"} =>
               w # <<>> /\ w[1].type = "role",
           x.type = "tool.header" =>
               \A i \in DOMAIN w : w[i].type \in {"tool.header", "tool.arguments"} =>
                   w[i].item # x.item,
           x.type # "[DONE]" => \A i \in DOMAIN w : w[i].type \notin {"finish", "error"},
           x.type = "[DONE]" => EndsAs(w, "finish")
    PROVE  ChatOrder(Append(w, x))
<1> DEFINE v == Append(w, x)
           n == Len(w) + 1
<1>1. /\ DOMAIN v = DOMAIN w \cup {n} /\ DOMAIN w = 1..Len(w) /\ Len(w) \in Nat
      /\ \A i \in DOMAIN w : v[i] = w[i]
      /\ v[n] = x
      /\ w # <<>> => 1 \in DOMAIN w /\ Len(w) \in DOMAIN w
  BY Added
<1> HIDE DEF v
<1>2. \A i \in DOMAIN w : 1 \in DOMAIN w
  BY <1>1
<1>3. ASSUME NEW i \in DOMAIN v, v[i].type \in {"content", "tool.header", "tool.arguments"}
      PROVE  v[1].type = "role"
  BY <1>1, <1>2, <1>3 DEF ChatOrder
<1>4. ASSUME NEW i \in DOMAIN v, NEW j \in DOMAIN v,
             v[i].type = "tool.header", v[j].type \in {"tool.header", "tool.arguments"},
             v[i].item = v[j].item
      PROVE  i <= j
  <2>1. CASE i \in DOMAIN w /\ j \in DOMAIN w
    BY <1>1, <1>4, <2>1 DEF ChatOrder
  <2>2. CASE i = n /\ j \in DOMAIN w
    BY <1>1, <1>4, <2>2
  <2>3. CASE j = n
    BY <1>1, <2>3
  <2>4. QED
    BY <1>1, <2>1, <2>2, <2>3
<1>5. ASSUME NEW i \in DOMAIN v, NEW j \in DOMAIN v,
             v[i].type \in {"finish", "error"}, j > i
      PROVE  v[i].type = "finish" /\ j = i + 1 /\ v[j].type = "[DONE]"
  <2>1. CASE j \in DOMAIN w
    <3>1. i \in DOMAIN w
      BY <1>1, <1>5, <2>1
    <3>2. QED
      BY <1>1, <1>5, <2>1, <3>1 DEF ChatOrder
  <2>2. CASE j = n
    <3>1. i \in DOMAIN w
      BY <1>1, <1>5, <2>2
    <3>2. x.type = "[DONE]" /\ Len(w) \in DOMAIN w /\ w[Len(w)].type = "finish"
      BY <1>1, <1>5, <3>1 DEF EndsAs
    <3>3. i = Len(w)
      <4>1. CASE i < Len(w)
        BY <1>1, <1>5, <3>1, <3>2, <4>1 DEF ChatOrder
      <4>2. QED
        BY <1>1, <3>1, <4>1
    <3>4. QED
      BY <1>1, <1>5, <2>2, <3>2, <3>3
  <2>3. QED
    BY <1>1, <2>1, <2>2
<1>6. ASSUME NEW j \in DOMAIN v, v[j].type = "[DONE]"
      PROVE  j > 1 /\ v[j - 1].type = "finish"
  <2>1. CASE j \in DOMAIN w
    <3>1. j > 1 /\ w[j - 1].type = "finish" /\ j - 1 \in DOMAIN w
      BY <1>1, <1>6, <2>1 DEF ChatOrder
    <3>2. QED
      BY <1>1, <3>1
  <2>2. CASE j = n
    <3>1. Len(w) \in DOMAIN w /\ w[Len(w)].type = "finish" /\ j - 1 = Len(w)
      BY <1>1, <1>6, <2>2 DEF EndsAs
    <3>2. QED
      BY <1>1, <2>2, <3>1
  <2>3. QED
    BY <1>1, <2>1, <2>2
<1>7. QED
  BY <1>3, <1>4, <1>5, <1>6 DEF ChatOrder, v

(* A converter to the Chat format says nothing out of turn: its role first, *)
(* then at most one event for the frame.                                   *)
LEMMA ResponsesSays ==
    ASSUME NEW c \in Converter, NEW f \in Frames("responses"), NEW w \in Seq(Wire),
           ~c.done, ~(f.type = "added" /\ Knows(c, f.item))
    PROVE  LET role == f.type = "created" \/ (f.type \in Begins /\ ~c.started)
               opened == IF role THEN Append(w, Event("role", NoItem)) ELSE w
           IN  w \o ResponsesEvents(c, f) =
                   IF f.type = "text" THEN Append(opened, Event("content", NoItem))
                   ELSE IF f.type = "added" THEN Append(opened, Event("tool.header", f.item))
                   ELSE IF f.type = "args" THEN Append(opened, Event("tool.arguments", f.item))
                   ELSE IF f.type \in {"completed", "cut"} THEN Append(opened, Event("finish", NoItem))
                   ELSE IF f.type \in {"unknown", "failed"} THEN Append(opened, Event("error", NoItem))
                   ELSE opened
<1> DEFINE role == f.type = "created" \/ (f.type \in Begins /\ ~c.started)
           opened == IF role THEN Append(w, Event("role", NoItem)) ELSE w
           r == Only(role, Event("role", NoItem))
<1>1. f.item \in Items \cup {NoItem}
  BY DEF Frames, Items
<1>2. /\ Event("role", NoItem) \in Wire /\ Event("content", NoItem) \in Wire
      /\ Event("tool.header", f.item) \in Wire /\ Event("tool.arguments", f.item) \in Wire
      /\ Event("finish", NoItem) \in Wire /\ Event("error", NoItem) \in Wire
  BY <1>1 DEF Event, Wire, Events
<1>3. r \in Seq(Wire)
  BY <1>2 DEF Only
<1>4. w \o r = opened /\ opened \in Seq(Wire)
  BY <1>2 DEF Only
<1>5. ASSUME NEW x \in Wire PROVE w \o (r \o <<x>>) = Append(opened, x)
  <2>1. w \o (r \o <<x>>) = (w \o r) \o <<x>>
    BY <1>3, <1>5, ConcatAssociative
  <2>2. Append(opened, x) = opened \o <<x>>
    BY <1>4, <1>5, AppendIsConcat
  <2>3. QED
    BY <1>4, <2>1, <2>2
<1>6. \A s \in Seq(Wire) : s \o <<>> = s
  OBVIOUS
<1>7. \A x \in Wire : <<x>> \in Seq(Wire) /\ r \o <<x>> \in Seq(Wire)
  BY <1>3
<1>8. ResponsesEvents(c, f) =
          ((((r \o Only(f.type = "text", Event("content", NoItem)))
             \o Only(f.type = "added", Event("tool.header", f.item)))
             \o Only(f.type = "args", Event("tool.arguments", f.item)))
             \o Only(f.type \in {"completed", "cut"}, Event("finish", NoItem)))
             \o Only(f.type \in {"unknown", "failed"}, Event("error", NoItem))
  BY DEF ResponsesEvents
<1> HIDE DEF r, opened, role
<1>9. CASE f.type = "text"
  <2>1. ResponsesEvents(c, f) = r \o <<Event("content", NoItem)>>
    BY <1>2, <1>3, <1>6, <1>7, <1>8, <1>9 DEF Only
  <2>2. QED
    BY <1>2, <1>5, <1>9, <2>1 DEF opened, role
<1>10. CASE f.type = "added"
  <2>1. ResponsesEvents(c, f) = r \o <<Event("tool.header", f.item)>>
    BY <1>2, <1>3, <1>6, <1>7, <1>8, <1>10 DEF Only
  <2>2. QED
    BY <1>2, <1>5, <1>10, <2>1 DEF opened, role
<1>11. CASE f.type = "args"
  <2>1. ResponsesEvents(c, f) = r \o <<Event("tool.arguments", f.item)>>
    BY <1>2, <1>3, <1>6, <1>7, <1>8, <1>11 DEF Only
  <2>2. QED
    BY <1>2, <1>5, <1>11, <2>1 DEF opened, role
<1>12. CASE f.type \in {"completed", "cut"}
  <2>1. ResponsesEvents(c, f) = r \o <<Event("finish", NoItem)>>
    BY <1>2, <1>3, <1>6, <1>7, <1>8, <1>12 DEF Only
  <2>2. QED
    BY <1>2, <1>5, <1>12, <2>1 DEF opened, role
<1>13. CASE f.type \in {"unknown", "failed"}
  <2>1. ResponsesEvents(c, f) = r \o <<Event("error", NoItem)>>
    BY <1>2, <1>3, <1>6, <1>7, <1>8, <1>13 DEF Only
  <2>2. QED
    BY <1>2, <1>5, <1>13, <2>1 DEF opened, role
<1>14. CASE f.type \notin {"text", "added", "args", "completed", "cut", "unknown", "failed"}
  <2>1. ResponsesEvents(c, f) = r
    BY <1>3, <1>6, <1>8, <1>14 DEF Only
  <2>2. QED
    BY <1>4, <1>14, <2>1 DEF opened, role
<1>15. QED
  BY <1>9, <1>10, <1>11, <1>12, <1>13, <1>14

(* What the converter remembers after a frame.                             *)
LEMMA ResponsesRemembers ==
    ASSUME NEW c \in Converter, NEW f \in Frames("responses"), ~c.done,
           ~(f.type = "added" /\ Knows(c, f.item))
    PROVE  /\ ResponsesPushed(c, f).started <=> c.started \/ f.type \in Begins
           /\ ResponsesPushed(c, f).done <=> f.type \in Ends
           /\ \A item : (\E i \in DOMAIN c.calls : c.calls[i] = item) =>
                  \E i \in DOMAIN ResponsesPushed(c, f).calls : ResponsesPushed(c, f).calls[i] = item
           /\ f.type \in {"added", "args"} =>
                  \E i \in DOMAIN ResponsesPushed(c, f).calls :
                      ResponsesPushed(c, f).calls[i] = f.item
<1>1. CASE f.type \in {"added", "args"}
  <2>1. f.item \in Calls /\ f.item # Message
    BY <1>1, ConverterAssumption DEF Frames
  <2>2. ResponsesPushed(c, f) = Learn(c, f.item)
    BY <1>1 DEF ResponsesPushed
  <2>3. CASE Knows(c, f.item)
    <3>1. Learn(c, f.item) = [c EXCEPT !.started = TRUE]
      BY <2>3 DEF Learn
    <3>2. /\ Learn(c, f.item).started /\ ~Learn(c, f.item).done
          /\ Learn(c, f.item).calls = c.calls
      BY <3>1 DEF Converter
    <3>3. QED
      BY <1>1, <2>1, <2>2, <2>3, <3>2 DEF Knows, Begins, Ends
  <2>4. CASE ~Knows(c, f.item)
    <3>1. Learn(c, f.item) = [c EXCEPT !.started = TRUE, !.calls = Append(@, f.item)]
      BY <2>1, <2>4 DEF Learn
    <3>2. c.calls \in Seq(Calls)
      BY DEF Converter
    <3>3. /\ Learn(c, f.item).started /\ ~Learn(c, f.item).done
          /\ Learn(c, f.item).calls = Append(c.calls, f.item)
      BY <3>1 DEF Converter
    <3>4. /\ DOMAIN Append(c.calls, f.item) = DOMAIN c.calls \cup {Len(c.calls) + 1}
          /\ \A i \in DOMAIN c.calls : Append(c.calls, f.item)[i] = c.calls[i]
          /\ Append(c.calls, f.item)[Len(c.calls) + 1] = f.item
      BY <2>1, <3>2, Added
    <3>5. QED
      BY <1>1, <2>2, <3>3, <3>4 DEF Begins, Ends
  <2>5. QED
    BY <2>3, <2>4
<1>2. CASE f.type \notin {"added", "args"}
  <2>1. ResponsesPushed(c, f) = [c EXCEPT !.started = @ \/ f.type \in Begins,
                                          !.done = f.type \in Ends]
    BY <1>2 DEF ResponsesPushed
  <2>2. \A started, done \in BOOLEAN :
            LET d == [c EXCEPT !.started = started, !.done = done]
            IN  d.started = started /\ d.done = done /\ d.calls = c.calls
    BY DEF Converter
  <2>3. (c.started \/ f.type \in Begins) \in BOOLEAN /\ (f.type \in Ends) \in BOOLEAN
    OBVIOUS
  <2>4. /\ ResponsesPushed(c, f).started = (c.started \/ f.type \in Begins)
        /\ ResponsesPushed(c, f).done = (f.type \in Ends)
        /\ ResponsesPushed(c, f).calls = c.calls
    BY <2>1, <2>2, <2>3, Zenon
  <2>5. QED
    BY <1>2, <2>4
<1>3. QED
  BY <1>1, <1>2

(* So every frame leaves the events in order, and the converter aware of    *)
(* them.                                                                   *)
LEMMA ChatFrame ==
    ASSUME NEW c \in Converter, NEW f \in Frames("responses"), NEW w \in Seq(Wire),
           ChatOrder(w), Recalled(w, c), Begun(w, c)
    PROVE  LET v == w \o ResponsesEvents(c, f)
               d == ResponsesPushed(c, f)
           IN  /\ ChatOrder(v) /\ Recalled(v, d) /\ Begun(v, d)
               /\ ~c.done /\ f.type \in {"completed", "cut"} => EndsAs(v, "finish")
               /\ c.done => v = w /\ d = c
<1>1. CASE c.done \/ (f.type = "added" /\ Knows(c, f.item))
  <2>1. ResponsesEvents(c, f) = <<>> /\ ResponsesPushed(c, f) = c
    BY <1>1 DEF ResponsesEvents, ResponsesPushed
  <2>2. w \o <<>> = w
    OBVIOUS
  <2>3. QED
    BY <1>1, <2>1, <2>2
<1>2. CASE ~c.done /\ ~(f.type = "added" /\ Knows(c, f.item))
  <2> DEFINE role == f.type = "created" \/ (f.type \in Begins /\ ~c.started)
             first == Event("role", NoItem)
             opened == IF role THEN Append(w, first) ELSE w
             d == ResponsesPushed(c, f)
             v == w \o ResponsesEvents(c, f)
             heads == {"tool.header", "tool.arguments"}
  <2>1. /\ d.started <=> c.started \/ f.type \in Begins
        /\ d.done <=> f.type \in Ends
        /\ \A item : (\E i \in DOMAIN c.calls : c.calls[i] = item) =>
               \E i \in DOMAIN d.calls : d.calls[i] = item
        /\ f.type \in {"added", "args"} => \E i \in DOMAIN d.calls : d.calls[i] = f.item
    BY <1>2, ResponsesRemembers
  <2>2. v = IF f.type = "text" THEN Append(opened, Event("content", NoItem))
            ELSE IF f.type = "added" THEN Append(opened, Event("tool.header", f.item))
            ELSE IF f.type = "args" THEN Append(opened, Event("tool.arguments", f.item))
            ELSE IF f.type \in {"completed", "cut"} THEN Append(opened, Event("finish", NoItem))
            ELSE IF f.type \in {"unknown", "failed"} THEN Append(opened, Event("error", NoItem))
            ELSE opened
    BY <1>2, ResponsesSays
  <2>3. /\ opened \in Seq(Wire) /\ ChatOrder(opened)
        /\ \A i \in DOMAIN opened : opened[i].type \notin {"finish", "error"}
        /\ \A i \in DOMAIN opened : opened[i].type \in heads =>
               \E j \in DOMAIN c.calls : c.calls[j] = opened[i].item
        /\ role \/ c.started => opened # <<>> /\ opened[1].type = "role"
        /\ ~role /\ ~c.started => opened = <<>>
    <3>1. CASE role
      <4>1. first \in Wire /\ first.type = "role"
        BY DEF Event, Wire, Events
      <4> HIDE DEF first
      <4>2. ChatOrder(opened)
        BY <1>2, <3>1, <4>1, ChatAppend DEF Recalled
      <4>3. /\ opened \in Seq(Wire) /\ opened # <<>>
            /\ DOMAIN opened = DOMAIN w \cup {Len(w) + 1}
            /\ \A i \in DOMAIN w : opened[i] = w[i]
            /\ opened[Len(w) + 1] = first
            /\ w # <<>> => 1 \in DOMAIN w
            /\ w = <<>> => Len(w) + 1 = 1
        BY <3>1, <4>1, Added
      <4>4. opened[1].type = "role"
        <5>1. CASE w = <<>>
          BY <4>1, <4>3, <5>1
        <5>2. CASE w # <<>>
          BY <1>2, <4>3, <5>2 DEF Begun
        <5>3. QED
          BY <5>1, <5>2
      <4> HIDE DEF opened
      <4>5. QED
        BY <1>2, <3>1, <4>1, <4>2, <4>3, <4>4 DEF Recalled
    <3>2. CASE ~role
      BY <1>2, <3>2 DEF Recalled, Begun
    <3>3. QED
      BY <3>1, <3>2
  <2>4. f.type \in {"text", "added", "args"} => role \/ c.started
    BY DEF Begins
  <2>5. ~role /\ ~c.started => f.type \notin Begins
    OBVIOUS
  <2>6. role => f.type \in Begins
    BY DEF Begins
  <2> HIDE DEF role, opened, v, d
  <2>7. ASSUME NEW x \in Wire, v = Append(opened, x), ChatOrder(v),
               x.type \in heads => \E i \in DOMAIN d.calls : d.calls[i] = x.item,
               x.type \in {"finish", "error"} => f.type \in Ends,
               f.type \in Begins \cup Ends
        PROVE  /\ ChatOrder(v) /\ Recalled(v, d) /\ Begun(v, d)
               /\ EndsAs(v, x.type)
    <3>1. /\ v # <<>> /\ Len(v) = Len(opened) + 1
          /\ DOMAIN v = DOMAIN opened \cup {Len(opened) + 1}
          /\ \A i \in DOMAIN opened : v[i] = opened[i]
          /\ v[Len(opened) + 1] = x
          /\ opened # <<>> => 1 \in DOMAIN opened
      BY <2>3, <2>7, Added
    <3>2. Recalled(v, d)
      <4>1. ASSUME NEW i \in DOMAIN v, v[i].type \in heads
            PROVE  \E j \in DOMAIN d.calls : d.calls[j] = v[i].item
        <5>1. CASE i \in DOMAIN opened
          <6>1. \E j \in DOMAIN c.calls : c.calls[j] = v[i].item
            BY <2>3, <3>1, <4>1, <5>1
          <6>2. QED
            BY <2>1, <6>1
        <5>2. CASE i = Len(opened) + 1
          BY <2>7, <3>1, <4>1, <5>2
        <5>3. QED
          BY <3>1, <4>1, <5>1, <5>2
      <4>2. ASSUME ~d.done, NEW i \in DOMAIN v
            PROVE  v[i].type \notin {"finish", "error"}
        BY <2>1, <2>3, <2>7, <3>1, <4>2
      <4>3. QED
        BY <4>1, <4>2 DEF Recalled
    <3>3. Begun(v, d)
      <4>1. d.started => v[1].type = "role"
        BY <2>1, <2>3, <2>5, <3>1
      <4>2. ~d.started /\ ~d.done => FALSE
        BY <2>1, <2>7
      <4>3. QED
        BY <3>1, <4>1, <4>2 DEF Begun
    <3>4. EndsAs(v, x.type)
      BY <3>1 DEF EndsAs
    <3>5. QED
      BY <2>7, <3>2, <3>3, <3>4
  <2>8. f.item \in Items \cup {NoItem} /\ (f.type \in {"added", "args"} => f.item \in Calls)
    BY DEF Frames, Items
  <2>9. ASSUME NEW type \in {"content", "tool.header", "tool.arguments", "finish", "error"},
               NEW item \in Items \cup {NoItem}
        PROVE  /\ Event(type, item) \in Wire
               /\ Event(type, item).type = type /\ Event(type, item).item = item
    BY DEF Event, Wire, Events
  <2>10. CASE f.type = "text"
    <3>1. v = Append(opened, Event("content", NoItem))
      BY <2>2, <2>10
    <3> DEFINE x == Event("content", NoItem)
    <3>2. x \in Wire /\ x.type = "content"
      BY <2>9
    <3> HIDE DEF x
    <3>3. ChatOrder(v)
      BY <2>3, <2>4, <2>10, <3>1, <3>2, ChatAppend DEF x
    <3>4. QED
      BY <1>2, <2>7, <2>10, <3>1, <3>2, <3>3 DEF x, v, d, Begins
  <2>11. CASE f.type = "added"
    <3>1. v = Append(opened, Event("tool.header", f.item))
      BY <2>2, <2>11
    <3> DEFINE x == Event("tool.header", f.item)
    <3>2. x \in Wire /\ x.type = "tool.header" /\ x.item = f.item
      BY <2>8, <2>9
    <3> HIDE DEF x
    <3>3. \A i \in DOMAIN opened : opened[i].type \in heads => opened[i].item # x.item
      BY <1>2, <2>3, <2>8, <2>11, <3>2, ConverterAssumption DEF Knows
    <3>4. ChatOrder(v)
      BY <2>3, <2>4, <2>11, <3>1, <3>2, <3>3, ChatAppend DEF x
    <3>5. QED
      BY <1>2, <2>1, <2>7, <2>11, <3>1, <3>2, <3>4 DEF x, v, d, Begins
  <2>12. CASE f.type = "args"
    <3>1. v = Append(opened, Event("tool.arguments", f.item))
      BY <2>2, <2>12
    <3> DEFINE x == Event("tool.arguments", f.item)
    <3>2. x \in Wire /\ x.type = "tool.arguments" /\ x.item = f.item
      BY <2>8, <2>9
    <3> HIDE DEF x
    <3>3. ChatOrder(v)
      BY <2>3, <2>4, <2>12, <3>1, <3>2, ChatAppend DEF x
    <3>4. QED
      BY <1>2, <2>1, <2>7, <2>12, <3>1, <3>2, <3>3 DEF x, v, d, Begins
  <2>13. CASE f.type \in {"completed", "cut"}
    <3>1. v = Append(opened, Event("finish", NoItem))
      BY <2>2, <2>13
    <3> DEFINE x == Event("finish", NoItem)
    <3>2. x \in Wire /\ x.type = "finish"
      BY <2>9
    <3> HIDE DEF x
    <3>3. ChatOrder(v)
      BY <2>3, <3>1, <3>2, ChatAppend DEF x
    <3>4. QED
      BY <1>2, <2>7, <2>13, <3>1, <3>2, <3>3 DEF x, v, d, Ends
  <2>14. CASE f.type \in {"unknown", "failed"}
    <3>1. v = Append(opened, Event("error", NoItem))
      BY <2>2, <2>14
    <3> DEFINE x == Event("error", NoItem)
    <3>2. x \in Wire /\ x.type = "error"
      BY <2>9
    <3> HIDE DEF x
    <3>3. ChatOrder(v)
      BY <2>3, <3>1, <3>2, ChatAppend DEF x
    <3>4. QED
      BY <1>2, <2>7, <2>14, <3>1, <3>2, <3>3 DEF x, v, d, Ends
  <2>15. CASE f.type \notin {"text", "added", "args", "completed", "cut", "unknown", "failed"}
    <3>1. v = opened
      BY <2>2, <2>15
    <3>2. Recalled(v, d)
      <4>1. \A i \in DOMAIN v : v[i].type \in heads =>
               \E j \in DOMAIN d.calls : d.calls[j] = v[i].item
        BY <2>1, <2>3, <3>1
      <4>2. QED
        BY <2>3, <3>1, <4>1 DEF Recalled
    <3>3. Begun(v, d)
      <4>1. d.started => role \/ c.started
        BY <2>1, <2>5
      <4>2. ~d.started => ~role /\ ~c.started
        BY <2>1, <2>6
      <4>3. QED
        BY <2>3, <3>1, <4>1, <4>2 DEF Begun
    <3>4. QED
      BY <1>2, <2>3, <2>15, <3>1, <3>2, <3>3 DEF v, d
  <2>16. QED
    BY <2>10, <2>11, <2>12, <2>13, <2>14, <2>15
<1>3. QED
  BY <1>1, <1>2

\* What was said to the client, or is about to be.
Spoken == sent \o relay.out

\* A relay begins with a call for a stream; a stream that was given up is over.
RelayInv ==
    /\ IF Relaying THEN calls # <<>> /\ request.stream /\ sent \in Seq(Wire) ELSE relay = NewRelay
    /\ relay.canceled => relay.over

\* What a Chat client is told is in order; while the upstream is read, the
\* converter remembers it, and a good end was the last that it told.
ChatInv ==
    Relaying /\ Converts /\ request.from = "chat" =>
        /\ ChatOrder(Spoken)
        /\ pc = "stream" =>
              /\ Recalled(Spoken, relay.conv)
              /\ ~relay.canceled => Begun(Spoken, relay.conv)
              /\ relay.terminal => relay.conv.done
              /\ relay.terminal /\ ~relay.failed => EndsAs(Spoken, "finish")

(* What a step may do to a relay.                                          *)
LEMMA RelaySteps ==
    ASSUME IInv, [Next]_vars
    PROVE  \/ relay' = NewRelay /\ pc' # "stream"
           \/ relay' = NewRelay /\ pc' = "stream" /\ sent' = <<>>
           \/ \E f \in Incoming : ReadFrame(f)
           \/ ReadEnds \/ ReadFails \/ Emit \/ EmitFails \/ Conclude \/ LogStream
           \/ UNCHANGED <<pc, request, route, calls, relay, sent>>
<1>1. CASE \/ LoadFails \/ RouteRefused \/ Route \/ Effect
           \/ \E r \in Requests : Receive(r)
           \/ \E cfg \in Configs : LoadConfig(cfg)
  <2>1. relay' = NewRelay
    BY <1>1 DEF LoadFails, RouteRefused, Route, Effect, Receive, LoadConfig, IInv, EarlyInv
  <2>2. pc' # "stream"
    BY <1>1 DEF LoadFails, RouteRefused, Route, Effect, Receive, LoadConfig, Refuse
  <2>3. QED
    BY <2>1, <2>2
<1>2. CASE CallFails \/ BodyFails \/ UpstreamRefuses \/ ConversionFails \/ Succeed \/ Retry
  <2>1. relay' = NewRelay
    BY <1>2 DEF CallFails, BodyFails, UpstreamRefuses, ConversionFails, Succeed, Retry, IInv,
                EarlyInv
  <2>2. pc' # "stream"
    BY <1>2 DEF CallFails, BodyFails, UpstreamRefuses, ConversionFails, Succeed, Retry, EndsWith
  <2>3. QED
    BY <2>1, <2>2
<1>3. CASE \E reply \in Replies : CallReturns(reply)
  BY <1>3 DEF CallReturns, IInv, EarlyInv
<1>4. CASE Lose \/ Cancel \/ Finished \/ UNCHANGED vars
  BY <1>4 DEF Lose, Cancel, Finished, vars
<1>5. QED
  BY <1>1, <1>2, <1>3, <1>4 DEF Next, Handler, Upstream, Breaks

LEMMA RelayInvStep == IInv /\ IInv' /\ RelayInv /\ [Next]_vars => RelayInv'
<1> SUFFICES ASSUME IInv, IInv', RelayInv, [Next]_vars PROVE RelayInv'
  OBVIOUS
<1>1. relay \in Relays
  BY DEF IInv, TypeInv
<1>2. CASE relay' = NewRelay
  BY <1>2 DEF IInv, CallInv, EarlyInv, RelayInv, Relaying, NewRelay
<1>3. CASE \/ ReadEnds \/ ReadFails \/ EmitFails \/ Conclude \/ Emit
           \/ \E f \in Incoming : ReadFrame(f)
  <2>1. pc' \in {"stream", "finish"}
    BY <1>3 DEF ReadEnds, ReadFails, Emit, EmitFails, Conclude, ReadFrame, Reading, Writing
  <2>2. calls' # <<>> /\ request'.stream /\ (sent \in Seq(Wire))' /\ Relaying'
    BY <2>1 DEF IInv, CallInv, EarlyInv, StreamInv, Relaying
  <2>3. relay'.canceled => relay'.over
    BY <1>1, <1>3
    DEF ReadEnds, ReadFails, Emit, EmitFails, Conclude, ReadFrame, Reading, Relays, RelayInv
  <2>4. QED
    BY <2>2, <2>3 DEF RelayInv
<1>4. CASE LogStream
  <2>1. pc = "finish" /\ UNCHANGED <<calls, request, sent, relay>>
    BY <1>4 DEF LogStream
  <2>2. relay.over
    BY <2>1 DEF IInv, StreamInv
  <2>3. QED
    BY <2>1, <2>2 DEF RelayInv, Relaying
<1>5. CASE UNCHANGED <<pc, request, route, calls, relay, sent>>
  BY <1>5 DEF RelayInv, Relaying
<1>6. QED
  BY <1>2, <1>3, <1>4, <1>5, RelaySteps

LEMMA EmptySpoken == relay.out = <<>> /\ sent \in Seq(Wire) => Spoken = sent
BY DEF Spoken

(* Emitting changes nothing of what is told; giving up cuts it short.      *)
LEMMA EmitTells ==
    ASSUME relay \in Relays, sent \in Seq(Wire), Emit
    PROVE  /\ Spoken' = Spoken /\ UNCHANGED <<pc, request, route, calls>>
           /\ relay'.conv = relay.conv /\ relay'.terminal = relay.terminal
           /\ relay'.failed = relay.failed /\ relay'.canceled = relay.canceled
           /\ relay'.over = relay.over
           /\ sent' = Append(sent, Head(relay.out))
           /\ relay.out \in Seq(Wire) /\ relay.out # <<>>
<1>1. /\ sent' = Append(sent, Head(relay.out)) /\ relay'.out = Tail(relay.out)
      /\ relay'.conv = relay.conv /\ relay'.terminal = relay.terminal
      /\ relay'.failed = relay.failed /\ relay'.canceled = relay.canceled
      /\ relay'.over = relay.over
      /\ relay.out \in Seq(Wire) /\ relay.out # <<>>
      /\ UNCHANGED <<pc, request, route, calls>>
  BY DEF Emit, Writing, Relays
<1> DEFINE out == relay.out
<1> HIDE DEF out
<1>2. ASSUME NEW s \in Seq(Wire), NEW t \in Seq(Wire), t # <<>>
      PROVE  Append(s, Head(t)) \o Tail(t) = s \o t
  <2>1. Head(t) \in Wire /\ Tail(t) \in Seq(Wire) /\ t = <<Head(t)>> \o Tail(t)
    BY <1>2
  <2>2. Append(s, Head(t)) = s \o <<Head(t)>> /\ <<Head(t)>> \in Seq(Wire)
    BY <2>1
  <2>3. (s \o <<Head(t)>>) \o Tail(t) = s \o (<<Head(t)>> \o Tail(t))
    BY <2>1, <2>2, ConcatAssociative, SMTT(20)
  <2>4. QED
    BY <2>1, <2>2, <2>3
<1>3. QED
  BY <1>1, <1>2 DEF Spoken

LEMMA EmitFailsTells ==
    ASSUME relay \in Relays, sent \in Seq(Wire), EmitFails
    PROVE  /\ Spoken' = sent /\ UNCHANGED <<pc, request, route, calls, sent>>
           /\ relay'.conv = relay.conv /\ relay'.terminal = relay.terminal
           /\ relay'.failed /\ relay'.canceled /\ relay'.over
<1>1. /\ relay'.out = <<>> /\ relay'.failed /\ relay'.canceled /\ relay'.over
      /\ relay'.conv = relay.conv /\ relay'.terminal = relay.terminal
      /\ UNCHANGED <<pc, request, route, calls, sent>>
  BY DEF EmitFails, Relays
<1>2. QED
  BY <1>1 DEF Spoken

LEMMA ChatPrefix ==
    ASSUME NEW s \in Seq(Wire), NEW t \in Seq(Wire)
    PROVE  /\ ChatOrder(s \o t) => ChatOrder(s)
           /\ \A c : Recalled(s \o t, c) => Recalled(s, c)
<1> DEFINE w == s \o t
<1>1. DOMAIN s \subseteq DOMAIN w /\ \A i \in DOMAIN s : w[i] = s[i]
  OBVIOUS
<1>2. \A i \in DOMAIN s : 1 \in DOMAIN s /\ (i > 1 => i - 1 \in DOMAIN s)
  OBVIOUS
<1> HIDE DEF w
<1>3. ChatOrder(w) => ChatOrder(s)
  BY <1>1, <1>2 DEF ChatOrder
<1>4. \A c : Recalled(w, c) => Recalled(s, c)
  BY <1>1 DEF Recalled
<1>5. QED
  BY <1>3, <1>4 DEF w

(* An end for a reason the proxy does not know is an error too.            *)
LEMMA ErrorIsTold ==
    ASSUME NEW c \in Converter, ~c.done, NEW f \in Frames("responses"),
           f.type \in {"unknown", "failed"}
    PROVE  \E i \in DOMAIN ResponsesEvents(c, f) : ResponsesEvents(c, f)[i].type = "error"
<1>1. CASE f.type = "unknown"
  <2>1. ResponsesEvents(c, f) = <<Event("error", NoItem)>>
    BY <1>1 DEF ResponsesEvents, Only, Begins
  <2>2. QED
    BY <2>1 DEF Event
<1>2. QED
  BY <1>1, FailureIsTold

LEMMA ChatInvStep == IInv /\ IInv' /\ RelayInv /\ ChatInv /\ [Next]_vars => ChatInv'
<1> SUFFICES ASSUME IInv, IInv', RelayInv, ChatInv, [Next]_vars,
                    Relaying', Converts', (request.from = "chat")'
             PROVE  /\ ChatOrder(Spoken')
                    /\ pc' = "stream" =>
                          /\ Recalled(Spoken', relay'.conv)
                          /\ ~relay'.canceled => Begun(Spoken', relay'.conv)
                          /\ relay'.terminal => relay'.conv.done
                          /\ relay'.terminal /\ ~relay'.failed => EndsAs(Spoken', "finish")
  BY DEF ChatInv
<1>1. relay \in Relays
  BY DEF IInv, TypeInv
<1>2. CASE relay' = NewRelay /\ pc' = "stream" /\ sent' = <<>>
  <2>1. Spoken' = <<>>
    BY <1>2 DEF Spoken, NewRelay
  <2>2. QED
    BY <1>2, <2>1 DEF NewRelay, NewConverter, ChatOrder, Recalled, Begun
<1>3. CASE UNCHANGED <<pc, request, route, calls, relay, sent>>
  BY <1>3 DEF ChatInv, Relaying, Converts, Spoken
<1> DEFINE Now ==
        /\ Relaying /\ Converts /\ request.from = "chat" /\ calls # <<>> /\ sent \in Seq(Wire)
        /\ ChatOrder(Spoken)
        /\ pc = "stream" =>
              /\ Recalled(Spoken, relay.conv)
              /\ ~relay.canceled => Begun(Spoken, relay.conv)
              /\ relay.terminal => relay.conv.done
              /\ relay.terminal /\ ~relay.failed => EndsAs(Spoken, "finish")
<1>4. Relaying /\ UNCHANGED <<request, route>> => Now
  BY DEF ChatInv, RelayInv, Converts
<1>5. CASE LogStream
  <2>1. /\ pc = "finish" /\ pc' = "done" /\ UNCHANGED <<request, route, sent, relay>>
    BY <1>5 DEF LogStream
  <2>2. Now /\ Spoken' = Spoken
    BY <1>4, <2>1 DEF IInv, StreamInv, Relaying, Spoken
  <2>3. QED
    BY <2>1, <2>2
<1>6. CASE ReadEnds \/ ReadFails
  <2>1. /\ pc = "stream" /\ UNCHANGED <<pc, request, route, sent>>
        /\ relay'.conv = relay.conv /\ relay'.terminal = relay.terminal
        /\ relay'.canceled = relay.canceled /\ relay'.out = relay.out
        /\ relay.failed => relay'.failed
    BY <1>1, <1>6 DEF ReadEnds, ReadFails, Reading, Relays
  <2>2. Now /\ Spoken' = Spoken
    BY <1>4, <2>1 DEF Relaying, Spoken
  <2>3. QED
    BY <2>1, <2>2
<1>7. CASE Emit
  <2>1. Relaying /\ sent \in Seq(Wire) /\ UNCHANGED <<request, route>>
    BY <1>7 DEF Emit, Writing, IInv, StreamInv, Relaying, RelayInv
  <2>2. QED
    BY <1>1, <1>4, <1>7, <2>1, EmitTells
<1>8. CASE EmitFails
  <2>1. Relaying /\ sent \in Seq(Wire) /\ UNCHANGED <<request, route>>
    BY <1>8 DEF EmitFails, Writing, IInv, StreamInv, Relaying, RelayInv
  <2>2. ChatOrder(sent) /\ (pc = "stream" => Recalled(sent, relay.conv))
    <3>1. relay.out \in Seq(Wire)
      BY <1>1 DEF Relays
    <3>2. QED
      BY <1>4, <2>1, <3>1, ChatPrefix DEF Spoken
  <2>3. QED
    BY <1>1, <1>4, <1>8, <2>1, <2>2, EmitFailsTells
<1>9. CASE Conclude
  <2>1. /\ pc = "stream" /\ relay.out = <<>> /\ pc' = "finish"
        /\ UNCHANGED <<request, route, calls, sent>>
    BY <1>9 DEF Conclude
  <2>2. Now /\ Spoken = sent
    BY <1>4, <2>1, EmptySpoken DEF Relaying
  <2> DEFINE failed == relay.failed \/ relay.canceled \/ client = "gone" \/ ~relay.terminal
             done == Event("[DONE]", NoItem)
  <2>3. relay'.out = IF failed THEN <<>>
                     ELSE Finish(request.from, relay.conv)
                          \o Only(request.from = "chat", Event("[DONE]", NoItem))
    BY <1>1, <1>9, <2>2 DEF Conclude, Relays
  <2>4. CASE failed
    <3>1. Spoken' = sent
      BY <2>1, <2>2, <2>3, <2>4 DEF Spoken
    <3>2. QED
      BY <2>1, <2>2, <3>1
  <2>5. CASE ~failed
    <3>1. EndsAs(sent, "finish") /\ relay.conv.done
      BY <2>1, <2>2, <2>5
    <3>2. done \in Wire /\ done.type = "[DONE]"
      BY DEF Event, Wire, Events
    <3>3. relay'.out = <<>> \o <<done>>
      BY <2>2, <2>3, <2>5, <3>1 DEF Finish, ResponsesFinish, Only
    <3> HIDE DEF done
    <3>4. Spoken' = Append(sent, done)
      <4>1. relay'.out = <<done>>
        BY <3>2, <3>3
      <4>2. QED
        BY <2>1, <2>2, <3>2, <4>1, AppendIsConcat DEF Spoken
    <3>5. QED
      BY <2>1, <2>2, <3>1, <3>2, <3>4, ChatAppend
  <2>6. QED
    BY <2>4, <2>5
<1>10. ASSUME NEW f \in Incoming, ReadFrame(f)
       PROVE  /\ ChatOrder(Spoken')
              /\ Recalled(Spoken', relay'.conv)
              /\ ~relay'.canceled => Begun(Spoken', relay'.conv)
              /\ relay'.terminal => relay'.conv.done
              /\ relay'.terminal /\ ~relay'.failed => EndsAs(Spoken', "finish")
  <2>1. /\ pc = "stream" /\ relay.out = <<>> /\ ~relay.over
        /\ f \in Frames(route.format)
        /\ UNCHANGED <<pc, request, route, calls, sent>>
    BY <1>10 DEF ReadFrame, Reading, Incoming
  <2>2. Now /\ Spoken = sent /\ ~relay.canceled
    BY <1>4, <2>1, EmptySpoken DEF Relaying, RelayInv
  <2>3. route.format = "responses"
    BY <2>2, Converting DEF IInv, RelayInv
  <2> DEFINE c == relay.conv
             events == ResponsesEvents(c, f)
             d == ResponsesPushed(c, f)
             v == sent \o events
  <2>4. /\ relay'.out = events /\ relay'.conv = d /\ relay'.canceled = relay.canceled
        /\ relay'.terminal <=> relay.terminal \/ f.type \in Ends
        /\ relay.failed \/ (\E i \in DOMAIN events : events[i].type = "error") => relay'.failed
    BY <1>1, <1>10, <2>2, <2>3
    DEF ReadFrame, Relays, EventsOf, Pushed, IsSSETerminal, Ends
  <2>5. c \in Converter /\ f \in Frames("responses")
    BY <1>1, <2>1, <2>3 DEF Relays
  <2>6. /\ ChatOrder(v) /\ Recalled(v, d) /\ Begun(v, d)
        /\ ~c.done /\ f.type \in {"completed", "cut"} => EndsAs(v, "finish")
        /\ c.done => v = sent /\ d = c
    BY <2>1, <2>2, <2>5, ChatFrame
  <2>7. Spoken' = v
    BY <2>1, <2>4 DEF Spoken
  <2>8. CASE c.done
    <3>1. c.done => relay.terminal
      BY <2>2 DEF IInv, StreamInv
    <3>2. QED
      BY <2>1, <2>2, <2>4, <2>6, <2>7, <2>8, <3>1
  <2>9. CASE ~c.done
    <3>1. d.done <=> f.type \in Ends
      <4>1. CASE f.type = "added" /\ Knows(c, f.item)
        BY <2>9, <4>1 DEF ResponsesPushed, Ends
      <4>2. QED
        BY <2>5, <2>9, <4>1, ResponsesRemembers
    <3>2. ~relay.terminal
      BY <2>1, <2>2, <2>9
    <3>3. f.type \in {"unknown", "failed"} => relay'.failed
      <4>1. CASE f.type = "failed"
        BY <2>4, <2>5, <2>9, <4>1, ErrorIsTold
      <4>2. CASE f.type = "unknown"
        BY <2>4, <2>5, <2>9, <4>2, ErrorIsTold
      <4>3. QED
        BY <4>1, <4>2
    <3>4. QED
      BY <2>2, <2>4, <2>6, <2>7, <2>9, <3>1, <3>2, <3>3 DEF Ends
  <2>10. QED
    BY <2>8, <2>9
<1>11. CASE relay' = NewRelay /\ pc' # "stream"
  BY <1>11 DEF Relaying, NewRelay
<1>12. QED
  BY <1>2, <1>3, <1>5, <1>6, <1>7, <1>8, <1>9, <1>10, <1>11, RelaySteps

(* A Chat client is told in order: its role first, the head of a call      *)
(* before its arguments, one end, and [DONE] directly after a good one.    *)
THEOREM ChatClientsHearInOrder == Spec => []ChatGrammar
<1>1. Init => RelayInv /\ ChatInv
  BY DEF Init, RelayInv, ChatInv, Relaying, NewRelay
<1>2. IInv /\ IInv' /\ RelayInv /\ ChatInv /\ [Next]_vars => RelayInv' /\ ChatInv'
  BY RelayInvStep, ChatInvStep
<1>3. IInv /\ RelayInv /\ ChatInv => ChatGrammar
  <2> SUFFICES ASSUME IInv, RelayInv, ChatInv, relay.frames > 0, Converts, request.from = "chat"
               PROVE  ChatGrammar
    BY DEF ChatGrammar
  <2>1. Relaying /\ sent \in Seq(Wire) /\ relay.out \in Seq(Wire)
    BY DEF RelayInv, NewRelay, IInv, TypeInv, Relays
  <2>2. ChatOrder(sent)
    BY <2>1, ChatPrefix DEF ChatInv, Spoken
  <2>3. QED
    BY <2>1, <2>2 DEF ChatOrder, ChatGrammar, Sent
<1>4. QED
  BY ProxyInvariance, <1>1, <1>2, <1>3, PTL DEF Spec

-----------------------------------------------------------------------------
(* What a Responses client is told                                         *)

\* The items that the first n of the events w are about, by type of event.
About(w, n, types) == {w[i].item : i \in {j \in 1..n : w[j].type \in types}}
AllAbout(w, types) == About(w, Len(w), types)

ResponseEnds == {"response.completed", "response.incomplete"}
ItemEvents == {"item.added", "delta", "item.done"}
ResponseTypes == {"response.created"} \cup ItemEvents \cup ResponseEnds

\* EventStream, of a sequence of events: x may follow the first n of w.
MayFollow(w, n, x) ==
    /\ x.type \in ResponseTypes => About(w, n, ResponseEnds) = {}
    /\ x.type = "response.created" => About(w, n, {"response.created"}) = {}
    /\ x.type \in ItemEvents => x.item \in Items /\ About(w, n, {"response.created"}) # {}
    /\ x.type = "item.added" => x.item \notin About(w, n, {"item.added"})
    /\ x.type \in {"delta", "item.done"} =>
          x.item \in About(w, n, {"item.added"}) \ About(w, n, {"item.done"})
    /\ x.type \in ResponseEnds => About(w, n, {"item.added"}) = About(w, n, {"item.done"})

ResponseOrder(w) == \A i \in DOMAIN w : MayFollow(w, i - 1, w[i])

\* What the converter c remembers of the events w, until it finishes: that they
\* have begun, and which items they announced, each of them once.
Announced(w, c) ==
    /\ AllAbout(w, ResponseEnds) = {} /\ AllAbout(w, {"item.done"}) = {}
    /\ c.started <=> AllAbout(w, {"response.created"}) # {}
    /\ AllAbout(w, {"item.added"}) = {k \in Items : Knows(c, k)}
    /\ \A k \in Items : Knows(c, k) => c.started
    /\ \A i, j \in DOMAIN c.calls : c.calls[i] = c.calls[j] => i = j

LEMMA AboutConcat ==
    ASSUME NEW S, NEW s \in Seq(S), NEW t \in Seq(S), NEW types
    PROVE  /\ \A n \in 0..Len(s) : About(s \o t, n, types) = About(s, n, types)
           /\ \A n \in 0..Len(t) :
                 About(s \o t, Len(s) + n, types) = AllAbout(s, types) \cup About(t, n, types)
<1> DEFINE w == s \o t
<1>1. /\ Len(s) \in Nat /\ Len(t) \in Nat
      /\ \A i \in 1..Len(s) : w[i] = s[i]
      /\ \A i \in 1..Len(t) : w[Len(s) + i] = t[i]
  OBVIOUS
<1> HIDE DEF w
<1>2. ASSUME NEW n \in 0..Len(s) PROVE About(w, n, types) = About(s, n, types)
  <2>1. \A i \in 1..n : w[i] = s[i]
    BY <1>1
  <2>2. QED
    BY <2>1 DEF About
<1>3. ASSUME NEW n \in 0..Len(t)
      PROVE  About(w, Len(s) + n, types) = AllAbout(s, types) \cup About(t, n, types)
  <2>1. ASSUME NEW i \in 1..(Len(s) + n), w[i].type \in types
        PROVE  w[i].item \in AllAbout(s, types) \cup About(t, n, types)
    <3>1. CASE i \in 1..Len(s)
      BY <1>1, <2>1, <3>1 DEF AllAbout, About
    <3>2. CASE i \notin 1..Len(s)
      <4>1. i - Len(s) \in 1..n /\ i - Len(s) \in 1..Len(t) /\ Len(s) + (i - Len(s)) = i
        BY <1>1, <3>2
      <4>2. w[i] = t[i - Len(s)]
        BY <1>1, <4>1
      <4>3. QED
        BY <2>1, <4>1, <4>2 DEF About
    <3>3. QED
      BY <3>1, <3>2
  <2>2. ASSUME NEW i \in 1..Len(s), s[i].type \in types
        PROVE  s[i].item \in About(w, Len(s) + n, types)
    BY <1>1, <2>2 DEF About
  <2>3. ASSUME NEW i \in 1..n, t[i].type \in types
        PROVE  t[i].item \in About(w, Len(s) + n, types)
    <3>1. Len(s) + i \in 1..(Len(s) + n) /\ w[Len(s) + i] = t[i]
      BY <1>1
    <3>2. QED
      BY <2>3, <3>1 DEF About
  <2>4. QED
    BY <2>1, <2>2, <2>3 DEF About, AllAbout
<1>4. QED
  BY <1>2, <1>3 DEF w

LEMMA FollowsPrefix ==
    ASSUME NEW S, NEW s \in Seq(S), NEW t \in Seq(S), NEW n \in 0..Len(s), NEW x
    PROVE  MayFollow(s \o t, n, x) <=> MayFollow(s, n, x)
<1>1. \A types : About(s \o t, n, types) = About(s, n, types)
  BY AboutConcat, SMTT(20)
<1>2. /\ About(s \o t, n, ResponseEnds) = About(s, n, ResponseEnds)
      /\ About(s \o t, n, {"response.created"}) = About(s, n, {"response.created"})
      /\ About(s \o t, n, {"item.added"}) = About(s, n, {"item.added"})
      /\ About(s \o t, n, {"item.done"}) = About(s, n, {"item.done"})
  BY <1>1
<1>3. QED
  BY <1>2 DEF MayFollow

LEMMA OrderPrefix ==
    ASSUME NEW S, NEW s \in Seq(S), NEW t \in Seq(S), ResponseOrder(s \o t)
    PROVE  ResponseOrder(s)
<1>1. ASSUME NEW i \in DOMAIN s PROVE MayFollow(s, i - 1, s[i])
  <2>1. i \in DOMAIN (s \o t) /\ (s \o t)[i] = s[i] /\ i - 1 \in 0..Len(s)
    OBVIOUS
  <2>2. MayFollow(s \o t, i - 1, s[i])
    BY <2>1 DEF ResponseOrder
  <2>3. QED
    BY <2>1, <2>2, FollowsPrefix
<1>2. QED
  BY <1>1 DEF ResponseOrder

(* One more event, in its turn.                                            *)
LEMMA OneMore ==
    ASSUME NEW S, NEW w \in Seq(S), NEW x \in S
    PROVE  /\ Append(w, x) \in Seq(S)
           /\ \A types : AllAbout(Append(w, x), types) =
                  AllAbout(w, types) \cup (IF x.type \in types THEN {x.item} ELSE {})
           /\ ResponseOrder(w) /\ MayFollow(w, Len(w), x) => ResponseOrder(Append(w, x))
<1> DEFINE last == <<x>>
<1>1. Append(w, x) = w \o last /\ last \in Seq(S) /\ Len(last) = 1 /\ last[1] = x
  BY AppendIsConcat
<1> HIDE DEF last
<1>2. /\ Append(w, x) \in Seq(S) /\ Len(Append(w, x)) = Len(w) + 1 /\ Len(w) \in Nat
      /\ DOMAIN Append(w, x) = DOMAIN w \cup {Len(w) + 1}
      /\ DOMAIN w = 1..Len(w)
      /\ \A i \in DOMAIN w : Append(w, x)[i] = w[i]
      /\ Append(w, x)[Len(w) + 1] = x
  BY Added
<1>3. ASSUME NEW types
      PROVE  AllAbout(Append(w, x), types) =
                 AllAbout(w, types) \cup (IF x.type \in types THEN {x.item} ELSE {})
  <2>1. About(w \o last, Len(w) + 1, types) = AllAbout(w, types) \cup About(last, 1, types)
    <3>1. 1 \in 0..Len(last)
      BY <1>1
    <3>2. QED
      BY <1>1, <3>1, AboutConcat
  <2>2. About(last, 1, types) = IF x.type \in types THEN {x.item} ELSE {}
    <3>1. 1..1 = {1}
      OBVIOUS
    <3>2. QED
      BY <1>1, <3>1 DEF About
  <2>3. QED
    BY <1>1, <1>2, <2>1, <2>2 DEF AllAbout
<1>4. ASSUME ResponseOrder(w), MayFollow(w, Len(w), x), NEW i \in DOMAIN Append(w, x)
      PROVE  MayFollow(Append(w, x), i - 1, Append(w, x)[i])
  <2>1. i - 1 \in 0..Len(w)
    BY <1>2
  <2>2. MayFollow(w, i - 1, Append(w, x)[i])
    <3>1. CASE i \in DOMAIN w
      BY <1>2, <1>4, <3>1 DEF ResponseOrder
    <3>2. CASE i = Len(w) + 1
      <4>1. i - 1 = Len(w)
        BY <1>2, <3>2
      <4>2. QED
        BY <1>2, <1>4, <3>2, <4>1
    <3>3. QED
      BY <1>2, <3>1, <3>2
  <2>3. QED
    <3>1. MayFollow(w \o last, i - 1, Append(w, x)[i]) <=> MayFollow(w, i - 1, Append(w, x)[i])
      BY <1>1, <2>1, FollowsPrefix
    <3>2. QED
      BY <1>1, <2>2, <3>1
<1>5. QED
  BY <1>2, <1>3, <1>4 DEF ResponseOrder

LEMMA LearnKnows ==
    ASSUME NEW c \in Converter, NEW item \in Items
    PROVE  /\ Learn(c, item).started
           /\ \A k \in Items : Knows(Learn(c, item), k) <=> Knows(c, k) \/ k = item
           /\ (\A i, j \in DOMAIN c.calls : c.calls[i] = c.calls[j] => i = j) =>
                 \A i, j \in DOMAIN Learn(c, item).calls :
                     Learn(c, item).calls[i] = Learn(c, item).calls[j] => i = j
<1>1. CASE Knows(c, item)
  <2>1. Learn(c, item) = [c EXCEPT !.started = TRUE]
    BY <1>1 DEF Learn
  <2>2. /\ Learn(c, item).started /\ Learn(c, item).open = c.open
        /\ Learn(c, item).calls = c.calls
    BY <2>1 DEF Converter
  <2>3. QED
    BY <1>1, <2>2 DEF Knows
<1>2. CASE ~Knows(c, item) /\ item = Message
  <2>1. Learn(c, item) = [c EXCEPT !.started = TRUE, !.open = TRUE]
    BY <1>2 DEF Learn
  <2>2. /\ Learn(c, item).started /\ Learn(c, item).open
        /\ Learn(c, item).calls = c.calls
    BY <2>1 DEF Converter
  <2>3. QED
    BY <1>2, <2>2 DEF Knows
<1>3. CASE ~Knows(c, item) /\ item # Message
  <2>1. item \in Calls /\ c.calls \in Seq(Calls)
    BY <1>3 DEF Items, Converter
  <2>2. Learn(c, item) = [c EXCEPT !.started = TRUE, !.calls = Append(@, item)]
    BY <1>3 DEF Learn
  <2>3. /\ Learn(c, item).started /\ Learn(c, item).open = c.open
        /\ Learn(c, item).calls = Append(c.calls, item)
    BY <2>2 DEF Converter
  <2>4. /\ DOMAIN Append(c.calls, item) = DOMAIN c.calls \cup {Len(c.calls) + 1}
        /\ \A i \in DOMAIN c.calls : Append(c.calls, item)[i] = c.calls[i]
        /\ Append(c.calls, item)[Len(c.calls) + 1] = item
    BY <2>1, Added
  <2>5. \A k \in Items : Knows(Learn(c, item), k) <=> Knows(c, k) \/ k = item
    BY <1>3, <2>3, <2>4 DEF Knows
  <2>6. \A i \in DOMAIN c.calls : c.calls[i] # item
    BY <1>3 DEF Knows
  <2>7. QED
    BY <2>3, <2>4, <2>5, <2>6
<1>4. QED
  BY <1>1, <1>2, <1>3

LEMMA OnlyAdded ==
    ASSUME NEW S, NEW w \in Seq(S), NEW x \in S, NEW condition \in BOOLEAN
    PROVE  w \o Only(condition, x) = IF condition THEN Append(w, x) ELSE w
BY AppendIsConcat DEF Only

(* Every frame of a Chat upstream leaves the events in order, and the      *)
(* converter aware of them.                                                *)
LEMMA ResponseFrame ==
    ASSUME NEW c \in Converter, NEW f \in Frames("chat"), NEW w \in Seq(Wire),
           ResponseOrder(w), Announced(w, c)
    PROVE  /\ ResponseOrder(w \o ChatEvents(c, f))
           /\ Announced(w \o ChatEvents(c, f), ChatPushed(c, f))
<1> DEFINE item == IF Opens(f) THEN ItemOf(f) ELSE NoItem
           begins == (Opens(f) \/ f.type = "begin") /\ ~c.started
           opens == Opens(f) /\ ~Knows(c, item)
           grows == f.type \in {"text", "tool"}
           e1 == Event("response.created", NoItem)
           e2 == Event("item.added", item)
           e3 == Event("delta", item)
           w1 == IF begins THEN Append(w, e1) ELSE w
           w2 == IF opens THEN Append(w1, e2) ELSE w1
           w3 == IF grows THEN Append(w2, e3) ELSE w2
           d == ChatPushed(c, f)
<1>1. /\ Opens(f) => ItemOf(f) \in Items
      /\ f.type \in {"text", "tool"} => Opens(f)
      /\ f.type = "begin" => ~Opens(f)
  BY DEF Frames, ItemOf, Items, Opens
<1>2. /\ e1 \in Wire /\ e1.type = "response.created"
      /\ e2 \in Wire /\ e2.type = "item.added" /\ e2.item = item
      /\ e3 \in Wire /\ e3.type = "delta" /\ e3.item = item
  BY <1>1 DEF Event, Wire, Events
<1>3. ChatEvents(c, f) = (Only(begins, e1) \o Only(opens, e2)) \o Only(grows, e3)
  BY <1>1 DEF ChatEvents, Only
<1> HIDE DEF e1, e2, e3
<1>4. w \o ChatEvents(c, f) = w3
  <2> DEFINE o1 == Only(begins, e1)
             o2 == Only(opens, e2)
             o3 == Only(grows, e3)
  <2>1. begins \in BOOLEAN /\ opens \in BOOLEAN /\ grows \in BOOLEAN
    OBVIOUS
  <2>2. w1 \in Seq(Wire) /\ w2 \in Seq(Wire)
    BY <1>2, OneMore
  <2> HIDE DEF begins, opens, grows
  <2>3. w \o o1 = w1
    BY <1>2, <2>1, OnlyAdded
  <2>4. w1 \o o2 = w2
    <3> HIDE DEF w1
    <3>1. QED
      BY <1>2, <2>1, <2>2, OnlyAdded
  <2>5. w2 \o o3 = w3
    <3> HIDE DEF w2
    <3>1. QED
      BY <1>2, <2>1, <2>2, OnlyAdded
  <2>6. o1 \in Seq(Wire) /\ o2 \in Seq(Wire) /\ o3 \in Seq(Wire)
    BY <1>2, <2>1, OnlyType
  <2>7. ChatEvents(c, f) = (o1 \o o2) \o o3
    BY <1>3
  <2> HIDE DEF o1, o2, o3, w1, w2, w3
  <2>8. w \o ((o1 \o o2) \o o3) = ((w \o o1) \o o2) \o o3
    BY <2>6, SMTT(20)
  <2>9. QED
    BY <2>3, <2>4, <2>5, <2>7, <2>8
<1>5. /\ d.started <=> c.started \/ Opens(f) \/ f.type = "begin"
      /\ \A k \in Items : Knows(d, k) <=> Knows(c, k) \/ (Opens(f) /\ k = item)
      /\ \A i, j \in DOMAIN d.calls : d.calls[i] = d.calls[j] => i = j
  <2>1. CASE Opens(f)
    BY <1>1, <2>1, LearnKnows DEF ChatPushed, Announced
  <2>2. CASE ~Opens(f)
    <3>1. /\ d.started <=> c.started \/ f.type = "begin"
          /\ d.open = c.open /\ d.calls = c.calls
      BY <2>2 DEF ChatPushed, Converter
    <3>2. QED
      BY <2>2, <3>1 DEF Knows, Announced
  <2>3. QED
    BY <2>1, <2>2
<1> HIDE DEF d
<1>6. /\ w1 \in Seq(Wire) /\ ResponseOrder(w1)
      /\ AllAbout(w1, ResponseEnds) = {} /\ AllAbout(w1, {"item.done"}) = {}
      /\ AllAbout(w1, {"response.created"}) # {} <=> c.started \/ begins
      /\ AllAbout(w1, {"item.added"}) = {k \in Items : Knows(c, k)}
  <2>1. begins => MayFollow(w, Len(w), e1)
    BY <1>2 DEF Announced, MayFollow, AllAbout, ItemEvents, ResponseEnds
  <2>2. CASE begins
    <3>1. /\ w1 \in Seq(Wire) /\ ResponseOrder(w1)
          /\ \A types : AllAbout(w1, types) =
                AllAbout(w, types) \cup (IF e1.type \in types THEN {e1.item} ELSE {})
      BY <1>2, <2>1, <2>2, OneMore
    <3> HIDE DEF w1
    <3>2. QED
      BY <1>2, <2>2, <3>1 DEF Announced, ResponseEnds
  <2>3. CASE ~begins
    BY <2>3 DEF Announced
  <2>4. QED
    BY <2>2, <2>3
<1> HIDE DEF w1
<1>7. /\ w2 \in Seq(Wire) /\ ResponseOrder(w2)
      /\ AllAbout(w2, ResponseEnds) = {} /\ AllAbout(w2, {"item.done"}) = {}
      /\ AllAbout(w2, {"response.created"}) # {} <=> c.started \/ begins
      /\ AllAbout(w2, {"item.added"}) = {k \in Items : Knows(c, k) \/ (Opens(f) /\ k = item)}
  <2>1. opens => MayFollow(w1, Len(w1), e2)
    BY <1>1, <1>2, <1>6 DEF MayFollow, AllAbout, ItemEvents, ResponseEnds
  <2>2. CASE opens
    <3>1. /\ w2 \in Seq(Wire) /\ ResponseOrder(w2)
          /\ \A types : AllAbout(w2, types) =
                AllAbout(w1, types) \cup (IF e2.type \in types THEN {e2.item} ELSE {})
      BY <1>2, <1>6, <2>1, <2>2, OneMore
    <3> HIDE DEF w2
    <3>2. QED
      BY <1>1, <1>2, <1>6, <2>2, <3>1 DEF ResponseEnds
  <2>3. CASE ~opens
    BY <1>6, <2>3
  <2>4. QED
    BY <2>2, <2>3
<1> HIDE DEF w2
<1>8. /\ w3 \in Seq(Wire) /\ ResponseOrder(w3)
      /\ AllAbout(w3, ResponseEnds) = {} /\ AllAbout(w3, {"item.done"}) = {}
      /\ AllAbout(w3, {"response.created"}) # {} <=> c.started \/ begins
      /\ AllAbout(w3, {"item.added"}) = {k \in Items : Knows(c, k) \/ (Opens(f) /\ k = item)}
  <2>1. grows => MayFollow(w2, Len(w2), e3)
    BY <1>1, <1>2, <1>7 DEF MayFollow, AllAbout, ItemEvents, ResponseEnds
  <2>2. CASE grows
    <3>1. /\ w3 \in Seq(Wire) /\ ResponseOrder(w3)
          /\ \A types : AllAbout(w3, types) =
                AllAbout(w2, types) \cup (IF e3.type \in types THEN {e3.item} ELSE {})
      BY <1>2, <1>7, <2>1, <2>2, OneMore
    <3> HIDE DEF w3
    <3>2. /\ AllAbout(w3, ResponseEnds) = AllAbout(w2, ResponseEnds)
          /\ AllAbout(w3, {"item.done"}) = AllAbout(w2, {"item.done"})
          /\ AllAbout(w3, {"response.created"}) = AllAbout(w2, {"response.created"})
          /\ AllAbout(w3, {"item.added"}) = AllAbout(w2, {"item.added"})
      BY <1>2, <3>1, ZenonT(30) DEF ResponseEnds
    <3>3. QED
      BY <1>7, <3>1, <3>2
  <2>3. CASE ~grows
    BY <1>7, <2>3
  <2>4. QED
    BY <2>2, <2>3
<1> HIDE DEF w3
<1>9. Announced(w3, d)
  <2>1. AllAbout(w3, {"item.added"}) = {k \in Items : Knows(d, k)}
    BY <1>5, <1>8
  <2>2. \A k \in Items : Knows(d, k) => d.started
    BY <1>5 DEF Announced
  <2>3. d.started <=> AllAbout(w3, {"response.created"}) # {}
    BY <1>5, <1>8
  <2>4. QED
    BY <1>5, <1>8, <2>1, <2>2, <2>3 DEF Announced
<1>10. QED
  BY <1>4, <1>8, <1>9 DEF d

\* The items that a converter knows, in the order in which it closes them.
Known(c) == (IF c.open THEN <<Message>> ELSE <<>>) \o c.calls

LEMMA KnownItems ==
    ASSUME NEW c \in Converter
    PROVE  /\ Known(c) \in Seq(Items)
           /\ \A k \in Items : Knows(c, k) <=> \E j \in 1..Len(Known(c)) : Known(c)[j] = k
           /\ (\A i, j \in DOMAIN c.calls : c.calls[i] = c.calls[j] => i = j) =>
                 \A i, j \in 1..Len(Known(c)) : Known(c)[i] = Known(c)[j] => i = j
<1>1. /\ c.calls \in Seq(Calls) /\ c.calls \in Seq(Items)
      /\ Len(c.calls) \in Nat /\ DOMAIN c.calls = 1..Len(c.calls)
      /\ \A i \in DOMAIN c.calls : c.calls[i] \in Calls /\ c.calls[i] # Message
      /\ Message \in Items /\ \A k \in Items : k = Message \/ k \in Calls
  BY ConverterAssumption DEF Converter, Items
<1>2. CASE ~c.open
  <2>1. Known(c) = c.calls
    BY <1>1, <1>2 DEF Known
  <2>2. \A k \in Items : Knows(c, k) <=> \E i \in DOMAIN c.calls : c.calls[i] = k
    BY <1>1, <1>2 DEF Knows
  <2>3. QED
    BY <1>1, <2>1, <2>2
<1>3. CASE c.open
  <2> DEFINE named == c.calls
             known == <<Message>> \o named
  <2>1. /\ known \in Seq(Items) /\ Len(known) = Len(named) + 1 /\ known[1] = Message
        /\ \A i \in DOMAIN named : known[i + 1] = named[i]
    <3>1. named \in Seq(Items) /\ Message \in Items
      BY <1>1
    <3> HIDE DEF named
    <3>2. QED
      BY <3>1
  <2>2. \A j \in 1..Len(known) : j = 1 \/ (j - 1 \in DOMAIN named /\ known[j] = named[j - 1])
    <3> SUFFICES ASSUME NEW j \in 1..Len(known), j # 1
                 PROVE  j - 1 \in DOMAIN named /\ known[j] = named[j - 1]
      OBVIOUS
    <3>1. j - 1 \in DOMAIN named /\ (j - 1) + 1 = j
      BY <1>1, <2>1
    <3>2. known[(j - 1) + 1] = named[j - 1]
      BY <2>1, <3>1
    <3>3. QED
      BY <3>1, <3>2
  <2>3. Known(c) = known
    BY <1>3 DEF Known
  <2> HIDE DEF known
  <2>4. \A k \in Items : Knows(c, k) <=> \E j \in 1..Len(known) : known[j] = k
    <3>1. ASSUME NEW k \in Items, Knows(c, k) PROVE \E j \in 1..Len(known) : known[j] = k
      <4>1. CASE k = Message
        <5>1. 1 \in 1..Len(known)
          BY <1>1, <2>1
        <5>2. QED
          BY <2>1, <4>1, <5>1
      <4>2. CASE k # Message
        <5>1. PICK i \in DOMAIN named : named[i] = k
          BY <3>1, <4>2 DEF Knows
        <5>2. i + 1 \in 1..Len(known) /\ known[i + 1] = k
          BY <1>1, <2>1, <5>1
        <5>3. QED
          BY <5>2
      <4>3. QED
        BY <4>1, <4>2
    <3>2. ASSUME NEW j \in 1..Len(known) PROVE Knows(c, known[j])
      <4>1. CASE j = 1
        BY <1>3, <2>1, <4>1 DEF Knows
      <4>2. CASE j # 1
        <5>1. j - 1 \in DOMAIN named /\ known[j] = named[j - 1]
          BY <2>2, <4>2
        <5>2. QED
          BY <1>1, <5>1 DEF Knows
      <4>3. QED
        BY <4>1, <4>2
    <3>3. QED
      BY <3>1, <3>2
  <2>5. ASSUME \A i, j \in DOMAIN named : named[i] = named[j] => i = j,
               NEW i \in 1..Len(known), NEW j \in 1..Len(known), known[i] = known[j]
        PROVE  i = j
    <3>1. \A m \in 1..Len(known) : m # 1 => known[m] # Message
      BY <1>1, <2>2
    <3>2. CASE i = 1 \/ j = 1
      BY <2>1, <2>5, <3>1, <3>2
    <3>3. CASE i # 1 /\ j # 1
      <4>1. i - 1 = j - 1
        BY <2>2, <2>5, <3>3
      <4>2. QED
        BY <1>1, <2>1, <4>1
    <3>4. QED
      BY <3>2, <3>3
  <2>6. QED
    BY <2>1, <2>3, <2>4, <2>5
<1>4. QED
  BY <1>2, <1>3

LEMMA ClosingEvents ==
    ASSUME NEW c \in Converter
    PROVE  /\ ChatFinish(c) \in Seq(Wire)
           /\ Len(ChatFinish(c)) = Len(Known(c)) + 1
           /\ \A j \in 1..Len(Known(c)) : ChatFinish(c)[j] = Event("item.done", Known(c)[j])
           /\ ChatFinish(c)[Len(Known(c)) + 1].type \in ResponseEnds
<1> DEFINE close(k) == Event("item.done", k)
           first == IF c.open THEN <<Message>> ELSE <<>>
           e1 == Only(c.open, close(Message))
           e2 == [i \in DOMAIN c.calls |-> close(c.calls[i])]
           end == Event(IF c.reason = "length" THEN "response.incomplete"
                        ELSE "response.completed", NoItem)
<1>1. /\ close(Message) \in Wire /\ end \in Wire /\ end.type \in ResponseEnds
      /\ \A k \in Calls : close(k) \in Wire
  BY DEF Event, Wire, Events, Items, ResponseEnds
<1>2. /\ c.calls \in Seq(Calls) /\ Len(c.calls) \in Nat /\ DOMAIN c.calls = 1..Len(c.calls)
      /\ \A i \in DOMAIN c.calls : c.calls[i] \in Calls
  BY DEF Converter
<1>3. /\ e2 \in Seq(Wire) /\ Len(e2) = Len(c.calls)
      /\ \A i \in 1..Len(c.calls) : e2[i] = close(c.calls[i])
  <2>1. e2 \in [1..Len(c.calls) -> Wire]
    BY <1>1, <1>2
  <2>2. QED
    BY <1>2, <2>1
<1>4. ChatFinish(c) = (e1 \o e2) \o <<end>> /\ Known(c) = first \o c.calls
  BY DEF ChatFinish, Known
<1>5. /\ e1 \in Seq(Wire) /\ first \in Seq(Items) /\ c.calls \in Seq(Items)
      /\ Len(e1) = Len(first) /\ Len(first) \in Nat
      /\ \A i \in 1..Len(first) : e1[i] = close(first[i])
  BY <1>1, <1>2 DEF Only, Items
<1> HIDE DEF close, first, e1, e2, end
<1>6. /\ e1 \o e2 \in Seq(Wire) /\ Len(e1 \o e2) = Len(first) + Len(c.calls)
      /\ \A i \in 1..Len(first) : (e1 \o e2)[i] = e1[i]
      /\ \A i \in 1..Len(c.calls) : (e1 \o e2)[Len(first) + i] = e2[i]
  <2>1. /\ e1 \o e2 \in Seq(Wire) /\ Len(e1 \o e2) = Len(e1) + Len(e2)
        /\ \A i \in 1..Len(e1) : (e1 \o e2)[i] = e1[i]
        /\ \A i \in 1..Len(e2) : (e1 \o e2)[Len(e1) + i] = e2[i]
    <3>1. e1 \in Seq(Wire) /\ e2 \in Seq(Wire)
      BY <1>3, <1>5
    <3>2. QED
      BY <3>1
  <2>2. QED
    BY <1>3, <1>5, <2>1
<1>7. /\ Len(Known(c)) = Len(first) + Len(c.calls)
      /\ \A i \in 1..Len(first) : Known(c)[i] = first[i]
      /\ \A i \in 1..Len(c.calls) : Known(c)[Len(first) + i] = c.calls[i]
  <2>1. /\ Len(first \o c.calls) = Len(first) + Len(c.calls)
        /\ \A i \in 1..Len(first) : (first \o c.calls)[i] = first[i]
        /\ \A i \in 1..Len(c.calls) : (first \o c.calls)[Len(first) + i] = c.calls[i]
    BY <1>2, <1>5
  <2>2. QED
    BY <1>4, <2>1
<1>8. \A j \in 1..Len(Known(c)) : (e1 \o e2)[j] = close(Known(c)[j])
  <2> SUFFICES ASSUME NEW j \in 1..Len(Known(c)) PROVE (e1 \o e2)[j] = close(Known(c)[j])
    OBVIOUS
  <2>1. CASE j \in 1..Len(first)
    BY <1>5, <1>6, <1>7, <2>1
  <2>2. CASE j \notin 1..Len(first)
    <3> DEFINE i == j - Len(first)
    <3>1. i \in 1..Len(c.calls) /\ Len(first) + i = j
      BY <1>2, <1>5, <1>7, <2>2
    <3> HIDE DEF i
    <3>2. (e1 \o e2)[Len(first) + i] = close(c.calls[i]) /\ Known(c)[Len(first) + i] = c.calls[i]
      BY <1>3, <1>6, <1>7, <3>1
    <3>3. QED
      BY <3>1, <3>2
  <2>3. QED
    BY <2>1, <2>2
<1>9. /\ ChatFinish(c) \in Seq(Wire) /\ Len(ChatFinish(c)) = Len(Known(c)) + 1
      /\ \A j \in 1..Len(Known(c)) : ChatFinish(c)[j] = (e1 \o e2)[j]
      /\ ChatFinish(c)[Len(Known(c)) + 1] = end
  <2> DEFINE w == e1 \o e2
  <2>1. w \in Seq(Wire) /\ Len(w) = Len(Known(c))
    BY <1>6, <1>7
  <2>2. ChatFinish(c) = Append(w, end)
    BY <1>1, <1>4, <2>1, AppendIsConcat
  <2> HIDE DEF w
  <2>3. /\ ChatFinish(c) \in Seq(Wire) /\ Len(ChatFinish(c)) = Len(w) + 1
        /\ \A j \in 1..Len(w) : ChatFinish(c)[j] = w[j]
        /\ ChatFinish(c)[Len(w) + 1] = end
    BY <1>1, <2>1, <2>2, AppendProperties
  <2>4. QED
    BY <2>1, <2>3 DEF w
<1>10. QED
  BY <1>1, <1>8, <1>9 DEF close

LEMMA Beyond ==
    ASSUME NEW a \in Nat, NEW b \in Nat, NEW i \in 1..(a + (b + 1)), i \notin 1..a
    PROVE  /\ i - a \in 1..(b + 1) /\ a + (i - a) = i /\ a + ((i - a) - 1) = i - 1
           /\ i - a \in 1..b \/ (i - a = b + 1 /\ (i - a) - 1 = b)
OBVIOUS

(* A converter that finishes closes every item it announced, and the       *)
(* answer last.                                                            *)
LEMMA ResponseCloses ==
    ASSUME NEW c \in Converter, NEW w \in Seq(Wire), ResponseOrder(w), Announced(w, c)
    PROVE  ResponseOrder(w \o ChatFinish(c))
<1> DEFINE fin == ChatFinish(c)
           known == Known(c)
           v == w \o fin
<1>1. /\ known \in Seq(Items) /\ Len(known) \in Nat
      /\ \A j \in 1..Len(known) : known[j] \in Items
      /\ \A k \in Items : Knows(c, k) <=> \E j \in 1..Len(known) : known[j] = k
      /\ \A i, j \in 1..Len(known) : known[i] = known[j] => i = j
  BY KnownItems DEF Announced
<1>2. /\ fin \in Seq(Wire) /\ Len(fin) = Len(known) + 1
      /\ \A j \in 1..Len(known) : fin[j].type = "item.done" /\ fin[j].item = known[j]
      /\ fin[Len(known) + 1].type \in ResponseEnds
  <2>1. \A k : Event("item.done", k).type = "item.done" /\ Event("item.done", k).item = k
    BY DEF Event
  <2>2. QED
    BY <2>1, ClosingEvents
<1> HIDE DEF fin, known
<1>3. /\ Len(w) \in Nat /\ DOMAIN v = 1..(Len(w) + Len(fin))
      /\ \A i \in 1..Len(w) : v[i] = w[i]
      /\ \A j \in 1..Len(fin) : v[Len(w) + j] = fin[j]
  BY <1>2
<1>4. ASSUME NEW n \in 0..Len(fin), NEW types
      PROVE  About(v, Len(w) + n, types) = AllAbout(w, types) \cup About(fin, n, types)
  BY <1>2, AboutConcat
<1>5. ASSUME NEW n \in 0..Len(known)
      PROVE  /\ About(fin, n, ResponseEnds) = {}
             /\ About(fin, n, {"item.added"}) = {}
             /\ About(fin, n, {"item.done"}) = {known[j] : j \in 1..n}
  <2>1. \A j \in 1..n : j \in 1..Len(known)
    BY <1>1
  <2>2. \A j \in 1..n : fin[j].type = "item.done" /\ fin[j].item = known[j]
    BY <1>2, <2>1
  <2>3. QED
    BY <2>2 DEF About, ResponseEnds
<1> HIDE DEF v
<1>6. ASSUME NEW i \in 1..Len(w) PROVE MayFollow(v, i - 1, v[i])
  <2>1. MayFollow(w, i - 1, w[i]) /\ i - 1 \in 0..Len(w)
    BY <1>3, <1>6 DEF ResponseOrder
  <2>2. QED
    BY <1>2, <1>3, <2>1, FollowsPrefix DEF v
<1>7. ASSUME NEW j \in 1..Len(known) PROVE MayFollow(v, Len(w) + (j - 1), fin[j])
  <2>1. /\ j - 1 \in 0..Len(known) /\ j - 1 \in 0..Len(fin)
        /\ fin[j].type = "item.done" /\ fin[j].item = known[j] /\ known[j] \in Items
    BY <1>1, <1>2
  <2>2. /\ About(v, Len(w) + (j - 1), ResponseEnds) = {}
        /\ AllAbout(w, {"response.created"}) \subseteq About(v, Len(w) + (j - 1), {"response.created"})
        /\ About(v, Len(w) + (j - 1), {"item.added"}) = {k \in Items : Knows(c, k)}
        /\ About(v, Len(w) + (j - 1), {"item.done"}) = {known[i] : i \in 1..(j - 1)}
    <3>1. \A types : About(v, Len(w) + (j - 1), types)
                        = AllAbout(w, types) \cup About(fin, j - 1, types)
      BY <1>4, <2>1
    <3>2. /\ About(fin, j - 1, ResponseEnds) = {} /\ About(fin, j - 1, {"item.added"}) = {}
          /\ About(fin, j - 1, {"item.done"}) = {known[i] : i \in 1..(j - 1)}
      BY <1>5, <2>1
    <3>3. /\ AllAbout(w, ResponseEnds) = {} /\ AllAbout(w, {"item.done"}) = {}
          /\ AllAbout(w, {"item.added"}) = {k \in Items : Knows(c, k)}
      BY DEF Announced
    <3>4. QED
      BY <3>1, <3>2, <3>3
  <2>3. Knows(c, known[j]) /\ AllAbout(w, {"response.created"}) # {}
    BY <1>1 DEF Announced
  <2>4. known[j] \notin {known[i] : i \in 1..(j - 1)}
    <3>1. \A i \in 1..(j - 1) : i \in 1..Len(known) /\ i # j
      BY <1>1
    <3>2. QED
      BY <1>1, <3>1
  <2>5. QED
    BY <2>1, <2>2, <2>3, <2>4 DEF MayFollow, ItemEvents, ResponseEnds
<1>8. MayFollow(v, Len(w) + Len(known), fin[Len(known) + 1])
  <2>1. Len(known) \in 0..Len(known) /\ Len(known) \in 0..Len(fin)
    BY <1>1, <1>2
  <2>2. /\ About(v, Len(w) + Len(known), ResponseEnds) = {}
        /\ About(v, Len(w) + Len(known), {"item.added"}) = {k \in Items : Knows(c, k)}
        /\ About(v, Len(w) + Len(known), {"item.done"}) = {known[i] : i \in 1..Len(known)}
    BY <1>4, <1>5, <2>1 DEF Announced
  <2>3. {k \in Items : Knows(c, k)} = {known[i] : i \in 1..Len(known)}
    BY <1>1
  <2>4. QED
    BY <1>2, <2>2, <2>3 DEF MayFollow, ItemEvents, ResponseEnds
<1>9. ASSUME NEW i \in DOMAIN v PROVE MayFollow(v, i - 1, v[i])
  <2>1. CASE i \in 1..Len(w)
    BY <1>6, <2>1
  <2>2. CASE i \notin 1..Len(w)
    <3> DEFINE j == i - Len(w)
    <3>1. /\ j \in 1..Len(fin) /\ Len(w) + j = i /\ Len(w) + (j - 1) = i - 1
          /\ j \in 1..Len(known) \/ (j = Len(known) + 1 /\ j - 1 = Len(known))
      <4>1. i \in 1..(Len(w) + (Len(known) + 1))
        BY <1>2, <1>3
      <4>2. QED
        <5>1. Len(w) \in Nat /\ Len(known) \in Nat /\ Len(fin) = Len(known) + 1
          BY <1>1, <1>2, <1>3
        <5>2. QED
          BY <2>2, <4>1, <5>1, Beyond
    <3> HIDE DEF j
    <3>2. v[i] = fin[j]
      BY <1>3, <3>1
    <3>3. QED
      BY <1>7, <1>8, <3>1, <3>2
  <2>3. QED
    BY <2>1, <2>2
<1>10. QED
  BY <1>9 DEF ResponseOrder, v, fin

Silent(w) == \A i \in DOMAIN w : w[i].type \notin ResponseTypes

\* What a Responses client is told is in order, and until the relay finishes
\* the converter remembers it; no other client is told anything of the kind.
ResponseInv ==
    Relaying =>
        IF Converts /\ request.from = "responses"
        THEN /\ ResponseOrder(Spoken)
             /\ pc = "stream" /\ ~relay.canceled => Announced(Spoken, relay.conv)
        ELSE Silent(relay.out)

LEMMA SilentAppend ==
    ASSUME NEW S, NEW w \in Seq(S), NEW x \in S, Silent(w), x.type \notin ResponseTypes
    PROVE  Silent(Append(w, x))
<1>1. /\ DOMAIN Append(w, x) = DOMAIN w \cup {Len(w) + 1}
      /\ \A i \in DOMAIN w : Append(w, x)[i] = w[i]
      /\ Append(w, x)[Len(w) + 1] = x
  BY Added
<1>2. QED
  BY <1>1 DEF Silent

LEMMA ChatIsSilent ==
    ASSUME NEW c \in Converter, NEW f \in Frames("responses")
    PROVE  Silent(ResponsesEvents(c, f))
<1> DEFINE e == ResponsesEvents(c, f)
           role == f.type = "created" \/ (f.type \in Begins /\ ~c.started)
           opened == IF role THEN Append(<<>>, Event("role", NoItem)) ELSE <<>>
<1>1. CASE c.done \/ (f.type = "added" /\ Knows(c, f.item))
  BY <1>1 DEF ResponsesEvents, Silent
<1>2. CASE ~c.done /\ ~(f.type = "added" /\ Knows(c, f.item))
  <2>1. <<>> \o e = e /\ <<>> \in Seq(Wire)
    BY ResponsesEventsType
  <2>2. f.item \in Items \cup {NoItem}
    BY DEF Frames, Items
  <2>3. \A item \in Items \cup {NoItem} :
            \A type \in {"role", "content", "tool.header", "tool.arguments", "finish", "error"} :
                Event(type, item) \in Wire /\ Event(type, item).type \notin ResponseTypes
    BY DEF Event, Wire, Events, ResponseTypes, ItemEvents, ResponseEnds
  <2>4. Silent(<<>>)
    BY DEF Silent
  <2>5. opened \in Seq(Wire) /\ Silent(opened)
    BY <2>1, <2>3, <2>4, SilentAppend, AppendType
  <2>6. <<>> \o e = IF f.type = "text" THEN Append(opened, Event("content", NoItem))
            ELSE IF f.type = "added" THEN Append(opened, Event("tool.header", f.item))
            ELSE IF f.type = "args" THEN Append(opened, Event("tool.arguments", f.item))
            ELSE IF f.type \in {"completed", "cut"} THEN Append(opened, Event("finish", NoItem))
            ELSE IF f.type \in {"unknown", "failed"} THEN Append(opened, Event("error", NoItem))
            ELSE opened
    BY <1>2, <2>1, ResponsesSays
  <2> HIDE DEF e, opened
  <2>7. \A item \in Items \cup {NoItem} :
            \A type \in {"role", "content", "tool.header", "tool.arguments", "finish", "error"} :
                Silent(Append(opened, Event(type, item)))
    BY <2>3, <2>5, SilentAppend
  <2>8. QED
    BY <2>1, <2>2, <2>5, <2>6, <2>7 DEF e
<1>3. QED
  BY <1>1, <1>2

LEMMA FrameIsSilent == ASSUME NEW f \in Frame PROVE Silent(<<f>>)
BY DEF Silent, Frame, ResponseTypes, ItemEvents, ResponseEnds

LEMMA FinishIsSilent ==
    ASSUME NEW c
    PROVE  Silent(ResponsesFinish(c) \o <<Event("[DONE]", NoItem)>>)
<1> DEFINE finish == Event("finish", NoItem)
           done == Event("[DONE]", NoItem)
<1>1. /\ finish \in Wire /\ done \in Wire
      /\ finish.type \notin ResponseTypes /\ done.type \notin ResponseTypes
  BY DEF Event, Wire, Events, ResponseTypes, ItemEvents, ResponseEnds
<1> HIDE DEF finish, done
<1>2. ResponsesFinish(c) = <<>> \/ ResponsesFinish(c) = <<finish>>
  BY DEF ResponsesFinish, Only, finish
<1>3. Silent(<<>> \o <<done>>) /\ Silent(<<finish>> \o <<done>>)
  BY <1>1 DEF Silent
<1>4. QED
  BY <1>2, <1>3 DEF done

LEMMA TailIsSilent ==
    ASSUME NEW S, NEW w \in Seq(S), w # <<>>, Silent(w)
    PROVE  Silent(Tail(w))
<1>1. \A i \in DOMAIN Tail(w) : i + 1 \in DOMAIN w /\ Tail(w)[i] = w[i + 1]
  OBVIOUS
<1>2. QED
  BY <1>1 DEF Silent

LEMMA ResponseInvStep == IInv /\ IInv' /\ RelayInv /\ ResponseInv /\ [Next]_vars => ResponseInv'
<1> SUFFICES ASSUME IInv, IInv', RelayInv, ResponseInv, [Next]_vars, Relaying'
             PROVE  IF Converts' /\ request'.from = "responses"
                    THEN /\ ResponseOrder(Spoken')
                         /\ pc' = "stream" /\ ~relay'.canceled => Announced(Spoken', relay'.conv)
                    ELSE Silent(relay'.out)
  BY DEF ResponseInv
<1>1. relay \in Relays
  BY DEF IInv, TypeInv
<1>2. CASE relay' = NewRelay /\ pc' = "stream" /\ sent' = <<>>
  <2>1. Spoken' = <<>> /\ relay'.out = <<>> /\ relay'.conv = NewConverter
    BY <1>2 DEF Spoken, NewRelay
  <2>2. ResponseOrder(<<>>) /\ Silent(<<>>)
    BY DEF ResponseOrder, Silent
  <2>3. Announced(<<>>, NewConverter)
    BY DEF Announced, AllAbout, About, NewConverter, Knows
  <2>4. QED
    BY <2>1, <2>2, <2>3
<1>3. CASE UNCHANGED <<pc, request, route, calls, relay, sent>>
  BY <1>3 DEF ResponseInv, Relaying, Converts, Spoken
<1> DEFINE Converted == Converts /\ request.from = "responses"
           Now ==
        /\ Relaying /\ calls # <<>> /\ sent \in Seq(Wire)
        /\ IF Converted
           THEN /\ ResponseOrder(Spoken)
                /\ pc = "stream" /\ ~relay.canceled => Announced(Spoken, relay.conv)
           ELSE Silent(relay.out)
<1>4. Relaying /\ UNCHANGED <<request, route>> =>
          Now /\ (Converted <=> Converts' /\ request'.from = "responses")
  BY DEF ResponseInv, RelayInv, Converts
<1>5. CASE LogStream
  <2>1. /\ pc = "finish" /\ pc' = "done" /\ UNCHANGED <<request, route, sent, relay>>
    BY <1>5 DEF LogStream
  <2>2. Relaying /\ Spoken' = Spoken
    BY <2>1 DEF IInv, StreamInv, Relaying, Spoken
  <2>3. QED
    BY <1>4, <2>1, <2>2
<1>6. CASE ReadEnds \/ ReadFails
  <2>1. /\ pc = "stream" /\ UNCHANGED <<pc, request, route, sent>>
        /\ relay'.conv = relay.conv
        /\ relay'.canceled = relay.canceled /\ relay'.out = relay.out
    BY <1>1, <1>6 DEF ReadEnds, ReadFails, Reading, Relays
  <2>2. Relaying /\ Spoken' = Spoken
    BY <2>1 DEF Relaying, Spoken
  <2>3. QED
    BY <1>4, <2>1, <2>2
<1>7. CASE Emit
  <2>1. Relaying /\ sent \in Seq(Wire) /\ UNCHANGED <<request, route>>
    BY <1>7 DEF Emit, Writing, IInv, StreamInv, Relaying, RelayInv
  <2>2. /\ Spoken' = Spoken /\ pc' = pc /\ relay'.conv = relay.conv
        /\ relay'.canceled = relay.canceled
        /\ relay.out \in Seq(Wire) /\ relay.out # <<>>
    BY <1>1, <1>7, <2>1, EmitTells
  <2>3. relay'.out = Tail(relay.out)
    BY <1>1, <1>7 DEF Emit, Relays
  <2>4. Silent(relay.out) => Silent(relay'.out)
    BY <2>2, <2>3, TailIsSilent
  <2>5. QED
    BY <1>4, <2>1, <2>2, <2>4
<1>8. CASE EmitFails
  <2>1. Relaying /\ sent \in Seq(Wire) /\ UNCHANGED <<request, route>>
    BY <1>8 DEF EmitFails, Writing, IInv, StreamInv, Relaying, RelayInv
  <2>2. Spoken' = sent /\ relay'.canceled /\ relay'.out = <<>>
    BY <1>1, <1>8, <2>1, EmitFailsTells DEF EmitFails, Relays
  <2>3. ResponseOrder(Spoken) => ResponseOrder(sent)
    <3>1. relay.out \in Seq(Wire)
      BY <1>1 DEF Relays
    <3>2. QED
      BY <2>1, <3>1, OrderPrefix DEF Spoken
  <2>4. Silent(<<>>)
    BY DEF Silent
  <2>5. QED
    BY <1>4, <2>1, <2>2, <2>3, <2>4
<1>9. CASE Conclude
  <2>1. /\ pc = "stream" /\ relay.out = <<>> /\ pc' = "finish"
        /\ UNCHANGED <<request, route, calls, sent>>
    BY <1>9 DEF Conclude
  <2>2. /\ Now /\ (Converted <=> Converts' /\ request'.from = "responses")
        /\ Spoken = sent
    BY <1>4, <2>1, EmptySpoken DEF Relaying, RelayInv
  <2> DEFINE failed == relay.failed \/ relay.canceled \/ client = "gone" \/ ~relay.terminal
  <2>3. relay'.out = IF failed \/ ~Converts THEN <<>>
                     ELSE Finish(request.from, relay.conv)
                          \o Only(request.from = "chat", Event("[DONE]", NoItem))
    BY <1>1, <1>9 DEF Conclude, Relays
  <2>4. CASE failed \/ ~Converts
    <3>1. Spoken' = sent /\ relay'.out = <<>>
      BY <2>1, <2>2, <2>3, <2>4 DEF Spoken
    <3>2. Silent(<<>>)
      BY DEF Silent
    <3>3. QED
      BY <2>1, <2>2, <3>1, <3>2
  <2>5. CASE ~failed /\ Converts /\ request.from = "responses"
    <3>1. relay.conv \in Converter
      BY <1>1 DEF Relays
    <3>2. ChatFinish(relay.conv) \in Seq(Wire)
      BY <3>1, ClosingEvents
    <3>3. relay'.out = ChatFinish(relay.conv)
      <4>1. relay'.out = ChatFinish(relay.conv) \o <<>>
        BY <2>3, <2>5 DEF Finish, Only
      <4>2. QED
        BY <3>2, <4>1
    <3>4. ResponseOrder(sent \o ChatFinish(relay.conv))
      BY <2>1, <2>2, <2>5, <3>1, ResponseCloses
    <3>5. QED
      BY <2>1, <2>2, <2>5, <3>3, <3>4 DEF Spoken
  <2>6. CASE ~failed /\ Converts /\ request.from = "chat"
    <3>1. relay'.out = ResponsesFinish(relay.conv) \o <<Event("[DONE]", NoItem)>>
      BY <2>3, <2>6 DEF Finish, Only
    <3>2. QED
      BY <2>2, <2>6, <3>1, FinishIsSilent
  <2>7. QED
    BY <2>2, <2>4, <2>5, <2>6, Converting DEF IInv, RelayInv
<1>10. ASSUME NEW f \in Incoming, ReadFrame(f)
       PROVE  IF Converts' /\ request'.from = "responses"
              THEN ResponseOrder(Spoken') /\ Announced(Spoken', relay'.conv)
              ELSE Silent(relay'.out)
  <2>1. /\ pc = "stream" /\ relay.out = <<>> /\ ~relay.over
        /\ f \in Frames(route.format)
        /\ UNCHANGED <<pc, request, route, calls, sent>>
    BY <1>10 DEF ReadFrame, Reading, Incoming
  <2>2. /\ Now /\ (Converted <=> Converts' /\ request'.from = "responses")
        /\ Spoken = sent /\ ~relay.canceled
    BY <1>4, <2>1, EmptySpoken DEF Relaying, RelayInv
  <2>3. /\ relay'.out = IF Converts THEN EventsOf(request.from, relay.conv, f) ELSE <<f>>
        /\ relay'.conv = IF Converts THEN Pushed(request.from, relay.conv, f) ELSE relay.conv
        /\ relay.conv \in Converter
    BY <1>1, <1>10 DEF ReadFrame, Relays
  <2>4. CASE ~Converts
    BY <2>1, <2>2, <2>3, <2>4, FramesType, FrameIsSilent
  <2>5. CASE Converts /\ request.from = "responses" /\ route.format = "chat"
    <3>1. relay'.out = ChatEvents(relay.conv, f) /\ relay'.conv = ChatPushed(relay.conv, f)
      BY <2>3, <2>5 DEF EventsOf, Pushed
    <3>2. Spoken' = sent \o ChatEvents(relay.conv, f)
      BY <2>1, <3>1 DEF Spoken
    <3>3. QED
      BY <2>1, <2>2, <2>3, <2>5, <3>1, <3>2, ResponseFrame
  <2>6. CASE Converts /\ request.from = "chat" /\ route.format = "responses"
    <3>1. relay'.out = ResponsesEvents(relay.conv, f)
      BY <2>3, <2>6 DEF EventsOf
    <3>2. QED
      BY <2>1, <2>2, <2>3, <2>6, <3>1, ChatIsSilent
  <2>7. QED
    BY <2>2, <2>4, <2>5, <2>6, Converting DEF IInv, RelayInv
<1>11. CASE relay' = NewRelay /\ pc' # "stream"
  BY <1>11 DEF Relaying, NewRelay
<1>12. QED
  BY <1>2, <1>3, <1>5, <1>6, <1>7, <1>8, <1>9, <1>10, <1>11, RelaySteps

-----------------------------------------------------------------------------
(* A Responses client hears an EventStream                                 *)

At(w, types) == {i \in DOMAIN w : w[i].type \in types}
Growth(w, k) == Cardinality({i \in At(w, {"delta"}) : w[i].item = k})

LEMMA AppendAt ==
    ASSUME NEW S, NEW w \in Seq(S), NEW x \in S
    PROVE  /\ \A types : At(w, types) = {} <=> AllAbout(w, types) = {}
           /\ \A k : Growth(Append(w, x), k) =
                  IF x.type = "delta" /\ x.item = k THEN Growth(w, k) + 1 ELSE Growth(w, k)
           /\ \A k : Growth(w, k) \in Nat
<1> DEFINE v == Append(w, x)
           n == Len(w) + 1
           grown(u, k) == {i \in At(u, {"delta"}) : u[i].item = k}
<1>1. /\ DOMAIN v = DOMAIN w \cup {n} /\ DOMAIN w = 1..Len(w) /\ Len(w) \in Nat
      /\ \A i \in DOMAIN w : v[i] = w[i]
      /\ v[n] = x
  BY Added
<1>2. \A types : At(w, types) = {} <=> AllAbout(w, types) = {}
  BY <1>1 DEF At, AllAbout, About
<1> HIDE DEF v
<1>3. n \notin DOMAIN w
  BY <1>1
<1>4. ASSUME NEW k
      PROVE  /\ grown(v, k) = IF x.type = "delta" /\ x.item = k THEN grown(w, k) \cup {n}
                              ELSE grown(w, k)
             /\ IsFiniteSet(grown(w, k)) /\ n \notin grown(w, k)
  <2>1. grown(v, k) = IF x.type = "delta" /\ x.item = k THEN grown(w, k) \cup {n}
                      ELSE grown(w, k)
    BY <1>1, <1>3 DEF At
  <2>2. grown(w, k) \subseteq 1..Len(w)
    BY <1>1 DEF At
  <2>3. IsFiniteSet(1..Len(w))
    BY <1>1, FS_Interval
  <2>4. QED
    BY <1>1, <1>3, <2>1, <2>2, <2>3, FS_Subset
<1> HIDE DEF n, grown
<1>5. ASSUME NEW k
      PROVE  Cardinality(grown(v, k)) = IF x.type = "delta" /\ x.item = k
                                        THEN Cardinality(grown(w, k)) + 1
                                        ELSE Cardinality(grown(w, k))
  BY <1>4, FS_AddElement
<1>6. \A k : Cardinality(grown(w, k)) \in Nat
  BY <1>4, FS_CardinalityType
<1>7. QED
  BY <1>2, <1>5, <1>6 DEF Growth, grown, v

\* The state of the EventStream after the events w.
Phase(w) == IF At(w, ResponseEnds) # {} THEN "ended"
            ELSE IF At(w, {"response.created"}) # {} THEN "created" ELSE "fresh"
Deltas(w) == [k \in Items |-> Growth(w, k)]

\* The same, as the refinement maps it.
MappedPhase == IF Sent({"response.completed", "response.incomplete"}) # {} THEN "ended"
               ELSE IF Sent({"response.created"}) # {} THEN "created" ELSE "fresh"
MappedDeltas == [k \in Items |-> Cardinality({i \in Sent({"delta"}) : sent[i].item = k})]

LEMMA Mapped ==
    ASSUME sent \in Seq(Wire \cup Replying)
    PROVE  /\ MappedPhase = Phase(sent) /\ MappedDeltas = Deltas(sent)
           /\ Told("item.added") = AllAbout(sent, {"item.added"})
           /\ Told("item.done") = AllAbout(sent, {"item.done"})
<1>1. DOMAIN sent = 1..Len(sent)
  OBVIOUS
<1>2. \A types : Sent(types) = At(sent, types)
  BY DEF Sent, At
<1>3. MappedPhase = Phase(sent)
  BY <1>2 DEF MappedPhase, Phase, ResponseEnds
<1>4. MappedDeltas = Deltas(sent)
  BY <1>2 DEF MappedDeltas, Deltas, Growth
<1>5. \A type : Told(type) = AllAbout(sent, {type})
  BY <1>1 DEF Told, Sent, AllAbout, About
<1>6. QED
  BY <1>3, <1>4, <1>5

LEMMA MappedNext ==
    ASSUME (sent \in Seq(Wire \cup Replying))'
    PROVE  /\ MappedPhase' = Phase(sent') /\ MappedDeltas' = Deltas(sent')
           /\ Told("item.added")' = AllAbout(sent', {"item.added"})
           /\ Told("item.done")' = AllAbout(sent', {"item.done"})
<1>1. DOMAIN sent' = 1..Len(sent')
  OBVIOUS
<1>2. \A types : Sent(types)' = At(sent', types)
  BY DEF Sent, At
<1>3. MappedPhase' = Phase(sent')
  BY <1>2 DEF MappedPhase, Phase, ResponseEnds
<1>4. MappedDeltas' = Deltas(sent')
  BY <1>2 DEF MappedDeltas, Deltas, Growth
<1>5. \A type : Told(type)' = AllAbout(sent', {type})
  BY <1>1 DEF Told, Sent, AllAbout, About
<1>6. QED
  BY <1>3, <1>4, <1>5

(* A step of the EventStream is one event more.                            *)
LEMMA HeardStep ==
    ASSUME NEW S, NEW w \in Seq(S), NEW x \in S,
           sent = w, sent' = Append(w, x), S = Wire \cup Replying,
           x.type \in ResponseTypes => MayFollow(w, Len(w), x)
    PROVE  [Stream!Next]_Stream!vars
<1> DEFINE v == Append(w, x)
           ends == AllAbout(w, ResponseEnds)
           added == AllAbout(w, {"item.added"})
           done == AllAbout(w, {"item.done"})
<1>1. /\ v \in Seq(S)
      /\ \A types : AllAbout(v, types) =
            AllAbout(w, types) \cup (IF x.type \in types THEN {x.item} ELSE {})
  BY OneMore
<1>2. /\ \A types : At(w, types) = {} <=> AllAbout(w, types) = {}
      /\ \A types : At(v, types) = {} <=> AllAbout(v, types) = {}
  BY <1>1, AppendAt
<1>3. \A k : /\ Growth(v, k) = IF x.type = "delta" /\ x.item = k THEN Growth(w, k) + 1
                              ELSE Growth(w, k)
             /\ Growth(w, k) \in Nat
  BY AppendAt
<1>4. /\ MappedPhase = Phase(w) /\ MappedPhase' = Phase(v)
      /\ MappedDeltas = Deltas(w) /\ MappedDeltas' = Deltas(v)
      /\ Told("item.added") = AllAbout(w, {"item.added"})
      /\ Told("item.added")' = AllAbout(v, {"item.added"})
      /\ Told("item.done") = AllAbout(w, {"item.done"})
      /\ Told("item.done")' = AllAbout(v, {"item.done"})
  BY <1>1, Mapped, MappedNext
<1> HIDE DEF v
<1>5. x.type # "delta" => Deltas(v) = Deltas(w)
  BY <1>3 DEF Deltas
<1>6. CASE x.type \notin ResponseTypes
  <2>1. /\ Phase(v) = Phase(w) /\ Deltas(v) = Deltas(w)
        /\ AllAbout(v, {"item.added"}) = AllAbout(w, {"item.added"})
        /\ AllAbout(v, {"item.done"}) = AllAbout(w, {"item.done"})
    BY <1>1, <1>2, <1>5, <1>6 DEF Phase, ResponseTypes, ItemEvents, ResponseEnds
  <2>2. QED
    BY <1>4, <2>1 DEF Stream!vars, MappedPhase, MappedDeltas
<1>7. CASE x.type = "response.created"
  <2>1. /\ Phase(w) = "fresh" /\ Phase(v) = "created" /\ Deltas(v) = Deltas(w)
        /\ AllAbout(v, {"item.added"}) = AllAbout(w, {"item.added"})
        /\ AllAbout(v, {"item.done"}) = AllAbout(w, {"item.done"})
    <3>1. AllAbout(w, ResponseEnds) = {} /\ AllAbout(w, {"response.created"}) = {}
      BY <1>7 DEF ResponseTypes, MayFollow, AllAbout
    <3>2. /\ AllAbout(v, ResponseEnds) = {} /\ AllAbout(v, {"response.created"}) # {}
          /\ AllAbout(v, {"item.added"}) = AllAbout(w, {"item.added"})
          /\ AllAbout(v, {"item.done"}) = AllAbout(w, {"item.done"})
      BY <1>1, <1>7, <3>1 DEF ResponseEnds
    <3>3. QED
      BY <1>2, <1>5, <1>7, <3>1, <3>2 DEF Phase
  <2>2. Stream!Create
    BY <1>4, <2>1 DEF Stream!Create, MappedPhase, MappedDeltas
  <2>3. QED
    BY <2>2 DEF Stream!Next
<1>8. CASE x.type \in ItemEvents
  <2>1. Phase(w) = "created" /\ Phase(v) = "created" /\ x.item \in Items
    <3>1. /\ x.type \in ResponseTypes /\ x.type \notin ResponseEnds
          /\ x.type # "response.created"
      BY <1>8 DEF ResponseTypes, ItemEvents, ResponseEnds
    <3>2. /\ AllAbout(w, ResponseEnds) = {} /\ AllAbout(w, {"response.created"}) # {}
          /\ x.item \in Items
      BY <1>8, <3>1 DEF MayFollow, AllAbout
    <3>3. /\ AllAbout(v, ResponseEnds) = AllAbout(w, ResponseEnds)
          /\ AllAbout(v, {"response.created"}) = AllAbout(w, {"response.created"})
      BY <1>1, <3>1
    <3>4. QED
      BY <1>2, <3>2, <3>3 DEF Phase
  <2>2. CASE x.type = "item.added"
    <3>1. /\ x.item \notin AllAbout(w, {"item.added"}) /\ Deltas(v) = Deltas(w)
          /\ AllAbout(v, {"item.added"}) = AllAbout(w, {"item.added"}) \cup {x.item}
          /\ AllAbout(v, {"item.done"}) = AllAbout(w, {"item.done"})
      BY <1>1, <1>5, <2>2, ZenonT(30) DEF MayFollow, AllAbout, ResponseTypes, ItemEvents
    <3>2. Stream!Add(x.item)
      BY <1>4, <2>1, <3>1 DEF Stream!Add, MappedPhase, MappedDeltas
    <3>3. QED
      BY <2>1, <3>2 DEF Stream!Next
  <2>3. CASE x.type = "delta"
    <3>1. /\ x.item \in AllAbout(w, {"item.added"}) \ AllAbout(w, {"item.done"})
          /\ AllAbout(v, {"item.added"}) = AllAbout(w, {"item.added"})
          /\ AllAbout(v, {"item.done"}) = AllAbout(w, {"item.done"})
      BY <1>1, <2>3, ZenonT(30) DEF MayFollow, AllAbout, ResponseTypes, ItemEvents
    <3>2. Deltas(v) = [Deltas(w) EXCEPT ![x.item] = @ + 1]
      BY <1>3, <2>1, <2>3 DEF Deltas
    <3>3. Stream!Grow(x.item)
      BY <1>4, <2>1, <3>1, <3>2 DEF Stream!Grow, MappedPhase, MappedDeltas
    <3>4. QED
      BY <2>1, <3>3 DEF Stream!Next
  <2>4. CASE x.type = "item.done"
    <3>1. /\ x.item \in AllAbout(w, {"item.added"}) \ AllAbout(w, {"item.done"})
          /\ Deltas(v) = Deltas(w)
          /\ AllAbout(v, {"item.added"}) = AllAbout(w, {"item.added"})
          /\ AllAbout(v, {"item.done"}) = AllAbout(w, {"item.done"}) \cup {x.item}
      BY <1>1, <1>5, <2>4 DEF MayFollow, AllAbout, ResponseTypes, ItemEvents
    <3>2. Stream!Close(x.item)
      BY <1>4, <2>1, <3>1 DEF Stream!Close, MappedPhase, MappedDeltas
    <3>3. QED
      BY <2>1, <3>2 DEF Stream!Next
  <2>5. QED
    BY <1>8, <2>2, <2>3, <2>4 DEF ItemEvents
<1>9. CASE x.type \in ResponseEnds
  <2>1. /\ Phase(w) # "ended" /\ Phase(v) = "ended" /\ Deltas(v) = Deltas(w)
        /\ AllAbout(w, {"item.added"}) = AllAbout(w, {"item.done"})
        /\ AllAbout(v, {"item.added"}) = AllAbout(w, {"item.added"})
        /\ AllAbout(v, {"item.done"}) = AllAbout(w, {"item.done"})
    <3>1. /\ AllAbout(w, ResponseEnds) = {}
          /\ AllAbout(w, {"item.added"}) = AllAbout(w, {"item.done"})
      BY <1>9 DEF ResponseTypes, MayFollow, AllAbout
    <3>2. /\ AllAbout(v, ResponseEnds) # {}
          /\ AllAbout(v, {"item.added"}) = AllAbout(w, {"item.added"})
          /\ AllAbout(v, {"item.done"}) = AllAbout(w, {"item.done"})
      BY <1>1, <1>9 DEF ResponseEnds
    <3>3. QED
      BY <1>2, <1>5, <1>9, <3>1, <3>2 DEF Phase, ResponseEnds
  <2>2. Stream!End
    BY <1>4, <2>1 DEF Stream!End, MappedPhase, MappedDeltas
  <2>3. QED
    BY <2>2 DEF Stream!Next
<1>10. QED
  BY <1>6, <1>7, <1>8, <1>9 DEF ResponseTypes

LEMMA SentSteps ==
    ASSUME IInv, [Next]_vars
    PROVE  \/ sent' = sent \/ Emit
           \/ \E status, format : sent' = Append(sent, Answer(status, format))
<1>1. CASE LoadFails \/ RouteRefused \/ (\E r \in Requests : Receive(r))
  BY <1>1 DEF LoadFails, RouteRefused, Receive, Refuse
<1>2. CASE Effect
  <2>1. \E success \in BOOLEAN, status \in Statuses, format \in Formats :
            Head(todo) = Logs(success, status) \/ Head(todo) = Says(status, format)
    BY <1>2, EffectHead DEF IInv
  <2>2. QED
    BY <1>2, <2>1 DEF Effect, Logs, Says
<1>3. CASE Handler
  BY <1>1, <1>2, <1>3 DEF Handler, LoadConfig, Route, EmitFails, Conclude, LogStream
<1>4. CASE Upstream
  BY <1>4 DEF Upstream, CallReturns, Retry, UpstreamRefuses, ConversionFails, Succeed,
              ReadFrame, ReadEnds
<1>5. CASE Breaks
  BY <1>5 DEF Breaks, CallFails, BodyFails, ReadFails
<1>6. CASE Lose \/ Cancel \/ Finished \/ UNCHANGED vars
  BY <1>6 DEF Lose, Cancel, Finished, vars
<1>7. QED
  BY <1>1, <1>3, <1>4, <1>5, <1>6 DEF Next

(* What is sent next may be sent.                                          *)
LEMMA EmitFollows ==
    ASSUME IInv, RelayInv, ResponseInv, Emit
    PROVE  /\ Head(relay.out) \in Wire /\ sent \in Seq(Wire)
           /\ sent' = Append(sent, Head(relay.out))
           /\ Head(relay.out).type \in ResponseTypes =>
                  MayFollow(sent, Len(sent), Head(relay.out))
<1>1. relay \in Relays /\ Relaying /\ sent \in Seq(Wire)
  BY DEF IInv, TypeInv, Emit, Writing, StreamInv, Relaying, RelayInv
<1>2. /\ relay.out \in Seq(Wire) /\ relay.out # <<>>
      /\ sent' = Append(sent, Head(relay.out))
  BY <1>1, EmitTells
<1>3. Head(relay.out) \in Wire /\ Head(relay.out) = relay.out[1] /\ 1 \in DOMAIN relay.out
  BY <1>2
<1>4. CASE Converts /\ request.from = "responses"
  <2> DEFINE out == relay.out
             w == sent \o out
             n == Len(sent) + 1
  <2>1. n \in DOMAIN w /\ w[n] = Head(out) /\ n - 1 = Len(sent) /\ Len(sent) \in 0..Len(sent)
    <3>1. out \in Seq(Wire) /\ out # <<>>
      BY <1>2
    <3> HIDE DEF out
    <3>2. QED
      BY <1>1, <3>1
  <2>2. ResponseOrder(w)
    BY <1>1, <1>4 DEF ResponseInv, Spoken
  <2>3. MayFollow(w, Len(sent), Head(out))
    BY <2>1, <2>2 DEF ResponseOrder
  <2>4. MayFollow(sent, Len(sent), Head(out))
    BY <1>1, <1>2, <2>1, <2>3, FollowsPrefix
  <2>5. QED
    BY <1>1, <1>2, <1>3, <2>4
<1>5. CASE ~(Converts /\ request.from = "responses")
  BY <1>1, <1>2, <1>3, <1>5 DEF ResponseInv, Silent
<1>6. QED
  BY <1>4, <1>5

(* Whatever the upstream sends, and wherever the relay stops, what a       *)
(* Responses client hears is an EventStream: items are announced, grow and *)
(* are closed, and the answer ends once, with every item closed.           *)
THEOREM ResponsesClientsHearStreams == Spec => ResponsesGrammar
<1>1. Init => RelayInv /\ ResponseInv /\ Stream!Init
  <2> SUFFICES ASSUME Init PROVE RelayInv /\ ResponseInv /\ Stream!Init
    OBVIOUS
  <2>1. RelayInv /\ ResponseInv
    BY DEF Init, RelayInv, ResponseInv, Relaying, NewRelay
  <2>2. \A types : Sent(types) = {}
    BY DEF Init, Sent
  <2>3. \A type : Told(type) = {}
    BY <2>2 DEF Told
  <2>4. \A k : {i \in Sent({"delta"}) : sent[i].item = k} = {}
    BY <2>2
  <2>5. QED
    BY <2>1, <2>2, <2>3, <2>4, FS_EmptySet DEF Stream!Init
<1>2. IInv /\ IInv' /\ RelayInv /\ ResponseInv /\ [Next]_vars => RelayInv' /\ ResponseInv'
  BY RelayInvStep, ResponseInvStep
<1>3. IInv /\ IInv' /\ RelayInv /\ ResponseInv /\ [Next]_vars => [Stream!Next]_Stream!vars
  <2> SUFFICES ASSUME IInv, IInv', RelayInv, ResponseInv, [Next]_vars
               PROVE  [Stream!Next]_Stream!vars
    OBVIOUS
  <2> DEFINE S == Wire \cup Replying
  <2>1. sent \in Seq(S) /\ (sent \in Seq(S))'
    BY DEF IInv, TypeInv, OutputType
  <2>2. CASE sent' = sent
    <3>1. /\ MappedPhase' = MappedPhase /\ MappedDeltas' = MappedDeltas
          /\ Told("item.added")' = Told("item.added")
          /\ Told("item.done")' = Told("item.done")
      BY <2>2 DEF MappedPhase, MappedDeltas, Told, Sent
    <3>2. QED
      BY <3>1 DEF Stream!vars, MappedPhase, MappedDeltas
  <2>3. CASE Emit
    <3>1. PICK x \in Wire : /\ sent' = Append(sent, x)
                            /\ x.type \in ResponseTypes => MayFollow(sent, Len(sent), x)
      BY <2>3, EmitFollows
    <3>2. x \in S
      OBVIOUS
    <3>3. QED
      BY <2>1, <3>1, <3>2, HeardStep
  <2>4. ASSUME NEW status, NEW format, sent' = Append(sent, Answer(status, format))
        PROVE  [Stream!Next]_Stream!vars
    <3> DEFINE x == Answer(status, format)
    <3>1. x.type \notin ResponseTypes
      BY DEF Answer, ResponseTypes, ItemEvents, ResponseEnds
    <3> HIDE DEF x
    <3>2. x \in S
      <4> DEFINE T == S \cup {x}
      <4>1. sent \in Seq(T) /\ x \in T
        BY <2>1, SeqMonotonic
      <4>2. Append(sent, x)[Len(sent) + 1] = x /\ Len(sent) + 1 \in DOMAIN Append(sent, x)
        BY <4>1, Added
      <4>3. Append(sent, x) \in Seq(S)
        BY <2>1, <2>4 DEF x
      <4> HIDE DEF S
      <4>4. \A i \in DOMAIN Append(sent, x) : Append(sent, x)[i] \in S
        BY <4>3
      <4>5. QED
        BY <4>2, <4>4
    <3>3. QED
      BY <2>1, <2>4, <3>1, <3>2, HeardStep DEF x
  <2>5. QED
    BY <2>2, <2>3, <2>4, SentSteps
<1>4. QED
  BY ProxyInvariance, <1>1, <1>2, <1>3, PTL DEF Spec, ResponsesGrammar, Stream!Spec
=============================================================================
