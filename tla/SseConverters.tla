--------------------------- MODULE SseConverters ---------------------------
(***************************************************************************)
(* Streams of server-sent events, frame by frame, and the two converters   *)
(* between the Chat and the Responses format.                              *)
(*                                                                         *)
(* An upstream frame and an event for the client are records of a type and *)
(* the output item it is about: the message, a tool call, or none.  Texts, *)
(* arguments and usage are left out.                                       *)
(***************************************************************************)
EXTENDS Naturals, Sequences

CONSTANTS
    Calls,          \* tool calls of one answer
    Message,        \* the text of the answer
    NoItem          \* a frame or an event about no item

ASSUME ConverterAssumption == Message \notin Calls /\ NoItem \notin Calls \cup {Message}

Items == Calls \cup {Message}

\* What an upstream sends.  In the Chat format "done" is [DONE], "stop" and
\* "length" a finish_reason, "error" an error object.  In the Responses format
\* "cut" is an end for a known reason, "unknown" one for another reason; a
\* message item, or an empty piece of text, is "message".  "head" is a tool call
\* without arguments yet, "begin" an empty list of calls.  "other" is any frame
\* that neither side reacts to, one that is no JSON included.  A Chat frame with
\* both a delta and a finish_reason is two in a row.
Frames(format) ==
    IF format = "chat"
    THEN [type : {"text", "begin", "stop", "length", "error", "done", "other"},
          item : {NoItem}]
         \cup [type : {"head", "tool"}, item : Calls]
    ELSE IF format = "responses"
    THEN [type : {"created", "message", "text", "completed", "cut", "unknown", "failed", "other"},
          item : {NoItem}]
         \cup [type : {"added", "args"}, item : Calls]
    ELSE [type : {"text", "error", "message_stop"}, item : {NoItem}]

IsSSETerminal(format, f) ==
    \/ format = "chat" /\ f.type = "done"
    \/ format = "responses" /\ f.type \in {"completed", "cut", "unknown", "failed"}
    \/ format = "anthropic" /\ f.type = "message_stop"

IsSSEFailure(format, f) ==
    \/ format = "responses" /\ f.type = "failed"
    \/ format # "responses" /\ f.type = "error"

Event(type, item) == [type |-> type, item |-> item]
Only(condition, event) == IF condition THEN <<event>> ELSE <<>>

-----------------------------------------------------------------------------
(* Both converters: have they begun, is the message open, which calls are  *)
(* known, how did the answer end, and does nothing follow any more.        *)

Converter == [started : BOOLEAN, open : BOOLEAN, calls : Seq(Calls),
              reason : {"stop", "length"}, done : BOOLEAN]

NewConverter == [started |-> FALSE, open |-> FALSE, calls |-> <<>>,
                 reason |-> "stop", done |-> FALSE]

Knows(c, item) == IF item = Message THEN c.open ELSE \E i \in DOMAIN c.calls : c.calls[i] = item
Learn(c, item) ==
    IF Knows(c, item) THEN [c EXCEPT !.started = TRUE]
    ELSE IF item = Message THEN [c EXCEPT !.started = TRUE, !.open = TRUE]
    ELSE [c EXCEPT !.started = TRUE, !.calls = Append(@, item)]

-----------------------------------------------------------------------------
(* ChatSseToResponses: a Chat upstream for a client of the Responses API.  *)

ItemOf(f) == IF f.type = "text" THEN Message ELSE f.item
Opens(f)  == f.type \in {"text", "head", "tool"}

ChatPushed(c, f) ==
    IF Opens(f) THEN Learn(c, ItemOf(f))
    ELSE IF f.type = "begin" THEN [c EXCEPT !.started = TRUE]
    ELSE IF f.type \in {"stop", "length"} THEN [c EXCEPT !.reason = f.type]
    ELSE c

ChatEvents(c, f) ==
    Only((Opens(f) \/ f.type = "begin") /\ ~c.started, Event("response.created", NoItem))
    \o Only(Opens(f) /\ ~Knows(c, ItemOf(f)), Event("item.added", ItemOf(f)))
    \o Only(f.type \in {"text", "tool"}, Event("delta", ItemOf(f)))

\* Mutant: the message is left open.
ChatFinish_CallsOnly(c) ==
    [i \in DOMAIN c.calls |-> Event("item.done", c.calls[i])]
    \o <<Event(IF c.reason = "length" THEN "response.incomplete" ELSE "response.completed",
               NoItem)>>

ChatFinish(c) ==
    Only(c.open, Event("item.done", Message))
    \o [i \in DOMAIN c.calls |-> Event("item.done", c.calls[i])]
    \o <<Event(IF c.reason = "length" THEN "response.incomplete" ELSE "response.completed",
               NoItem)>>

-----------------------------------------------------------------------------
(* ResponsesSseToChat: a Responses upstream for a client of the Chat API.  *)

\* An item of type message only makes the answer begin.
Begins == {"created", "message", "text", "added", "args"}
Ends   == {"completed", "cut", "unknown", "failed"}

\* A call may be introduced by its arguments; a late "added" fills in blanks.
ResponsesPushed(c, f) ==
    IF c.done THEN c
    ELSE IF f.type \in {"added", "args"}
    THEN IF f.type = "added" /\ Knows(c, f.item) THEN c ELSE Learn(c, f.item)
    ELSE [c EXCEPT !.started = @ \/ f.type \in Begins, !.done = f.type \in Ends]

\* Mutant: a late "added" is told again.
ResponsesEvents_Late(c, f) ==
    IF c.done THEN <<>>
    ELSE Only(f.type = "created" \/ (f.type \in Begins /\ ~c.started), Event("role", NoItem))
         \o Only(f.type = "text", Event("content", NoItem))
         \o Only(f.type = "added", Event("tool.header", f.item))
         \o Only(f.type = "args", Event("tool.arguments", f.item))
         \o Only(f.type \in {"completed", "cut"}, Event("finish", NoItem))
         \o Only(f.type \in {"unknown", "failed"}, Event("error", NoItem))

ResponsesEvents(c, f) ==
    IF c.done \/ (f.type = "added" /\ Knows(c, f.item)) THEN <<>>
    ELSE Only(f.type = "created" \/ (f.type \in Begins /\ ~c.started), Event("role", NoItem))
         \o Only(f.type = "text", Event("content", NoItem))
         \o Only(f.type = "added", Event("tool.header", f.item))
         \o Only(f.type = "args", Event("tool.arguments", f.item))
         \o Only(f.type \in {"completed", "cut"}, Event("finish", NoItem))
         \o Only(f.type \in {"unknown", "failed"}, Event("error", NoItem))

ResponsesFinish(c) == Only(~c.done, Event("finish", NoItem))

-----------------------------------------------------------------------------
(* The converter for a client of one format and an upstream of another.    *)

Pushed(from, c, f)    == IF from = "responses" THEN ChatPushed(c, f) ELSE ResponsesPushed(c, f)
EventsOf(from, c, f)  == IF from = "responses" THEN ChatEvents(c, f) ELSE ResponsesEvents(c, f)
Finish(from, c)       == IF from = "responses" THEN ChatFinish(c) ELSE ResponsesFinish(c)

Events == [type : {"response.created", "item.added", "delta", "item.done",
                   "response.completed", "response.incomplete", "role", "content",
                   "tool.header", "tool.arguments", "finish", "error", "[DONE]"},
           item : Items \cup {NoItem}]
=============================================================================
