--------------------------- MODULE ToolConverters ---------------------------
(***************************************************************************)
(* The conversions of a request to a supplier's protocol and of its answer *)
(* back (translator/chat_anthropic.go, translator.go, response_conversion, *)
(* registry.go), for what a conversation is made of: words, calls of       *)
(* functions and their results, and what a request says of tools.          *)
(*                                                                         *)
(* A history is a sequence of messages [role, parts] in all three          *)
(* protocols; an item of Responses that is a call or a result by itself is *)
(* a message with the role "item".  Texts that are joined stay apart, and  *)
(* content that is nil, "" or [] has no parts.                             *)
(***************************************************************************)
EXTENDS SequencesExt, Naturals

CONSTANT Blank  \* no id, or no name

\* registry.go: <<the client's protocol, the supplier's>>
Pairs == {<<"responses", "chat">>, <<"chat", "responses">>,
          <<"chat", "messages">>, <<"messages", "chat">>}

Message(role, parts) == [role |-> role, parts |-> parts]
SaidBy(role, parts)    == IF parts = <<>> THEN <<>> ELSE <<Message(role, parts)>>

\* What each member of a sequence gives, one after the other; those that are kept.
Each(s, gives(_)) == FlattenSeq([n \in DOMAIN s |-> gives(s[n])])
Those(s, keep(_)) == Each(s, LAMBDA x : IF keep(x) THEN <<x>> ELSE <<>>)

Words(parts)    == Those(parts, LAMBDA p : p.kind \in {"text", "image"})
Calls(parts)    == Those(parts, LAMBDA p : p.kind = "call")
Thoughts(parts) == Those(parts, LAMBDA p : p.kind = "thought")
Joined(h)       == Each(h, LAMBDA m : m.parts)
Alone(parts)    == Each(parts, LAMBDA p : <<Message("item", <<p>>)>>)
WithRole(h, roles) == Those(h, LAMBDA m : m.role \in roles)

\* What encodeToolArguments, decodeJSONValue and the checks of ids refuse.
Malformed(p) ==
    \/ p.kind \in {"call", "result"} /\ p.id = Blank
    \/ p.kind = "call" /\ p.args \in {"broken", "missing"}

\* A call without input is given null by json.Marshal.
Marshaled(p) == IF p.kind = "call" /\ p.args = "missing" THEN [p EXCEPT !.args = "null"] ELSE p

-----------------------------------------------------------------------------
(* Requests                                                                  *)

\* ChatToResponsesWithError
Items(h) ==
    Each(h, LAMBDA m :
        CASE m.role = "system" -> <<>>
          [] m.role = "tool"   -> Alone(m.parts)
          [] OTHER -> SaidBy(m.role, Words(m.parts)) \o Alone(Calls(m.parts)))

\* OpenAIToAnthropicWithError; chatContentToAnthropic prints what is no text.
Printed(p) == IF p.kind = "image" THEN [p EXCEPT !.kind = "printed"] ELSE p

Blocks(h) ==
    Each(h, LAMBDA m :
        IF m.role = "system" THEN <<>>
        ELSE <<Message(IF m.role = "tool" THEN "user" ELSE m.role,
                       Each(m.parts, LAMBDA p : IF p.kind = "thought" THEN <<>> ELSE <<Printed(p)>>))>>)

\* A call replaces those the assistant's message has (a mutant).
AddItem_Replaces(chat, m) ==
    LET p == m.parts[1] IN
    IF m.role # "item" THEN Append(chat, Message(m.role, Words(m.parts) \o Calls(m.parts)))
    ELSE IF p.kind = "thought" THEN Append(chat, Message("user", <<>>))
    ELSE IF p.kind = "result" THEN Append(chat, Message("tool", m.parts))
    ELSE IF chat # <<>> /\ Last(chat).role = "assistant"
         THEN Append(Front(chat), Message("assistant", Words(Last(chat).parts) \o m.parts))
    ELSE Append(chat, Message("assistant", m.parts))

\* convertResponsesInput: a call joins the assistant's message before it; those
\* inside a message (extractEmbeddedFunctionCalls) come after its words; an item
\* of reasoning is a message of no role and no content.
AddItem(chat, m) ==
    LET p == m.parts[1] IN
    IF m.role # "item" THEN Append(chat, Message(m.role, Words(m.parts) \o Calls(m.parts)))
    ELSE IF p.kind = "thought" THEN Append(chat, Message("user", <<>>))
    ELSE IF p.kind = "result" THEN Append(chat, Message("tool", m.parts))
    ELSE IF chat # <<>> /\ Last(chat).role = "assistant"
         THEN Append(Front(chat), Message("assistant", Last(chat).parts \o m.parts))
    ELSE Append(chat, Message("assistant", m.parts))

\* The messages of a Chat request from the items of a Responses request.
Regrouped(h) ==
    LET chat[n \in 0..Len(h)] == IF n = 0 THEN <<>> ELSE AddItem(chat[n - 1], h[n])
    IN  chat[Len(h)]

\* appendAnthropicContent: a user's words go on until the next result.
AddBlock(chat, p) ==
    IF p.kind = "result" THEN Append(chat, Message("tool", <<p>>))
    ELSE IF chat # <<>> /\ Last(chat).role = "user"
         THEN Append(Front(chat), Message("user", Append(Last(chat).parts, p)))
    ELSE Append(chat, Message("user", <<p>>))

Turn(parts) ==
    LET chat[n \in 0..Len(parts)] == IF n = 0 THEN <<>> ELSE AddBlock(chat[n - 1], parts[n])
    IN  chat[Len(parts)]

Turns(h) ==
    Each(h, LAMBDA m :
        IF m.role # "assistant" THEN Turn(m.parts)
        ELSE SaidBy("assistant", Words(m.parts) \o Each(Calls(m.parts), LAMBDA p : <<Marshaled(p)>>)))

\* A request [system, history]; a Chat request has its instructions in messages.
Converted(pair, r) ==
    IF pair[1] = "chat"
    THEN [system  |-> Joined(WithRole(r.history, {"system"})),
          history |-> IF pair[2] = "responses" THEN Items(r.history) ELSE Blocks(r.history)]
    ELSE [system  |-> <<>>,
          history |-> SaidBy("system", r.system) \o
                      IF pair[1] = "responses" THEN Regrouped(r.history)
                      ELSE Turns(r.history)]

\* The calls inside a message of Responses are not looked at; blocks of
\* Anthropic must be on their side and known, and need no input.
RefusedPart(pair, m, p) ==
    CASE pair[1] = "chat"      -> Malformed(p)
      [] pair[1] = "responses" -> m.role = "item" /\ Malformed(p)
      [] pair[1] = "messages"  ->
            \/ p.kind \in {"image", "thought"}
            \/ p.kind = "call" /\ (m.role # "assistant" \/ p.id = Blank)
            \/ p.kind = "result" /\ (m.role # "user" \/ p.id = Blank)

RefusedHistory(pair, h) ==
    \E n \in DOMAIN h : \E k \in DOMAIN h[n].parts : RefusedPart(pair, h[n], h[n].parts[k])

-----------------------------------------------------------------------------
(* What a request says of tools: their definitions, the choice, and whether  *)
(* calls may be made at once.  A builtin tool is one the supplier runs.      *)
(* An unknown choice is an object of no known type, a named one is such an   *)
(* object that has the name of a function; "any" and "tool" of Anthropic are *)
(* "required" and "one" here.                                                *)
Policies ==
    [tools    : {"none", "function", "builtin", "nameless"},
     choice   : {"absent", "auto", "none", "required", "one", "named", "unknown"},
     parallel : {"absent", "yes", "no"}]

\* anthropicToolsToChat does not look at the type of a tool, nor does
\* chatToolChoiceToAnthropic at the type of a choice that has a name.
RefusedPolicy(pair, p) ==
    \/ p.tools = "nameless"
    \/ p.tools = "builtin" /\ pair[1] # "messages"
    \/ /\ p.choice = "unknown" \/ (p.choice = "named" /\ pair[2] # "messages")
       /\ ~(pair[1] = "responses" /\ p.tools = "none")

\* ResponsesToChat has no choice without tools; OpenAIToAnthropic needs one to
\* say how many calls there may be.
ConvertedPolicy(pair, p) ==
    [tools    |-> IF p.tools = "builtin" THEN "function" ELSE p.tools,
     choice   |-> IF pair[1] = "responses" /\ p.tools = "none" THEN "absent"
                  ELSE IF pair[2] = "messages" /\ p.parallel # "absent" /\ p.choice = "absent" THEN "auto"
                  ELSE IF pair[2] = "messages" /\ p.choice = "named" THEN "one"
                  ELSE p.choice,
     parallel |-> p.parallel]

-----------------------------------------------------------------------------
(* Answers                                                                   *)

\* The form an assistant's parts have in a protocol.
Form(protocol, parts) ==
    CASE protocol = "chat"      -> SaidBy("assistant", Thoughts(parts) \o Words(parts) \o Calls(parts))
      [] protocol = "messages"  -> SaidBy("assistant", parts)
      [] protocol = "responses" ->
            Each(parts, LAMBDA p : <<Message(IF p.kind = "text" THEN "assistant" ELSE "item", <<p>>)>>)

\* An answer's call needs no id (a mutant).
RefusedAnswer_AnyId(pair, parts) ==
    \E n \in DOMAIN parts : LET p == parts[n] IN
        CASE pair = <<"responses", "chat">> -> FALSE
          [] pair = <<"messages", "chat">>  -> Malformed(p)
          [] pair = <<"chat", "responses">> -> p.kind = "call" /\ p.id = Blank
          [] pair = <<"chat", "messages">>  -> p.kind = "thought"

\* ChatResponseToResponses checks no call, ResponsesToChatResponse no arguments;
\* AnthropicToOpenAIResponse knows no blocks of thinking.
RefusedAnswer(pair, parts) ==
    \E n \in DOMAIN parts : LET p == parts[n] IN
        CASE pair = <<"responses", "chat">> -> FALSE
          [] pair = <<"messages", "chat">>  -> Malformed(p)
          [] pair = <<"chat", "responses">> -> p.kind = "call" /\ p.id = Blank
          [] pair = <<"chat", "messages">>  -> p.kind = "thought" \/ (p.kind = "call" /\ p.id = Blank)

\* Thoughts are words in ChatResponseToResponses.
Spoken(p) == IF p.kind = "thought" THEN [p EXCEPT !.kind = "text"] ELSE p

\* An answer with calls has no words (a mutant).
ConvertedAnswer_CallsOnly(pair, parts) ==
    IF Calls(parts) # <<>> THEN Form(pair[1], Calls(parts)) ELSE Form(pair[1], Words(parts))

\* ChatResponseToResponses: one message with what was thought and said, then
\* the calls as items.
ToResponses(parts) ==
    SaidBy("assistant", Each(Thoughts(parts) \o Words(parts), LAMBDA p : <<Spoken(p)>>))
    \o Alone(Calls(parts))

\* ResponsesToChatResponse, AnthropicToOpenAIResponseWithError
ToChat(parts) ==
    Form("chat", Words(parts) \o Each(Calls(parts), LAMBDA p : <<Marshaled(p)>>))

\* OpenAIToAnthropicResponse
ToMessages(parts) == Form("messages", Words(parts) \o Calls(parts))

ConvertedAnswer(pair, parts) ==
    CASE pair[1] = "responses" -> ToResponses(parts)
      [] pair[1] = "chat"      -> ToChat(parts)
      [] pair[1] = "messages"  -> ToMessages(parts)
=============================================================================
