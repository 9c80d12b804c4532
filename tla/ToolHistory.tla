---------------------------- MODULE ToolHistory ----------------------------
(***************************************************************************)
(* A conversation with functions through the proxy: a client adds to its   *)
(* history and sends all of it each time, the proxy converts the request   *)
(* and the supplier's answer (translator.Plan, proxy_handlers.go), and the *)
(* client takes the answer into its history and runs what it calls.        *)
(*                                                                         *)
(* A text, an image or a call is told from the others by its number.       *)
(***************************************************************************)
EXTENDS ToolConverters

CONSTANTS
    NotSent,
    MaxParts,   \* bound: parts there are in a history
    MaxAnswer,  \* bound: parts of an answer
    MaxOdd,     \* bound: parts that are odd
    MaxVaried   \* bound: parts of a history with policies that are odd

ASSUME HistoryAssumption == {MaxParts, MaxAnswer, MaxOdd, MaxVaried} \subseteq Nat

VARIABLES
    pair,       \* the client's protocol and the supplier's
    system,     \* the instructions in the client's request, but for Chat
    history,    \* what the client sends
    phase,      \* whose turn it is, or that the proxy refused a request
    sent,       \* the request the supplier got, and the policy asked of it
    known       \* what the supplier was sent, and said, the time before

historyVars == <<pair, system, history, phase, sent, known>>

Text(n)        == [kind |-> "text", of |-> n]
Image(n)       == [kind |-> "image", of |-> n]
Thought(n)     == [kind |-> "thought", of |-> 0 - n]
Call(id, args) == [kind |-> "call", id |-> id, args |-> args]
Result(id)     == [kind |-> "result", id |-> id]

\* The number of what is said next.
Number == Len(Joined(history)) + 1

\* What is not a text, a good call or its result; the policies that are not.
Odd(parts) == Len(Those(parts, LAMBDA p :
                  \/ p.kind \in {"image", "thought"}
                  \/ p.kind \in {"call", "result"} /\ p.id = Blank
                  \/ p.kind = "call" /\ p.args # "json"))
Plain == [tools |-> "function", choice |-> "auto", parallel |-> "absent"]

Fits(parts) == /\ Number + Len(parts) - 1 <= MaxParts
               /\ Odd(Joined(history)) + Odd(parts) <= MaxOdd

HistoryInit ==
    /\ pair \in Pairs
    /\ system \in IF pair[1] = "chat" THEN {<<>>} ELSE {<<>>, <<Text(0)>>}
    /\ history = <<>> /\ phase = "client" /\ sent = NotSent /\ known = <<>>

-----------------------------------------------------------------------------
\* A message more; Anthropic has one for the words and results of a user's turn,
\* if the client likes.
Adds(role, part) ==
    /\ phase = "client" /\ Fits(<<part>>)
    /\ \/ history' = Append(history, Message(role, <<part>>))
       \/ /\ pair[1] = "messages" /\ history # <<>> /\ Last(history).role = role
          /\ history' = Append(Front(history), Message(role, Append(Last(history).parts, part)))
    /\ UNCHANGED <<pair, system, phase, sent, known>>

UserSays == \E word \in {Text(Number), Image(Number)} : Adds("user", word)

Instructs == pair[1] # "messages" /\ Adds("system", Text(Number))

\* The result of a call there is, without its id if the client is broken.
Returns ==
    \E n \in DOMAIN Joined(history) : LET call == Joined(history)[n] IN
        /\ call.kind = "call"
        /\ \E id \in {call.id, Blank} :
              /\ \A k \in DOMAIN Joined(history) : Joined(history)[k] # Result(id)
              /\ Adds(CASE pair[1] = "chat"      -> "tool"
                        [] pair[1] = "responses" -> "item"
                        [] pair[1] = "messages"  -> "user", Result(id))

\* What an assistant may say, well or badly; Anthropic's arguments are no text.
Sort == {"text", "thought", "json", "null", "broken", "missing", "blank"}

Made(sort, n) ==
    CASE sort = "text"    -> Text(n)
      [] sort = "thought" -> Thought(n)
      [] sort = "blank"   -> Call(Blank, "json")
      [] OTHER            -> Call(n, sort)

Answers(protocol) ==
    LET sorts  == SeqOf(IF protocol = "messages" THEN Sort \ {"broken"} ELSE Sort, MaxAnswer)
        made   == {[n \in DOMAIN s |-> Made(s[n], Number + n - 1)] : s \in sorts \ {<<>>}}
    IN  {parts \in made : Fits(parts)}

\* An answer of another supplier, from before the client changed to this one.
\* A client of Responses may keep its calls in the message.
OtherAnswers ==
    /\ phase = "client"
    /\ \E parts \in Answers(pair[1]) :
          \/ history' = history \o Form(pair[1], parts)
          \/ pair[1] = "responses" /\ history' = history \o SaidBy("assistant", parts)
    /\ UNCHANGED <<pair, system, phase, sent, known>>

-----------------------------------------------------------------------------
\* What happened, whoever's protocol tells it, thoughts apart.
Heard(role, p) == [by |-> IF p.kind \in {"call", "result"} THEN "tools" ELSE role, part |-> p]

Told(h) ==
    Each(h, LAMBDA m :
        Each(m.parts, LAMBDA p : IF p.kind = "thought" THEN <<>> ELSE <<Heard(m.role, p)>>))

\* Plan.TransformRequest.  Anthropic has the limit in the choice.  A client whose
\* request is refused goes no further.
Send ==
    /\ phase = "client" /\ history # <<>>
    /\ \E asked \in IF Number <= MaxVaried + 1 THEN Policies ELSE {Plain} :
          /\ pair[1] = "messages" /\ asked.choice = "absent" => asked.parallel = "absent"
          /\ IF RefusedHistory(pair, history) \/ RefusedPolicy(pair, asked)
             THEN phase' = "refused" /\ sent' = [asked |-> asked]
             ELSE /\ phase' = "supplier"
                  /\ sent' = [asked |-> asked, policy |-> ConvertedPolicy(pair, asked),
                              request |-> Converted(pair, [system |-> system, history |-> history])]
    /\ UNCHANGED <<pair, system, history, known>>

\* Plan.TransformResponse; an answer that is refused is not the client's.
Answer ==
    /\ phase = "supplier"
    /\ \E parts \in Answers(pair[2]) :
          IF RefusedAnswer(pair, parts)
          THEN UNCHANGED history /\ known' = Told(sent.request.history)
          ELSE /\ history' = history \o ConvertedAnswer(pair, parts)
               /\ known' = Told(sent.request.history \o Form(pair[2], parts))
    /\ phase' = "client" /\ sent' = NotSent
    /\ UNCHANGED <<pair, system>>

HistoryNext == UserSays \/ Instructs \/ Returns \/ OtherAnswers \/ Send \/ Answer

HistorySpec == HistoryInit /\ [][HistoryNext]_historyVars

-----------------------------------------------------------------------------
\* The order of an assistant's words among its calls is nobody's promise.
ButWords(told) == Those(told, LAMBDA t : t.by \notin {"assistant", "system"})
ButCalls(told) == Those(told, LAMBDA t :
    t.by # "system" /\ t.part.kind # "call" /\ ~(t.by = "assistant" /\ t.part.of < 0))
System(told)   == Those(told, LAMBDA t : t.by = "system")

\* The history as a conversion may write it: how an image and a call without input look.
Rewritten(h) ==
    Each(h, LAMBDA m : <<Message(m.role, Each(m.parts, LAMBDA p :
        <<IF pair[2] = "messages" THEN Printed(p)
          ELSE IF pair[1] = "messages" THEN Marshaled(p) ELSE p>>))>>)

(* What the supplier is sent is what the client sent: each word, image,     *)
(* call and result once, calls and results with their ids and arguments, in *)
(* order among themselves and with the user's words, the instructions in    *)
(* their order, and the same choice of tools (system-contract 2.4.8); but   *)
(* an image is printed for Anthropic, a builtin tool of Anthropic and a     *)
(* choice without tools are not what they were, and a choice of no known    *)
(* type is taken for the function it names, if it names one.                *)
NothingLost ==
    phase = "supplier" =>
        LET asked == Told(Rewritten(history))
            given == Told(sent.request.history)
        IN  /\ ButWords(given) = ButWords(asked) /\ ButCalls(given) = ButCalls(asked)
            /\ Told(SaidBy("system", system)) \o System(asked)
                  = Told(SaidBy("system", sent.request.system)) \o System(given)
            /\ sent.policy.parallel = sent.asked.parallel
            /\ sent.policy.tools = sent.asked.tools \/ sent.asked.tools = "builtin"
            /\ \/ sent.policy.choice = sent.asked.choice
               \/ {sent.policy.choice, sent.asked.choice} = {"absent", "auto"}
               \/ sent.policy.choice = "one" /\ sent.asked.choice = "named"
               \/ sent.asked.tools = "none"

(* The supplier hears its own words: what it was sent and answered the time *)
(* before is the beginning of what it is sent the next time, through both   *)
(* conversions and the client's history, but for its thoughts and for how a *)
(* call without input is written.                                           *)
HearsItself ==
    phase = "supplier" =>
        LET plain(told) == Each(told, LAMBDA t : <<[t EXCEPT !.part = Marshaled(@)]>>)
            then == plain(known)
            now  == plain(Told(sent.request.history))
        IN  IsPrefix(ButWords(then), ButWords(now)) /\ IsPrefix(ButCalls(then), ButCalls(now))

\* The calls of an answer that nobody looks at, and the arguments.
Unchecked(p) ==
    /\ p.kind = "call"
    /\ \/ pair = <<"responses", "chat">>
       \/ pair = <<"chat", "responses">> /\ p.args = "broken"

(* An answer the client is given can be sent back: with it, a history that  *)
(* was sent to the supplier is not one that the next request is refused     *)
(* for, whatever the supplier said (system-contract 2.4.8: what is invalid  *)
(* is refused, here the answer); but for the calls that two of the four     *)
(* conversions of an answer let pass unchecked (translator.go:603-620,      *)
(* response_conversion.go:164-166), where the promise is broken.            *)
AnswersSendable ==
    [][phase = "supplier" =>
          \A n \in DOMAIN history' : \A k \in DOMAIN history'[n].parts :
              RefusedPart(pair, history'[n], history'[n].parts[k]) => Unchecked(history'[n].parts[k])]_historyVars
=============================================================================
