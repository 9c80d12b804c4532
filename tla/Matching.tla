------------------------------ MODULE Matching ------------------------------
(***************************************************************************)
(* conversation.Match: the one rule that names the conversation of a       *)
(* request, when it is logged and when statistics are read.                *)
(*                                                                         *)
(* Models are bare ids, without the supplier and channel a route puts      *)
(* before them; candidates of a scan name no provider to compare.          *)
(***************************************************************************)
EXTENDS Naturals

CONSTANTS
    Window,     \* how far a session's last activity may be from a request
    Gap,        \* advantage in time that decides nothing
    Unlabeled,  \* no conversation
    NoId,       \* no id given, a blank one, or "unlabeled"
    NoModel, NoHint,
    NoSession   \* no file of this session

Sources == {"proxy", "sessionScan", "off"}

Diff(a, b) == IF a > b THEN a - b ELSE b - a

\* How far the session's last activity is from the request; what they say of
\* the prompt, if both say something.
Away(i, c)   == Diff(i.at, c.last)
Known(i, c)  == i.tokens # NoHint /\ c.hint # NoHint
Prompt(i, c) == IF Known(i, c) THEN Diff(i.tokens, c.hint) ELSE 0

\* A session's file says it was active with the model at about the time; the
\* limit in time is left out (a mutant).
Eligible_AnyTime(i, seen) ==
    {s \in DOMAIN seen : seen[s] # NoSession /\ seen[s].model = i.model}

\* The sessions in question.
Eligible(i, seen) ==
    {s \in DOMAIN seen :
        seen[s] # NoSession /\ seen[s].model = i.model /\ Away(i, seen[s]) <= Window}

\* The order of the sort.  Ids come last in it, but equals are ambiguous.
Closer(i, a, b) ==
    \/ Away(i, a) < Away(i, b)
    \/ /\ Away(i, a) = Away(i, b)
       /\ \/ Known(i, a) /\ ~Known(i, b)
          \/ (Known(i, a) <=> Known(i, b)) /\ Prompt(i, a) < Prompt(i, b)

Closest(i, S, seen) ==
    CHOOSE s \in S : \A t \in S : ~Closer(i, seen[t], seen[s])

\* Neither the time nor the prompts tell the two apart.
Ambiguous(i, best, second) ==
    \/ ~Closer(i, best, second)
    \/ /\ Away(i, second) - Away(i, best) <= Gap
       /\ ~Known(i, best) /\ ~Known(i, second)

Nearest(i, seen) ==
    LET S    == Eligible(i, seen)
        best == Closest(i, S, seen)
        rest == S \ {best}
    IN  IF S = {} THEN Unlabeled
        ELSE IF rest # {} /\ Ambiguous(i, seen[best], seen[Closest(i, rest, seen)]) THEN Unlabeled
        ELSE best

\* A session may be preferred to the id a client gave (a mutant).
Match_SessionFirst(source, i, seen) ==
    IF source = "sessionScan" /\ i.model # NoModel /\ Nearest(i, seen) # Unlabeled
    THEN Nearest(i, seen)
    ELSE IF source # "off" /\ i.explicit # NoId THEN i.explicit ELSE Unlabeled

Match(source, i, seen) ==
    IF source = "off" THEN Unlabeled
    ELSE IF i.explicit # NoId THEN i.explicit
    ELSE IF source = "sessionScan" /\ i.model # NoModel THEN Nearest(i, seen)
    ELSE Unlabeled
=============================================================================
