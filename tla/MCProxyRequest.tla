--------------------------- MODULE MCProxyRequest ---------------------------
(* Values for ProxyRequest: configs that take each branch of the routing,    *)
(* and requests of each protocol.                                            *)
EXTENDS ProxyRequest, TLC

CONSTANTS s1, s2, main, m1, m2

ASSUME {s1, s2} = Suppliers /\ {m1, m2} = Models

Exposing(name, api, mode, base, models) ==
    [name |-> name, api |-> api, mode |-> mode, base |-> base, exposed |-> models]
Having(channels) == [api |-> "anthropic", mode |-> "auto", base |-> "none", channels |-> channels]
Alone(channels) == (s1 :> Having(channels)) @@ (s2 :> NoProfile)

Good(name, models) == Exposing(name, Inherited, "auto", "ok", models)

MCConfigs ==
    {Alone(<<Exposing(main, api, mode, "ok", {m1})>>) :
        <<api, mode>> \in {<<"chat", "auto">>, <<"responses", "auto">>, <<"chat", "passthrough">>,
                           <<"responses", "convert">>, <<"other", "auto">>}}
    \cup {Alone(<<Exposing(main, Inherited, Inherited, base, {m1})>>) : base \in {"bad", "none"}}
    \cup {Alone(<<Good(main, {m2}), Good(Unnamed, {m1})>>),
          Alone(<<Good(main, {m1}), Good(main, {m2})>>),
          Alone(<<Good(main, {m1}), Good(Ambiguous, {m2})>>),
          Alone(<<>>),
          (s1 :> Having(<<Good(main, {m1})>>)) @@ (s2 :> Having(<<Good(main, {m1, m2})>>))}

MCRequests ==
    [from : Formats, stream : BOOLEAN, model : {m1, m2}, large : {FALSE}, convertible : {TRUE}]
    \cup [from : {"chat"}, stream : {FALSE}, model : {Slashed, Unstated}, large : BOOLEAN,
          convertible : {TRUE}]
    \cup [from : {"chat"}, stream : BOOLEAN, model : {m1}, large : {FALSE}, convertible : {FALSE}]
=============================================================================
