---------------------------- MODULE ProxyRouting ----------------------------
(***************************************************************************)
(* Where the proxy sends a request, and in which protocol.                 *)
(*                                                                         *)
(* The client names a bare model id; resolveRoute looks for the channels   *)
(* that expose it, over all suppliers.  PlanRequest then says whether the  *)
(* protocol of the client can be served by the api of the channel, as it   *)
(* is or through a conversion.  Both only read the config of one moment.   *)
(*                                                                         *)
(* Protocols and apis are named by their wire format; "other" stands for   *)
(* an api that the proxy does not route.  Of an address only what the      *)
(* proxy tells apart is kept: there is none, it is no URL, it is one.      *)
(***************************************************************************)
EXTENDS Naturals, Sequences

CONSTANTS
    Suppliers,      \* names of suppliers (keys of profiles)
    ChannelNames,   \* names of channels
    Unnamed,        \* the name of a channel that has none
    Ambiguous,      \* the channel name "ambiguous"
    Models,         \* model ids without a slash
    Slashed,        \* an id with a slash
    Unstated,       \* no model, or a body that is not a JSON object
    DefaultModel,   \* "gpt-4o-mini"
    NoProfile,      \* nothing is stored under a name
    Inherited       \* a channel leaves a field to its profile

Formats == {"chat", "responses", "anthropic"}
Apis    == Formats \cup {"other"}
Modes   == {"auto", "passthrough", "convert"}
Bases   == {"none", "bad", "ok"}

Channel == [name : ChannelNames \cup {Unnamed}, api : Apis \cup {Inherited},
            mode : Modes \cup {Inherited}, base : Bases, exposed : SUBSET Models]
Profile == [api : Apis, mode : Modes, base : Bases, channels : Seq(Channel)]
Config  == [Suppliers -> Profile \cup {NoProfile}]

\* What the handler tells apart of a request: whether its body is over the
\* limit, and whether it can be said in the format of another api.
Request == [from : Formats, stream : BOOLEAN, model : Models \cup {Slashed, Unstated},
            large : BOOLEAN, convertible : BOOLEAN]

ASSUME RoutingAssumption ==
    /\ Ambiguous \in ChannelNames /\ Unnamed \notin ChannelNames
    /\ DefaultModel \in Models /\ Slashed \notin Models /\ Unstated \notin Models
    /\ NoProfile \notin Profile
    /\ Inherited \notin Apis \cup Modes

-----------------------------------------------------------------------------
(* The route *)

Requested(r) == IF r.model = Unstated THEN DefaultModel ELSE r.model

Places(cfg) == {s \in Suppliers : cfg[s] # NoProfile}
ChannelAt(cfg, at) == cfg[at.supplier].channels[at.index]

\* The channels that expose a model, of all suppliers.
Matches(cfg, m) ==
    UNION {{[supplier |-> s, index |-> i] :
                i \in {j \in DOMAIN cfg[s].channels : m \in cfg[s].channels[j].exposed}} :
           s \in Places(cfg)}

\* resolveRoute hands over the name of the channel, not its place; the handler
\* takes the first channel of the supplier that has it.
Pinned(cfg, at) ==
    LET pin == ChannelAt(cfg, at).name
        named == {j \in DOMAIN cfg[at.supplier].channels :
                      cfg[at.supplier].channels[j].name = pin}
    IN  IF pin = Unnamed THEN at
        ELSE [at EXCEPT !.index = CHOOSE j \in named : \A k \in named : j <= k]

\* A route is found when one channel exposes the model; the name "ambiguous"
\* doubles as the mark of several matches.
HasRoute(cfg, m) ==
    \E at \in Matches(cfg, m) :
        Matches(cfg, m) = {at} /\ ChannelAt(cfg, at).name # Ambiguous

RouteOf(cfg, m) == Pinned(cfg, CHOOSE at \in Matches(cfg, m) : TRUE)

-----------------------------------------------------------------------------
(* The plan *)

\* narrowToChannel and selectedOutboundUpstream: the channel's own fields win.
ApiAt(cfg, at) ==
    LET own == ChannelAt(cfg, at).api
    IN  IF own = Inherited THEN cfg[at.supplier].api ELSE own
ModeAt(cfg, at) ==
    LET own == ChannelAt(cfg, at).mode
    IN  IF own = Inherited THEN cfg[at.supplier].mode ELSE own
BaseAt(cfg, at) ==
    LET own == ChannelAt(cfg, at).base
    IN  IF own = "none" THEN cfg[at.supplier].base ELSE own

AllowedModes(api) ==
    {"auto"} \cup (IF api = "responses" THEN {"passthrough"}
                   ELSE IF api = "chat" THEN {"convert"} ELSE {})

\* PlanRequest: which formats meet.  The responses mode matters where one of
\* the two is the Responses format, and between equal formats.
CanPlan(from, api, mode) ==
    \/ from = api /\ api \in Formats /\ mode \in AllowedModes(api)
    \/ {from, api} = {"responses", "chat"} /\ mode \in AllowedModes(api)
    \/ {from, api} = {"anthropic", "chat"}

\* The converters of streamRegistry.
HasStreamConverter(from, api) == {from, api} = {"responses", "chat"}

\* What has to hold before the upstream is called.
Servable(cfg, r) ==
    /\ r.model # Slashed
    /\ HasRoute(cfg, Requested(r))
    /\ LET at == RouteOf(cfg, Requested(r))
           to == ApiAt(cfg, at)
       IN  /\ BaseAt(cfg, at) = "ok"
           /\ CanPlan(r.from, to, ModeAt(cfg, at))
           /\ r.from # to => r.convertible /\ (r.stream => HasStreamConverter(r.from, to))
=============================================================================
