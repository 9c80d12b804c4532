--------------------------- MODULE MCConfigStore ---------------------------
(* Small instances of ConfigStore: two suppliers, two channels, two models. *)
EXTENDS ConfigStore

CONSTANTS p1, p2, m1, m2, c1, c2, web, cli

MCNames    == {p1, p2}
MCModels   == {m1, m2}
MCChannels == {"main", "alt"}

PoolOf(S) == [m \in MCModels |-> IF m \in S THEN "edited" ELSE "absent"]
ChannelOf(S, exposed) == [pool |-> PoolOf(S), exposed |-> exposed]

\* A profile carrying only the channel stored under key k.
ProfileOf(k, ch) ==
    [channels |-> [x \in Keys |-> IF x = k THEN ch ELSE NoChannel],
     capable  |-> TRUE, agent |-> "default"]

Legacy    == ProfileOf(Unnamed, ChannelOf({m1}, {m1}))
Flat      == [ProfileOf(Main, NoChannel) EXCEPT !.channels[Main] = NoChannel]
Ordinary  == ProfileOf(Main, ChannelOf({m1}, {m1}))
Alternate == ProfileOf("alt", ChannelOf({m1, m2}, {m2}))
Incapable == [Ordinary EXCEPT !.capable = FALSE]
Dangling  == ProfileOf(Main, ChannelOf({}, {m1}))

ConfigOf(prof1, prof2, current, source) ==
    [profiles |-> [n \in MCNames |-> IF n = p1 THEN prof1 ELSE prof2],
     current |-> current, source |-> source]

MCFiles ==
    {Missing, Corrupt,
     ConfigOf(Legacy, NoProfile, p1, "proxy"),
     ConfigOf(Ordinary, Incapable, p2, "other")}

ModelsCall(n, ch, S)  == [op |-> "models", name |-> n, channel |-> ch, models |-> PoolOf(S), valid |-> TRUE]
ExposeCall(n, ch, S)  == [op |-> "expose", name |-> n, channel |-> ch, ids |-> S]
FetchCall(n, ch, S)   == [op |-> "fetch", name |-> n, channel |-> ch, ids |-> S]
PutCall(n, prof, old) == [op |-> "put", name |-> n, prof |-> prof, from |-> old]

\* Every kind of call, with the arguments its branches need.
MCCalls ==
    {[op |-> "create", name |-> p2, prof |-> Alternate],
     [op |-> "create", name |-> p2, prof |-> Dangling],
     PutCall(p2, Alternate, p1), PutCall(p1, Ordinary, NoProfile),
     [op |-> "delete", name |-> p1], [op |-> "cliDelete", name |-> p2],
     [op |-> "use", name |-> p2],
     [op |-> "duplicate", name |-> p1, as |-> p2],
     [op |-> "duplicate", name |-> p2, as |-> p1],
     ModelsCall(p1, "main", {m2}), [ModelsCall(p1, "main", {m2}) EXCEPT !.valid = FALSE],
     ExposeCall(p1, "main", {m2}), ExposeCall(p2, "alt", {m1}),
     FetchCall(p1, "main", {m1, m2}), FetchCall(p1, "alt", {}), FetchCall(p2, "alt", {m1}),
     [op |-> "spoof", name |-> p1, agent |-> "codex"],
     [op |-> "spoof", name |-> p1, agent |-> "bogus"],
     [op |-> "settings", source |-> "other"],
     [op |-> "replace", config |-> ConfigOf(Flat, NoProfile, NoProfile, "off")],
     [op |-> "replace", config |-> ConfigOf(Incapable, NoProfile, p1, "off")]}

\* A server goroutine and a CLI process, which may stop for ever while it
\* holds the lock.
TwoClients     == {c1, c2}
MCProcesses    == {web, cli}
MCProcessOf    == [c \in Clients |-> IF c = c2 THEN cli ELSE web]
OneHung        == {c2}
=============================================================================
