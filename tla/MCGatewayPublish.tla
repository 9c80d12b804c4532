-------------------------- MODULE MCGatewayPublish --------------------------
(* Small instances of GatewayPublish: two channels, one other provider. *)
EXTENDS GatewayPublish

CONSTANTS ca, cb, other, m1, m2, web, tui

MCChannels  == {ca, cb}
MCStrangers == {other}
MCModels    == {m1, m2}
MCKnown     == {m2}
MCMetas     == {"edited", "theirs"}
MCExtras    == {"mine"}
MCReasoning == {"catalog"}

ConfigOf(a, b) == [ch \in MCChannels |-> IF ch = ca THEN a ELSE b]
ChannelOf(api, S, R, opencode) == [api |-> api, exposed |-> S, reasons |-> R, opencode |-> opencode]

\* Both APIs, a model that reasons and one behind opencode.ai; one API with the
\* other channel gone; a model exposed twice.
Both    == ConfigOf(ChannelOf("pi-switch-chat", {m1}, {m1}, FALSE),
                    ChannelOf("pi-switch-res", {m2}, {}, TRUE))
Single  == ConfigOf(ChannelOf("pi-switch-chat", {m1, m2}, {}, FALSE), NoChannel)
Twice   == ConfigOf(ChannelOf("pi-switch-chat", {m1}, {}, FALSE), ChannelOf("other", {m1, m2}, {}, FALSE))
MCConfigs  == {Both, Single, Twice}
TwoConfigs == {Both, Single}

Nothing == [x \in ExtraKeys |-> NoExtra]
Mine    == [Nothing EXCEPT !.headers = "mine", !.supportsDeveloperRole = "mine"]
ModelOf(meta, extra) == [meta |-> meta, extra |-> extra]
EntryOf(mine, S, model) ==
    [placeholder |-> mine, valid |-> TRUE, extra |-> NoExtra,
     models |-> [m \in MCModels |-> IF m \in S THEN model ELSE NoModel]]

\* Another provider, with a model that models.dev knows and it says nothing of.
Foreign  == EntryOf(FALSE, {m2}, ModelOf(NoMeta, Nothing))
Foreign2 == EntryOf(FALSE, {m1}, ModelOf("theirs", Nothing))
MCStrangerEntries == {Foreign, Foreign2}

\* A provider of an earlier version and the other provider.
Legacy == [k \in Providers |->
    IF k = cb THEN EntryOf(TRUE, {m2}, ModelOf("edited", Mine))
    ELSE IF k = other THEN Foreign ELSE NoEntry]

\* A published gateway with metadata somebody edited.
Edited == [Empty EXCEPT
    !["pi-switch-chat"] = EntryOf(TRUE, {m1}, ModelOf("edited", Mine)), ![other] = Foreign2]

\* A draft with and without metadata, one that changes the other provider,
\* one that puts a model under the wrong API, and one that names a provider
\* of an earlier version.
Mixed  == [Empty EXCEPT !["pi-switch-chat"] =
    [EntryOf(TRUE, {m1, m2}, ModelOf("edited", Nothing)) EXCEPT !.models[m2].meta = NoMeta]]
Tamper == [Mixed EXCEPT ![other] = Foreign]
Wrong  == [Mixed EXCEPT !["pi-switch-chat"].valid = FALSE]
Adopt  == [Empty EXCEPT
    !["pi-switch-chat"] = EntryOf(TRUE, {m1}, ModelOf("edited", Nothing)),
    ![cb] = EntryOf(FALSE, {m1}, ModelOf("theirs", Mine))]

\* A draft in which the user has written compat.
Compat == [Empty EXCEPT !["pi-switch-chat"] = EntryOf(TRUE, {m1}, ModelOf("edited", Mine))]

MCDrafts == {Generated, Malformed, Mixed, Tamper, Wrong, Adopt}
MCPicks  == {{<<ca, m1>>}, {<<cb, m2>>}}
MCFiles  == {Missing, Corrupt, Legacy, Edited}
OnlyMixed == {Mixed}
CompatDrafts == {Generated, Compat}
OnlyBoth == {Both}
NoFiles  == {Missing}
NoPicks  == {}
TwoPublishers == {web, tui}
OneTui   == {tui}
OneWeb   == {web}
NoTui    == {}
=============================================================================
