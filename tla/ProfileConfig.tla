--------------------------- MODULE ProfileConfig ---------------------------
(***************************************************************************)
(* The config file's content and the mutations pi-switch applies to it.    *)
(*                                                                         *)
(* A config is a record of a partial map from supplier names to profiles,  *)
(* the active supplier and the conversation source of the settings.  A     *)
(* profile owns named channels (upstreams), a channel owns a pool of       *)
(* models and the ids it exposes.  The operators below are the mutate      *)
(* callbacks handed to config.UpdateAtPath by the HTTP handlers, the CLI   *)
(* and the TUI: Accepts is what the callback checks, Effect what it        *)
(* writes.  ConfigStore runs them under the lock.                          *)
(*                                                                         *)
(* Data that no mutation branches on is left out (URLs, keys, headers,     *)
(* model metadata beyond "fetched seed" or "edited by hand").  The verdict *)
(* of the capability rules on a profile is its field capable.              *)
(***************************************************************************)
EXTENDS Naturals

CONSTANTS
    Names,          \* supplier names (keys of profiles)
    Channels,       \* channel names a user can type
    Models,         \* model ids
    Main,           \* the channel a legacy profile is upgraded to
    Unnamed,        \* the key of a legacy upstream without a name
    NoProfile,      \* a name no profile is stored under, or no active one
    NoChannel,      \* a key no channel is stored under
    DefaultName,    \* "test-provider"
    DefaultModel,   \* "gpt-4o-mini"
    Missing,        \* the file does not exist
    Corrupt         \* the file does not parse

Keys    == Channels \cup {Unnamed}
Spoofs  == {"claude-code", "codex", "gemini"}
Sources == {"proxy", "off", "sessionScan"}

\* One entry of a pool: missing, seeded by fetch-models, or written by a user.
Pool    == [Models -> {"absent", "seed", "edited"}]
Channel == [pool : Pool, exposed : SUBSET Models]
Profile == [channels : [Keys -> Channel \cup {NoChannel}],
            capable  : BOOLEAN,
            agent    : Spoofs \cup {"default"}]
Config  == [profiles : [Names -> Profile \cup {NoProfile}],
            current  : Names \cup {NoProfile},
            source   : Sources \cup {"other"}]

ASSUME ConfigAssumption ==
    /\ Main \in Channels
    /\ Unnamed \notin Channels
    /\ NoProfile \notin Names \cup Profile
    /\ DefaultName \in Names
    /\ DefaultModel \in Models
    /\ Missing # Corrupt
    /\ NoChannel \notin Channel

-----------------------------------------------------------------------------
(* Reading a config *)

EmptyPool == [m \in Models |-> "absent"]

\* The content a missing file stands for.
DefaultConfig ==
    LET main == [pool    |-> [EmptyPool EXCEPT ![DefaultModel] = "edited"],
                 exposed |-> {DefaultModel}]
        prof == [channels |-> [k \in Keys |-> IF k = Main THEN main ELSE NoChannel],
                 capable  |-> TRUE,
                 agent    |-> "default"]
    IN  [profiles |-> [n \in Names |-> IF n = DefaultName THEN prof ELSE NoProfile],
         current  |-> DefaultName,
         source   |-> "sessionScan"]

\* LoadConfigAtPath: only a missing file yields the default config.
Loaded(file) == IF file = Missing THEN DefaultConfig ELSE file

Has(cfg, n)      == cfg.profiles[n] # NoProfile
InPool(ch, m)    == ch.pool[m] # "absent"
ChannelsOf(prof) == {k \in Keys : prof.channels[k] # NoChannel}

\* The save-time migration: an unknown conversation source falls back.
MigratedForSave(cfg) ==
    [cfg EXCEPT !.source = IF cfg.source \in Sources THEN cfg.source ELSE "sessionScan"]

\* EnsureMutationChannel: the named channel exists, or it is "main" and the
\* profile is a legacy one, with no upstream or a single unnamed one.
HasMutationChannel(prof, ch) ==
    \/ prof.channels[ch] # NoChannel
    \/ ch = Main /\ ChannelsOf(prof) \in {{}, {Unnamed}}

\* ... and the upgrade it performs in place when the channel was inferred.
EnsureMutationChannel(prof, ch) ==
    IF prof.channels[ch] # NoChannel THEN prof
    ELSE LET inherited == IF prof.channels[Unnamed] # NoChannel
                          THEN prof.channels[Unnamed]
                          ELSE [pool |-> EmptyPool, exposed |-> {}]
         IN  [prof EXCEPT !.channels[ch] = inherited, !.channels[Unnamed] = NoChannel]

\* profile.ValidateProfile, the strict door of the profile CRUD.
ValidProfile(prof) ==
    /\ prof.capable
    /\ prof.channels[Unnamed] = NoChannel
    /\ \A k \in ChannelsOf(prof) : \A m \in prof.channels[k].exposed :
          InPool(prof.channels[k], m)

-----------------------------------------------------------------------------
(* Requests: one record per call of the HTTP API, the CLI or the TUI.      *)

Requests ==
    [op : {"create"}, name : Names, prof : Profile]
    \cup [op : {"put"}, name : Names, prof : Profile, from : Names \cup {NoProfile}]
    \cup [op : {"delete", "cliDelete", "use"}, name : Names]
    \cup [op : {"duplicate"}, name : Names, as : Names]
    \cup [op : {"models"}, name : Names, channel : Channels, models : Pool, valid : BOOLEAN]
    \cup [op : {"expose"}, name : Names, channel : Channels, ids : SUBSET Models]
    \cup [op : {"fetch"}, name : Names, channel : Channels, ids : SUBSET Models]
    \cup [op : {"spoof"}, name : Names, agent : Spoofs \cup {"default", "bogus"}]
    \cup [op : {"settings"}, source : Sources \cup {"other"}]
    \cup [op : {"replace"}, config : Config]

\* What is checked before the write lock is asked for.
Admissible(r) ==
    /\ r.op \in {"create", "put"} => ValidProfile(r.prof)
    /\ r.op = "replace" => \A n \in Names : Has(r.config, n) => r.config.profiles[n].capable

\* The supplier and the channel a channel-directed call names can be resolved.
ChannelResolves(r, cfg) ==
    Has(cfg, r.name) /\ HasMutationChannel(cfg.profiles[r.name], r.channel)

\* What the mutate callback checks on the config it was given.
Accepts(r, cfg) ==
    \/ r.op = "create" /\ ~Has(cfg, r.name)
    \/ r.op \in {"put", "cliDelete", "settings", "replace"}
    \/ r.op \in {"delete", "use"} /\ Has(cfg, r.name)
    \/ r.op = "spoof" /\ Has(cfg, r.name) /\ r.agent # "bogus"
    \/ /\ r.op = "duplicate"
       /\ Has(cfg, r.name) /\ ~Has(cfg, r.as)
       /\ cfg.profiles[r.name].capable
    \/ r.op = "models" /\ ChannelResolves(r, cfg) /\ r.valid
    \/ r.op = "fetch" /\ ChannelResolves(r, cfg)
    \/ /\ r.op = "expose" /\ ChannelResolves(r, cfg)
       /\ LET prof == EnsureMutationChannel(cfg.profiles[r.name], r.channel)
          IN  \A m \in r.ids : InPool(prof.channels[r.channel], m)

-----------------------------------------------------------------------------
(* Effects, each the assignments of one callback.                          *)

Create(r, cfg) == [cfg EXCEPT !.profiles[r.name] = r.prof]

\* A rename drops the old name; the active supplier is left as it was.
Put(r, cfg) ==
    [cfg EXCEPT !.profiles = [n \in Names |->
        IF n = r.name THEN r.prof
        ELSE IF n = r.from THEN NoProfile ELSE cfg.profiles[n]]]

\* Mutant: the active supplier survives its own deletion.
Delete_KeepsActive(r, cfg) == [cfg EXCEPT !.profiles[r.name] = NoProfile]

Delete(r, cfg) ==
    [cfg EXCEPT !.profiles[r.name] = NoProfile,
                !.current = IF cfg.current = r.name THEN NoProfile ELSE cfg.current]

Use(r, cfg) == [cfg EXCEPT !.current = r.name]

Duplicate(r, cfg) == [cfg EXCEPT !.profiles[r.as] = cfg.profiles[r.name]]

Spoof(r, cfg) ==
    LET prof == cfg.profiles[r.name]
    IN  [cfg EXCEPT !.profiles[r.name] = [prof EXCEPT !.agent = r.agent]]

WithChannel(r, cfg, ch) ==
    LET prof == EnsureMutationChannel(cfg.profiles[r.name], r.channel)
    IN  [cfg EXCEPT !.profiles[r.name] = [prof EXCEPT !.channels[r.channel] = ch]]

MutatedChannel(r, cfg) ==
    EnsureMutationChannel(cfg.profiles[r.name], r.channel).channels[r.channel]

\* The pool is replaced; what the channel exposes is not touched.
PutModels(r, cfg) ==
    WithChannel(r, cfg, [MutatedChannel(r, cfg) EXCEPT !.pool = r.models])

SetExposedModels(r, cfg) ==
    WithChannel(r, cfg, [MutatedChannel(r, cfg) EXCEPT !.exposed = r.ids])

\* Mutant: the pool becomes what the upstream lists.
MergeFetched_Replaces(r, cfg) ==
    WithChannel(r, cfg, [MutatedChannel(r, cfg) EXCEPT !.pool =
        [m \in Models |-> IF m \in r.ids THEN "seed" ELSE "absent"]])

\* Only ids the latest pool does not have are appended.
MergeFetched(r, cfg) ==
    LET ch == MutatedChannel(r, cfg)
    IN  WithChannel(r, cfg, [ch EXCEPT !.pool =
            [m \in Models |-> IF m \in r.ids /\ ~InPool(ch, m) THEN "seed" ELSE ch.pool[m]]])

PutSettings(r, cfg) == [cfg EXCEPT !.source = r.source]

Effect(r, cfg) ==
    CASE r.op = "create"                   -> Create(r, cfg)
      [] r.op = "put"                      -> Put(r, cfg)
      [] r.op \in {"delete", "cliDelete"}  -> Delete(r, cfg)
      [] r.op = "use"                      -> Use(r, cfg)
      [] r.op = "duplicate"                -> Duplicate(r, cfg)
      [] r.op = "spoof"                    -> Spoof(r, cfg)
      [] r.op = "models"                   -> PutModels(r, cfg)
      [] r.op = "expose"                   -> SetExposedModels(r, cfg)
      [] r.op = "fetch"                    -> MergeFetched(r, cfg)
      [] r.op = "settings"                 -> PutSettings(r, cfg)
      [] r.op = "replace"                  -> r.config

-----------------------------------------------------------------------------
(* A whole call, as if it were alone with the file.                        *)

Allowed(r, file) ==
    r.op = "replace" \/ (file # Corrupt /\ Accepts(r, Loaded(file)))

Outcome(r, file) ==
    MigratedForSave(IF r.op = "replace" THEN r.config ELSE Effect(r, Loaded(file)))
=============================================================================
