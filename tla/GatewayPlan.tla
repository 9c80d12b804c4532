---------------------------- MODULE GatewayPlan ----------------------------
(***************************************************************************)
(* internal/gateway without its files: the plan that a publication of      *)
(* models.json follows.  A plan comes from the config, from what is        *)
(* published, and from what the caller submits: a draft of his own, or     *)
(* nothing, for which the config's proposal stands ("generated").          *)
(*                                                                         *)
(* A provider entry has models; of a model only the metadata (name, costs, *)
(* windows, ...) and the extras are told apart: the two keys of compat the *)
(* program writes itself, and "headers" for all it does not.               *)
(***************************************************************************)
EXTENDS Naturals, FiniteSets

CONSTANTS
    Channels,       \* supplier/channel; also the key of its legacy provider
    Strangers,      \* keys of other providers in models.json
    Models,
    Known,          \* models that models.dev describes
    Metas,          \* metadata somebody wrote
    Extras,         \* extras somebody wrote
    Reasoning,      \* metadata that says of a model that it reasons
    NoMeta, NoExtra, NoModel, NoEntry, NoChannel,
    Malformed,      \* a draft without a providers object
    Generated,      \* no draft was submitted
    Conflict        \* the plan that validation refuses

Fixed     == {"pi-switch-res", "pi-switch-chat"}
Providers == Fixed \cup Channels \cup Strangers

ExtraKeys == {"headers", "supportsDeveloperRole", "sendSessionAffinityHeaders"}

Model    == [meta  : Metas \cup {NoMeta, "config", "catalog"},
             extra : [ExtraKeys -> Extras \cup {NoExtra, "config"}]]
Entry    == [placeholder : BOOLEAN, valid : BOOLEAN, extra : Extras \cup {NoExtra},
             models : [Models -> Model \cup {NoModel}]]
Content  == [Providers -> Entry \cup {NoEntry}]
Channel  == [api : Fixed \cup {"other"}, exposed : SUBSET Models,
             reasons : SUBSET Models, opencode : BOOLEAN]
Config   == [Channels -> Channel \cup {NoChannel}]

ASSUME PlanAssumption ==
    /\ Fixed \cap (Channels \cup Strangers) = {} /\ Channels \cap Strangers = {}
    /\ Known \subseteq Models
    /\ NoMeta \notin Metas /\ NoExtra \notin Extras \cup {"config"}
    /\ Reasoning \subseteq Metas \cup {"catalog"}
    /\ NoModel \notin Model /\ NoEntry \notin Entry
    /\ {Malformed, Generated, Conflict} \cap Content = {}

Empty == [k \in Providers |-> NoEntry]
Has(content, k, m) == content[k] # NoEntry /\ content[k].models[m] # NoModel

\* The content with each model of it changed.
EachModel(content, changed(_, _, _)) ==
    [k \in Providers |->
        LET entry == content[k]
        IN  IF entry = NoEntry THEN NoEntry
            ELSE [entry EXCEPT !.models = [m \in Models |->
                    LET model == entry.models[m]
                    IN  IF model = NoModel THEN NoModel ELSE changed(k, m, model)]]]

\* Where both speak, the first does.
Or(extra, other) == IF extra = NoExtra THEN other ELSE extra
OrEach(extra, other) == [x \in ExtraKeys |-> Or(extra[x], other[x])]

-----------------------------------------------------------------------------
(* What the config proposes, and what models.dev adds                      *)

Sources(cfg, m)      == {ch \in Channels : cfg[ch] # NoChannel /\ m \in cfg[ch].exposed}
SourcesVia(cfg, k, m) == {ch \in Sources(cfg, m) : cfg[ch].api = k}

\* gatewayModelEntry writes compat for a model the pool says reasons, and the
\* caller for one behind opencode.ai.
ProposedExtra(cfg, k, m) ==
    [x \in ExtraKeys |->
        IF \E ch \in SourcesVia(cfg, k, m) :
              \/ x = "supportsDeveloperRole" /\ m \in cfg[ch].reasons
              \/ x = "sendSessionAffinityHeaders" /\ cfg[ch].opencode
        THEN "config" ELSE NoExtra]

\* A fixed provider with the models exposed through its API, if there are any.
Proposal(cfg) ==
    [k \in Providers |->
        IF k \in Fixed /\ \E m \in Models : SourcesVia(cfg, k, m) # {}
        THEN [placeholder |-> TRUE, valid |-> TRUE, extra |-> NoExtra,
              models |-> [m \in Models |-> IF SourcesVia(cfg, k, m) = {} THEN NoModel
                                           ELSE [meta |-> "config", extra |-> ProposedExtra(cfg, k, m)]]]
        ELSE NoEntry]

\* Enrichment sets the metadata of the models that models.dev describes: a
\* proposal is refreshed, a draft is only completed.
Enriched(content, overwrite) ==
    EachModel(content, LAMBDA k, m, model :
        IF m \in Known /\ (overwrite \/ model.meta = NoMeta)
        THEN [model EXCEPT !.meta = "catalog"] ELSE model)

FillOverwrite(content) == Enriched(content, TRUE)
FillMissing(content)   == Enriched(content, FALSE)

\* A selection names source and model; both must be in the config.
Selectable(cfg, chosen) ==
    \A pick \in chosen : cfg[pick[1]] # NoChannel /\ cfg[pick[1]].api \in Fixed
                          /\ pick[2] \in cfg[pick[1]].exposed

\* It keeps the selected models of the fixed providers.
Selected(cfg, content, chosen) ==
    LET kept(k) == {m \in Models : Has(content, k, m) /\ \E ch \in Channels :
                                       <<ch, m>> \in chosen /\ cfg[ch].api = k}
    IN  [k \in Providers |->
            IF k \in Fixed /\ kept(k) = {} THEN NoEntry
            ELSE EachModel(content, LAMBDA j, m, model :
                    IF j \in Fixed /\ m \notin kept(j) THEN NoModel ELSE model)[k]]

-----------------------------------------------------------------------------
(* What is merged into it from what is published                           *)

\* managedProviderKeys and isPiSwitchProvider.
Managed(cfg) == {ch \in Channels : cfg[ch] # NoChannel}
Ours(cfg, content, k) ==
    k \in Fixed \/ k \in Managed(cfg) \/ (content[k] # NoEntry /\ content[k].placeholder)

\* The metadata of the proposal wins always (a mutant).
MergedModel_Overwrites(old, new, preserve) ==
    [meta |-> new.meta, extra |-> OrEach(new.extra, old.extra)]

\* Published extras are dropped (a mutant).
MergedModel_DropsExtra(old, new, preserve) ==
    [meta  |-> IF preserve /\ old.meta # NoMeta THEN old.meta ELSE new.meta,
     extra |-> new.extra]

\* mergeGatewayExtra for one model: published extras stay, and published
\* metadata wins over a generated proposal but not over a draft.
MergedModel(old, new, preserve) ==
    [meta  |-> IF preserve /\ old.meta # NoMeta THEN old.meta ELSE new.meta,
     extra |-> OrEach(new.extra, old.extra)]

Merged(current, submitted, preserve) ==
    LET merged == EachModel(submitted, LAMBDA k, m, model :
            IF Has(current, k, m) THEN MergedModel(current[k].models[m], model, preserve) ELSE model)
    IN  [k \in Providers |->
            LET entry == merged[k]
            IN  IF entry = NoEntry \/ current[k] = NoEntry THEN entry
                ELSE [entry EXCEPT !.extra = Or(@, current[k].extra)]]

\* mergeLegacyProviderModels: the extras of a model under one of our earlier
\* provider keys go to the one fixed provider that carries the model now.
LegacyExtras(cfg, current, m, x) ==
    {current[k].models[m].extra[x] : k \in {k \in Providers \ Fixed :
        Has(current, k, m) /\ Ours(cfg, current, k)}} \ {NoExtra}

LegacyExtra(cfg, current, m) ==
    [x \in ExtraKeys |->
        LET found == LegacyExtras(cfg, current, m, x)
        IN  IF found = {} THEN NoExtra ELSE CHOOSE value \in found : TRUE]

WithLegacy(cfg, current, content) ==
    EachModel(content, LAMBDA k, m, model :
        IF k \in Fixed /\ \A j \in Fixed \ {k} : ~Has(content, j, m)
        THEN [model EXCEPT !.extra = OrEach(@, LegacyExtra(cfg, current, m))]
        ELSE model)

\* normalizeFixedGatewayModelCompat: a model that reasons has a developer role
\* or says that it has none.
Normalized(content) ==
    EachModel(content, LAMBDA k, m, model :
        IF k \in Fixed /\ model.meta \in Reasoning
        THEN [model EXCEPT !.extra["supportsDeveloperRole"] = Or(@, "config")]
        ELSE model)

\* Only what was submitted is published (a mutant).
Proposed_DropsStrangers(cfg, current, submitted, preserve) ==
    Normalized(WithLegacy(cfg, current, Merged(current, submitted, preserve)))

\* buildCanonicalProposedGateway: what is not ours is kept as it is.
Proposed(cfg, current, submitted, preserve) ==
    LET merged == Normalized(WithLegacy(cfg, current, Merged(current, submitted, preserve)))
    IN  [k \in Providers |->
            IF current[k] # NoEntry /\ ~Ours(cfg, current, k) THEN current[k] ELSE merged[k]]

-----------------------------------------------------------------------------
(* What speaks against it                                                  *)

\* ValidateProposedGateway.
Acceptable(cfg, proposed) ==
    /\ \A k \in Providers : proposed[k] # NoEntry =>
          IF k \in Fixed THEN proposed[k].valid ELSE ~proposed[k].placeholder
    /\ \A m \in Models : Cardinality(Sources(cfg, m)) <= 1

\* validateThirdPartyEdits.
StrangersUntouched(cfg, current, submitted) ==
    \A k \in Providers \ (Fixed \cup Managed(cfg)) : submitted[k] # NoEntry =>
        /\ current[k] # NoEntry
        /\ Ours(cfg, current, k) \/ submitted[k] = current[k]

\* The plan of a submission that is already enriched.
Checked(cfg, current, submitted, preserve) ==
    LET proposed == Proposed(cfg, current, submitted, preserve)
    IN  IF Acceptable(cfg, proposed) /\ StrangersUntouched(cfg, current, submitted)
        THEN proposed ELSE Conflict

\* BuildEnrichedGeneratedPlan, or a draft enriched and planned.
Plan(cfg, current, submitted) ==
    IF submitted = Malformed THEN Conflict
    ELSE IF submitted = Generated
    THEN Checked(cfg, current, FillOverwrite(Proposal(cfg)), TRUE)
    ELSE Checked(cfg, current, FillMissing(submitted), FALSE)
=============================================================================
