--------------------------- MODULE GatewayProofs ---------------------------
(***************************************************************************)
(* Proofs about GatewayPublish, for any config, drafts and publishers.     *)
(***************************************************************************)
EXTENDS GatewayPublish, TLAPS

-----------------------------------------------------------------------------
(* What plans are made of has the shape of a models.json.                  *)

LEMMA EmptyType == Empty \in Content
BY DEF Empty, Content

\* What a model may say under the keys of its extras.
Kinds == [ExtraKeys -> Extras \cup {NoExtra, "config"}]

LEMMA OrEachType ==
    ASSUME NEW a \in Kinds, NEW b \in Kinds
    PROVE  OrEach(a, b) \in Kinds /\ \A x \in ExtraKeys : OrEach(a, b)[x] = Or(a[x], b[x])
BY DEF OrEach, Or, Kinds

(* The proposal of a config.                                               *)
LEMMA ProposalType ==
    ASSUME NEW c \in Config
    PROVE  Proposal(c) \in Content
<1> DEFINE model(k, m) == [meta |-> "config", extra |-> ProposedExtra(c, k, m)]
           entry(k) == [placeholder |-> TRUE, valid |-> TRUE, extra |-> NoExtra,
              models |-> [m \in Models |-> IF SourcesVia(c, k, m) = {} THEN NoModel ELSE model(k, m)]]
<1>1. ASSUME NEW k \in Providers, NEW m \in Models
      PROVE  model(k, m) \in Model
  BY DEF ProposedExtra, Model
<1>2. Proposal(c) = [k \in Providers |->
          IF k \in Fixed /\ \E m \in Models : SourcesVia(c, k, m) # {} THEN entry(k) ELSE NoEntry]
  BY DEF Proposal
<1> HIDE DEF model
<1>3. ASSUME NEW k \in Providers
      PROVE  entry(k) \in Entry
  BY <1>1 DEF Entry
<1> HIDE DEF entry
<1>4. QED
  BY <1>2, <1>3 DEF Content

(* An enriched content.                                                    *)
LEMMA FillType ==
    ASSUME NEW content \in Content
    PROVE  FillOverwrite(content) \in Content /\ FillMissing(content) \in Content
<1>1. ASSUME NEW model \in Model
      PROVE  [model EXCEPT !.meta = "catalog"] \in Model
  BY DEF Model
<1>2. FillOverwrite(content) \in Content
  BY <1>1 DEF FillOverwrite, Enriched, EachModel, Content, Entry
<1>3. FillMissing(content) \in Content
  BY <1>1 DEF FillMissing, Enriched, EachModel, Content, Entry
<1>4. QED
  BY <1>2, <1>3

(* A selection of a content.                                               *)
LEMMA SelectedType ==
    ASSUME NEW c \in Config, NEW content \in Content, NEW chosen
    PROVE  Selected(c, content, chosen) \in Content
BY DEF Selected, EachModel, Content, Entry

(* A model merged with its published form.                                 *)
LEMMA MergedModelType ==
    ASSUME NEW old \in Model, NEW new \in Model, NEW preserve \in BOOLEAN
    PROVE  MergedModel(old, new, preserve) \in Model
<1>1. OrEach(new.extra, old.extra) \in Kinds
  BY OrEachType DEF Model, Kinds
<1>2. QED
  BY <1>1 DEF MergedModel, Model, Kinds

LEMMA MergedType ==
    ASSUME NEW cur \in Content, NEW submitted \in Content, NEW preserve \in BOOLEAN
    PROVE  Merged(cur, submitted, preserve) \in Content
<1> DEFINE new(k, m, model) ==
        IF Has(cur, k, m) THEN MergedModel(cur[k].models[m], model, preserve) ELSE model
    merged == [k \in Providers |->
        IF submitted[k] = NoEntry THEN NoEntry
        ELSE [submitted[k] EXCEPT !.models = [m \in Models |->
                IF submitted[k].models[m] = NoModel THEN NoModel
                ELSE new(k, m, submitted[k].models[m])]]]
<1>1. \A k \in Providers, m \in Models, model \in Model : new(k, m, model) \in Model
  BY MergedModelType DEF Has, Content, Entry
<1>2. Merged(cur, submitted, preserve) = [k \in Providers |->
          IF merged[k] = NoEntry \/ cur[k] = NoEntry THEN merged[k]
          ELSE [merged[k] EXCEPT !.extra = Or(@, cur[k].extra)]]
  BY DEF Merged, EachModel
<1> HIDE DEF new
<1>3. merged \in Content
  BY <1>1 DEF Content, Entry
<1> HIDE DEF merged
<1>4. QED
  BY <1>2, <1>3 DEF Or, Content, Entry

LEMMA LegacyExtraType ==
    ASSUME NEW c \in Config, NEW cur \in Content, NEW m \in Models
    PROVE  /\ LegacyExtra(c, cur, m) \in Kinds
           /\ \A x \in ExtraKeys : LegacyExtras(c, cur, m, x) = {} => LegacyExtra(c, cur, m)[x] = NoExtra
<1>1. ASSUME NEW x \in ExtraKeys
      PROVE  LegacyExtras(c, cur, m, x) \subseteq Extras \cup {NoExtra, "config"}
  <2>1. ASSUME NEW k \in Providers, Has(cur, k, m)
        PROVE  cur[k].models[m].extra[x] \in Extras \cup {NoExtra, "config"}
    <3>1. cur[k].models[m] \in Model
      BY <2>1 DEF Has, Content, Entry
    <3>2. QED
      BY <3>1 DEF Model
  <2>2. QED
    BY <2>1 DEF LegacyExtras
<1> DEFINE chosen(x) == CHOOSE value \in LegacyExtras(c, cur, m, x) : TRUE
<1>2. ASSUME NEW x \in ExtraKeys, LegacyExtras(c, cur, m, x) # {}
      PROVE  chosen(x) \in Extras \cup {NoExtra, "config"}
  BY <1>1, <1>2
<1>3. LegacyExtra(c, cur, m) = [x \in ExtraKeys |->
          IF LegacyExtras(c, cur, m, x) = {} THEN NoExtra ELSE chosen(x)]
  BY DEF LegacyExtra
<1> HIDE DEF chosen
<1>4. QED
  BY <1>2, <1>3 DEF Kinds

\* The extras of a model with those of earlier versions.
Moved(c, cur, m, model) == [model EXCEPT !.extra = OrEach(@, LegacyExtra(c, cur, m))]

LEMMA MovedParts ==
    ASSUME NEW c \in Config, NEW cur \in Content, NEW m \in Models, NEW model \in Model
    PROVE  LET moved == Moved(c, cur, m, model)
           IN  /\ moved \in Model /\ moved.meta = model.meta
               /\ \A x \in ExtraKeys : model.extra[x] # NoExtra \/ LegacyExtras(c, cur, m, x) = {}
                     => moved.extra[x] = model.extra[x]
<1> DEFINE extra == OrEach(model.extra, LegacyExtra(c, cur, m))
<1>1. model.extra \in Kinds
  BY DEF Model, Kinds
<1>2. extra \in Kinds
      /\ \A x \in ExtraKeys : extra[x] = Or(model.extra[x], LegacyExtra(c, cur, m)[x])
  BY <1>1, LegacyExtraType, OrEachType
<1>3. \A x \in ExtraKeys : model.extra[x] # NoExtra \/ LegacyExtras(c, cur, m, x) = {}
          => extra[x] = model.extra[x]
  BY <1>2, LegacyExtraType DEF Or
<1>4. Moved(c, cur, m, model) = [model EXCEPT !.extra = extra]
  BY DEF Moved
<1> HIDE DEF extra
<1>5. QED
  BY <1>2, <1>3, <1>4 DEF Model, Kinds

LEMMA LegacyType ==
    ASSUME NEW c \in Config, NEW cur \in Content, NEW content \in Content
    PROVE  WithLegacy(c, cur, content) \in Content
<1> DEFINE new(k, m, model) ==
        IF k \in Fixed /\ (\A j \in Fixed \ {k} : ~Has(content, j, m))
        THEN Moved(c, cur, m, model) ELSE model
<1>1. \A k \in Providers, m \in Models, model \in Model : new(k, m, model) \in Model
  BY MovedParts
<1>2. WithLegacy(c, cur, content) = [k \in Providers |->
        IF content[k] = NoEntry THEN NoEntry
        ELSE [content[k] EXCEPT !.models = [m \in Models |->
                IF content[k].models[m] = NoModel THEN NoModel
                ELSE new(k, m, content[k].models[m])]]]
  BY DEF WithLegacy, EachModel, Moved
<1> HIDE DEF new
<1>3. QED
  BY <1>1, <1>2 DEF Content, Entry

\* A model that has a developer role or says that it has none.
Role == "supportsDeveloperRole"
Stated(model) == [model EXCEPT !.extra[Role] = Or(@, "config")]

LEMMA StatedParts ==
    ASSUME NEW model \in Model
    PROVE  /\ Stated(model) \in Model /\ Stated(model).meta = model.meta
           /\ Stated(model).extra[Role] = Or(model.extra[Role], "config")
           /\ \A x \in ExtraKeys \ {Role} : Stated(model).extra[x] = model.extra[x]
<1>1. model.extra \in Kinds /\ Role \in ExtraKeys
  BY DEF Model, Kinds, ExtraKeys, Role
<1> DEFINE extra == [model.extra EXCEPT ![Role] = Or(@, "config")]
<1>2. /\ extra \in Kinds /\ extra[Role] = Or(model.extra[Role], "config")
      /\ \A x \in ExtraKeys \ {Role} : extra[x] = model.extra[x]
  BY <1>1 DEF Kinds, Or
<1>3. Stated(model) = [model EXCEPT !.extra = extra]
  BY DEF Stated, Model
<1> HIDE DEF extra
<1>4. QED
  BY <1>2, <1>3 DEF Model, Kinds

LEMMA NormalType ==
    ASSUME NEW content \in Content
    PROVE  Normalized(content) \in Content
<1> DEFINE new(k, model) == IF k \in Fixed /\ model.meta \in Reasoning THEN Stated(model) ELSE model
<1>1. \A k \in Providers, model \in Model : new(k, model) \in Model
  BY StatedParts
<1>2. Normalized(content) = [k \in Providers |->
        IF content[k] = NoEntry THEN NoEntry
        ELSE [content[k] EXCEPT !.models = [m \in Models |->
                IF content[k].models[m] = NoModel THEN NoModel
                ELSE new(k, content[k].models[m])]]]
  BY DEF Normalized, EachModel, Stated, Role
<1> HIDE DEF new
<1>3. QED
  BY <1>1, <1>2 DEF Content, Entry

\* What a submission that was merged gets before the entries of others.
Completed(c, cur, content) == Normalized(WithLegacy(c, cur, content))

LEMMA CompletedType ==
    ASSUME NEW c \in Config, NEW cur \in Content, NEW content \in Content
    PROVE  Completed(c, cur, content) \in Content
BY LegacyType, NormalType DEF Completed

(* A plan that is not refused can be written.                              *)
LEMMA PlanType ==
    ASSUME NEW c \in Config, NEW cur \in Content,
           NEW submitted \in Content \cup {Malformed, Generated}
    PROVE  Plan(c, cur, submitted) \in Content \cup {Conflict}
<1>1. ASSUME NEW content \in Content, NEW preserve \in BOOLEAN
      PROVE  Checked(c, cur, content, preserve) \in Content \cup {Conflict}
  <2>1. Completed(c, cur, Merged(cur, content, preserve)) \in Content
    BY MergedType, CompletedType
  <2>2. Proposed(c, cur, content, preserve) \in Content
    BY <2>1 DEF Proposed, Completed, Content
  <2>3. QED
    BY <2>2 DEF Checked
<1>2. QED
  BY <1>1, ProposalType, FillType DEF Plan

(* A plan that is not refused has the entries of others as they were.      *)
LEMMA PlanKeeps ==
    ASSUME NEW c \in Config, NEW cur \in Content,
           NEW submitted, NEW k \in Providers,
           Plan(c, cur, submitted) # Conflict,
           cur[k] # NoEntry, ~Ours(c, cur, k)
    PROVE  Plan(c, cur, submitted)[k] = cur[k]
<1>1. \A content, preserve : Proposed(c, cur, content, preserve)[k] = cur[k]
  BY DEF Proposed
<1>2. \A content, preserve : Checked(c, cur, content, preserve) # Conflict
          => Checked(c, cur, content, preserve)[k] = cur[k]
  BY <1>1 DEF Checked
<1>3. QED
  BY <1>2 DEF Plan

(* A model of a content, and the entry it is in.                           *)
LEMMA Parts ==
    ASSUME NEW content \in Content, NEW k \in Providers
    PROVE  /\ content[k] # NoEntry =>
                 /\ content[k] \in Entry
                 /\ content[k] = [placeholder |-> content[k].placeholder, valid |-> content[k].valid,
                                  extra |-> content[k].extra, models |-> content[k].models]
                 /\ content[k].models \in [Models -> Model \cup {NoModel}]
           /\ \A m \in Models : Has(content, k, m) =>
                 /\ content[k].models[m] \in Model
                 /\ content[k].models[m] = [meta |-> content[k].models[m].meta,
                                            extra |-> content[k].models[m].extra]
<1>1. content[k] \in Entry \cup {NoEntry}
  BY DEF Content
<1>2. ASSUME content[k] # NoEntry
      PROVE  /\ content[k] \in Entry
             /\ content[k] = [placeholder |-> content[k].placeholder, valid |-> content[k].valid,
                              extra |-> content[k].extra, models |-> content[k].models]
             /\ content[k].models \in [Models -> Model \cup {NoModel}]
  BY <1>1, <1>2 DEF Entry
<1>3. ASSUME NEW m \in Models, Has(content, k, m)
      PROVE  content[k].models[m] \in Model
  BY <1>2, <1>3 DEF Has
<1>4. \A x \in Model : x = [meta |-> x.meta, extra |-> x.extra]
  BY DEF Model
<1>5. QED
  BY <1>2, <1>3, <1>4

(* What merging does to one entry and to one model.                        *)
LEMMA MergedParts ==
    ASSUME NEW cur \in Content, NEW sub \in Content, NEW b \in BOOLEAN, NEW k \in Providers
    PROVE  LET made == Merged(cur, sub, b)[k]
           IN  /\ sub[k] = NoEntry => made = NoEntry
               /\ sub[k] # NoEntry =>
                     /\ made # NoEntry
                     /\ made.placeholder = sub[k].placeholder /\ made.valid = sub[k].valid
                     /\ made.extra = IF cur[k] = NoEntry THEN sub[k].extra ELSE Or(sub[k].extra, cur[k].extra)
                     /\ \A m \in Models : made.models[m] =
                           IF sub[k].models[m] = NoModel THEN NoModel
                           ELSE IF Has(cur, k, m) THEN MergedModel(cur[k].models[m], sub[k].models[m], b)
                           ELSE sub[k].models[m]
<1> DEFINE changed == [m \in Models |->
              IF sub[k].models[m] = NoModel THEN NoModel
              ELSE IF Has(cur, k, m) THEN MergedModel(cur[k].models[m], sub[k].models[m], b)
              ELSE sub[k].models[m]]
           one == IF sub[k] = NoEntry THEN NoEntry ELSE [sub[k] EXCEPT !.models = changed]
<1>1. Merged(cur, sub, b)[k] =
          IF one = NoEntry \/ cur[k] = NoEntry THEN one ELSE [one EXCEPT !.extra = Or(@, cur[k].extra)]
  BY DEF Merged, EachModel
<1>2. CASE sub[k] = NoEntry
  BY <1>1, <1>2
<1>3. CASE sub[k] # NoEntry
  <2>1. sub[k] \in Entry
    BY <1>3, Parts
  <2> HIDE DEF changed
  <2>2. /\ one.placeholder = sub[k].placeholder /\ one.valid = sub[k].valid
        /\ one.extra = sub[k].extra /\ one.models = changed
        /\ [one EXCEPT !.extra = Or(@, cur[k].extra)].placeholder = sub[k].placeholder
        /\ [one EXCEPT !.extra = Or(@, cur[k].extra)].valid = sub[k].valid
        /\ [one EXCEPT !.extra = Or(@, cur[k].extra)].extra = Or(sub[k].extra, cur[k].extra)
        /\ [one EXCEPT !.extra = Or(@, cur[k].extra)].models = changed
    BY <1>3, <2>1 DEF Entry
  <2>3. Merged(cur, sub, b)[k] # NoEntry
    <3>1. one \in Entry
      <4>1. \A m \in Models : changed[m] \in Model \cup {NoModel}
        <5> SUFFICES ASSUME NEW m \in Models PROVE changed[m] \in Model \cup {NoModel}
          OBVIOUS
        <5>1. sub[k].models[m] \in Model \cup {NoModel}
          BY <2>1 DEF Entry
        <5>2. Has(cur, k, m) => cur[k].models[m] \in Model
          BY Parts
        <5>3. QED
          BY <5>1, <5>2, MergedModelType DEF changed
      <4>2. one \in Entry
        BY <1>3, <2>1, <4>1 DEF Entry, changed
      <4>3. QED
        BY <4>2
    <3>2. one \in Entry /\ cur[k] # NoEntry => [one EXCEPT !.extra = Or(@, cur[k].extra)] \in Entry
      BY Parts DEF Entry, Or
    <3>3. QED
      BY <1>1, <3>1, <3>2, PlanAssumption
  <2>4. \A m \in Models : changed[m] =
            IF sub[k].models[m] = NoModel THEN NoModel
            ELSE IF Has(cur, k, m) THEN MergedModel(cur[k].models[m], sub[k].models[m], b)
            ELSE sub[k].models[m]
    BY DEF changed
  <2> HIDE DEF one
  <2>5. QED
    BY <1>1, <1>3, <2>2, <2>3, <2>4
<1>4. QED
  BY <1>2, <1>3

(* What a change of its models does to an entry.                           *)
LEMMA EntryParts ==
    ASSUME NEW entry \in Entry \cup {NoEntry}, NEW moved \in [Models -> Model \cup {NoModel}], NEW made,
           made = IF entry = NoEntry THEN NoEntry ELSE [entry EXCEPT !.models = moved]
    PROVE  /\ entry = NoEntry => made = NoEntry
           /\ entry # NoEntry =>
                 /\ made # NoEntry /\ made.extra = entry.extra /\ made.models = moved
                 /\ made.placeholder = entry.placeholder /\ made.valid = entry.valid
<1>1. CASE entry # NoEntry
  <2>1. [entry EXCEPT !.models = moved] \in Entry
    BY <1>1 DEF Entry
  <2>2. QED
    BY <1>1, <2>1, PlanAssumption DEF Entry
<1>2. QED
  BY <1>1

(* What the extras of earlier versions, and the developer role, do to one  *)
(* entry and to one model.                                                 *)
LEMMA CompletedParts ==
    ASSUME NEW c \in Config, NEW cur \in Content, NEW content \in Content, NEW k \in Providers
    PROVE  LET made == Completed(c, cur, content)[k]
           IN  /\ content[k] = NoEntry => made = NoEntry
               /\ content[k] # NoEntry =>
                     /\ made # NoEntry /\ made.extra = content[k].extra
                     /\ made.placeholder = content[k].placeholder /\ made.valid = content[k].valid
                     /\ \A m \in Models :
                           /\ content[k].models[m] = NoModel => made.models[m] = NoModel
                           /\ content[k].models[m] # NoModel =>
                                 LET old == content[k].models[m]
                                     new == made.models[m]
                                 IN  /\ new # NoModel /\ new.meta = old.meta
                                     /\ \A x \in ExtraKeys :
                                           /\ old.extra[x] # NoExtra => new.extra[x] = old.extra[x]
                                           /\ k \in Fixed /\ x = Role /\ old.meta \in Reasoning
                                                 => new.extra[x] # NoExtra
                                           /\ LegacyExtras(c, cur, m, x) = {}
                                              /\ ~(k \in Fixed /\ x = Role /\ old.meta \in Reasoning)
                                                 => new.extra[x] = old.extra[x]
<1> DEFINE moves(m) == k \in Fixed /\ \A j \in Fixed \ {k} : ~Has(content, j, m)
           one(m) == IF moves(m) THEN Moved(c, cur, m, content[k].models[m]) ELSE content[k].models[m]
           two(m) == IF k \in Fixed /\ one(m).meta \in Reasoning THEN Stated(one(m)) ELSE one(m)
           mid  == WithLegacy(c, cur, content)
           made == Completed(c, cur, content)[k]
<1>1. mid \in Content
  BY LegacyType
<1>2. ASSUME NEW m \in Models, Has(content, k, m)
      PROVE  /\ one(m) \in Model /\ two(m) \in Model /\ two(m).meta = content[k].models[m].meta
             /\ \A x \in ExtraKeys :
                   LET old == content[k].models[m]
                       new == two(m)
                   IN  /\ old.extra[x] # NoExtra => new.extra[x] = old.extra[x]
                       /\ k \in Fixed /\ x = Role /\ old.meta \in Reasoning => new.extra[x] # NoExtra
                       /\ LegacyExtras(c, cur, m, x) = {}
                          /\ ~(k \in Fixed /\ x = Role /\ old.meta \in Reasoning)
                             => new.extra[x] = old.extra[x]
  <2>1. content[k].models[m] \in Model
    BY <1>2, Parts
  <2>2. /\ one(m) \in Model /\ one(m).meta = content[k].models[m].meta
        /\ \A x \in ExtraKeys :
              content[k].models[m].extra[x] # NoExtra \/ LegacyExtras(c, cur, m, x) = {}
                  => one(m).extra[x] = content[k].models[m].extra[x]
    BY <2>1, MovedParts
  <2> HIDE DEF one
  <2>3. /\ two(m) \in Model /\ two(m).meta = one(m).meta
        /\ \A x \in ExtraKeys :
              /\ one(m).extra[x] # NoExtra => two(m).extra[x] = one(m).extra[x]
              /\ k \in Fixed /\ x = Role /\ one(m).meta \in Reasoning => two(m).extra[x] # NoExtra
              /\ ~(k \in Fixed /\ x = Role /\ one(m).meta \in Reasoning)
                    => two(m).extra[x] = one(m).extra[x]
    BY <2>2, StatedParts, PlanAssumption DEF Or
  <2> HIDE DEF two
  <2>4. QED
    BY <2>2, <2>3
<1> DEFINE ones == [m \in Models |-> IF Has(content, k, m) THEN one(m) ELSE NoModel]
           three(m) == IF k \in Fixed /\ mid[k].models[m].meta \in Reasoning
                       THEN Stated(mid[k].models[m]) ELSE mid[k].models[m]
           threes == [m \in Models |-> IF Has(mid, k, m) THEN three(m) ELSE NoModel]
<1>3. mid[k] = IF content[k] = NoEntry THEN NoEntry ELSE [content[k] EXCEPT !.models = ones]
  BY DEF WithLegacy, EachModel, Moved, Has
<1>4. made = IF mid[k] = NoEntry THEN NoEntry ELSE [mid[k] EXCEPT !.models = threes]
  BY DEF Completed, Normalized, EachModel, Stated, Role, Has
<1> HIDE DEF one, two, mid, made
<1>5. /\ content[k] = NoEntry => mid[k] = NoEntry
      /\ content[k] # NoEntry =>
            /\ mid[k] # NoEntry /\ mid[k].extra = content[k].extra /\ mid[k].models = ones
            /\ mid[k].placeholder = content[k].placeholder /\ mid[k].valid = content[k].valid
  <2>1. ones \in [Models -> Model \cup {NoModel}] /\ content[k] \in Entry \cup {NoEntry}
    BY <1>2 DEF Content
  <2> HIDE DEF ones
  <2>2. QED
    BY <1>3, <2>1, EntryParts
<1>6. /\ mid[k] = NoEntry => made = NoEntry
      /\ mid[k] # NoEntry =>
            /\ made # NoEntry /\ made.extra = mid[k].extra /\ made.models = threes
            /\ made.placeholder = mid[k].placeholder /\ made.valid = mid[k].valid
  <2>1. \A m \in Models : Has(mid, k, m) => three(m) \in Model
    BY <1>1, Parts, StatedParts
  <2> HIDE DEF three
  <2>2. threes \in [Models -> Model \cup {NoModel}] /\ mid[k] \in Entry \cup {NoEntry}
    BY <1>1, <2>1 DEF Content
  <2> HIDE DEF threes
  <2>3. QED
    BY <1>4, <2>2, EntryParts
<1>7. ASSUME NEW m \in Models, content[k] # NoEntry, content[k].models[m] # NoModel
      PROVE  made.models[m] = two(m) /\ two(m) # NoModel /\ Has(content, k, m)
  <2>1. Has(content, k, m) /\ one(m) # NoModel /\ two(m) # NoModel
    BY <1>2, <1>7, PlanAssumption DEF Has
  <2>2. mid[k].models[m] = one(m) /\ Has(mid, k, m)
    BY <1>5, <1>7, <2>1 DEF Has
  <2>3. QED
    BY <1>5, <1>6, <1>7, <2>1, <2>2 DEF two
<1>8. ASSUME NEW m \in Models, content[k] # NoEntry, content[k].models[m] = NoModel
      PROVE  made.models[m] = NoModel
  <2>1. mid[k].models[m] = NoModel
    BY <1>5, <1>8 DEF Has
  <2>2. QED
    BY <1>5, <1>6, <1>8, <2>1 DEF Has
<1> HIDE DEF ones, three, threes
<1>9. QED
  BY <1>2, <1>5, <1>6, <1>7, <1>8 DEF made

(* Enrichment keeps which models there are, and their extras.              *)
LEMMA FillParts ==
    ASSUME NEW content \in Content, NEW k \in Providers
    PROVE  /\ FillMissing(content)[k] = NoEntry <=> content[k] = NoEntry
           /\ FillOverwrite(content)[k] = NoEntry <=> content[k] = NoEntry
           /\ content[k] # NoEntry => \A m \in Models :
                 /\ FillOverwrite(content)[k].models[m] = NoModel <=> content[k].models[m] = NoModel
                 /\ content[k].models[m] # NoModel =>
                       FillOverwrite(content)[k].models[m].extra = content[k].models[m].extra
<1> DEFINE one(o, m) == IF content[k].models[m] = NoModel THEN NoModel
                        ELSE IF m \in Known /\ (o \/ content[k].models[m].meta = NoMeta)
                        THEN [content[k].models[m] EXCEPT !.meta = "catalog"] ELSE content[k].models[m]
<1>1. \A o \in BOOLEAN : Enriched(content, o)[k] =
          IF content[k] = NoEntry THEN NoEntry ELSE [content[k] EXCEPT !.models = [m \in Models |-> one(o, m)]]
  BY DEF Enriched, EachModel
<1>2. CASE content[k] = NoEntry
  BY <1>1, <1>2 DEF FillMissing, FillOverwrite
<1>3. CASE content[k] # NoEntry
  <2>1. content[k] \in Entry
    BY <1>3, Parts
  <2>2. ASSUME NEW o \in BOOLEAN, NEW m \in Models
        PROVE  /\ one(o, m) \in Model \cup {NoModel}
               /\ one(o, m) = NoModel <=> content[k].models[m] = NoModel
               /\ content[k].models[m] # NoModel => one(o, m).extra = content[k].models[m].extra
    <3>1. content[k].models[m] # NoModel => content[k].models[m] \in Model
      BY <2>1 DEF Entry
    <3>2. \A x \in Model : [x EXCEPT !.meta = "catalog"] \in Model /\ [x EXCEPT !.meta = "catalog"].extra = x.extra
      BY DEF Model
    <3>3. QED
      BY <3>1, <3>2, PlanAssumption
  <2> HIDE DEF one
  <2>3. ASSUME NEW o \in BOOLEAN
        PROVE  /\ Enriched(content, o)[k] # NoEntry
               /\ \A m \in Models : Enriched(content, o)[k].models[m] = one(o, m)
    <3>1. [content[k] EXCEPT !.models = [m \in Models |-> one(o, m)]] \in Entry
      BY <2>1, <2>2 DEF Entry
    <3>2. [content[k] EXCEPT !.models = [m \in Models |-> one(o, m)]].models = [m \in Models |-> one(o, m)]
      BY <2>1 DEF Entry
    <3>3. QED
      BY <1>1, <1>3, <3>1, <3>2, PlanAssumption
  <2>4. QED
    BY <1>3, <2>2, <2>3 DEF FillMissing, FillOverwrite
<1>4. QED
  BY <1>2, <1>3

(* Completing a draft leaves the rest of an entry, and an entry to which   *)
(* models.dev has nothing to add, as it was.                               *)
LEMMA FillKeeps ==
    ASSUME NEW content \in Content, NEW k \in Providers, content[k] # NoEntry
    PROVE  /\ FillMissing(content)[k].placeholder = content[k].placeholder
           /\ FillMissing(content)[k].valid = content[k].valid
           /\ (\A m \in Known : Has(content, k, m) => content[k].models[m].meta # NoMeta)
                 => FillMissing(content)[k] = content[k]
<1> DEFINE one(m) == IF content[k].models[m] = NoModel THEN NoModel
                     ELSE IF m \in Known /\ content[k].models[m].meta = NoMeta
                     THEN [content[k].models[m] EXCEPT !.meta = "catalog"] ELSE content[k].models[m]
           filled == [m \in Models |-> one(m)]
<1>1. FillMissing(content)[k] = [content[k] EXCEPT !.models = filled]
  BY DEF FillMissing, Enriched, EachModel
<1>2. content[k] \in Entry /\ content[k].models \in [Models -> Model \cup {NoModel}]
  BY Parts
<1>3. ASSUME \A m \in Known : Has(content, k, m) => content[k].models[m].meta # NoMeta
      PROVE  filled = content[k].models
  <2>1. \A m \in Models : one(m) = content[k].models[m]
    BY <1>3 DEF Has
  <2>2. content[k].models = [m \in Models |-> content[k].models[m]]
    BY <1>2
  <2> HIDE DEF one
  <2>3. QED
    BY <2>1, <2>2
<1> HIDE DEF filled
<1>4. QED
  BY <1>1, <1>2, <1>3 DEF Entry

\* What other providers' owners wrote says all that models.dev could add.
Described(c, cur) ==
    \A k \in Providers : cur[k] # NoEntry /\ ~Ours(c, cur, k) =>
        \A m \in Known : Has(cur, k, m) => cur[k].models[m].meta # NoMeta

(* A plan that is not refused can be submitted as a draft, if enrichment   *)
(* has nothing to add to the entries of others in it.                      *)
LEMMA PlanAgain ==
    ASSUME NEW c \in Config, NEW cur \in Content,
           NEW sub \in Content \cup {Malformed, Generated},
           Plan(c, cur, sub) # Conflict, Described(c, cur)
    PROVE  Plan(c, cur, Plan(c, cur, sub)) # Conflict
<1> DEFINE Theirs(k) == cur[k] # NoEntry /\ ~Ours(c, cur, k)
<1>1. PICK content \in Content, b \in BOOLEAN :
         /\ Plan(c, cur, sub) = Proposed(c, cur, content, b)
         /\ Acceptable(c, Proposed(c, cur, content, b))
         /\ StrangersUntouched(c, cur, content)
  <2>1. PICK content \in Content, b \in BOOLEAN : Plan(c, cur, sub) = Checked(c, cur, content, b)
    BY ProposalType, FillType DEF Plan
  <2>2. QED
    BY <2>1 DEF Checked
<1> DEFINE made  == Proposed(c, cur, content, b)
           full  == FillMissing(made)
           again == Proposed(c, cur, full, FALSE)
<1>2. made \in Content /\ full \in Content
  BY <1>1, PlanType, FillType
<1>3. ASSUME NEW k \in Providers, Theirs(k)
      PROVE  made[k] = cur[k] /\ full[k] = cur[k] /\ again[k] = cur[k]
  <2>1. made[k] = cur[k] /\ again[k] = cur[k]
    BY <1>3 DEF Proposed
  <2>2. \A m \in Known : Has(made, k, m) => made[k].models[m].meta # NoMeta
    BY <1>3, <2>1 DEF Described, Has
  <2> HIDE DEF made
  <2>3. full[k] = made[k]
    BY <1>2, <1>3, <2>1, <2>2, FillKeeps
  <2>4. QED
    BY <2>1, <2>3
<1>4. ASSUME NEW k \in Providers, ~Theirs(k), made[k] # NoEntry
      PROVE  content[k] # NoEntry
  <2>1. made[k] = Completed(c, cur, Merged(cur, content, b))[k]
    BY <1>4 DEF Proposed, Completed
  <2> DEFINE merged == Merged(cur, content, b)
  <2> HIDE DEF made
  <2>2. merged \in Content
    BY MergedType
  <2> HIDE DEF merged
  <2>3. merged[k] # NoEntry
    BY <1>4, <2>1, <2>2, CompletedParts DEF merged
  <2>4. QED
    BY <2>3, MergedParts DEF merged
<1>5. ASSUME NEW k \in Providers, ~Theirs(k), again[k] # NoEntry
      PROVE  /\ made[k] # NoEntry
             /\ again[k].placeholder = made[k].placeholder /\ again[k].valid = made[k].valid
  <2> DEFINE merged == Merged(cur, full, FALSE)
  <2>1. again[k] = Completed(c, cur, merged)[k]
    BY <1>5 DEF Proposed, Completed
  <2> HIDE DEF full, made, again
  <2>2. merged \in Content
    BY <1>2, MergedType
  <2> HIDE DEF merged
  <2>3. merged[k] # NoEntry
        /\ again[k].placeholder = merged[k].placeholder /\ again[k].valid = merged[k].valid
    BY <1>5, <2>1, <2>2, CompletedParts
  <2>4. full[k] # NoEntry
        /\ merged[k].placeholder = full[k].placeholder /\ merged[k].valid = full[k].valid
    BY <1>2, <2>3, MergedParts DEF merged
  <2>5. made[k] # NoEntry
        /\ full[k].placeholder = made[k].placeholder /\ full[k].valid = made[k].valid
    BY <1>2, <2>4, FillParts, FillKeeps DEF full
  <2>6. QED
    BY <2>3, <2>4, <2>5
<1> HIDE DEF made, full, again
<1>6. Acceptable(c, again)
  <2>1. \A m \in Models : Cardinality(Sources(c, m)) <= 1
    BY <1>1 DEF Acceptable
  <2>2. ASSUME NEW k \in Providers, again[k] # NoEntry
        PROVE  IF k \in Fixed THEN again[k].valid ELSE ~again[k].placeholder
    <3>1. CASE Theirs(k)
      BY <1>3, <3>1 DEF Ours
    <3>2. CASE ~Theirs(k)
      <4>1. made[k] # NoEntry
            /\ again[k].placeholder = made[k].placeholder /\ again[k].valid = made[k].valid
        BY <1>5, <2>2, <3>2
      <4>2. IF k \in Fixed THEN made[k].valid ELSE ~made[k].placeholder
        BY <1>1, <4>1 DEF Acceptable, made
      <4>3. QED
        BY <4>1, <4>2
    <3>3. QED
      BY <3>1, <3>2
  <2>3. QED
    BY <2>1, <2>2 DEF Acceptable
<1>7. StrangersUntouched(c, cur, full)
  <2> SUFFICES ASSUME NEW k \in Providers \ (Fixed \cup Managed(c)), full[k] # NoEntry
               PROVE  cur[k] # NoEntry /\ (Ours(c, cur, k) \/ full[k] = cur[k])
    BY DEF StrangersUntouched
  <2>1. CASE Theirs(k)
    BY <1>3, <2>1
  <2>2. CASE ~Theirs(k)
    <3>1. made[k] # NoEntry
      BY <1>2, FillParts DEF full
    <3>2. content[k] # NoEntry
      BY <1>4, <2>2, <3>1
    <3>3. cur[k] # NoEntry
      BY <1>1, <3>2 DEF StrangersUntouched
    <3>4. QED
      BY <2>2, <3>3
  <2>3. QED
    BY <2>1, <2>2
<1>8. again \in Content
  <2>1. Completed(c, cur, Merged(cur, full, FALSE)) \in Content
    BY <1>2, MergedType, CompletedType
  <2>2. QED
    BY <2>1 DEF again, Proposed, Completed, Content
<1>9. Plan(c, cur, made) = again
  <2>1. made # Malformed /\ made # Generated
    BY <1>2, PlanAssumption
  <2>2. Plan(c, cur, made) = Checked(c, cur, full, FALSE)
    BY <2>1 DEF Plan, full
  <2>3. QED
    BY <1>6, <1>7, <2>2 DEF Checked, again
<1>10. QED
  BY <1>1, <1>8, <1>9, PlanAssumption DEF made

(* A generated plan keeps what is published of a model that stays, but for *)
(* the compat the config proposes.                                         *)
LEMMA GeneratedKeeps ==
    ASSUME NEW c \in Config, NEW cur \in Content, NEW k \in Fixed, NEW m \in Models,
           Plan(c, cur, Generated) # Conflict,
           Has(cur, k, m), Has(Plan(c, cur, Generated), k, m)
    PROVE  LET old == cur[k].models[m]
               new == Plan(c, cur, Generated)[k].models[m]
           IN  /\ old.meta # NoMeta => new.meta = old.meta
               /\ \A x \in ExtraKeys : old.extra[x] # NoExtra /\ ProposedExtra(c, k, m)[x] = NoExtra
                     => new.extra[x] = old.extra[x]
<1> DEFINE sub == FillOverwrite(Proposal(c))
           merged == Merged(cur, sub, TRUE)
           made == Plan(c, cur, Generated)
<1>1. k \in Providers
  BY DEF Providers
<1>2. sub \in Content /\ merged \in Content
  BY ProposalType, FillType, MergedType
<1>3. made[k] = Completed(c, cur, merged)[k]
  <2>1. made = Proposed(c, cur, sub, TRUE)
    BY DEF Plan, Checked
  <2>2. QED
    BY <1>1, <2>1 DEF Proposed, Completed, Ours
<1>4. sub[k] # NoEntry /\ sub[k].models[m] # NoModel
  <2> HIDE DEF merged, sub
  <2>1. merged[k] # NoEntry /\ merged[k].models[m] # NoModel
    BY <1>1, <1>2, <1>3, CompletedParts DEF Has
  <2>2. QED
    BY <1>1, <1>2, <2>1, MergedParts DEF merged
<1>5. sub[k].models[m].extra = ProposedExtra(c, k, m)
  <2>1. Proposal(c)[k] # NoEntry /\ Proposal(c)[k].models[m] # NoModel
    BY <1>1, <1>4, ProposalType, FillParts
  <2>2. Proposal(c)[k].models[m].extra = ProposedExtra(c, k, m)
    BY <1>1, <2>1 DEF Proposal
  <2>3. QED
    BY <1>1, <2>1, <2>2, ProposalType, FillParts
<1> HIDE DEF sub
<1>6. merged[k] # NoEntry /\ merged[k].models[m] = MergedModel(cur[k].models[m], sub[k].models[m], TRUE)
  BY <1>1, <1>2, <1>4, MergedParts
<1>7. cur[k].models[m] \in Model /\ sub[k].models[m] \in Model /\ merged[k].models[m] # NoModel
  <2>1. cur[k].models[m] \in Model /\ sub[k].models[m] \in Model
    BY <1>1, <1>2, <1>4, Parts DEF Has
  <2>2. QED
    BY <1>6, <2>1, MergedModelType, PlanAssumption
<1> HIDE DEF merged
<1>8. /\ cur[k].models[m].meta # NoMeta => merged[k].models[m].meta = cur[k].models[m].meta
      /\ \A x \in ExtraKeys : ProposedExtra(c, k, m)[x] = NoExtra
            => merged[k].models[m].extra[x] = cur[k].models[m].extra[x]
  <2>1. \A x \in ExtraKeys : merged[k].models[m].extra[x]
            = Or(sub[k].models[m].extra[x], cur[k].models[m].extra[x])
    BY <1>6, <1>7, OrEachType DEF MergedModel, Model, Kinds
  <2>2. QED
    BY <1>5, <1>6, <2>1 DEF MergedModel, Or
<1> HIDE DEF made
<1>9. /\ made[k].models[m].meta = merged[k].models[m].meta
      /\ \A x \in ExtraKeys : merged[k].models[m].extra[x] # NoExtra
            => made[k].models[m].extra[x] = merged[k].models[m].extra[x]
  <2> DEFINE done == Completed(c, cur, merged)[k]
  <2>1. /\ done.models[m].meta = merged[k].models[m].meta
        /\ \A x \in ExtraKeys : merged[k].models[m].extra[x] # NoExtra
              => done.models[m].extra[x] = merged[k].models[m].extra[x]
    BY <1>1, <1>2, <1>6, <1>7, CompletedParts
  <2>2. QED
    BY <1>3, <2>1
<1>10. QED
  BY <1>8, <1>9 DEF made

LEMMA SameModel ==
    ASSUME NEW one \in Model, NEW two \in Model, one.meta = two.meta,
           \A x \in ExtraKeys : one.extra[x] = two.extra[x]
    PROVE  one = two
<1>1. one.extra = two.extra
  BY DEF Model
<1>2. QED
  BY <1>1 DEF Model

(* A submission that names none of our providers but the fixed ones is     *)
(* planned to what it was planned to already.                              *)
LEMMA ProposedAgain ==
    ASSUME NEW c \in Config, NEW cur \in Content, NEW sub \in Content, NEW b \in BOOLEAN,
           \A k \in Providers \ Fixed : sub[k] # NoEntry => ~Ours(c, cur, k),
           StrangersUntouched(c, cur, sub)
    PROVE  LET made == Proposed(c, cur, sub, b)
           IN  Proposed(c, made, sub, b) = made /\ StrangersUntouched(c, made, sub)
<1> DEFINE merged1 == Merged(cur, sub, b)
           made == Proposed(c, cur, sub, b)
           merged2 == Merged(made, sub, b)
           again == Proposed(c, made, sub, b)
           Theirs(k) == cur[k] # NoEntry /\ ~Ours(c, cur, k)
<1>1. merged1 \in Content /\ Completed(c, cur, merged1) \in Content
  BY MergedType, CompletedType
<1>2. \A k \in Providers : made[k] = IF Theirs(k) THEN cur[k] ELSE Completed(c, cur, merged1)[k]
  BY DEF Proposed, Completed
<1>3. made \in Content
  BY <1>1, <1>2 DEF Proposed, Content
<1>4. merged2 \in Content /\ Completed(c, made, merged2) \in Content
  BY <1>3, MergedType, CompletedType
<1>5. \A k \in Providers : again[k] = IF made[k] # NoEntry /\ ~Ours(c, made, k) THEN made[k]
                                      ELSE Completed(c, made, merged2)[k]
  BY DEF Proposed, Completed
<1>6. \A k \in Providers : Theirs(k) => made[k] = cur[k] /\ ~Ours(c, made, k)
  BY <1>2 DEF Ours
<1>7. \A k \in Providers : sub[k] # NoEntry => k \in Fixed \/ Theirs(k)
  BY DEF StrangersUntouched, Ours
<1>8. \A k \in Providers : sub[k] = NoEntry => Theirs(k) \/ made[k] = NoEntry
  BY <1>1, <1>2, MergedParts, CompletedParts
<1> HIDE DEF made, again, merged1, merged2, Theirs
\* No extras of an earlier version are left to move.
<1>9. \A m \in Models, x \in ExtraKeys : LegacyExtras(c, made, m, x) = {}
  <2>1. \A k \in Providers \ Fixed : made[k] # NoEntry => ~Ours(c, made, k)
    BY <1>6, <1>7, <1>8
  <2>2. QED
    BY <2>1 DEF LegacyExtras, Has
<1>10. ASSUME NEW k \in Providers, ~Theirs(k), sub[k] = NoEntry
       PROVE  again[k] = made[k]
  <2>1. made[k] = NoEntry
    BY <1>8, <1>10
  <2>2. Completed(c, made, merged2)[k] = NoEntry
    BY <1>3, <1>4, <1>10, MergedParts, CompletedParts DEF merged2
  <2>3. QED
    BY <1>5, <2>1, <2>2
<1>11. ASSUME NEW k \in Fixed, sub[k] # NoEntry
       PROVE  again[k] = made[k]
  <2>1. k \in Providers /\ ~Theirs(k)
    BY DEF Providers, Theirs, Ours
  <2>2. made[k] = Completed(c, cur, merged1)[k] /\ again[k] = Completed(c, made, merged2)[k]
    BY <1>2, <1>5, <2>1 DEF Ours
  <2>3. merged1[k] # NoEntry /\ merged2[k] # NoEntry
    BY <1>3, <1>11, <2>1, MergedParts DEF merged1, merged2
  <2>4. made[k] # NoEntry /\ again[k] # NoEntry
    BY <1>1, <1>3, <1>4, <2>1, <2>2, <2>3, CompletedParts
  <2>5. made[k].placeholder = again[k].placeholder /\ made[k].valid = again[k].valid
    <3>1. /\ merged1[k].placeholder = sub[k].placeholder /\ merged1[k].valid = sub[k].valid
          /\ merged2[k].placeholder = sub[k].placeholder /\ merged2[k].valid = sub[k].valid
      BY <1>3, <1>11, <2>1, MergedParts DEF merged1, merged2
    <3>2. QED
      BY <1>1, <1>3, <1>4, <2>1, <2>2, <2>3, <3>1, CompletedParts
  <2>6. made[k].extra = again[k].extra
    <3>1. merged1[k].extra = IF cur[k] = NoEntry THEN sub[k].extra ELSE Or(sub[k].extra, cur[k].extra)
      BY <1>11, <2>1, MergedParts DEF merged1
    <3>2. merged2[k].extra = Or(sub[k].extra, made[k].extra)
      BY <1>3, <1>11, <2>1, <2>4, MergedParts DEF merged2
    <3>3. made[k].extra = merged1[k].extra /\ again[k].extra = merged2[k].extra
      BY <1>1, <1>3, <1>4, <2>1, <2>2, <2>3, CompletedParts
    <3>4. QED
      BY <3>1, <3>2, <3>3 DEF Or
  <2>7. ASSUME NEW m \in Models
        PROVE  made[k].models[m] = again[k].models[m]
    <3> DEFINE one == sub[k].models[m]
    <3>1. CASE one = NoModel
      <4>1. merged1[k].models[m] = NoModel /\ merged2[k].models[m] = NoModel
        BY <1>3, <1>11, <2>1, <3>1, MergedParts DEF merged1, merged2
      <4>2. QED
        BY <1>1, <1>3, <1>4, <2>1, <2>2, <2>3, <4>1, CompletedParts
    <3>2. CASE one # NoModel
      <4>1. merged1[k].models[m] = IF Has(cur, k, m) THEN MergedModel(cur[k].models[m], one, b) ELSE one
        BY <1>11, <2>1, <3>2, MergedParts DEF merged1
      <4>2. one \in Model
        BY <1>11, <2>1, <3>2, Parts DEF Has
      <4>3. merged1[k].models[m] \in Model
        <5>1. Has(cur, k, m) => cur[k].models[m] \in Model
          BY <2>1, Parts
        <5>2. QED
          BY <4>1, <4>2, <5>1, MergedModelType
      <4>4. /\ Has(made, k, m) /\ made[k].models[m].meta = merged1[k].models[m].meta
            /\ \A x \in ExtraKeys :
                  /\ merged1[k].models[m].extra[x] # NoExtra =>
                        made[k].models[m].extra[x] = merged1[k].models[m].extra[x]
                  /\ x = Role /\ merged1[k].models[m].meta \in Reasoning =>
                        made[k].models[m].extra[x] # NoExtra
        <5> DEFINE done == Completed(c, cur, merged1)[k]
        <5>1. merged1[k].models[m] # NoModel
          BY <4>3, PlanAssumption
        <5>2. /\ done.models[m] # NoModel /\ done.models[m].meta = merged1[k].models[m].meta
              /\ \A x \in ExtraKeys :
                    /\ merged1[k].models[m].extra[x] # NoExtra =>
                          done.models[m].extra[x] = merged1[k].models[m].extra[x]
                    /\ x = Role /\ merged1[k].models[m].meta \in Reasoning =>
                          done.models[m].extra[x] # NoExtra
          BY <1>1, <2>1, <2>3, <5>1, CompletedParts
        <5> HIDE DEF done
        <5>3. QED
          BY <2>2, <2>4, <5>2 DEF Has, done
      <4>5. merged2[k].models[m] = MergedModel(made[k].models[m], one, b)
        BY <1>3, <1>11, <2>1, <3>2, <4>4, MergedParts DEF merged2
      <4>6. made[k].models[m] \in Model /\ merged2[k].models[m] \in Model
        <5>1. made[k].models[m] \in Model
          BY <1>3, <2>1, <4>4, Parts
        <5>2. QED
          BY <4>2, <4>5, <5>1, MergedModelType
      <4>7. /\ Has(again, k, m) /\ again[k].models[m].meta = merged2[k].models[m].meta
            /\ \A x \in ExtraKeys :
                  /\ merged2[k].models[m].extra[x] # NoExtra =>
                        again[k].models[m].extra[x] = merged2[k].models[m].extra[x]
                  /\ ~(x = Role /\ merged2[k].models[m].meta \in Reasoning) =>
                        again[k].models[m].extra[x] = merged2[k].models[m].extra[x]
        <5> DEFINE done == Completed(c, made, merged2)[k]
        <5>1. merged2[k].models[m] # NoModel
          BY <4>6, PlanAssumption
        <5>2. /\ done.models[m] # NoModel /\ done.models[m].meta = merged2[k].models[m].meta
              /\ \A x \in ExtraKeys :
                    /\ merged2[k].models[m].extra[x] # NoExtra =>
                          done.models[m].extra[x] = merged2[k].models[m].extra[x]
                    /\ ~(x = Role /\ merged2[k].models[m].meta \in Reasoning) =>
                          done.models[m].extra[x] = merged2[k].models[m].extra[x]
          BY <1>3, <1>4, <1>9, <2>1, <2>3, <5>1, CompletedParts
        <5> HIDE DEF done
        <5>3. QED
          BY <2>2, <2>4, <5>2 DEF Has, done
      <4>8. merged2[k].models[m].meta = made[k].models[m].meta
        BY <4>1, <4>4, <4>5 DEF MergedModel
      <4>9. ASSUME NEW x \in ExtraKeys
            PROVE  again[k].models[m].extra[x] = made[k].models[m].extra[x]
        <5>1. one.extra[x] # NoExtra => merged1[k].models[m].extra[x] = one.extra[x]
          <6>1. CASE Has(cur, k, m)
            <7>1. cur[k].models[m] \in Model
              BY <2>1, <6>1, Parts
            <7>2. merged1[k].models[m].extra[x] = Or(one.extra[x], cur[k].models[m].extra[x])
              BY <4>1, <4>2, <6>1, <7>1, OrEachType DEF MergedModel, Model, Kinds
            <7>3. QED
              BY <7>2 DEF Or
          <6>2. QED
            BY <4>1, <6>1
        <5>2. merged2[k].models[m].extra[x] = Or(one.extra[x], made[k].models[m].extra[x])
          BY <4>2, <4>5, <4>6, OrEachType DEF MergedModel, Model, Kinds
        <5>3. CASE made[k].models[m].extra[x] # NoExtra
          <6>1. merged2[k].models[m].extra[x] = made[k].models[m].extra[x]
            BY <4>4, <5>1, <5>2 DEF Or
          <6>2. QED
            BY <4>7, <5>3, <6>1
        <5>4. CASE made[k].models[m].extra[x] = NoExtra
          <6>1. merged2[k].models[m].extra[x] = NoExtra
            BY <4>4, <5>1, <5>2, <5>4 DEF Or
          <6>2. ~(x = Role /\ merged2[k].models[m].meta \in Reasoning)
            BY <4>4, <4>8, <5>4
          <6>3. QED
            BY <4>7, <5>4, <6>1, <6>2
        <5>5. QED
          BY <5>3, <5>4
      <4>10. again[k].models[m] \in Model
        <5>1. again[k] = Completed(c, made, merged2)[k]
          BY <2>2
        <5>2. again[k].models[m] \in Model \cup {NoModel}
          BY <1>4, <2>1, <2>4, <5>1 DEF Content, Entry
        <5>3. QED
          BY <4>7, <5>2 DEF Has
      <4>11. QED
        BY <4>6, <4>7, <4>8, <4>9, <4>10, SameModel
    <3>3. QED
      BY <3>1, <3>2
  <2>8. made[k] \in Entry /\ again[k] \in Entry
    BY <1>3, <1>4, <2>1, <2>2, <2>4 DEF Content
  <2>9. made[k].models = again[k].models
    BY <2>7, <2>8 DEF Entry
  <2>10. QED
    BY <2>5, <2>6, <2>8, <2>9 DEF Entry
<1>12. \A k \in Providers : again[k] = made[k]
  <2>1. ASSUME NEW k \in Providers, Theirs(k) PROVE again[k] = made[k]
    BY <1>5, <1>6, <2>1 DEF Theirs
  <2>2. QED
    BY <1>7, <1>10, <1>11, <2>1
<1>13. again = made
  BY <1>12 DEF again, made, Proposed
<1>14. StrangersUntouched(c, made, sub)
  <2> SUFFICES ASSUME NEW k \in Providers \ (Fixed \cup Managed(c)), sub[k] # NoEntry
               PROVE  made[k] # NoEntry /\ sub[k] = made[k]
    BY DEF StrangersUntouched
  <2>1. Theirs(k)
    BY <1>7
  <2>2. QED
    BY <1>6, <2>1 DEF StrangersUntouched, Theirs
<1>15. QED
  BY <1>13, <1>14 DEF again, made

-----------------------------------------------------------------------------
(* The inductive invariant                                                 *)

(* What is about to be written has the shape of a models.json.             *)
PlanReady == \A p \in Publishers : pc[p] \in {"open", "write", "rename"} => plan[p] \in Content

(* The temporary file belongs to one publisher, from opening to renaming.  *)
OwnTemp ==
    ~crossed => \A p \in Publishers :
        /\ pc[p] = "write" => holds[p] = "tmp" /\ tmp = Blank
        /\ pc[p] = "rename" => tmp = plan[p]
        /\ pc[p] \in {"write", "rename"} =>
              \A q \in Publishers \ {p} : pc[q] \notin {"write", "rename"}

(* Nobody gets past a file that does not parse.                            *)
NoneGotPast == models = Corrupt => \A p \in Publishers : pc[p] \in {"idle", "read"}

IInv == TypeOK /\ PlanReady /\ OwnTemp /\ NoneGotPast /\ WholeUnlessCrossed

(* A publication that nobody overtook goes by the config and the file as   *)
(* they are, and has the temporary file to itself.                         *)
FreshAt(p) ==
    /\ p \notin Tui => cfg[p] = config
    /\ pc[p] = "plan" => Readable /\ current[p] = OnDisk
    /\ pc[p] \in {"open", "write", "rename"} => Readable /\ plan[p] = Plan(cfg[p], OnDisk, draft[p])
    /\ pc[p] = "write" => holds[p] = "tmp" /\ tmp = Blank
    /\ pc[p] = "rename" => tmp = plan[p]
    /\ pc[p] \in {"write", "rename"} => \A q \in Publishers \ {p} : pc[q] \notin {"write", "rename"}

Fresh == \A p \in Publishers \ overtaken : pc[p] # "idle" => FreshAt(p)

(* A call that goes on has no answer yet.                                  *)
NoneAnswered == \A p \in Publishers : pc[p] # "idle" => result[p] = "none"

FreshInv == IInv /\ Fresh /\ NoneAnswered

(* It holds at the start.                                                  *)
LEMMA InitInv == Init => IInv
<1> SUFFICES ASSUME Init PROVE IInv
  OBVIOUS
<1>1. TypeOK
  <2>1. models \in Content \cup Unreadable \cup {Missing}
    BY PublishAssumption DEF Init, Unreadable
  <2>2. /\ calls \in [Publishers -> 0..MaxCalls]
        /\ edits \in 0..MaxEdits /\ changes \in 0..MaxChanges
    BY PublishAssumption DEF Init
  <2>3. current \in [Publishers -> Content]
    BY EmptyType DEF Init
  <2>4. QED
    BY <2>1, <2>2, <2>3 DEF Init, TypeOK
<1>2. PlanReady /\ OwnTemp /\ NoneGotPast
  BY DEF Init, PlanReady, OwnTemp, NoneGotPast
<1>3. models \notin {Blank, Garbled}
  BY PublishAssumption DEF Init
<1>4. QED
  BY <1>1, <1>2, <1>3 DEF IInv, WholeUnlessCrossed

(* What a call submits when it begins.                                     *)
LEMMA BeginType ==
    ASSUME TypeOK, NEW p \in Publishers, pc[p] = "idle", calls[p] < MaxCalls,
           NEW submitted \in Content \cup {Generated, Malformed},
           Begin(p, submitted), UNCHANGED config
    PROVE  /\ draft' \in [Publishers -> Content \cup {Generated, Malformed}]
           /\ cfg' \in [Publishers -> Configs]
           /\ pc' = [pc EXCEPT ![p] = "read"]
           /\ result' \in [Publishers -> {"none", "published", "rejected", "failed"}]
           /\ overtaken' \subseteq Publishers
           /\ calls' \in [Publishers -> 0..MaxCalls]
BY PublishAssumption DEF TypeOK, Begin, LoadConfig, Goto

(* An edit leaves a content.                                               *)
LEMMA EditType ==
    ASSUME TypeOK, Edit
    PROVE  models' \in Content
<1> DEFINE before == IF models = Missing THEN Empty ELSE models
<1> PICK k \in Strangers, entry \in StrangerEntries \cup {NoEntry} :
        models' = [before EXCEPT ![k] = entry]
  BY DEF Edit
<1>1. before \in Content
  BY EmptyType DEF Edit, TypeOK
<1> HIDE DEF before
<1>2. QED
  BY <1>1, PublishAssumption DEF Content, Providers

(* The type invariant is preserved.                                        *)
LEMMA TypeStep ==
    ASSUME IInv, [Next]_vars
    PROVE  TypeOK'
<1> USE DEF IInv
<1>0. ASSUME NEW p \in Publishers, StartTui(p) PROVE TypeOK'
  BY <1>0 DEF StartTui, TypeOK, world, ghosts, bounds
<1>1. ASSUME NEW p \in Publishers, Publish(p) PROVE TypeOK'
  <2> PICK submitted \in Drafts : Begin(p, submitted)
    BY <1>1 DEF Publish
  <2>1. submitted \in Content \cup {Generated, Malformed}
    BY PublishAssumption
  <2>2. QED
    BY <1>1, <2>1, BeginType DEF Publish, TypeOK, world
<1>2. ASSUME NEW p \in Publishers, Preview(p) PROVE TypeOK'
  <2> PICK submitted \in Drafts \ {Malformed}, chosen \in Picks \cup {Everything} :
          IF chosen = Everything THEN Begin(p, submitted)
          ELSE Begin(p, Selected(config, IF submitted = Generated THEN Proposal(config) ELSE submitted, chosen))
    BY <1>2 DEF Preview
  <2> DEFINE whole == IF submitted = Generated THEN Proposal(config) ELSE submitted
  <2>1. submitted \in Content \cup {Generated} /\ config \in Config
    BY PublishAssumption DEF TypeOK
  <2>2. Selected(config, whole, chosen) \in Content
    <3>1. whole \in Content
      BY <2>1, ProposalType
    <3> HIDE DEF whole
    <3>2. QED
      BY <2>1, <3>1, SelectedType
  <2> HIDE DEF whole
  <2>3. \E d \in Content \cup {Generated, Malformed} : Begin(p, d)
    BY <2>1, <2>2 DEF whole
  <2>4. QED
    BY <1>2, <2>3, BeginType DEF Preview, TypeOK, world
<1>3. ASSUME NEW p \in Publishers, ReadCurrent(p) PROVE TypeOK'
  BY <1>3, EmptyType DEF ReadCurrent, Answer, Goto, TypeOK, world, ghosts, bounds
<1>4. ASSUME NEW p \in Publishers, MakePlan(p) PROVE TypeOK'
  <2> DEFINE made == Plan(cfg[p], current[p], draft[p])
  <2>1. made \in Content \cup {Conflict}
    BY PlanType, PublishAssumption DEF TypeOK
  <2> HIDE DEF made
  <2>2. CASE made = Conflict
    BY <1>4, <2>2, EmptyType DEF MakePlan, made, Answer, Goto, TypeOK, world, ghosts, bounds
  <2>3. CASE made # Conflict /\ stage[p] = "preview"
    BY <1>4, <2>1, <2>3, EmptyType DEF MakePlan, made, LoadConfig, Goto, TypeOK, world, ghosts,
       bounds
  <2>4. CASE made # Conflict /\ stage[p] # "preview"
    BY <1>4, <2>1, <2>4, EmptyType DEF MakePlan, made, Goto, TypeOK, world, ghosts, bounds
  <2>5. QED
    BY <2>2, <2>3, <2>4
<1>5. ASSUME NEW p \in Publishers, OpenTemp(p) PROVE TypeOK'
  BY <1>5 DEF OpenTemp, Goto, TypeOK, bounds
<1>6. ASSUME NEW p \in Publishers, WriteTemp(p) PROVE TypeOK'
  <2>1. plan[p] \in Content
    BY <1>6 DEF WriteTemp, PlanReady
  <2>2. tmp' \in Content \cup {Blank, Garbled, NoFile} /\ models' \in Content \cup Unreadable \cup {Missing}
    BY <1>6, <2>1 DEF WriteTemp, Written, TypeOK, Unreadable
  <2>3. QED
    BY <1>6, <2>2 DEF WriteTemp, Active, Goto, TypeOK, bounds
<1>7. ASSUME NEW p \in Publishers, Rename(p) PROVE TypeOK'
  BY <1>7 DEF Rename, Replaced, Active, Goto, TypeOK, bounds, Unreadable
<1>8. ASSUME NEW p \in Publishers, Stops(p) PROVE TypeOK'
  BY <1>8, EmptyType DEF Stops, Answer, Goto, TypeOK, world, ghosts, bounds
<1>9. ASSUME Edit PROVE TypeOK'
  <2>2. models' \in Content
    BY <1>9, EditType
  <2>3. edits' \in 0..MaxEdits
    BY <1>9, PublishAssumption DEF Edit, TypeOK
  <2>4. QED
    BY <1>9, <2>2, <2>3 DEF Edit, Active, TypeOK
<1>10. ASSUME ChangeConfig PROVE TypeOK'
  BY <1>10, PublishAssumption DEF ChangeConfig, Active, TypeOK, local
<1>11. CASE UNCHANGED vars
  BY <1>11 DEF vars, world, local, ghosts, bounds, TypeOK
<1>12. QED
  BY <1>0, <1>1, <1>2, <1>3, <1>4, <1>5, <1>6, <1>7, <1>8, <1>9, <1>10, <1>11 DEF Next

(* So is that plans to be written are whole.                               *)
LEMMA PlanStep ==
    ASSUME IInv, [Next]_vars
    PROVE  PlanReady'
<1> USE DEF IInv
<1>1. ASSUME NEW p \in Publishers, MakePlan(p) PROVE PlanReady'
  <2>1. Plan(cfg[p], current[p], draft[p]) \in Content \cup {Conflict}
    BY PlanType, PublishAssumption DEF TypeOK
  <2>2. QED
    BY <1>1, <2>1 DEF MakePlan, Answer, Goto, PlanReady, TypeOK
<1>2. ASSUME NEW p \in Publishers,
             StartTui(p) \/ Publish(p) \/ Preview(p) \/ ReadCurrent(p)
             \/ OpenTemp(p) \/ WriteTemp(p) \/ Rename(p) \/ Stops(p)
      PROVE  PlanReady'
  <2>1. \A q \in Publishers : pc'[q] \in {"open", "write", "rename"} =>
            pc[q] \in {"open", "write", "rename"} /\ plan'[q] = plan[q]
    BY <1>2 DEF StartTui, Publish, Preview, Begin, ReadCurrent, OpenTemp, WriteTemp, Rename,
                Stops, Answer, Goto, TypeOK
  <2>2. QED
    BY <2>1 DEF PlanReady
<1>3. CASE Edit \/ ChangeConfig \/ UNCHANGED vars
  BY <1>3 DEF Edit, ChangeConfig, vars, local, PlanReady
<1>4. QED
  BY <1>1, <1>2, <1>3 DEF Next

(* So is that the temporary file has one owner.                            *)
LEMMA TempStep ==
    ASSUME IInv, [Next]_vars
    PROVE  OwnTemp'
<1> USE DEF IInv
<1> SUFFICES ASSUME ~crossed'
             PROVE  \A p \in Publishers :
                      /\ pc'[p] = "write" => holds'[p] = "tmp" /\ tmp' = Blank
                      /\ pc'[p] = "rename" => tmp' = plan'[p]
                      /\ pc'[p] \in {"write", "rename"} =>
                            \A q \in Publishers \ {p} : pc'[q] \notin {"write", "rename"}
  BY DEF OwnTemp
<1> DEFINE Late == {q \in Publishers : pc[q] \in {"write", "rename"}}
<1>1. ASSUME NEW p \in Publishers,
             StartTui(p) \/ Publish(p) \/ Preview(p) \/ ReadCurrent(p) \/ MakePlan(p) \/ Stops(p)
      PROVE  /\ ~crossed /\ tmp' = tmp
             /\ \A q \in Publishers : pc'[q] \in {"write", "rename"} =>
                   pc'[q] = pc[q] /\ holds'[q] = holds[q] /\ plan'[q] = plan[q]
  BY <1>1 DEF StartTui, Publish, Preview, Begin, ReadCurrent, MakePlan, Stops, Answer, Goto,
              TypeOK, world, ghosts
<1>2. ASSUME NEW p \in Publishers,
             StartTui(p) \/ Publish(p) \/ Preview(p) \/ ReadCurrent(p) \/ MakePlan(p) \/ Stops(p)
      PROVE  OwnTemp'
  BY <1>1, <1>2 DEF OwnTemp
<1>3. ASSUME NEW p \in Publishers, OpenTemp(p) PROVE OwnTemp'
  BY <1>3 DEF OpenTemp, Goto, OwnTemp, TypeOK
<1>4. ASSUME NEW p \in Publishers, WriteTemp(p) PROVE OwnTemp'
  BY <1>4 DEF WriteTemp, Written, Goto, OwnTemp, TypeOK
<1>5. ASSUME NEW p \in Publishers, Rename(p) PROVE OwnTemp'
  BY <1>5 DEF Rename, Goto, OwnTemp, TypeOK
<1>6. CASE Edit
  BY <1>6 DEF Edit, OwnTemp, TypeOK
<1>7. CASE ChangeConfig \/ UNCHANGED vars
  BY <1>7 DEF ChangeConfig, vars, local, world, ghosts, OwnTemp
<1>8. QED
  BY <1>2, <1>3, <1>4, <1>5, <1>6, <1>7 DEF Next, OwnTemp

(* So is that nobody gets past a file that does not parse.                 *)
LEMMA PastStep ==
    ASSUME IInv, [Next]_vars
    PROVE  NoneGotPast' /\ (models = Corrupt => models' = Corrupt)
<1> USE DEF IInv
<1>1. Corrupt \notin Content \cup {Blank, Garbled, Missing}
  BY PublishAssumption
<1>2. CASE models = Corrupt
  <2>1. \A p \in Publishers : pc[p] \in {"idle", "read"}
    BY <1>2 DEF NoneGotPast
  <2>2. models \in Unreadable
    BY <1>2 DEF Unreadable
  <2>3. ASSUME NEW p \in Publishers,
               StartTui(p) \/ Publish(p) \/ Preview(p) \/ ReadCurrent(p) \/ Stops(p)
        PROVE  models' = models /\ \A q \in Publishers : pc'[q] \in {"idle", "read"}
    BY <2>1, <2>2, <2>3 DEF StartTui, Publish, Preview, Begin, ReadCurrent, Stops, Answer, Goto,
                            TypeOK, world
  <2>4. ASSUME NEW p \in Publishers, MakePlan(p) \/ OpenTemp(p) \/ WriteTemp(p) \/ Rename(p)
        PROVE  FALSE
    BY <2>1, <2>4 DEF MakePlan, OpenTemp, WriteTemp, Rename
  <2>5. ~Edit
    BY <2>2 DEF Edit
  <2>6. ASSUME ChangeConfig \/ UNCHANGED vars
        PROVE  models' = models /\ \A q \in Publishers : pc'[q] \in {"idle", "read"}
    BY <2>1, <2>6 DEF ChangeConfig, vars, local, world
  <2>7. models' = models /\ \A q \in Publishers : pc'[q] \in {"idle", "read"}
    BY <2>1, <2>3, <2>4, <2>5, <2>6 DEF Next
  <2>8. QED
    BY <1>2, <2>7 DEF NoneGotPast
<1>3. CASE models # Corrupt
  <2>1. ASSUME NEW p \in Publishers,
               StartTui(p) \/ Publish(p) \/ Preview(p) \/ ReadCurrent(p) \/ MakePlan(p)
               \/ OpenTemp(p) \/ Stops(p)
        PROVE  models' = models
    BY <2>1 DEF StartTui, Publish, Preview, ReadCurrent, MakePlan, OpenTemp, Stops, world
  <2>2. ASSUME NEW p \in Publishers, WriteTemp(p) PROVE models' # Corrupt
    <3>1. plan[p] \in Content
      BY <2>2 DEF WriteTemp, PlanReady
    <3>2. QED
      BY <1>1, <1>3, <2>2, <3>1 DEF WriteTemp, Written
  <2>3. ASSUME NEW p \in Publishers, Rename(p) PROVE models' # Corrupt
    BY <1>1, <1>3, <2>3 DEF Rename, TypeOK
  <2>4. ASSUME Edit PROVE models' # Corrupt
    <3>1. models' \in Content
      BY <2>4, EditType
    <3>2. QED
      BY <1>1, <3>1
  <2>5. ASSUME ChangeConfig \/ UNCHANGED vars PROVE models' = models
    BY <2>5 DEF ChangeConfig, vars, world
  <2>6. models' # Corrupt
    BY <1>3, <2>1, <2>2, <2>3, <2>4, <2>5 DEF Next
  <2>7. QED
    BY <1>3, <2>6 DEF NoneGotPast
<1>4. QED
  BY <1>2, <1>3

(* So is that readers meet whole files.                                    *)
LEMMA WholeStep ==
    ASSUME IInv, [Next]_vars
    PROVE  WholeUnlessCrossed'
<1> USE DEF IInv
<1> DEFINE Torn == {Blank, Garbled}
<1>1. SUFFICES ASSUME ~crossed' PROVE models' \notin Torn
  BY DEF WholeUnlessCrossed
<1>2. Torn \cap Content = {}
  BY PublishAssumption
<1>3. ASSUME ~crossed PROVE models \notin Torn
  BY <1>3 DEF WholeUnlessCrossed
<1> HIDE DEF Torn
<1>4. ASSUME NEW p \in Publishers,
             StartTui(p) \/ Publish(p) \/ Preview(p) \/ ReadCurrent(p) \/ MakePlan(p) \/ Stops(p)
      PROVE  models' \notin Torn
  BY <1>1, <1>3, <1>4 DEF StartTui, Publish, Preview, ReadCurrent, MakePlan, Stops, world, ghosts
<1>5. ASSUME NEW p \in Publishers, OpenTemp(p) PROVE models' \notin Torn
  BY <1>1, <1>3, <1>5 DEF OpenTemp
<1>6. ASSUME NEW p \in Publishers, WriteTemp(p) PROVE models' \notin Torn
  BY <1>1, <1>3, <1>6 DEF WriteTemp, OwnTemp
<1>7. ASSUME NEW p \in Publishers, Rename(p) PROVE models' \notin Torn
  <2>1. ~crossed /\ tmp = plan[p] /\ plan[p] \in Content
    BY <1>1, <1>7 DEF Rename, OwnTemp, PlanReady
  <2>2. QED
    BY <1>2, <1>3, <1>7, <2>1 DEF Rename
<1>8. ASSUME Edit PROVE models' \notin Torn
  BY <1>2, <1>8, EditType
<1>9. ASSUME ChangeConfig \/ UNCHANGED vars PROVE models' \notin Torn
  BY <1>1, <1>3, <1>9 DEF ChangeConfig, vars, world, ghosts
<1>10. QED
  BY <1>4, <1>5, <1>6, <1>7, <1>8, <1>9 DEF Next

(* A step of another leaves a publication that nobody overtook what it has.*)
LEMMA OthersFresh ==
    ASSUME Fresh, NEW p \in Publishers, NEW q \in Publishers \ {p},
           q \notin overtaken, pc[q] # "idle",
           UNCHANGED <<config, models>>, pc'[q] = pc[q], cfg'[q] = cfg[q], draft'[q] = draft[q],
           current'[q] = current[q], plan'[q] = plan[q], holds'[q] = holds[q],
           pc[q] \in {"write", "rename"} =>
              tmp' = tmp /\ \A r \in Publishers \ {q} : pc'[r] \in {"write", "rename"} => pc[r] \in {"write", "rename"}
    PROVE  FreshAt(q)'
<1>1. FreshAt(q)
  BY DEF Fresh
<1>2. OnDisk' = OnDisk /\ (Readable => Readable')
  BY DEF OnDisk, Readable
<1>3. Plan(cfg'[q], OnDisk', draft'[q]) = Plan(cfg[q], OnDisk, draft[q])
  BY <1>2
<1>4. QED
  BY <1>1, <1>2, <1>3 DEF FreshAt

(* No step but its own touches a publication's part of the state.          *)
LEMMA FreshStep ==
    ASSUME FreshInv, [Next]_vars
    PROVE  Fresh'
<1> USE DEF FreshInv, IInv
<1> SUFFICES ASSUME NEW q \in Publishers \ overtaken', pc'[q] # "idle" PROVE FreshAt(q)'
  BY DEF Fresh
<1>1. ASSUME NEW p \in Publishers, q # p,
             StartTui(p) \/ Publish(p) \/ Preview(p) \/ ReadCurrent(p) \/ MakePlan(p) \/ Stops(p)
      PROVE  FreshAt(q)'
  <2>1. q \notin overtaken /\ UNCHANGED <<config, models, tmp>>
    BY <1>1 DEF StartTui, Publish, Preview, Begin, ReadCurrent, MakePlan, Stops, Answer, world,
       ghosts
  <2>2. /\ pc'[q] = pc[q] /\ draft'[q] = draft[q] /\ current'[q] = current[q]
        /\ plan'[q] = plan[q] /\ holds'[q] = holds[q] /\ cfg'[q] = cfg[q]
    BY <1>1 DEF StartTui, Publish, Preview, Begin, ReadCurrent, MakePlan, Stops, Answer, Goto,
                LoadConfig, TypeOK
  <2>3. \A r \in Publishers \ {q} : pc'[r] \in {"write", "rename"} => pc[r] \in {"write", "rename"}
    BY <1>1 DEF StartTui, Publish, Preview, Begin, ReadCurrent, MakePlan, Stops, Answer, Goto,
       TypeOK
  <2>4. QED
    BY <1>1, <2>1, <2>2, <2>3, OthersFresh
<1>2. ASSUME NEW p \in Publishers, q # p, OpenTemp(p) PROVE FreshAt(q)'
  <2>1. /\ q \notin overtaken /\ UNCHANGED <<config, models, cfg, draft, current, plan>>
        /\ pc'[q] = pc[q] /\ holds'[q] = holds[q] /\ pc[q] \notin {"write", "rename"}
    BY <1>2 DEF OpenTemp, Goto, TypeOK
  <2>2. QED
    BY <1>2, <2>1, OthersFresh
<1>3. ASSUME NEW p \in Publishers, q # p, WriteTemp(p) PROVE FreshAt(q)'
  <2>1. /\ q \notin overtaken /\ pc'[q] = pc[q] /\ holds'[q] = holds[q]
        /\ UNCHANGED <<config, cfg, draft, current, plan>> /\ pc[p] = "write"
    BY <1>3 DEF WriteTemp, Goto, TypeOK
  <2>2. models' = models
    BY <1>3, <2>1 DEF WriteTemp, Active
  <2>3. pc[q] \notin {"write", "rename"}
    BY <1>3, <2>1 DEF Fresh, FreshAt
  <2>4. QED
    BY <1>3, <2>1, <2>2, <2>3, OthersFresh
<1>4. ASSUME NEW p \in Publishers, q # p, Rename(p) PROVE FreshAt(q)'
  <2>1. /\ q \notin overtaken /\ pc'[q] = pc[q] /\ draft'[q] = draft[q] /\ plan'[q] = plan[q]
        /\ pc[p] = "rename" /\ UNCHANGED <<config, cfg, current>>
    BY <1>4 DEF Rename, Goto, TypeOK
  <2>2. tmp = NoFile
    BY <1>4, <2>1 DEF Rename, Active
  <2>3. UNCHANGED <<models, holds>>
    BY <1>4, <2>2 DEF Rename
  <2>4. pc[q] \notin {"write", "rename"}
    BY <1>4, <2>1 DEF Fresh, FreshAt
  <2>5. QED
    BY <1>4, <2>1, <2>3, <2>4, OthersFresh
<1>5. ASSUME StartTui(q) \/ Stops(q) PROVE FreshAt(q)'
  BY <1>5 DEF StartTui, Stops, Answer, Goto, TypeOK
<1>6. ASSUME Publish(q) \/ Preview(q) PROVE FreshAt(q)'
  <2>1. pc'[q] = "read" /\ config' = config
    BY <1>6 DEF Publish, Preview, Begin, Goto, TypeOK, world
  <2>2. q \notin Tui => cfg'[q] = config
    BY <1>6 DEF Publish, Preview, Begin, LoadConfig, TypeOK
  <2>3. QED
    BY <2>1, <2>2 DEF FreshAt
<1>7. ASSUME ReadCurrent(q) PROVE FreshAt(q)'
  <2>1. /\ UNCHANGED <<config, models, cfg, overtaken>> /\ pc'[q] = "plan" /\ models \notin Unreadable
        /\ current'[q] = IF models = Missing THEN Empty ELSE models
    BY <1>7 DEF ReadCurrent, Answer, Goto, TypeOK, world, ghosts
  <2>2. q \notin Tui => cfg[q] = config
    BY <1>7, <2>1 DEF ReadCurrent, Fresh, FreshAt
  <2>3. QED
    BY <2>1, <2>2 DEF FreshAt, Readable, OnDisk
<1>8. ASSUME MakePlan(q) PROVE FreshAt(q)'
  <2>1. /\ UNCHANGED <<config, models, overtaken>> /\ pc[q] = "plan" /\ pc'[q] \in {"read", "open"}
    BY <1>8 DEF MakePlan, Answer, Goto, TypeOK, world, ghosts
  <2>2. FreshAt(q)
    BY <2>1 DEF Fresh
  <2>3. cfg'[q] \in {cfg[q], config}
    BY <1>8, <2>1 DEF MakePlan, LoadConfig, TypeOK
  <2>4. pc'[q] = "open" => UNCHANGED <<cfg, draft>> /\ plan'[q] = Plan(cfg[q], current[q], draft[q])
    BY <1>8 DEF MakePlan, Answer, Goto, TypeOK
  <2>5. OnDisk' = OnDisk /\ Readable' /\ current[q] = OnDisk
    BY <2>1, <2>2 DEF OnDisk, Readable, FreshAt
  <2>6. pc'[q] = "open" => plan'[q] = Plan(cfg'[q], OnDisk', draft'[q])
    BY <2>4, <2>5
  <2>7. QED
    BY <2>1, <2>2, <2>3, <2>5, <2>6 DEF FreshAt
<1>9. ASSUME OpenTemp(q) PROVE FreshAt(q)'
  <2>1. /\ UNCHANGED <<config, models, cfg, draft, plan>> /\ pc[q] = "open" /\ pc'[q] = "write"
        /\ holds'[q] = "tmp" /\ tmp' = Blank /\ q \notin overtaken
    BY <1>9 DEF OpenTemp, Goto, TypeOK
  <2>2. \A r \in Publishers \ {q} : pc'[r] \notin {"write", "rename"}
    BY <1>9 DEF OpenTemp, Goto, TypeOK
  <2>3. FreshAt(q)
    BY <2>1 DEF Fresh
  <2>4. OnDisk' = OnDisk /\ (Readable => Readable')
    BY <2>1 DEF OnDisk, Readable
  <2>5. Plan(cfg'[q], OnDisk', draft'[q]) = Plan(cfg[q], OnDisk, draft[q])
    BY <2>1, <2>4
  <2>6. QED
    BY <2>1, <2>2, <2>3, <2>4, <2>5 DEF FreshAt
<1>10. ASSUME WriteTemp(q) PROVE FreshAt(q)'
  <2>1. /\ UNCHANGED <<config, cfg, draft, plan>> /\ pc[q] = "write" /\ pc'[q] = "rename"
        /\ \A r \in Publishers \ {q} : pc'[r] = pc[r]
        /\ q \notin overtaken
    BY <1>10 DEF WriteTemp, Goto, TypeOK
  <2>2. FreshAt(q)
    BY <2>1 DEF Fresh
  <2>3. models' = models /\ tmp' = plan[q]
    BY <1>10, <2>1, <2>2 DEF WriteTemp, Written, FreshAt
  <2>4. OnDisk' = OnDisk /\ (Readable => Readable')
    BY <2>3 DEF OnDisk, Readable
  <2>5. Plan(cfg'[q], OnDisk', draft'[q]) = Plan(cfg[q], OnDisk, draft[q])
    BY <2>1, <2>4
  <2>6. QED
    BY <2>1, <2>2, <2>3, <2>4, <2>5 DEF FreshAt
<1>11. ASSUME Rename(q) PROVE FreshAt(q)'
  BY <1>11 DEF Rename, Goto, TypeOK
<1>12. ASSUME Edit \/ ChangeConfig PROVE FreshAt(q)'
  BY <1>12 DEF Edit, ChangeConfig, Active, local
<1>13. ASSUME UNCHANGED vars PROVE FreshAt(q)'
  <2>1. FreshAt(q)
    BY <1>13 DEF vars, local, ghosts, Fresh
  <2>2. OnDisk' = OnDisk /\ (Readable => Readable')
    BY <1>13 DEF vars, world, OnDisk, Readable
  <2>3. UNCHANGED <<config, tmp, pc, draft, cfg, current, plan, holds>>
    BY <1>13 DEF vars, world, local
  <2>4. Plan(cfg'[q], OnDisk', draft'[q]) = Plan(cfg[q], OnDisk, draft[q])
    BY <2>2, <2>3
  <2>5. QED
    BY <2>1, <2>2, <2>3, <2>4 DEF FreshAt
<1>14. QED
  BY <1>1, <1>2, <1>3, <1>4, <1>5, <1>6, <1>7, <1>8, <1>9, <1>10, <1>11, <1>12, <1>13 DEF Next

(* So is that a call that goes on has no answer.                           *)
LEMMA AnswerStep ==
    ASSUME FreshInv, [Next]_vars
    PROVE  NoneAnswered'
<1> USE DEF FreshInv, IInv
<1>1. ASSUME NEW p \in Publishers, StartTui(p) \/ Publish(p) \/ Preview(p) PROVE NoneAnswered'
  BY <1>1 DEF StartTui, Publish, Preview, Begin, Goto, NoneAnswered, TypeOK
<1>2. ASSUME NEW p \in Publishers, ReadCurrent(p) \/ MakePlan(p) \/ Stops(p) PROVE NoneAnswered'
  BY <1>2 DEF ReadCurrent, MakePlan, Stops, Active, Answer, Goto, NoneAnswered, TypeOK
<1>3. ASSUME NEW p \in Publishers, OpenTemp(p) \/ WriteTemp(p) \/ Rename(p) PROVE NoneAnswered'
  BY <1>3 DEF OpenTemp, WriteTemp, Rename, Goto, NoneAnswered, TypeOK
<1>4. ASSUME Edit \/ ChangeConfig \/ UNCHANGED vars PROVE NoneAnswered'
  BY <1>4 DEF Edit, ChangeConfig, vars, local, NoneAnswered
<1>5. QED
  BY <1>1, <1>2, <1>3, <1>4 DEF Next

(* What takes effect is what was planned for the state as it is.           *)
LEMMA PublishStep ==
    ASSUME FreshInv, [Next]_vars, NEW p \in Publishers \ overtaken, Publishes(p),
           p \in Tui => cfg[p] = config
    PROVE  Readable /\ models' = Plan(config, OnDisk, draft[p])
<1> USE DEF FreshInv, IInv
<1>1. pc[p] = "rename" /\ result'[p] = "published" /\ result[p] = "none"
  BY DEF Publishes, NoneAnswered
<1>2. ASSUME NEW q \in Publishers, StartTui(q) \/ Publish(q) \/ Preview(q) PROVE FALSE
  BY <1>1, <1>2 DEF StartTui, Publish, Preview, Begin, TypeOK
<1>3. ASSUME NEW q \in Publishers, ReadCurrent(q) \/ MakePlan(q) \/ Stops(q) PROVE FALSE
  BY <1>1, <1>3 DEF ReadCurrent, MakePlan, Stops, Answer, TypeOK
<1>4. ASSUME NEW q \in Publishers, OpenTemp(q) \/ WriteTemp(q) PROVE FALSE
  BY <1>1, <1>4 DEF OpenTemp, WriteTemp, TypeOK
<1>5. ASSUME Edit \/ ChangeConfig \/ UNCHANGED vars PROVE FALSE
  BY <1>1, <1>5 DEF Edit, ChangeConfig, vars, local
<1>6. PICK q \in Publishers : Rename(q)
  BY <1>2, <1>3, <1>4, <1>5 DEF Next
<1>7. q = p /\ models' = tmp
  BY <1>1, <1>6 DEF Rename, TypeOK
<1>8. FreshAt(p)
  BY <1>1 DEF Fresh
<1>9. cfg[p] = config
  BY <1>8 DEF FreshAt
<1>10. QED
  BY <1>1, <1>7, <1>8, <1>9 DEF FreshAt

-----------------------------------------------------------------------------
(* Why a previewed plan may be refused                                     *)

OthersDescribed == Readable => Described(config, OnDisk)

\* What a preview sends back was a plan for the config and the file as they
\* are.
PutReadyAt(p) ==
    /\ Readable /\ cfg[p] = config
    /\ draft[p] # Conflict
    /\ \E sub \in Content \cup {Malformed, Generated} : draft[p] = Plan(config, OnDisk, sub)

\* It holds of a preview that nobody overtook, a TUI asks for none, and what
\* was refused had been overtaken.
PutOk(p) ==
    /\ p \notin overtaken /\ stage[p] = "put" /\ pc[p] \in {"read", "plan"} => PutReadyAt(p)
    /\ p \in Tui /\ pc[p] # "idle" => stage[p] = "direct"
    /\ stage[p] = "put" /\ result[p] = "rejected" => p \in overtaken

PutInv == FreshInv /\ \A p \in Publishers : PutOk(p)

(* A step of another does not touch what a preview sends back.             *)
LEMMA OthersPut ==
    ASSUME NEW q, PutOk(q),
           pc'[q] = pc[q], stage'[q] = stage[q], cfg'[q] = cfg[q], draft'[q] = draft[q],
           result'[q] = result[q],
           q \in overtaken => q \in overtaken',
           pc[q] # "idle" /\ q \notin overtaken' => UNCHANGED <<config, models>>
    PROVE  PutOk(q)'
<1>1. ASSUME UNCHANGED <<config, models>>, PutReadyAt(q) PROVE PutReadyAt(q)'
  <2>1. OnDisk' = OnDisk /\ (Readable => Readable')
    BY <1>1 DEF OnDisk, Readable
  <2>2. \A sub : Plan(config', OnDisk', sub) = Plan(config, OnDisk, sub)
    BY <1>1, <2>1
  <2>3. QED
    BY <1>1, <2>1, <2>2 DEF PutReadyAt
<1>2. QED
  BY <1>1 DEF PutOk

(* A preview that nobody overtook gets its plan published or stops for     *)
(* another reason, as long as others' entries are described.               *)
LEMMA PutMakes ==
    ASSUME PutInv, OthersDescribed, NEW q \in Publishers, MakePlan(q)
    PROVE  PutOk(q)'
<1> USE DEF PutInv, FreshInv, IInv
<1>1. /\ pc[q] = "plan" /\ result[q] = "none" /\ PutOk(q)
      /\ UNCHANGED <<config, models, overtaken>>
      /\ config \in Config /\ draft[q] \in Content \cup {Malformed, Generated}
  BY PublishAssumption DEF MakePlan, world, ghosts, NoneAnswered, TypeOK
<1>2. ASSUME q \notin overtaken
      PROVE  /\ Readable /\ OnDisk \in Content /\ current[q] = OnDisk
             /\ q \notin Tui => cfg[q] = config
  <2>1. FreshAt(q)
    BY <1>1, <1>2 DEF Fresh
  <2>2. Readable /\ current[q] = OnDisk /\ (q \notin Tui => cfg[q] = config)
    BY <1>1, <2>1 DEF FreshAt
  <2>3. current[q] \in Content
    BY DEF TypeOK
  <2>4. QED
    BY <2>2, <2>3
<1> DEFINE made == Plan(cfg[q], current[q], draft[q])
<1>3. CASE made = Conflict
  <2>1. pc'[q] = "idle" /\ stage' = stage
    BY <1>3 DEF MakePlan, Answer, Goto, TypeOK
  <2>2. ASSUME stage[q] = "put", q \notin overtaken PROVE FALSE
    <3>1. PutReadyAt(q)
      BY <1>1, <2>2 DEF PutOk
    <3>2. PICK sub \in Content \cup {Malformed, Generated} : draft[q] = Plan(config, OnDisk, sub)
      BY <3>1 DEF PutReadyAt
    <3>3. Plan(config, OnDisk, sub) # Conflict /\ OnDisk \in Content /\ Described(config, OnDisk)
      BY <1>2, <2>2, <3>1, <3>2 DEF PutReadyAt, OthersDescribed
    <3>4. Plan(config, OnDisk, draft[q]) # Conflict
      BY <1>1, <3>2, <3>3, PlanAgain
    <3>5. made = Plan(config, OnDisk, draft[q])
      BY <1>2, <2>2, <3>1 DEF PutReadyAt
    <3>6. QED
      BY <1>3, <3>4, <3>5
  <2>3. QED
    BY <1>1, <2>1, <2>2 DEF PutOk
<1>4. CASE made # Conflict /\ stage[q] = "preview"
  <2>1. /\ pc'[q] = "read" /\ stage'[q] = "put" /\ draft'[q] = made
        /\ result' = result
    BY <1>4 DEF MakePlan, Goto, TypeOK
  <2>2. q \notin Tui
    BY <1>1, <1>4 DEF PutOk
  <2>3. cfg'[q] = config
    BY <1>4, <2>2 DEF MakePlan, LoadConfig, TypeOK
  <2>4. ASSUME q \notin overtaken PROVE PutReadyAt(q)'
    <3>1. made = Plan(config, OnDisk, draft[q]) /\ Readable
      BY <1>2, <2>2, <2>4
    <3>2. OnDisk' = OnDisk /\ Readable'
      BY <1>1, <3>1 DEF OnDisk, Readable
    <3>3. draft'[q] = Plan(config', OnDisk', draft[q])
      BY <1>1, <2>1, <3>1, <3>2
    <3>4. QED
      BY <1>1, <1>4, <2>1, <2>3, <3>2, <3>3 DEF PutReadyAt
  <2>5. QED
    BY <1>1, <2>1, <2>2, <2>4 DEF PutOk
<1>5. CASE made # Conflict /\ stage[q] # "preview"
  <2>1. pc'[q] = "open" /\ stage' = stage /\ result' = result
    BY <1>5 DEF MakePlan, Goto, TypeOK
  <2>2. QED
    BY <1>1, <2>1 DEF PutOk
<1>6. QED
  BY <1>3, <1>4, <1>5

LEMMA PutStep ==
    ASSUME PutInv, OthersDescribed, [Next]_vars, NEW q \in Publishers
    PROVE  PutOk(q)'
<1> USE DEF PutInv, FreshInv, IInv
<1>1. PutOk(q) /\ (pc[q] # "idle" => result[q] = "none")
  BY DEF NoneAnswered
<1>2. ASSUME NEW p \in Publishers, q # p,
             StartTui(p) \/ Publish(p) \/ Preview(p) \/ ReadCurrent(p) \/ MakePlan(p) \/ Stops(p)
      PROVE  PutOk(q)'
  <2>1. /\ q \in overtaken <=> q \in overtaken'
        /\ UNCHANGED <<config, models>>
    BY <1>2 DEF StartTui, Publish, Preview, Begin, ReadCurrent, MakePlan, Stops, Answer, world,
       ghosts
  <2>2. /\ pc'[q] = pc[q] /\ stage'[q] = stage[q] /\ draft'[q] = draft[q]
        /\ cfg'[q] = cfg[q] /\ result'[q] = result[q]
    BY <1>2 DEF StartTui, Publish, Preview, Begin, ReadCurrent, MakePlan, Stops, Answer, Goto,
       LoadConfig, TypeOK
  <2>3. QED
    BY <1>1, <2>1, <2>2, OthersPut
<1>3. ASSUME NEW p \in Publishers, q # p, OpenTemp(p) \/ WriteTemp(p) \/ Rename(p)
      PROVE  PutOk(q)'
  <2>1. /\ pc'[q] = pc[q] /\ stage'[q] = stage[q] /\ draft'[q] = draft[q]
        /\ cfg'[q] = cfg[q] /\ result'[q] = result[q] /\ config' = config
    BY <1>3 DEF OpenTemp, WriteTemp, Rename, Goto, TypeOK
  <2>2. q \in overtaken => q \in overtaken'
    BY <1>3 DEF OpenTemp, WriteTemp, Rename
  <2>3. pc[q] # "idle" /\ q \notin overtaken' => models' = models
    BY <1>3 DEF OpenTemp, WriteTemp, Rename, Active
  <2>4. QED
    BY <1>1, <2>1, <2>2, <2>3, OthersPut
<1>4. ASSUME StartTui(q) PROVE PutOk(q)'
  BY <1>1, <1>4 DEF StartTui, ghosts, PutOk
<1>5. ASSUME Publish(q) \/ Preview(q) PROVE PutOk(q)'
  BY <1>5 DEF Publish, Preview, Begin, Goto, PutOk, TypeOK
<1>6. ASSUME ReadCurrent(q) PROVE PutOk(q)'
  <2>1. /\ UNCHANGED <<config, models, overtaken, stage, cfg>> /\ pc[q] = "read"
    BY <1>6 DEF ReadCurrent, world, ghosts
  <2>2. \/ pc'[q] = "plan" /\ UNCHANGED <<draft, result>>
        \/ pc'[q] = "idle" /\ result'[q] = "failed"
    BY <1>6 DEF ReadCurrent, Answer, Goto, TypeOK
  <2>3. CASE pc'[q] = "plan" /\ UNCHANGED <<draft, result>>
    <3>1. PutReadyAt(q) => PutReadyAt(q)'
      <4>1. OnDisk' = OnDisk /\ (Readable => Readable')
        BY <2>1 DEF OnDisk, Readable
      <4>2. \A sub : Plan(config', OnDisk', sub) = Plan(config, OnDisk, sub)
        BY <2>1, <4>1
      <4>3. QED
        BY <2>1, <2>3, <4>1, <4>2 DEF PutReadyAt
    <3>2. QED
      BY <1>1, <2>1, <2>3, <3>1 DEF PutOk
  <2>4. CASE pc'[q] = "idle" /\ result'[q] = "failed"
    BY <2>4 DEF PutOk
  <2>5. QED
    BY <2>2, <2>3, <2>4
<1>7. ASSUME MakePlan(q) PROVE PutOk(q)'
  BY <1>7, PutMakes
<1>8. ASSUME OpenTemp(q) \/ WriteTemp(q) PROVE PutOk(q)'
  BY <1>1, <1>8 DEF OpenTemp, WriteTemp, Goto, PutOk, TypeOK
<1>9. ASSUME Rename(q) \/ Stops(q) PROVE PutOk(q)'
  BY <1>9 DEF Rename, Stops, Answer, Goto, PutOk, TypeOK
<1>10. ASSUME Edit \/ ChangeConfig PROVE PutOk(q)'
  BY <1>1, <1>10, OthersPut DEF Edit, ChangeConfig, Active, local
<1>11. ASSUME UNCHANGED vars PROVE PutOk(q)'
  BY <1>1, <1>11, OthersPut DEF vars, world, local, ghosts
<1>12. QED
  BY <1>2, <1>3, <1>4, <1>5, <1>6, <1>7, <1>8, <1>9, <1>10, <1>11 DEF Next

-----------------------------------------------------------------------------
(* Theorems                                                                *)

(* The invariant is inductive.                                             *)
THEOREM GatewayInvariance == Spec => []IInv
<1>1. Init => IInv
  BY InitInv
<1>2. IInv /\ [Next]_vars => IInv'
  BY TypeStep, PlanStep, TempStep, PastStep, WholeStep DEF IInv
<1>3. QED
  BY <1>1, <1>2, PTL DEF Spec

(* Type correctness, for any publishers and drafts.                        *)
THEOREM GatewayTypeCorrect == Spec => []TypeOK
<1>1. IInv => TypeOK
  BY DEF IInv
<1>2. QED
  BY <1>1, GatewayInvariance, PTL

(* Readers never meet a torn models.json unless two publishers had the     *)
(* temporary file at once.                                                 *)
THEOREM ReadersMeetWhole == Spec => []WholeUnlessCrossed
<1>1. IInv => WholeUnlessCrossed
  BY DEF IInv
<1>2. QED
  BY <1>1, GatewayInvariance, PTL

(* No plan changes the entry of another provider, whatever is submitted.   *)
THEOREM StrangersKept == Spec => []PlanKeepsStrangers
<1>1. TypeOK => PlanKeepsStrangers
  <2> SUFFICES ASSUME TypeOK, AtRest, NEW submitted \in Drafts,
                      Plan(config, OnDisk, submitted) # Conflict,
                      NEW k \in Providers, OnDisk[k] # NoEntry, ~Ours(config, OnDisk, k)
               PROVE  Plan(config, OnDisk, submitted)[k] = OnDisk[k]
    BY DEF PlanKeepsStrangers
  <2>1. config \in Config
    BY PublishAssumption DEF TypeOK
  <2>2. OnDisk \in Content
    BY EmptyType DEF TypeOK, AtRest, Readable, OnDisk
  <2>3. QED
    BY <2>1, <2>2, PlanKeeps
<1>2. QED
  BY <1>1, GatewayTypeCorrect, PTL

(* What users edited of published models is in every generated plan, but   *)
(* for the compat that the config proposes, for any config, any content of *)
(* models.json, and any metadata that says a model reasons.                *)
THEOREM EditsStay == Spec => []EditsSurvive
<1>1. TypeOK => EditsSurvive
  <2> SUFFICES ASSUME TypeOK, AtRest, Plan(config, OnDisk, Generated) # Conflict,
                      NEW k \in Fixed, NEW m \in Models,
                      Has(OnDisk, k, m), Has(Plan(config, OnDisk, Generated), k, m)
               PROVE  LET old == OnDisk[k].models[m]
                          new == Plan(config, OnDisk, Generated)[k].models[m]
                      IN  /\ old.meta # NoMeta => new.meta = old.meta
                          /\ \A x \in ExtraKeys :
                                old.extra[x] # NoExtra /\ ProposedExtra(config, k, m)[x] = NoExtra
                                    => new.extra[x] = old.extra[x]
    BY DEF EditsSurvive
  <2>1. config \in Config
    BY PublishAssumption DEF TypeOK
  <2>2. OnDisk \in Content
    BY EmptyType DEF TypeOK, AtRest, Readable, OnDisk
  <2>3. QED
    BY <2>1, <2>2, GeneratedKeeps
<1>2. QED
  BY <1>1, GatewayTypeCorrect, PTL

(* Publishing the same again changes nothing, for any config, any content  *)
(* of models.json and any draft that names no provider of an earlier       *)
(* version.                                                                *)
THEOREM PublishingAgainKeeps == Spec => []PublicationConverges
<1>1. TypeOK => PublicationConverges
  <2> SUFFICES ASSUME TypeOK, AtRest, NEW submitted \in Drafts, NamesNoLegacy(submitted),
                      Plan(config, OnDisk, submitted) # Conflict
               PROVE  Plan(config, Plan(config, OnDisk, submitted), submitted)
                          = Plan(config, OnDisk, submitted)
    BY DEF PublicationConverges
  <2>1. config \in Config
    BY PublishAssumption DEF TypeOK
  <2>2. OnDisk \in Content
    BY EmptyType DEF TypeOK, AtRest, Readable, OnDisk
  <2>3. submitted # Malformed
    BY DEF Plan
  <2>4. ASSUME NEW sub \in Content, NEW b \in BOOLEAN,
               \A k \in Providers \ Fixed : sub[k] # NoEntry => ~Ours(config, OnDisk, k),
               Checked(config, OnDisk, sub, b) # Conflict
        PROVE  Checked(config, Checked(config, OnDisk, sub, b), sub, b) = Checked(config, OnDisk, sub, b)
    <3> DEFINE made == Proposed(config, OnDisk, sub, b)
    <3>1. Checked(config, OnDisk, sub, b) = made /\ Acceptable(config, made)
          /\ StrangersUntouched(config, OnDisk, sub)
      BY <2>4 DEF Checked
    <3>2. Proposed(config, made, sub, b) = made /\ StrangersUntouched(config, made, sub)
      BY <2>1, <2>2, <2>4, <3>1, ProposedAgain
    <3> HIDE DEF made
    <3>3. QED
      BY <3>1, <3>2 DEF Checked
  <2>5. CASE submitted = Generated
    <3> DEFINE sub == FillOverwrite(Proposal(config))
    <3>1. sub \in Content
      BY <2>1, ProposalType, FillType
    <3>2. \A k \in Providers \ Fixed : sub[k] = NoEntry
      <4>1. \A k \in Providers \ Fixed : Proposal(config)[k] = NoEntry
        BY DEF Proposal
      <4>2. QED
        BY <2>1, <4>1, ProposalType, FillParts
    <3>3. \A cur : Plan(config, cur, submitted) = Checked(config, cur, sub, TRUE)
      BY <2>3, <2>5 DEF Plan
    <3> HIDE DEF sub
    <3>4. QED
      BY <2>4, <3>1, <3>2, <3>3
  <2>6. CASE submitted # Generated
    <3> DEFINE sub == FillMissing(submitted)
    <3>1. submitted \in Content /\ sub \in Content
      BY <2>3, <2>6, PublishAssumption, FillType
    <3>2. \A k \in Providers \ Fixed : sub[k] # NoEntry => ~Ours(config, OnDisk, k)
      BY <2>3, <2>6, <3>1, FillParts DEF NamesNoLegacy
    <3>3. \A cur : Plan(config, cur, submitted) = Checked(config, cur, sub, FALSE)
      BY <2>3, <2>6 DEF Plan
    <3> HIDE DEF sub
    <3>4. QED
      BY <2>4, <3>1, <3>2, <3>3
  <2>7. QED
    BY <2>5, <2>6
<1>2. QED
  BY <1>1, GatewayTypeCorrect, PTL

(* A publication that nobody overtook is what the plan says for the config *)
(* and the file as they are when it takes effect.                          *)
THEOREM PublicationsFollowPlan == Spec => PublishIsAtomicUnlessStale
<1>1. Init => FreshInv
  BY InitInv DEF Init, FreshInv, Fresh, NoneAnswered
<1>2. IInv /\ [Next]_vars => IInv'
  BY TypeStep, PlanStep, TempStep, PastStep, WholeStep DEF IInv
<1>3. FreshInv /\ [Next]_vars => FreshInv'
  BY <1>2, FreshStep, AnswerStep DEF FreshInv
<1>4. FreshInv /\ [Next]_vars =>
         [\A p \in Publishers \ overtaken : Publishes(p) /\ (p \in Tui => cfg[p] = config) =>
             Readable /\ models' = Plan(config, OnDisk, draft[p])]_vars
  BY PublishStep
<1>5. QED
  BY <1>1, <1>3, <1>4, PTL DEF Spec, PublishIsAtomicUnlessStale

(* A models.json that does not parse stays.                                *)
THEOREM CorruptKept == Spec => UnreadableKept
<1>1. IInv /\ [Next]_vars => [models = Corrupt => models' = Corrupt]_vars
  BY PastStep
<1>2. QED
  BY <1>1, GatewayInvariance, PTL DEF Spec, UnreadableKept

(* What a preview proposed is refused, with nothing changed in between,    *)
(* only where models.dev describes a model of another provider that its    *)
(* owner does not: the finding has no other cause (enrich.go:75,           *)
(* gateway.go:962-967).                                                    *)
THEOREM PreviewsPublishable == Spec /\ []OthersDescribed => []PreviewPublishable
<1>1. Init => PutInv
  BY InitInv DEF Init, PutInv, FreshInv, Fresh, NoneAnswered, PutOk
<1>2. IInv /\ [Next]_vars => IInv'
  BY TypeStep, PlanStep, TempStep, PastStep, WholeStep DEF IInv
<1>3. PutInv /\ OthersDescribed /\ [Next]_vars => PutInv'
  BY <1>2, FreshStep, AnswerStep, PutStep DEF PutInv, FreshInv
<1>4. PutInv => PreviewPublishable
  BY DEF PutInv, PutOk, PreviewPublishable
<1>5. QED
  BY <1>1, <1>3, <1>4, PTL DEF Spec
=============================================================================
