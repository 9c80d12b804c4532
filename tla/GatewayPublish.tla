--------------------------- MODULE GatewayPublish ---------------------------
(***************************************************************************)
(* Publication of models.json by the web UI, the CLI and the TUI: each     *)
(* reads the config and the file, plans while models.dev may be asked,     *)
(* writes models.json.tmp and renames it.  No lock is taken, the temporary *)
(* file has one name for all, and Pi or its user edit the file too.        *)
(***************************************************************************)
EXTENDS GatewayPlan

CONSTANTS
    Publishers,     \* handlers of the web UI and CLI commands ...
    Tui,            \* ... and those among them that are a running TUI
    Drafts,         \* contents a caller may submit
    Picks,          \* selections made in the web UI
    Configs,        \* configs there may be
    Files,          \* what models.json may hold at the start
    StrangerEntries,\* what other providers' owners write
    Everything,     \* no selection
    Missing, Corrupt, Blank, Garbled, NoFile, NoPlan,
    MaxCalls,       \* bound: calls per publisher
    MaxEdits,       \* bound: edits by others
    MaxChanges      \* bound: changes of the config

Unreadable == {Corrupt, Blank, Garbled}

ASSUME PublishAssumption ==
    /\ Tui \subseteq Publishers
    /\ Drafts \subseteq Content \cup {Malformed, Generated}
    /\ Configs \subseteq Config
    /\ Files \subseteq Content \cup {Missing, Corrupt}
    /\ StrangerEntries \subseteq Entry
    /\ Picks \subseteq SUBSET (Channels \X Models)
    /\ {Blank, Garbled} \cap (Content \cup {Missing, Corrupt}) = {}
    /\ {Missing, Corrupt} \cap Content = {} /\ Missing # Corrupt
    /\ MaxCalls \in Nat /\ MaxEdits \in Nat /\ MaxChanges \in Nat

VARIABLES
    config,     \* the config file
    models,     \* models.json
    tmp,        \* models.json.tmp
    pc,         \* pc[p]: where a publication is
    stage,      \* stage[p]: a preview, the PUT after it, or a direct call
    draft,      \* draft[p]: what it submits
    cfg,        \* cfg[p]: the config it has
    current,    \* current[p]: the file it read
    plan,       \* plan[p]: what it will write
    holds,      \* holds[p]: which name its open file has by now
    result,     \* result[p]: the answer to its last call
    overtaken,  \* publishers whose config, file or temporary file somebody
                \* else changed since they began
    crossed,    \* two publishers had the temporary file at the same time
    calls, edits, changes

world  == <<config, models, tmp>>
local  == <<pc, stage, draft, cfg, current, plan, holds, result>>
bounds == <<calls, edits, changes>>
ghosts == <<overtaken, crossed>>
vars   == <<world, local, ghosts, bounds>>

Init ==
    /\ config \in Configs
    /\ models \in Files
    /\ tmp = NoFile
    /\ pc = [p \in Publishers |-> "idle"]
    /\ stage = [p \in Publishers |-> "direct"]
    /\ draft = [p \in Publishers |-> Generated]
    /\ cfg = [p \in Publishers |-> config]
    /\ current = [p \in Publishers |-> Empty]
    /\ plan = [p \in Publishers |-> NoPlan]
    /\ holds = [p \in Publishers |-> "none"]
    /\ result = [p \in Publishers |-> "none"]
    /\ overtaken = {} /\ crossed = FALSE
    /\ calls = [p \in Publishers |-> 0]
    /\ edits = 0 /\ changes = 0

-----------------------------------------------------------------------------

Active == {p \in Publishers : pc[p] # "idle"}
Goto(p, step) == pc' = [pc EXCEPT ![p] = step]

\* The call is over: what it held in memory is gone.
Answer(p, answer) ==
    /\ Goto(p, "idle")
    /\ result' = [result EXCEPT ![p] = answer]
    /\ draft' = [draft EXCEPT ![p] = Generated]
    /\ current' = [current EXCEPT ![p] = Empty]
    /\ plan' = [plan EXCEPT ![p] = NoPlan]
    /\ holds' = [holds EXCEPT ![p] = "none"]

\* The web server loads the config once (a mutant).
LoadConfig_Cached(p) == UNCHANGED cfg

\* loadConfig; the TUI keeps the config it was started with.
LoadConfig(p) == cfg' = [cfg EXCEPT ![p] = IF p \in Tui THEN @ ELSE config]

\* Another file gets the name models.json; open files keep theirs.
Replaced(held) == IF held = "tmp" THEN "models" ELSE IF held = "models" THEN "gone" ELSE held

Begin(p, submitted) ==
    /\ calls' = [calls EXCEPT ![p] = @ + 1]
    /\ LoadConfig(p)
    /\ draft' = [draft EXCEPT ![p] = submitted]
    /\ overtaken' = overtaken \ {p}
    /\ result' = [result EXCEPT ![p] = "none"]
    /\ Goto(p, "read")

\* A TUI is started: it gets the config of the moment.
StartTui(p) ==
    /\ p \in Tui /\ pc[p] = "idle" /\ calls[p] < MaxCalls
    /\ cfg[p] # config
    /\ cfg' = [cfg EXCEPT ![p] = config]
    /\ UNCHANGED <<world, pc, stage, draft, current, plan, holds, result, ghosts, bounds>>

\* PUT or publish with or without a draft, the CLI command, a key of the TUI.
Publish(p) ==
    /\ pc[p] = "idle" /\ calls[p] < MaxCalls
    /\ \E submitted \in Drafts : (p \in Tui => submitted = Generated) /\ Begin(p, submitted)
    /\ stage' = [stage EXCEPT ![p] = "direct"]
    /\ UNCHANGED <<world, current, plan, holds, crossed, edits, changes>>

\* A client asks for a preview, of a draft or a proposal and a selection.  The
\* web UI does so before each publication.
Preview(p) ==
    /\ pc[p] = "idle" /\ calls[p] < MaxCalls /\ p \notin Tui
    /\ \E submitted \in Drafts \ {Malformed}, chosen \in Picks \cup {Everything} :
          IF chosen = Everything THEN Begin(p, submitted)
          ELSE /\ Selectable(config, chosen)
               /\ Begin(p, Selected(config, IF submitted = Generated THEN Proposal(config) ELSE submitted, chosen))
    /\ stage' = [stage EXCEPT ![p] = "preview"]
    /\ UNCHANGED <<world, current, plan, holds, crossed, edits, changes>>

\* A missing file is an empty gateway, one that does not parse an error.
ReadCurrent(p) ==
    /\ pc[p] = "read"
    /\ IF models \in Unreadable
       THEN Answer(p, "failed")
       ELSE /\ current' = [current EXCEPT ![p] = IF models = Missing THEN Empty ELSE models]
            /\ Goto(p, "plan")
            /\ UNCHANGED <<draft, plan, holds, result>>
    /\ UNCHANGED <<world, stage, cfg, ghosts, bounds>>

\* Enrichment may wait for models.dev; a conflict ends the call, and the web
\* UI sends what a preview proposes back as a draft.
MakePlan(p) ==
    /\ pc[p] = "plan"
    /\ LET made == Plan(cfg[p], current[p], draft[p])
       IN  IF made = Conflict
           THEN Answer(p, "rejected") /\ UNCHANGED <<stage, cfg>>
           ELSE IF stage[p] = "preview"
           THEN /\ stage' = [stage EXCEPT ![p] = "put"]
                /\ draft' = [draft EXCEPT ![p] = made]
                /\ LoadConfig(p)
                /\ current' = [current EXCEPT ![p] = Empty]
                /\ Goto(p, "read")
                /\ UNCHANGED <<plan, holds, result>>
           ELSE /\ plan' = [plan EXCEPT ![p] = made]
                /\ current' = [current EXCEPT ![p] = Empty]
                /\ Goto(p, "open")
                /\ UNCHANGED <<stage, draft, cfg, holds, result>>
    /\ UNCHANGED <<world, ghosts, bounds>>

\* The file is written in place (a mutant).
OpenTemp_InPlace(p) ==
    /\ pc[p] = "open"
    /\ models' = Blank
    /\ holds' = [holds EXCEPT ![p] = "models"]
    /\ Goto(p, "write")
    /\ UNCHANGED <<config, tmp, stage, draft, cfg, current, plan, result, ghosts, bounds>>

\* os.WriteFile creates the temporary file or empties the one that is there.
OpenTemp(p) ==
    /\ pc[p] = "open"
    /\ LET others == {q \in Publishers \ {p} : pc[q] \in {"write", "rename"}}
       IN  /\ crossed' = (crossed \/ others # {})
           /\ overtaken' = overtaken \cup others \cup {q \in {p} : others # {}}
    /\ tmp' = Blank
    /\ holds' = [holds EXCEPT ![p] = "tmp"]
    /\ Goto(p, "write")
    /\ UNCHANGED <<config, models, stage, draft, cfg, current, plan, result, bounds>>

\* Over an empty file this is the plan; over a longer one its end stays.
Written(p, before) == {plan[p]} \cup IF before = Blank THEN {} ELSE {Garbled}

\* It writes to the file it opened, whatever its name is by now.
WriteTemp(p) ==
    /\ pc[p] = "write"
    /\ IF holds[p] = "tmp" THEN tmp' \in Written(p, tmp) ELSE UNCHANGED tmp
    /\ IF holds[p] = "models" THEN models' \in Written(p, models) ELSE UNCHANGED models
    /\ overtaken' = IF models' # models THEN overtaken \cup (Active \ {p}) ELSE overtaken
    /\ holds' = [holds EXCEPT ![p] = "none"]
    /\ Goto(p, "rename")
    /\ UNCHANGED <<config, stage, draft, cfg, current, plan, result, crossed, bounds>>

\* os.Rename of whatever has the temporary name.
Rename(p) ==
    /\ pc[p] = "rename"
    /\ Goto(p, "idle")
    /\ draft' = [draft EXCEPT ![p] = Generated]
    /\ plan' = [plan EXCEPT ![p] = NoPlan]
    /\ tmp' = NoFile
    /\ IF tmp = NoFile
       THEN /\ result' = [result EXCEPT ![p] = "failed"]
            /\ UNCHANGED <<models, holds, overtaken>>
       ELSE /\ models' = tmp
            /\ result' = [result EXCEPT ![p] = "published"]
            /\ holds' = [q \in Publishers |-> Replaced(holds[q])]
            /\ overtaken' = (overtaken \cup Active) \ {p}
    /\ UNCHANGED <<config, stage, cfg, current, crossed, bounds>>

\* An error of the file system, or a kill; a temporary file stays.
Stops(p) ==
    /\ p \in Active
    /\ Answer(p, "failed")
    /\ UNCHANGED <<world, stage, cfg, ghosts, bounds>>

-----------------------------------------------------------------------------

\* Pi or its user changes another provider, on the file as it is.
Edit ==
    /\ edits < MaxEdits /\ models \notin Unreadable
    /\ edits' = edits + 1
    /\ \E k \in Strangers, entry \in StrangerEntries \cup {NoEntry} :
          models' = [IF models = Missing THEN Empty ELSE models EXCEPT ![k] = entry]
    /\ overtaken' = overtaken \cup Active
    /\ holds' = [p \in Publishers |-> IF holds[p] = "models" THEN "gone" ELSE holds[p]]
    /\ UNCHANGED <<config, tmp, pc, stage, draft, cfg, current, plan, result, crossed, calls, changes>>

\* The config is changed.
ChangeConfig ==
    /\ changes < MaxChanges
    /\ changes' = changes + 1
    /\ config' \in Configs \ {config}
    /\ overtaken' = overtaken \cup Active
    /\ UNCHANGED <<models, tmp, local, crossed, calls, edits>>

Next ==
    \/ \E p \in Publishers :
          \/ StartTui(p) \/ Publish(p) \/ Preview(p)
          \/ ReadCurrent(p) \/ MakePlan(p)
          \/ OpenTemp(p) \/ WriteTemp(p) \/ Rename(p) \/ Stops(p)
    \/ Edit \/ ChangeConfig

Spec == Init /\ [][Next]_vars

-----------------------------------------------------------------------------

TypeOK ==
    /\ config \in Configs
    /\ models \in Content \cup Unreadable \cup {Missing}
    /\ tmp \in Content \cup {Blank, Garbled, NoFile}
    /\ pc \in [Publishers -> {"idle", "read", "plan", "open", "write", "rename"}]
    /\ stage \in [Publishers -> {"direct", "preview", "put"}]
    /\ draft \in [Publishers -> Content \cup {Generated, Malformed}]
    /\ cfg \in [Publishers -> Configs]
    /\ current \in [Publishers -> Content]
    /\ plan \in [Publishers -> Content \cup {NoPlan}]
    /\ holds \in [Publishers -> {"none", "tmp", "models", "gone"}]
    /\ result \in [Publishers -> {"none", "published", "rejected", "failed"}]
    /\ overtaken \subseteq Publishers /\ crossed \in BOOLEAN
    /\ calls \in [Publishers -> 0..MaxCalls]
    /\ edits \in 0..MaxEdits /\ changes \in 0..MaxChanges

Readable == models \notin Unreadable
OnDisk   == IF models = Missing THEN Empty ELSE models

\* The three invariants on plans are about config and file alone.  A call may
\* stop anywhere, so whatever is on disk is so at rest, too.
AtRest == Active = {} /\ Readable

(* Readers never meet a torn models.json (system-contract 2.3: publish      *)
(* writes atomically), unless two publishers had the temporary file at      *)
(* once: it has one name for all, and the promise is broken (README, 6).    *)
WholeUnlessCrossed == ~crossed => models \notin {Blank, Garbled}

\* p replaces models.json.
Publishes(p) == pc[p] = "rename" /\ result'[p] = "published"

(* A publication is what the plan says for the config and the file as they  *)
(* are when it takes effect, as far as nobody changed these or the          *)
(* temporary file since the call began, and from all but a TUI that is      *)
(* older than the config: the config is the source of every fact about      *)
(* suppliers (adr/0011, decision 1), by the same flow from the web UI, the  *)
(* CLI and the TUI.                                                         *)
PublishIsAtomicUnlessStale ==
    [][\A p \in Publishers \ overtaken : Publishes(p) /\ (p \in Tui => cfg[p] = config) =>
          Readable /\ models' = Plan(config, OnDisk, draft[p])]_vars

(* No plan that could be published now touches the entry of another         *)
(* provider (system-contract 2.3: kept as it is, with its unmanaged fields).*)
PlanKeepsStrangers ==
    AtRest => \A submitted \in Drafts :
        LET made == Plan(config, OnDisk, submitted)
        IN  made # Conflict => \A k \in Providers :
                OnDisk[k] # NoEntry /\ ~Ours(config, OnDisk, k) => made[k] = OnDisk[k]

(* What a user edited of a published model survives the generated plans to  *)
(* come, for as long as the model is exposed (adr/0011, decision 2): but    *)
(* for the keys of compat that the config itself proposes for the model.    *)
EditsSurvive ==
    AtRest =>
        LET made == Plan(config, OnDisk, Generated)
        IN  made # Conflict => \A k \in Fixed, m \in Models :
                Has(OnDisk, k, m) /\ Has(made, k, m) =>
                    LET old == OnDisk[k].models[m]
                        new == made[k].models[m]
                    IN  /\ old.meta # NoMeta => new.meta = old.meta
                        /\ \A x \in ExtraKeys :
                              old.extra[x] # NoExtra /\ ProposedExtra(config, k, m)[x] = NoExtra
                              => new.extra[x] = old.extra[x]

(* A generated publication that nobody overtook keeps every extra of a      *)
(* published model, compat among them (adr/0011, decision 2: what was       *)
(* edited by hand, name, headers, compat, extra, is merged back into the    *)
(* proposal).                                                               *)
CompatSurvives ==
    [][\A p \in Publishers \ overtaken : Publishes(p) /\ draft[p] = Generated =>
          \A k \in Fixed, m \in Models : Has(OnDisk, k, m) /\ Has(models', k, m) =>
              \A x \in ExtraKeys : OnDisk[k].models[m].extra[x] # NoExtra =>
                  models'[k].models[m].extra[x] = OnDisk[k].models[m].extra[x]]_vars

\* A submission says nothing of providers of an earlier version: its keys
\* beside the fixed ones are others'.
NamesNoLegacy(submitted) ==
    submitted \in {Malformed, Generated} \/
    \A k \in Providers \ Fixed : submitted[k] # NoEntry => ~Ours(config, OnDisk, k)

(* Publishing the same again changes nothing (adr/0011, decision 2; system- *)
(* contract 2.3: the pending count is 0, merging does not drift).  Only a   *)
(* draft that names a provider of an earlier version can drift: its extras  *)
(* go to the fixed provider when it is published again.                     *)
PublicationConverges ==
    AtRest => \A submitted \in Drafts : NamesNoLegacy(submitted) =>
        LET made == Plan(config, OnDisk, submitted)
        IN  made # Conflict => Plan(config, made, submitted) = made

(* A models.json that does not parse is not replaced by a publication that  *)
(* took it for an empty one (system-contract 2.3: an error at the reading   *)
(* boundary).                                                               *)
UnreadableKept == [][models = Corrupt => models' = Corrupt]_vars

(* What a preview proposes can be published, if nothing changed in between: *)
(* preview, validation and publication use one plan (adr/0011, decision 2). *)
PreviewPublishable ==
    \A p \in Publishers : stage[p] = "put" /\ result[p] = "rejected" => p \in overtaken
=============================================================================
