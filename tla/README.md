# Verification of pi-switch

pi-switch keeps a set of model suppliers, publishes them as a "gateway" for Pi
agents (`~/.pi/agent/models.json`), and runs a local proxy that forwards
inference requests to the suppliers and logs them. Four kinds of process share
its files: the proxy daemon, the web UI daemon, CLI invocations and the TUI.
This directory holds TLA+ models of the parts in which the order of steps
matters, the TLC runs that check them, and TLAPS proofs of the core.

* `PROJECT.json` lists components, runs, mutants, the map from definitions to
  source lines, findings, hazards and theorems.
* `tlc -config <run>.cfg <module>.tla` repeats a run; `tlapm <module>Proofs.tla`
  repeats the proofs: `ConfigStore`, `Daemon`, `RequestLog`, `Gateway`, `Proxy`,
  `Packages`, `Catalog` and `Conversation` (of `Attribution` and `ToolHistory`) have a
  proof module.

## 1. Inventory

### Components, their state and their operations

| component (source) | state it keeps | operations | what makes it correct |
|---|---|---|---|
| **Config store** (`internal/config`, `internal/profile/store.go`) | `config.json`, the flock sidecar, temp files | `UpdateAtPath`, `SaveAtPath`, `LoadConfigAtPath` | no update lost, no torn file, a broken file is never taken for the default, every call ends |
| **Supplier profiles** (`internal/profile`, `server/profile_handlers.go`) | suppliers, their channels with a model pool and an exposed subset, the active supplier | create, put (with rename), delete, use, duplicate, put models, expose, fetch-models, spoof, settings, replace | `fetch-models` only adds; the active supplier exists; exposed ids are in the pool |
| **Daemon lifecycle** (`internal/daemon`) | pid file, lock file, the child process, the port | `Start`, `Stop`, `Status` | one operation at a time; a failed start leaves nothing; stop never signals a stranger and ends the daemon; a served daemon is recorded |
| **Request log and legacy import** (`server/legacy_log.go`, `store/legacy_migration.go`, `logRequest`) | `requests.log`, tables `requests` and `legacy_migrations` | double write of each request, import at start-up | each request counted once; none lost by a kill or a refused write |
| **Gateway** (`internal/gateway`, `server/gateway_handlers.go`) | `models.json` | preview, draft, publish | third-party providers survive, only validated plans are published, no torn file |
| **Proxy request path** (`server/proxy_handlers.go`, `outbound.go`) | one request: route, outbound call, stream | chat, responses, messages; streaming or not; one retry after a 400 | an exposed model has one route; each request that reached an upstream is logged once; at most one answer |
| **Translation of streams** (`internal/translator`, `internal/protocol`) | per-stream converter state | push event, finish | well-formed client stream: one start, deltas under an open item, one end |
| **Translation of conversations** (`internal/translator`) | none of its own; the client's history goes through it again with every request | a request and its answer, four pairs of protocols | nothing of a history is lost or reordered, the supplier hears its own words again, what a client is answered can be sent back |
| **Conversation matching** (`internal/conversation`) | none | `Match` | an explicit id wins; no guess between indistinguishable sessions |
| **Session scan cache** (`internal/scan`) | snapshot, generation, refreshing flag | `ScanCached`, background refresh | whoever is attributed by an old snapshot was active all the same |
| **Statistics** (`internal/stats`) | none; reads the table `requests` | totals, conversations, pages | totals and page of one answer attribute a row alike |
| **Packages** (`internal/piagent`, `server/package_handlers.go`) | table `packages` | add, delete, toggle, import | an import is all or nothing; what a user added stays; toggles add up |
| **Catalog** (`internal/catalog`, `gateway/enrich.go`) | cache file of models.dev | `Ensure`, enriching an entry | never fails hard; what is not called stale is recent; enriching converges |
| **Web UI draft** (`webui/src/hooks/useProfileDraft.ts`) | value, rows, raw text | reducer actions | row keys unique, draft and rows agree |
| **Auth and binding** (`server/server.go`) | password file | resolve options, middleware | no bind beyond loopback without a password |
| Usage, cost, limit, CLI, TUI, retry scheduler | none, or dormant | | see section 7 |

### How they interact

Server handlers (goroutines of the proxy or web UI daemon), CLI commands and
the TUI all change the config through `config.UpdateAtPath`; nothing else
serialises them. The proxy reads the config once per request, without the
lock. Publication reads config and `models.json`, computes a plan and writes
`models.json`. Each request is logged to SQLite and to `requests.log`; both
daemons import `requests.log` when they start. Previews, publications and
fetch-models of every process refresh one models.dev cache and enrich entries
from it; handlers and CLI commands share the packages table; the proxy names a
request's conversation from its header or from Pi's session files, and
statistics name it again. The daemon operations run in
whatever process the user calls them from, also inside a web UI handler.

### What is hard

* interleavings of processes over shared files (config, lock file, pid file,
  `models.json`, log);
* values read before a network call or a lock and used after it
  (`fetch-models`, `Status`, the import's stat and hash, the gateway plan);
* kills between any two steps; write errors in the middle;
* bounded waits (5 s for the flock, 15 health attempts, 20 polls);
* streams that end, fail or are cancelled at any event.

The full list, each at its line and with the properties that cover it, is
`hazards` in `PROJECT.json`.

## 2. Plan

Modules, in the order of what they are worth:

1. `ProfileConfig`, `ConfigStore`, `AtomicConfig`, `ConfigStoreProofs`: done.
2. `DaemonLifecycle`, `DaemonProofs`: done.
3. `RequestLog`, `RequestLogProofs`: done, except truncation in place.
4. `GatewayPlan`, `GatewayPublish`, `GatewayProofs`: done.
5. `ProxyRouting`, `SseConverters`, `EventStream`, `ProxyRequest`,
   `ProxyProofs`: done.
6. `Packages`, `CatalogCache`, `Matching` with `Attribution`, and their proofs: done.
7. `ToolConverters`, `ToolHistory` and their proofs, which share `ConversationProofs`
   with those of `Attribution`: done.
8. `ProfileDraft` (the web UI's reducer) and `Auth` (binding and password):
   small modules of their own, not written yet.

Of the proofs, what is left: shorter proofs of the two stream grammars, which have a
common part in what a converter remembers.

Every module has its parameters as CONSTANTS with a named assumption, one
action per step, no RECURSIVE operator of its own, and its properties at the end; MC
modules only give values to the constants.

## 3. Modules and their correspondence to the code

### ProfileConfig, ConfigStore, AtomicConfig

`ProfileConfig` is the value of `config.json` and what each operation's mutate
callback does to it. A supplier has channels under a name or under none (the
legacy form `EnsureMutationChannel` upgrades); a channel has a pool, in which
each model is absent, fetched with defaults or edited, and an exposed subset.
What no operation tells apart (URLs, keys, headers, costs) is left out; whether
a profile passes the capability and retry rules is one flag, `capable`.
Several unnamed channels, and two of one name, are not distinguished: the
validators refuse them.

`ConfigStore` has one action per step of a call: `Begin` (what is refused
without the file), the network call of fetch-models, `Acquire`/`Busy`/
`OpenFails` (flock with the 5 s deadline), `Load`, `Mutate`, `CreateTemp`,
`WriteTemp`, `Rename`, `IOFails`, `Unlock`, and `Crash` of a process, with
which the kernel drops the lock. A reader takes no lock, so what it may see is
`disk` in some state. `lock` is the descriptor that holds the flock; the
`EINTR` loop of `lock_unix.go` is part of `Acquire`. The temp file of a killed
process is forgotten when its client begins another call (its name is random,
nobody opens it again).

`AtomicConfig` is what the store promises: a call takes effect in one step on
the file as it is, or not at all. `Implements` states the refinement.

### DaemonLifecycle

An operator runs `Start` or `Stop`, an observer `Status`. Steps are the system
calls: `CreateLock` (O_EXCL), `StampLock` (writing the pid into it),
`InspectLock`, `UnlinkLock`, `ReadPidFile`, `Check`, `CheckHealth`, `Clean`,
`Spawn`, `Record`, `CheckOwner`, `WaitSucceeds`/`WaitFails`, `Finish`,
`Unrecord`, `Abort`, `Signal`, `Poll`, `Kill`, `ReleaseLock`. A child boots,
serves, hangs, recovers, dies, and its pid may be reused. `Answers` are the
outcomes of a call. `listeningPID` needs `ss` or /proc and may not know who
owns the port, so each look at it may find nothing. Constants choose whether an
unmanaged listener answers the health probe, and whether a hang ends.

Left out: the Windows branches and the log file. A pid is not reused within
the seconds between Stop's identity check and its last signal, because pids are
handed out in a cycle.

### RequestLog

`logRequest` is `InsertRow`, `AppendBegins`, `AppendEnds` (or `AppendFails`):
the row may be refused, the line may be seen in part, and may come short. An
import is `Stat`, `Hash`, `Ensure`, `Read`, `Commit` or `Conflict`, each an own
step, because the file is looked at four times and the stream read in between.
`Rotate` moves the log away. Offsets count lines, sizes count what has been
written; the content hash is the content. A database statement, and the
transaction of `CommitLegacyBatch`, is one step, as SQLite makes it. Request
facts differ by their nanosecond time stamp. The ghosts `raced` and `mismarked`
record the two ways in which size and hash of a stream come from two states of
the log. Truncation in place is not
modelled.

### GatewayPlan, GatewayPublish

`GatewayPlan` is `internal/gateway` without files: `Proposal` from the config,
`FillOverwrite`/`FillMissing` from models.dev, `Selected`, the merges `Merged`
and `WithLegacy`, `Proposed`, and the checks `Acceptable` and
`StrangersUntouched`; `Plan` is their composition for a draft or for the
generated flow. Of a provider entry the model keeps whether it carries the
placeholder key, whether the shape checks accept it (`valid`), its extras and
its models; of a model its metadata (seven fields as one value) and its extras by
key: the two keys of `compat` that the program writes itself,
`supportsDeveloperRole` and `sendSessionAffinityHeaders`, and "headers" for all that
it never writes. `ProposedExtra` is the compat of the proposal, of a model that the
pool says reasons or that is behind opencode.ai; `OrEach` is the merge of two maps
key by key, in which the first that speaks wins (`mergeGatewayExtra`);
`Normalized` is the developer role a reasoning model is given when none is
said. Diff, pending count and groups are views of a plan and left out.

`GatewayPublish` runs web handlers, CLI commands and TUIs: `Publish` or
`Preview`, `ReadCurrent`, `MakePlan` (in which models.dev may be asked, for
seconds), `OpenTemp`, `WriteTemp`, `Rename`, and `Stops` for an error or a kill
at any point. `models.json.tmp` has one name for all, so a publisher may write
to a file another has renamed already (`holds`), and a file emptied under its
writer gets the bytes of two (`Garbled`). A preview is sent back as a draft, as
the web UI does before each publication. `Edit` is Pi or its user, who writes
the file whole; `ChangeConfig` stands for the operations of `ConfigStore`.
models.dev gives the same answer throughout. The ghosts `overtaken` and
`crossed` record whether somebody else changed what a call relies on, and
whether two publishers had the temporary file at once.

### ProxyRouting, SseConverters, ProxyRequest, EventStream

`ProxyRouting` is what the handlers compute from the config: `Matches`,
`HasRoute` and `RouteOf` are `resolveRoute` with the pinning of the channel by
its name, `CanPlan` is `PlanRequest`, `Servable` all that has to hold before the
upstream is called. Addresses keep only whether there is one and whether it is a
URL; whether a body can be said in the other format is a flag of the request.

`SseConverters` has the two stream converters as functions from a converter and
a frame to a converter and events. A frame is a type and an item; texts,
arguments and usage are left out, and the events that open or close one item
(`content_part`, `..._text.done`, `output_item`) are one.

`ProxyRequest` is a request: `Receive`, `LoadConfig`, `Route` or a refusal,
`CallReturns`/`CallFails`, `BodyFails`, the single `Retry`, the ways to end
(`Aborted`, `Relayed`, `ConversionFails`, `Succeed`), of which `Effect` does one
row or answer at a time, and the relays: `ReadFrame`, `ReadEnds`, `ReadFails`,
`Emit`/`EmitFails`, `Conclude`, `LogStream`. The client may be lost (writes may
fail) and later gone (the context has ended), between any two steps. A request
body that cannot be read or parsed counts as an empty object, as in the code,
and asks for the default model. `reported` is a ghost: the upstream announced a
failure before its end. A frame that is passed through stands for its last
bytes; bytes after the last complete frame are not seen by either relay.

`EventStream` is what a Responses client may expect of the events; the
`Stream` instance in `ProxyRequest` reads it off `sent`.

Left out: `clampBody`, headers, the conversation id, usage and cost, the
contents of conversions, `GET /v1/models`, and a config that changes its
authentication.

### Packages

The packages table, with `AddPackage`, `DeletePackage` (one statement each),
`ToggleRead` and `ToggleWrite` or `ToggleRefused` (a SELECT and an UPDATE whose
error is dropped), and an import: `Discover` reads settings and manifests,
`BeginTx`, `Upsert`, `Sweep`, `Commit` apply what it found in one transaction, and
`Rollback` and `GiveUp` are its failures and kills. `writer` is SQLite's write
lock. Ids are canonical sources; a spec a user adds in another form is an id that
settings never list. `Identities` is the walk over a map in
`packageSourceIdentity`, which takes any listed twin. Pi and its user edit
settings and installed packages. The ghosts `added`, `due` and `crossed` record
what the answers given promise.

### CatalogCache

`Ensure`, call by call: `Stat`, `ReadCache`, `Fetched` or `FetchFails`,
`OpenTemp`, `WriteTemp`, `Rename` or `CacheRefused`, `Fallback`, and then
`Enrich`, which looks a model up (`Hits`) and fills its entry by one of the three
policies (`FillOverwrite` for a generated proposal, `FillMissing` for a draft,
`Seeded` for fetch-models). The temporary file has one name for all; `holds` says
whether an open file is still under it. An entry has four fields, one of each
kind the policies treat differently: a name, a limit, a price, a flag. A payload
is a set of listings; twins are two ids of one provider with one tail. `Release`
is models.dev, `DayPasses` the age of the cache, during which no call is open. The
ghosts are what was served today, whether a catalog with listings is in the
cache, and whether two refreshes met.

### Matching, Attribution

`Matching` is `conversation.Match`; the sort of the candidates is the relation
`Closer`, and ids, which come last in it, never decide, because equals are
ambiguous. `Attribution` puts it where it is used: `Arrive` (when a request
comes, with the `prompt_tokens` of its body if it has any), `Log` (the row, with
the time and tokens of its end), `StatsTotals` and `StatsPage` (two
queries of one answer). A guess of `Arrive` becomes the id of the row and looks like
a client's from then on; `basis` keeps, for the property alone, by which time, tokens
and snapshot it was made. `ScanCached` serves the snapshot there is, and may start
a scan in the background; `ScanEnds` gives each file as it was at some time since
that scan began. The first scan of a server, for which the caller waits, is one
step: lines written while it goes from file to file fall before or after it.
`Prompted`, `Answered` and `SwitchesModel` are the lines Pi adds. The setting may
change, the server may restart.

### ToolConverters, ToolHistory

`ToolConverters` has the conversions of requests (`Items`, `Blocks`, `Regrouped`,
`Turns`, put together in `Converted`; `AddItem` and `AddBlock` are the bodies of the
loops in the last two), of answers (`ToResponses`, `ToChat`,
`ToMessages`), and of what a request says of tools (`ConvertedPolicy`), with what
each refuses. A choice is "named" when its type is unknown and it has a function's
name: only `chatToolChoiceToAnthropic` does not look at the type. A history is a sequence of messages of parts: texts, images,
thoughts, calls, results. Texts that the code joins stay apart.

`ToolHistory` is a client that adds to its history, sends all of it
(`Send`), and takes the answer in (`Answer`). It may have been a client of
another supplier before (`OtherAnswers`) and may be broken: calls and results
without an id, arguments that are not JSON. Thoughts, and where an assistant's
words stand among its calls, are left out of what is compared.

## 4. Runs

Every run is complete: TLC exhausts the state space of the instance.
`CHECK_DEADLOCK FALSE` is set where clients, operators and importers have a
bounded number of calls, after which the system may rest; `ProxyRequest` has a
step for that instead and is checked for deadlock.

| run | instance | shows |
|---|---|---|
| `config_store` | 2 clients in 2 processes, 1 call each out of 21, 4 initial files, 1 kill, the CLI client may hang for ever | the invariants, action properties, the refinement, and that every call of a client that runs returns: a hung holder makes it fail busy. Two clients are enough for a lost update, which needs one call between load and rename of another; the 21 calls reach every branch of every operation; missing, corrupt, legacy and ordinary files are the four kinds `LoadConfigAtPath` tells apart |
| `daemon_safety` | 2 operators, 3 children, 1 call each, 1 operator killed, 1 takeover of the port | identity protects strangers, failed starts leave nothing, stop ends the daemon |
| `daemon_serial` | 1 operator and 1 observer, 2 calls each, 3 children, hangs last, nobody else on the port | with operations one after the other and a `Status` beside them the pid file names the served daemon, unless that `Status` removed it; every call returns |
| `log_import` | proxy and web UI, 3 start-ups in all, 1 request, 1 old line, 2 files, 1 kill | nothing skipped, done means done, nothing doubled but by two causes (section 6). Three start-ups, because a doubled line needs a stream, a disturbed look at it and an import |
| `gateway` | a web server and a TUI, 1 call each, 6 drafts, 2 selections, 3 configs, 4 initial files, 1 edit of another provider, 1 change of the config | plans keep what is not theirs and what users edited (but for the compat the config proposes), and converge; a publication nobody overtook is the plan for what is on disk. Two publishers are enough for a shared temporary file and for a stale reading; the drafts, configs and files reach every check and every merge |
| `gateway_preview` | one web client, one draft | finding: what a preview proposes is refused when it is sent back |
| `gateway_compat` | one web client, two calls, a draft with compat of the user's, a supplier whose models reason | finding: the next generated publication overwrites it |
| `proxy` | 1 request of 18 kinds, 12 configs, streams of up to 4 frames, 2 tool calls, a client that may break off at any step | one row and at most one answer, calls where they are due, whole successes, well-formed streams, an end. Requests share no state but the log, to which each adds its own row, so one is enough; four frames are text or a call, a second item, a late announcement, and an end with something after it |
| `packages` | 3 packages, two of them an npm and a git source of one name, a handler and a CLI process, 3 calls, 1 change of settings or of what is installed | what a user added stays, toggles add up, imports are whole. Three calls are an import overtaken by another call, with a third to show what was left; the twins are needed for an id that depends on the walk of a map |
| `catalog` | 2 callers (one with all three policies, one without a supplier), 3 payloads (empty, a shared tail, twins), 3 calls, 1 day, 1 release | what is current is recent, the old cache serves, enriching twice changes nothing. Two callers are enough for a shared temporary file, the third call reads what they left |
| `attribution` | 3 sessions, 1 id of a client, 1 request, clock to 2 with window, gap and TTL of 1, 2 lines of Pi, 1 change of the setting or restart, 1 read of statistics | ids of clients stay, guesses are founded, answers agree with themselves. Three sessions are a match, a rival and one that hides it; two lines let a session move on under a scan and after it |
| `history` | 4 pairs of protocols, histories of up to 4 parts, answers of up to 2, 1 of them odd (an image, a thought, a call or result without id, arguments that are broken, missing or null), every policy of tools in histories of 1 part | nothing lost, the supplier hears itself, what is answered can be sent back. Four parts are words, a call, its result and an answer, over as many requests |

Some passing properties carry a condition, because the code does less than one
would like; section 6 says how to see each. `StartedIsRecorded` holds until a
`Status` beside an operation removes the record of a living daemon (`swept`), and its
run has no stranger on the port and hangs that do not end (a daemon that was
silent for a second is dropped from the record without being killed and may
answer again); `NoOtherDuplicate` excludes the two causes of doubled lines, which
the module records in `raced` and `mismarked`; `PublicationConverges` excludes drafts
that name a provider of an earlier version (`NamesNoLegacy`);
`PublishIsAtomicUnlessStale` excludes publications somebody overtook and a TUI older than the config;
`SuccessIsWholeUnlessUnreported` excludes a failure that a Chat upstream reports
to a Responses client; `TogglesCount` excludes rows of which a toggle was
overtaken or refused; `OldCacheServes` excludes two refreshes that had the
temporary file at once and an empty payload; `SameCatalogSameEntry` excludes a
provider that lists two ids with one tail; `EditsSurvive` excludes the keys of
compat that the config proposes; `NoGuess` excludes a rival within the gap behind a
session with a prompt; `AnswersSendable` excludes the calls that two conversions of
answers do not look at; `ExposuresServable` and `ActiveSupplierKept` name the calls that
do what they exclude; `WholeUnlessCrossed` excludes two publishers with the temporary
file at once.

`MCDaemonSafety.cfg` uses the permutations of the operators and of the children
other than the old one as symmetry; neither is told apart by the module, and
the run checks invariants only. `MCAttribution.cfg` uses the permutations of the
sessions: `Closest` chooses among sessions, but where two are equally close the
outcome is `Unlabeled` whichever it takes.

### Fairness

Weak fairness of a client's or actor's own steps that do not fail, nothing
else: a goroutine that is not blocked runs. No call owes its return to a
failure (`OpenFails`, `IOFails`). Waits are actions that are always enabled
in the end (`Busy` at the deadline, `WaitFails` after 15 attempts, `Poll` after
20 polls). In `ProxyRequest` the handler's own steps are fair, and so is the
failure of a call that has to end: the client of a request that does not stream
has a timeout of 30 s (proxy_handlers.go:460), and every outbound request
inherits the context of a client that left (outbound.go:48). A stream whose
client stays may last for ever. No fairness is assumed of the environment: a daemon need not
listen, answer or die, a file need not become writable, and a client in `Hung`
need not run.

## 5. Proofs

`ConfigStoreProofs` proves, for any sets of clients, processes, suppliers,
channels and models, any calls and any number of kills:

* `TypeCorrect`, `MutualExclusion` (`LockProtects`), `AtomicReplacement`
  (`NeverTorn`), `TempFilesRemoved` (`NoTempLeft`), `SnapshotsAreCurrent`;
* `NoUpdateIsLost`, `BrokenFileKept`, `FetchLosesNothing`, `ActiveSupplierStays`:
  the action properties;
* `Refinement`: the store implements `AtomicConfig`.

They rest on the assumptions `ConfigAssumption` and `StoreAssumption`: special
values such as `Torn` or `NoClient` differ from the data. The inductive
invariant `IInv` is the conjunction of the type invariant with the four
others. None is inductive alone: that a snapshot is current needs that only the
holder of the flock is inside the callback (`LockProtects`), which needs that
`lock` is a client or free (`TypeOK`); that a rename installs a whole file needs
that the temp file of a client about to rename holds its snapshot
(`SnapshotCurrent`), which is a config (`TypeOK`). The lemmas come one per
invariant (`TypeStep`, `LockStep`, `TornStep`, `TempStep`, `SnapshotStep`), each
over the actions that disturb it. `MergeOnlyAdds` says what `fetch-models` does
to any config, wherever the network call was overtaken; `SameOperators` and
`StepRefines` map every step to a step of `AtomicConfig` or to a stutter.

`ActiveSupplierStays` (`ActiveSupplierKept`) is about what a call leaves when its
temp file is installed: `EffectKeepsActive` goes through the operations and shows
that each leaves an active supplier that exists, or none, unless it is a put that
renames the active one. It needs that "no profile" is neither a name nor a
profile (`ConfigAssumption`).

`OnlyPoolEditsExpose` (`ExposuresServable`) and `ExposedStayInPool` are about exposed
models outside the pool. A channel comes to have one only in a
step that installs what a call of `DropsExposed` made: a put of models that drops an id
the channel exposes, or a whole-file save of a config with such a channel. While no such
call is made (`PoolsKept`), and with initial files `WithinPools`, `ExposedWithinPool` holds for
any clients, calls, failures and kills. `EffectKeepsPools` goes through the operations,
migration and normalisation included (`MutationChannelSound`, `ChannelBackSound`).

`DaemonProofs` proves, for any operators, observers, daemons, calls and kills:
`DaemonTypeCorrect`, `StrangersSpared` (`IdentityProtects`),
`FailedStartsLeaveNothing` (`FailedStartLeavesNothing`) and `StoppedStaysGone`
(`StoppedIsGone`). These do without the lock file: as operations may overlap (section
6), the argument has to do without it. `Roles` says what a caller holds at each of its
steps, `Fresh` that nobody knows of a daemon before it is spawned, `OwnChildren` that
a child belongs to one `Start`, `Unrecorded` that nobody else has met it before its
pid file is written. From these, `SignalsItsOwn` (a `Stop` at its signals has the
process that it identified: a pid is reused only once nobody is about to signal it),
`TakesBack` (a failing `Start` has removed its record before it kills its child) and
`StopsDead` (a `Stop` removes the pid file of a process that has ended) are what the
three properties follow from.

`StartedStaysRecorded` (`StartedIsRecorded`) is proved for any number of operators under
`Orderly`: no two of them are `Engaged` at once, and nobody else on the port answers
for the daemon; hangs last (`ASSUME ~HangsEnd`), and any number of `Status` run beside.
An operator killed before its `Start` had an end counts as engaged: its child may still
take the port, and the next `Start` would take that child's answers for its own.
`daemon_serial` checks it with one operator; TLC checked the general form with two
before it was proved, and finds counterexamples without either part of `Orderly`.
Its invariant `SerialInv` adds
`PortHeld` (who serves or hangs has the port), `OneLives` (a daemon that boots or serves
is the one reported started, or the child of a `Start` that has not ended), `Booted` (a
daemon reported started, or found healthy by its `Start`, does not boot any more) and
`SeesStarted` (while the one reported started serves, the pid file names it, and an
operation that judges a record judges its). An earlier form of the property
excluded only the swept child itself; the proof could not be finished, because a
later `Start` takes the answers of that child, which still has the port, for those of
its own. TLC had passed it because two calls are too few for that. The property now
excludes all that follows such a `Status`.

`LockExcludes` says where `Orderly` has its limit in the code. The lock file keeps
operations apart (`OneOperation`) as long as every lock file that is removed is stale
(`RemovesStale`), for any operators, calls and kills; `HoldsLock` is its invariant. Two
operations overlap only after one removed the file of another that has not written its
pid yet (section 6), or took the place of the file that was judged.

`RequestLogProofs` proves, for any requests, importers, history, files and kills:
`LogTypeCorrect`, `NothingIsSkipped` (`NothingSkipped`), `DoneImportsCover`
(`DoneCovers`) and `NothingElseDoubles` (`NoOtherDuplicate`). `Writing` counts the
requests that have begun, so that an unfinished line is shorter than a line and sizes
tell complete lines apart (`SizesGrow`). `LogTrue` has each request in the log once,
`RowsTrue` says which line each row is of. `StreamsWithin` and `ImportsWithin` bound
every offset by the log: the stored ones, and those an import holds between its looks
at the file (`Within`); `Covers` is what it means for an import to have met the end of
the file, which `DoneCovers` needs. `NeverReplaced` is why there are no causes but
`raced` and `mismarked`: without them each stored size and hash is of one state of the
log, so no stream is ever taken for a replaced one. `StatDoes` to `CrashDoes` state once
what each step of an import changes. `LogAssumption` has the requests and the history
finite.

`GatewayProofs` proves, for any publishers, drafts, configs and contents:
`GatewayTypeCorrect`, `ReadersMeetWhole` (`WholeUnlessCrossed`),
`StrangersKept` (`PlanKeepsStrangers`), `CorruptKept` (`UnreadableKept`),
`EditsStay` (`EditsSurvive`), `PublishingAgainKeeps` (`PublicationConverges`) and
`PublicationsFollowPlan` (`PublishIsAtomicUnlessStale`). The lemmas `ProposalType` to
`PlanType` say that what the merges and the enrichment make of contents is a content,
so that no plan can be mistaken for a torn file; `PlanKeeps` is the fact about plans
behind `StrangersKept`. The inductive invariant adds three parts: `PlanReady` (what is
about to be written is a content), `OwnTemp` (as long as no two publishers have had
the temporary file, one that is writing has the empty file under that name, and one
that is renaming finds its plan there) and `NoneGotPast` (while the file does not
parse, no call is past the reading), without which a rename could replace it.

`Parts` to `FillParts` say, entry by entry and model by model, what a merge makes of a
published content and a proposal; `GeneratedKeeps` and `ProposedAgain` put them
together: a generated plan keeps every field somebody filled in, key by key, but for
the compat the config proposes (`EditsStay`), and the plan made
from a plan is that plan. The latter is false for a draft that names a provider of an
earlier version, whose extras go to a fixed provider when the same is published once
more. The attempt to prove it showed this; TLC had not, because no draft of the
instance named one. The property now has the condition `NamesNoLegacy`, and the
instance such a draft. For `PublicationsFollowPlan`, `FreshInv` adds that what a call
that was not overtaken has read, and planned, is still what is on disk.

`PreviewsPublishable` is about the property that the run `gateway_preview` refutes. It
holds while models.dev describes no model of another provider beyond what models.json
says of it (`OthersDescribed`), so the completion of entries of others in a draft
(enrich.go:75) is the only way for a previewed plan to be refused. Its invariant
`PutInv` says that what was previewed, on a config and a file unchanged since, is planned
again as it is: `PutMakes` gives that plan from `ProposedAgain` and `FillKeeps`,
and `OthersPut` that the entries of others are the published ones.

Assumed are `PlanAssumption` and `PublishAssumption`: special values differ from
contents, entries and models, and what callers submit has the shape of a content.

`ProxyProofs` proves, for any suppliers, configs, requests, tool calls and number
of frames: `ProxyTypeCorrect`, `AllAccounted` (`Accounted`), `CallsDue`
(`CallsAreDue`), `SuccessesWhole` (`SuccessIsWholeUnlessUnreported`),
`ChatClientsHearInOrder` (`ChatGrammar`) and `ResponsesClientsHearStreams`
(`ResponsesGrammar`, the refinement of `EventStream`). Routing is
the matter of `RouteFound`: the place that `resolveRoute` finds is the only one
that exposes the model, unless its supplier has two channels of one name and
pinning moves to the first of them (`PinnedStays`). About the converters
`PushedType`, `ChatEventsType`, `ResponsesEventsType` and `FinishType` say that
they stay within their types; `FailureIsTold` says that a failure reported before
the end becomes an error event, which is what lets the relay log a 502. The
inductive invariant, checked by TLC before it was proved, has besides the types:
`CallInv` (the calls go the way that the config shows, the retry follows a 400),
`EarlyInv` (nothing is logged or answered before the end), `EndInv` (which pairs
of row and answer a request may end with, and how far it has come),
`DoneInv` (what that leaves) and `StreamInv` (a stream that is over and did not
fail was ended by the upstream; a converter to the Chat format is done only after
the end). `DoneInv` is what `Accounted` and the whole answers follow from;
`EndInv` is what keeps it across the two effects of an end, and `StreamInv` what a
row of a stream is judged by.

The two grammars are about what a client was sent, but a converter runs ahead of
that: the invariants are about `Spoken`, what was sent and what the relay still has to
send. For a Chat client, `ChatOrder(Spoken)` is the grammar as a property of any
prefix, and `Recalled` and `Begun` say that the converter remembers what it said: the
calls it announced, that it gave the role, that it ended. `ChatFrame` is the step by
a frame, `ChatInv` the same over time. For a Responses client, `ResponseOrder` says of
each event which events precede it (`MayFollow`), `Announced` that the converter's open
items are those said to be open; `ResponseFrame` and `ResponseCloses` are the steps by
a frame and by the end. `Phase` and `Deltas` read the state of `EventStream` off a
sequence of events, `Mapped` says that they are the refinement mapping, and
`EmitFollows` maps each event that is sent to one step of the abstract stream. TLC
checked both invariants on the reachable states of a smaller instance first.

Assumed are `RoutingAssumption`, `ConverterAssumption` and `RequestAssumption`:
special values differ from names, and requests and configs have their shapes.

`PackagesProofs` proves, for any ids, twins, callers and settings:
`PackagesTypeCorrect`, `UserPackagesKept` (`KeptForUser`), `TogglesAddUp`
(`TogglesCount`) and `ImportsAreWhole` (`ImportIsWhole`). The inductive invariant
adds `LockHeld` (the caller inside a transaction is the one with the write lock),
`TxnAsApplied` (what the open transaction sees after each of its statements,
relative to the rows as they are) and `ToggleCurrent` (what a toggle read is still
there unless it was overtaken). `TxnAsApplied` is why a commit cannot bring back
rows from before the import: nobody else writes while `LockHeld`.

`CatalogProofs` proves, for any readers and payloads: `CatalogTypeCorrect`,
`CurrentCatalogsRecent` (`CurrentIsRecent`), `OldCachesServe`
(`OldCacheServes`) and `SameCatalogsSettle` (`SameCatalogSameEntry`). Its invariant
says where what was served of late may be:
in memory (`InMemory`), in the cache while it is young and in the temporary file
while a refresh is between its two writes (`FilesRecent`); and, while no two
refreshes have met, that each has that file to itself (`TempOwned`), from which
`CacheKept` follows. A left-over file of a killed command is not in
`FilesRecent`: a later refresh empties it before it is renamed. `SameCatalogsSettle`
needs none of this but `Settled`: an entry that a caller says was filled from a
catalog is the result of filling something from it. `FillTwice` says that filling it
again gives the same, `OneHit` that at most one listing answers for a model of a
provider without twins; payloads are finite.

`ConversationProofs` proves of `Attribution`, for any sessions, clients, requests,
window and gap: `AttributionTypeCorrect`, `ClientsKeepTheirIds` (`ExplicitWins`),
`GuessesAreFounded` (`NoGuess`) and `AnswersAreOfOneSnapshot` (`PageAgrees`).
`LeastNumber` and `SomeIsClosest` show that a nearest session exists, by the
well-foundedness of the natural numbers; `NearestIsEligible` and `NearestIsFounded`
are what the rule guarantees for any candidates: who is chosen is closer than its
second, and so than all others, and a session within the gap that no prompt tells
from it is behind a second that has one. The invariant carries that over
time: `Remembered` (every snapshot, of the cache, a scan or an answer, consists of
what files have said), `IdsKept` (a row keeps the id its client gave),
`GuessesTraced` (an id that was guessed when the request came is `Founded` on the
snapshot of that moment, in flight and in its row) and
`AnswerHolds` (what an answer says of a row is the rule on its one snapshot).
`EarlyGuessFounded` and `LateGuessFounded` are the two times at which a request may be
attributed; a restart or a change of the setting between them changes neither.

Its second half proves, for a conversation of any length, with answers of any number of
parts: `AnswersCanBeSent` (`AnswersSendable`), `NothingIsLost`
(`NothingLost`) and `SupplierHearsItself` (`HearsItself`). The conversions are loops over
sequences, so the proofs are inductions over sequences: `NumberInduction` and
`SequenceInduction` follow from the well-foundedness of the numbers, with a set in place
of the operator that the library's theorems take. `FlatMap` is a conversion that gives
something for each member; its lemmas (`FlatMapConcat`, `FlatMapTwice`, `FlatMapVia`) are
all the later proofs know of sequences.

What a property compares is what a listener hears of a history: a listener keeps some
entries (all but words, all but calls, instructions) and may hear parts rewritten
(`Listening`). `ItemsHeard`, `BlocksHeard`, `RegroupedHeard` and `TurnsHeard` say of the
four conversions of requests that a listener hears of the result what it hears of the
history. The first two convert message by message; for the others `GrownHeard` needs
that each step (`AddItemHeard`, `AddBlockHeard`) puts what it adds after all the
listener heard before, be it into the last message. Within a message words go before
calls, and no listener hears both an assistant's words and its calls. This is shown of
histories that are `Sound`, with parts where their protocol has them, and whose parts are
not refused (`Accepted`). `AnswerHeard` says the same of the conversions of answers,
thoughts that became words included.

The invariant `HistoryInv` says that a client's history is `Sound`, through everything it
adds, answers of other suppliers and converted ones, and that a request that was sent
has no part that is refused. `NothingIsLost` follows from it, and `AnswersCanBeSent` with
`AnswerIsAnswerable`: what the conversion of an answer gives the client is made of the
answer's parts (`PickedFrom`), in a form (`FormIs`) in which the next request's checks
look at no more than the answer's checks did (`Answerable`). The two are code of their
own in each of the four pairs, and in two of them they differ. `SupplierHearsItself` needs
`KnownHeard`: the supplier knows a history of which a listener hears the beginning of what
it hears of the client's, once the client's is converted. What a client adds comes after
(`LongerFollows`), and after an answer the two are the same (`AnswerFollows`).

Only model-checked: liveness (`EveryCallReturns` of `ConfigStore` and of
`DaemonLifecycle`, `RequestEnds`); fairness and ENABLED are beyond the prover.

Of the two properties that the code violates, `PreviewPublishable` is proved under the
condition above, and `EditsStay` says what is left of `CompatSurvives`.

## 6. Findings

* `gateway_preview`: enrichment completes the models of other providers in a
  draft, and validation then refuses the draft for it (enrich.go:75,
  gateway.go:962-967), although the draft is what the preview proposed. `PreviewsPublishable`: nothing else
  can make a previewed draft fail.
* `gateway_compat`: the proposal has a `compat` of its own for models that reason
  (gateway.go:388-390) and for models behind opencode.ai (gateway.go:221-228), and
  `mergeGatewayExtra` adds only the published keys that the proposal lacks
  (gateway.go:664-670). What a user wrote for one of these two keys, and published,
  is lost at the next publication without a draft, against adr/0011, decision 2. `EditsStay`: no
  other edit is lost.

More have no run of their own. Each is a condition of a passing property, and
dropping the condition shows it. Where a line of the repository says otherwise, it is
quoted; the code does not keep it.

* `PUT /api/profiles/:name/models` replaces a pool and keeps the exposures
  (profile_handlers.go:389); profile.go:76-79 "refuses to expose an id that the
  channel does not actually carry", and validate.go:81 wants exposed ids in the
  pool of their channel. `ExposedWithinPool` as an invariant of `MCConfigStore.cfg`
  fails; `OnlyPoolEditsExpose`: besides whole-file saves, no other call can have
  this effect.
* Renaming the active supplier deletes the old key and leaves `current` naming it
  (profile_handlers.go:186-195). Without the exception for `put`,
  `ActiveSupplierKept` fails.
* `Status` removes the pid file without the operation lock (daemon.go:578-603), on
  the strength of an earlier reading; docs/system-contract.md:145 wants pid, port
  and `Status` to agree. Without `swept = {}` in `StartedIsRecorded`,
  `MCDaemonSerial.cfg` fails.
* The lock file is created before its pid is in it (daemon.go:204-217), and a
  second operation takes it for stale. `OneOperation` as an invariant of
  `MCDaemonSafety.cfg` fails; `LockExcludes` shows that only the
  removal of a living operation's lock file lets two overlap.
* A failed import stores the size it saw with an older hash
  (legacy_migration.go:151-153), and the next start-up imports the history again.
  `NoDuplicateUnlessRaced` as an invariant of `MCLogImport.cfg` with `Importers <-
  ProxyAlone` fails.
* Two publishers share `models.json.tmp` (gateway.go:1053-1057): one may empty the
  file after the other has written it and before it renames it, and readers meet
  an empty or a mixed `models.json`; docs/system-contract.md:64 says that publish
  writes atomically. Without `~crossed`, `WholeUnlessCrossed` fails in
  `MCGateway.cfg`; `ReadersMeetWhole`: it takes two publishers with the file at once.
* `streamConvert` does not look for a failure that a Chat upstream reports in its
  stream; a Responses client gets `response.completed` and the log a success
  (proxy_handlers.go:893-927, translator.go:709-714). `SuccessIsWhole` in
  `MCProxy.cfg` fails.
* `Match` compares the nearest session with the second of the order only
  (matcher.go:137). When a session with a prompt comes second, a third one without,
  within the 10 ms, is not looked at and the nearest gets the request, although
  nothing tells it from the third; matcher.go:161-162 says "A tiny timestamp
  advantage is not enough to guess between two sessions when prompt hints cannot
  distinguish them", and docs/system-contract.md:96 wants an ambiguous match
  unlabeled. Without its last disjunct, `NoGuess` fails in `MCAttribution.cfg`;
  `GuessesAreFounded`: only a session with a prompt between the two has this effect.
* A call in an answer is not looked at by `ChatResponseToResponses`
  (translator.go:603-620), nor arguments that are a string by
  `ResponsesToChatResponse` (response_conversion.go:164-166); the next request
  is refused for them (translator.go:376-385, chat_anthropic.go:83-93), so that a
  call which a length limit cut off ends the conversation.
  docs/system-contract.md:85 wants invalid tool state refused, :83 a 502 for an
  answer that cannot be converted. Without `Unchecked`, `AnswersSendable` fails in
  `MCToolHistory.cfg`; `AnswersCanBeSent`: no other answer has this effect.

Weaker ones are conditions in the same way: size and hash of the log are
taken at two moments (legacy_log.go:113, 124, 132), so a line written in between
makes the history be imported twice (`raced` in `NoOtherDuplicate`); the TUI
never reads the config again (tui/model.go:49, 166) and publishes suppliers that
are gone, and an edit by Pi made while a publication waits for models.dev is
dropped (`PublishIsAtomicUnlessStale`); a toggle that was overtaken by another
is counted once (`TogglesCount`); two refreshes of the catalog share a temporary file
(`OldCacheServes`). Dropping the condition shows each.

One more of that kind: a draft may name a provider of an earlier version and give its
models extras. The first publication writes that entry; the next takes it for the
published one and hands its extras to the fixed provider (gateway.go:692-757), so the
same draft does not give the same file. Without `NamesNoLegacy` in
`PublicationConverges`, `MCGateway.cfg` fails. No preview proposes such a draft; a
client has to write it itself.

Not findings, because no line of the repository was found to promise otherwise:
in `ProxyRouting`, two channels of one supplier may have one name (`PUT
/api/config` does not refuse that); the request then goes to the first of the
name, whichever exposes the model, which is why `CallsAreDue` has the condition
`DistinctNames`. A channel named "ambiguous" cannot be reached at all
(proxy_handlers.go:358). A tool call whose arguments come before its
announcement never gets its header, although the comment at
responses_stream.go:139 expects one from a late announcement.

Of the packages: `GetInstalledPackage` also returns rows that are removed, against
its own comment (package_handlers.go:215); every caller looks at the status
itself. Of the catalog: a payload of models.dev without entries replaces a good
cache, and `FillModels` has no caller outside its tests.

Of the translation, each reachable in `ToolHistory`: a tool call embedded in the
content of a Responses message is not checked like one of the input list; a
builtin tool of an Anthropic request becomes a function, although
docs/system-contract.md §2.4.8 wants what cannot be represented refused; a choice of
a tool that has a function's name but no known type is taken for that function on the
way from Chat to Messages (chat_anthropic.go:446-455); an
image that goes to Anthropic is printed as text; a Responses
reasoning item becomes an empty user message. `NothingLost` names the builtin tools,
the choice and the images as what is not kept.

## 7. What is not modelled, and why

* JSON decoding and encoding, HTTP framing, header merging, printing: data
  without state, covered by the repository's tests.
* The Windows branches (`lock_windows.go`, `taskkill`): another kernel's
  promises.
* `internal/server/retry.go` except `narrowToChannel`: the scheduler is not
  reached from any handler.
* Usage, cost and limits, and the sums of statistics: arithmetic on one body and
  sums over rows.
* Of translation: sampling parameters, usage, made-up ids and the wording of
  texts; of the session scan: a changed session directory and titles; of
  packages: what a manifest says beyond being valid; of the catalog: the parsing
  of its JSON.
* Truncation in place of `requests.log`: a log cut to nothing that grows past the
  committed offset before the next start-up is taken for the same stream
  (legacy_log.go:132), and what came before that offset is passed over.
* The web UI's draft, authentication and binding: planned, see section 2.
* The CLI's and TUI's parsing and rendering; their writes are operations of
  the modules above.
* `legacy/`, `scripts/`, build files: not part of the program.
