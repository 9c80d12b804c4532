---------------------------- MODULE ConfigStore ----------------------------
(***************************************************************************)
(* config.UpdateAtPath, config.SaveAtPath and profile.FetchChannelModels,  *)
(* run by several clients (server goroutines, CLI invocations, the TUI) of *)
(* several processes against one config file.                              *)
(*                                                                         *)
(* A call asks for the flock of the sidecar file, loads the config, runs   *)
(* the mutate callback, writes the outcome to a temp file of its own and   *)
(* renames it into place; every step may fail, and a process may be killed *)
(* between any two.  The kernel drops a killed process's flock.  Readers   *)
(* open the file at any time without the lock, so what they can see is     *)
(* the value of disk in some state.                                        *)
(***************************************************************************)
EXTENDS ProfileConfig

CONSTANTS
    Clients,        \* callers, each with a file descriptor of its own
    Processes,      \* the processes they run in
    ProcessOf,      \* which client runs where
    Hung,           \* clients that may stop running for ever inside a call
    InitialFiles,   \* what the config file may hold at the start
    Calls,          \* the requests the clients may make
    MaxCalls,       \* bound: calls per client
    MaxCrashes,     \* bound: killed processes
    NoClient,       \* the lock is free
    Torn,           \* a prefix of a config: a write in progress
    Nothing         \* no request, no snapshot, no temp file

ASSUME StoreAssumption ==
    /\ ProcessOf \in [Clients -> Processes]
    /\ Hung \subseteq Clients
    /\ InitialFiles \subseteq Config \cup {Missing, Corrupt}
    /\ Calls \subseteq Requests
    /\ MaxCalls \in Nat /\ MaxCrashes \in Nat
    /\ NoClient \notin Clients
    /\ {Missing, Corrupt, Torn, Nothing} \cap Config = {}
    /\ Torn \notin {Missing, Corrupt, Nothing} /\ Nothing \notin {Missing, Corrupt}
    /\ Nothing \notin Requests

VARIABLES
    disk,       \* the config file
    temp,       \* temp[c]: the temp file c created for the call it is in
    lock,       \* the client whose descriptor holds the flock
    pc,         \* pc[c]: where c is in its call
    request,    \* request[c]: the call c is in, or made last
    snapshot,   \* snapshot[c]: the config value c holds in memory
    result,     \* result[c]: how c's last call ended
    calls,      \* calls[c]: how many calls c made
    crashes     \* how many processes were killed

vars == <<disk, temp, lock, pc, request, snapshot, result, calls, crashes>>

\* "fetching": the network call of fetch-models.  "waiting": polling for the
\* flock.  "loading" .. "returning": inside withConfigWriteLock's callback.
Locked   == {"loading", "mutating", "creating", "writing", "renaming", "returning"}
Phases   == {"idle", "fetching", "waiting"} \cup Locked
Failures == {"refused", "rejected", "broken", "busy", "ioError", "fetchFailed"}
Results  == {"none", "ok", "killed"} \cup Failures

Init ==
    /\ disk \in InitialFiles
    /\ temp = [c \in Clients |-> Nothing]
    /\ lock = NoClient
    /\ pc = [c \in Clients |-> "idle"]
    /\ request = [c \in Clients |-> Nothing]
    /\ snapshot = [c \in Clients |-> Nothing]
    /\ result = [c \in Clients |-> "none"]
    /\ calls = [c \in Clients |-> 0]
    /\ crashes = 0

-----------------------------------------------------------------------------

\* The call is over before it holds the lock.
ReturnEarly(c, res) ==
    /\ pc' = [pc EXCEPT ![c] = "idle"]
    /\ result' = [result EXCEPT ![c] = res]

\* A handler, a command or the TUI starts a call.  What can be refused
\* without the file is refused here; fetch-models loads without the lock and
\* resolves supplier and channel before it goes to the network.
Begin(c, r) ==
    /\ pc[c] = "idle" /\ calls[c] < MaxCalls
    /\ calls' = [calls EXCEPT ![c] = @ + 1]
    /\ request' = [request EXCEPT ![c] = r]
    /\ temp' = [temp EXCEPT ![c] = Nothing]
    /\ \/ /\ ~Admissible(r)
          /\ ReturnEarly(c, "refused")
          /\ snapshot' = [snapshot EXCEPT ![c] = Nothing]
       \/ /\ Admissible(r) /\ r.op # "fetch"
          /\ pc' = [pc EXCEPT ![c] = "waiting"]
          /\ result' = [result EXCEPT ![c] = "none"]
          /\ snapshot' = [snapshot EXCEPT ![c] = Nothing]
       \/ /\ r.op = "fetch" /\ disk = Corrupt
          /\ ReturnEarly(c, "broken")
          /\ snapshot' = [snapshot EXCEPT ![c] = Nothing]
       \/ /\ r.op = "fetch" /\ disk # Corrupt
          /\ snapshot' = [snapshot EXCEPT ![c] = Loaded(disk)]
          /\ IF ChannelResolves(r, Loaded(disk))
             THEN /\ pc' = [pc EXCEPT ![c] = "fetching"]
                  /\ result' = [result EXCEPT ![c] = "none"]
             ELSE ReturnEarly(c, "rejected")
    /\ UNCHANGED <<disk, lock, crashes>>

\* The upstream lists its models.
FetchAnswered(c) ==
    /\ pc[c] = "fetching" /\ request[c].ids # {}
    /\ pc' = [pc EXCEPT ![c] = "waiting"]
    /\ UNCHANGED <<disk, temp, lock, request, snapshot, result, calls, crashes>>

\* It lists none, answers with an error, or the client's 5 s timeout passes.
FetchFailed(c) ==
    /\ pc[c] = "fetching"
    /\ ReturnEarly(c, "fetchFailed")
    /\ UNCHANGED <<disk, temp, lock, request, snapshot, calls, crashes>>

\* The lock file cannot be created or opened.
OpenFails(c) ==
    /\ pc[c] = "waiting"
    /\ ReturnEarly(c, "ioError")
    /\ UNCHANGED <<disk, temp, lock, request, snapshot, calls, crashes>>

\* tryConfigWriteLock succeeds.
Acquire(c) ==
    /\ pc[c] = "waiting" /\ lock = NoClient
    /\ lock' = c
    /\ pc' = [pc EXCEPT ![c] = "loading"]
    /\ UNCHANGED <<disk, temp, request, snapshot, result, calls, crashes>>

\* Mutant: the deadline is never looked at.
Busy_WaitsForEver(c) ==
    pc[c] = "waiting" /\ lock # NoClient /\ UNCHANGED vars

\* A try fails after the 5 s deadline.
Busy(c) ==
    /\ pc[c] = "waiting" /\ lock # NoClient
    /\ ReturnEarly(c, "busy")
    /\ UNCHANGED <<disk, temp, lock, request, snapshot, calls, crashes>>

\* An error inside the locked callback: the temp file is removed.
Fail(c, res) ==
    /\ pc' = [pc EXCEPT ![c] = "returning"]
    /\ result' = [result EXCEPT ![c] = res]
    /\ temp' = [temp EXCEPT ![c] = Nothing]

\* Mutant: the lock covers the read only.
Load_Unlocks(c) ==
    /\ pc[c] = "loading" /\ disk # Corrupt
    /\ pc' = [pc EXCEPT ![c] = "mutating"]
    /\ snapshot' = [snapshot EXCEPT ![c] = Loaded(disk)]
    /\ lock' = NoClient
    /\ UNCHANGED <<disk, temp, request, result, calls, crashes>>

\* Mutant: fetch-models merges into the config it loaded before the network.
Load_KeepsEarlier(c) ==
    /\ pc[c] = "loading" /\ disk # Corrupt
    /\ pc' = [pc EXCEPT ![c] = "mutating"]
    /\ snapshot' = [snapshot EXCEPT ![c] = IF @ = Nothing THEN Loaded(disk) ELSE @]
    /\ UNCHANGED <<disk, temp, lock, request, result, calls, crashes>>

\* Mutant: a file that does not parse is taken for a missing one.
Load_BrokenAsDefault(c) ==
    /\ pc[c] = "loading"
    /\ pc' = [pc EXCEPT ![c] = "mutating"]
    /\ snapshot' = [snapshot EXCEPT ![c] =
          IF disk = Corrupt THEN DefaultConfig ELSE Loaded(disk)]
    /\ UNCHANGED <<disk, temp, lock, request, result, calls, crashes>>

\* The config is read under the lock; a whole-file save brings its own.
Load(c) ==
    /\ pc[c] = "loading"
    /\ IF request[c].op # "replace" /\ disk = Corrupt
       THEN Fail(c, "broken") /\ UNCHANGED snapshot
       ELSE /\ pc' = [pc EXCEPT ![c] = "mutating"]
            /\ snapshot' = [snapshot EXCEPT ![c] =
                  IF request[c].op = "replace" THEN request[c].config ELSE Loaded(disk)]
            /\ UNCHANGED <<temp, result>>
    /\ UNCHANGED <<disk, lock, request, calls, crashes>>

\* The callback checks and edits what was loaded.
Mutate(c) ==
    /\ pc[c] = "mutating"
    /\ IF Accepts(request[c], snapshot[c])
       THEN /\ pc' = [pc EXCEPT ![c] = "creating"]
            /\ snapshot' = [snapshot EXCEPT ![c] = MigratedForSave(Effect(request[c], @))]
            /\ UNCHANGED <<temp, result>>
       ELSE Fail(c, "rejected") /\ UNCHANGED snapshot
    /\ UNCHANGED <<disk, lock, request, calls, crashes>>

\* Mutant: the file is renamed before its content is written.
CreateTemp_SkipsWrite(c) ==
    /\ pc[c] = "creating"
    /\ temp' = [temp EXCEPT ![c] = Torn]
    /\ pc' = [pc EXCEPT ![c] = "renaming"]
    /\ UNCHANGED <<disk, lock, request, snapshot, result, calls, crashes>>

\* writeFileAtomic: create a temp file under a fresh name ...
CreateTemp(c) ==
    /\ pc[c] = "creating"
    /\ temp' = [temp EXCEPT ![c] = Torn]
    /\ pc' = [pc EXCEPT ![c] = "writing"]
    /\ UNCHANGED <<disk, lock, request, snapshot, result, calls, crashes>>

\* ... write and sync it ...
WriteTemp(c) ==
    /\ pc[c] = "writing"
    /\ temp' = [temp EXCEPT ![c] = snapshot[c]]
    /\ pc' = [pc EXCEPT ![c] = "renaming"]
    /\ UNCHANGED <<disk, lock, request, snapshot, result, calls, crashes>>

\* ... and move it over the config file.
Rename(c) ==
    /\ pc[c] = "renaming"
    /\ disk' = temp[c]
    /\ temp' = [temp EXCEPT ![c] = Nothing]
    /\ pc' = [pc EXCEPT ![c] = "returning"]
    /\ result' = [result EXCEPT ![c] = "ok"]
    /\ UNCHANGED <<lock, request, snapshot, calls, crashes>>

\* Reading, creating, writing, syncing or renaming fails.
IOFails(c) ==
    /\ pc[c] \in {"loading", "creating", "writing", "renaming"}
    /\ pc[c] = "loading" => request[c].op # "replace"
    /\ Fail(c, "ioError")
    /\ UNCHANGED <<disk, lock, request, snapshot, calls, crashes>>

\* Mutant: the error of the callback is dropped.
Unlock_ForgetsError(c) ==
    /\ pc[c] = "returning"
    /\ lock' = NoClient
    /\ pc' = [pc EXCEPT ![c] = "idle"]
    /\ result' = [result EXCEPT ![c] = "ok"]
    /\ UNCHANGED <<disk, temp, request, snapshot, calls, crashes>>

\* The deferred unlock and close.
Unlock(c) ==
    /\ pc[c] = "returning"
    /\ lock' = NoClient
    /\ pc' = [pc EXCEPT ![c] = "idle"]
    /\ UNCHANGED <<disk, temp, request, snapshot, result, calls, crashes>>

\* A process is killed: its calls get no answer, its locks are dropped, its
\* temp files stay behind.
Crash(p) ==
    LET dead == {c \in Clients : ProcessOf[c] = p /\ pc[c] # "idle"}
    IN  /\ crashes < MaxCrashes /\ dead # {}
        /\ crashes' = crashes + 1
        /\ pc' = [c \in Clients |-> IF c \in dead THEN "idle" ELSE pc[c]]
        /\ result' = [c \in Clients |-> IF c \in dead THEN "killed" ELSE result[c]]
        /\ lock' = IF lock \in dead THEN NoClient ELSE lock
        /\ UNCHANGED <<disk, temp, request, snapshot, calls>>

\* What a client does once its call has begun ...
Advances(c) ==
    \/ FetchAnswered(c) \/ FetchFailed(c)
    \/ Acquire(c) \/ Busy(c)
    \/ Load(c) \/ Mutate(c)
    \/ CreateTemp(c) \/ WriteTemp(c) \/ Rename(c)
    \/ Unlock(c)

\* ... and where the file system may fail it.
Step(c) == Advances(c) \/ OpenFails(c) \/ IOFails(c)

Next ==
    \/ \E c \in Clients : (\E r \in Calls : Begin(c, r)) \/ Step(c)
    \/ \E p \in Processes : Crash(p)

\* A running goroutine is scheduled; one that hangs need not be, and no call
\* can count on a failure.
Fairness == \A c \in Clients \ Hung : WF_vars(Advances(c))

Spec == Init /\ [][Next]_vars /\ Fairness

-----------------------------------------------------------------------------

TypeOK ==
    /\ disk \in Config \cup {Missing, Corrupt, Torn}
    /\ temp \in [Clients -> Config \cup {Torn, Nothing}]
    /\ lock \in Clients \cup {NoClient}
    /\ pc \in [Clients -> Phases]
    /\ request \in [Clients -> Requests \cup {Nothing}]
    /\ snapshot \in [Clients -> Config \cup {Nothing}]
    /\ result \in [Clients -> Results]
    /\ calls \in [Clients -> 0..MaxCalls]
    /\ crashes \in 0..MaxCrashes

(* No update is lost: whatever value replaces the config file is the effect *)
(* of some call on the content being replaced, not on an older snapshot     *)
(* (config.go:551-554, system-contract 2.2 item 8).                         *)
NoLostUpdate ==
    [][disk' # disk => \E c \in Clients :
          /\ pc[c] = "renaming"
          /\ Allowed(request[c], disk)
          /\ disk' = Outcome(request[c], disk)]_vars

(* A reader, which takes no lock, never finds a half-written config file:   *)
(* writeFileAtomic writes beside it and renames only complete files.        *)
NeverTorn == disk # Torn

(* A file that does not parse is only ever replaced by a whole-file save:   *)
(* no local change lets a broken config pass for a default or empty one     *)
(* (config.go:642-646).                                                     *)
BrokenIsNotDefault ==
    [][disk = Corrupt /\ disk' # disk =>
          \E c \in Clients : pc[c] = "renaming" /\ request[c].op = "replace"]_vars

(* fetch-models, whose network call runs outside the lock, only adds ids to *)
(* the pool of its channel: entries and exposures written meanwhile stay,   *)
(* and so do the other channels and suppliers (fetch.go:214-220, 259-261).  *)
OnlyAddsModels(r, old, new) ==
    /\ new.current = old.current
    /\ \A n \in Names \ {r.name} : new.profiles[n] = old.profiles[n]
    /\ \A k \in Keys, m \in Models :
          LET before == old.profiles[r.name].channels[k]
              after  == new.profiles[r.name].channels[k]
          IN  before # NoChannel /\ k # Unnamed =>
                /\ after # NoChannel
                /\ after.exposed = before.exposed
                /\ after.pool[m] # before.pool[m] =>
                      k = r.channel /\ ~InPool(before, m) /\ m \in r.ids

FetchOnlyAdds ==
    [][\A c \in Clients : disk' # disk /\ pc[c] = "renaming" /\ pc'[c] = "returning"
          /\ request[c].op = "fetch" => OnlyAddsModels(request[c], Loaded(disk), disk')]_vars

(* The active supplier stays one the config has, whatever calls race with   *)
(* its deletion or selection; only a rename or a whole-file save, which do  *)
(* not look at it, can leave it dangling (main.go:629-636, 650-656,         *)
(* profile_handlers.go:186-195, 203-214).                                   *)
ActiveExists(cfg) == cfg.current = NoProfile \/ Has(cfg, cfg.current)

ActiveSupplierKept ==
    [][disk' # disk /\ disk # Corrupt /\ ActiveExists(Loaded(disk)) =>
          \/ ActiveExists(disk')
          \/ \E c \in Clients :
                /\ pc[c] = "renaming"
                /\ \/ request[c].op = "replace"
                   \/ request[c].op = "put" /\ request[c].from = disk'.current]_vars

(* At most one client is between the load and the end of its write, and it  *)
(* is the one whose descriptor holds the flock.                             *)
LockProtects ==
    \A c \in Clients : pc[c] \in Locked <=> lock = c

(* What a client inside the callback holds in memory is about the file as   *)
(* it still is: loaded from it, or already the outcome of its call on it,   *)
(* and a temp file that is about to be renamed holds exactly that outcome.  *)
SnapshotCurrent ==
    \A c \in Clients :
        /\ pc[c] # "idle" => request[c] \in Requests /\ Admissible(request[c])
        /\ pc[c] = "mutating" =>
              IF request[c].op = "replace" THEN snapshot[c] = request[c].config
              ELSE disk # Corrupt /\ snapshot[c] = Loaded(disk)
        /\ pc[c] \in {"creating", "writing", "renaming"} =>
              Allowed(request[c], disk) /\ snapshot[c] = Outcome(request[c], disk)
        /\ pc[c] = "renaming" => temp[c] = snapshot[c]

(* A temp file lies next to the config only while its call writes it, or    *)
(* because the process was killed doing so: every way out of the callback,  *)
(* failures included, removes it.                                           *)
NoTempLeft ==
    \A c \in Clients : temp[c] # Nothing =>
        \/ pc[c] \in {"writing", "renaming"}
        \/ pc[c] = "idle" /\ result[c] = "killed"

(* Every call of a client that keeps running returns, whatever the others   *)
(* do: a holder of the lock that hangs makes it fail busy, and a killed one *)
(* releases the lock.                                                       *)
EveryCallReturns ==
    \A c \in Clients \ Hung : pc[c] # "idle" ~> pc[c] = "idle"

\* Every id a channel exposes is in that channel's pool.
Sound(prof) ==
    \A k \in ChannelsOf(prof) : \A m \in prof.channels[k].exposed :
        InPool(prof.channels[k], m)

WithinPools(cfg) == \A n \in Names : Has(cfg, n) => Sound(cfg.profiles[n])

ExposedWithinPool == disk \in {Missing, Corrupt, Torn} \/ WithinPools(disk)

\* PUT models drops an id its channel exposes, or a whole-file save brings
\* a profile that exposes an id its pool lacks.
DropsExposed(r, file) ==
    \/ /\ r.op = "models"
       /\ \E m \in MutatedChannel(r, Loaded(file)).exposed : r.models[m] = "absent"
    \/ r.op = "replace" /\ ~WithinPools(r.config)

(* A channel comes to expose a model its pool lacks, "which would make      *)
(* routing claim a model it cannot serve" (profile.go:76-79), only by a PUT *)
(* models, which replaces the pool under the exposures, or a whole-file     *)
(* save that brings such a channel: expose, fetch, create, put, duplicate   *)
(* and the upgrade of a legacy channel keep to the pool as it is when they  *)
(* write, whatever pool they were asked about (validate.go:81).             *)
ExposuresServable ==
    [][ExposedWithinPool /\ ~ExposedWithinPool' =>
          \E c \in Clients : pc[c] = "renaming" /\ DropsExposed(request[c], disk)]_vars

-----------------------------------------------------------------------------

(* The store implements AtomicConfig, in which a call takes effect in one   *)
(* step on the file as it is: a call is pending from its begin to its       *)
(* outcome, and done until the lock is given back.                          *)
Atomic == INSTANCE AtomicConfig WITH
    call <- [c \in Clients |->
                IF pc[c] = "idle" THEN "idle"
                ELSE IF pc[c] = "returning" THEN "done" ELSE "pending"]

Implements == Atomic!Spec
=============================================================================
