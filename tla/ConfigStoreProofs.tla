------------------------- MODULE ConfigStoreProofs -------------------------
(***************************************************************************)
(* Proofs about ConfigStore, for any clients, processes, calls and bounds. *)
(***************************************************************************)
EXTENDS ConfigStore, TLAPS

-----------------------------------------------------------------------------
(* The mutations map configs to configs.                                   *)

(* The content of a missing file is a config.                              *)
LEMMA DefaultType == DefaultConfig \in Config
<1> DEFINE main == [pool    |-> [EmptyPool EXCEPT ![DefaultModel] = "edited"],
                    exposed |-> {DefaultModel}]
           prof == [channels |-> [k \in Keys |-> IF k = Main THEN main ELSE NoChannel],
                    capable  |-> TRUE, agent |-> "default"]
<1>1. main \in Channel
  BY ConfigAssumption DEF EmptyPool, Channel, Pool
<1>2. prof \in Profile
  BY <1>1 DEF Profile
<1> HIDE DEF prof
<1>3. QED
  BY <1>2, ConfigAssumption DEF DefaultConfig, Config, Sources, prof

(* Loading a file that parses gives a config.                              *)
LEMMA LoadedType ==
    ASSUME NEW file \in Config \cup {Missing}
    PROVE  Loaded(file) \in Config
BY DefaultType DEF Loaded

(* The save-time migration keeps the shape of a config.                    *)
LEMMA MigratedType ==
    ASSUME NEW cfg \in Config
    PROVE  MigratedForSave(cfg) \in Config
BY DEF MigratedForSave, Config, Sources

(* Resolving the channel of a mutation keeps the shape of a profile, and   *)
(* the channel is there afterwards.                                        *)
LEMMA MutationChannelType ==
    ASSUME NEW prof \in Profile, NEW ch \in Channels, HasMutationChannel(prof, ch)
    PROVE  /\ EnsureMutationChannel(prof, ch) \in Profile
           /\ EnsureMutationChannel(prof, ch).channels[ch] \in Channel
<1> DEFINE inherited == IF prof.channels[Unnamed] # NoChannel
                        THEN prof.channels[Unnamed]
                        ELSE [pool |-> EmptyPool, exposed |-> {}]
<1>1. Unnamed \in Keys /\ ch \in Keys /\ ch # Unnamed
  BY ConfigAssumption DEF Keys
<1>2. inherited \in Channel
  <2>1. [pool |-> EmptyPool, exposed |-> {}] \in Channel
    BY DEF EmptyPool, Channel, Pool
  <2>2. prof.channels[Unnamed] \in Channel \cup {NoChannel}
    BY <1>1 DEF Profile
  <2>3. QED
    BY <2>1, <2>2
<1> HIDE DEF inherited
<1>3. CASE prof.channels[ch] # NoChannel
  BY <1>1, <1>3 DEF EnsureMutationChannel, Profile
<1>4. CASE prof.channels[ch] = NoChannel
  <2>1. EnsureMutationChannel(prof, ch)
          = [prof EXCEPT !.channels[ch] = inherited, !.channels[Unnamed] = NoChannel]
    BY <1>4 DEF EnsureMutationChannel, inherited
  <2> DEFINE step1 == [prof EXCEPT !.channels[ch] = inherited]
             step2 == [step1 EXCEPT !.channels[Unnamed] = NoChannel]
  <2>2. step1 \in Profile /\ step1.channels[ch] = inherited
    BY <1>1, <1>2 DEF Profile
  <2> HIDE DEF step1
  <2>3. step2 \in Profile /\ step2.channels[ch] = inherited
    BY <1>1, <2>2 DEF Profile
  <2>4. EnsureMutationChannel(prof, ch) = step2
    BY <2>1 DEF step1
  <2>5. QED
    BY <1>2, <2>3, <2>4
<1>5. QED
  BY <1>3, <1>4

(* What is written is a profile again.                                     *)
LEMMA ChannelBackType ==
    ASSUME NEW cfg \in Config, NEW r, r.name \in Names, r.channel \in Channels,
           ChannelResolves(r, cfg), NEW ch \in Channel
    PROVE  \E prof \in Profile : WithChannel(r, cfg, ch) = [cfg EXCEPT !.profiles[r.name] = prof]
<1> DEFINE prof == EnsureMutationChannel(cfg.profiles[r.name], r.channel)
<1>1. cfg.profiles[r.name] \in Profile
  BY DEF ChannelResolves, Has, Config
<1>2. prof \in Profile
  BY <1>1, MutationChannelType DEF ChannelResolves
<1> HIDE DEF prof
<1>3. [prof EXCEPT !.channels[r.channel] = ch] \in Profile
  BY <1>2 DEF Profile, Keys
<1>4. QED
  BY <1>3 DEF WithChannel, prof

(* The three mutations of a channel write one profile.                     *)
LEMMA ChannelEffect ==
    ASSUME NEW cfg \in Config, NEW r \in Requests, Accepts(r, cfg),
           r.op \in {"models", "expose", "fetch"}
    PROVE  /\ r.name \in Names
           /\ \E prof \in Profile : Effect(r, cfg) = [cfg EXCEPT !.profiles[r.name] = prof]
<1>1. r.name \in Names /\ r.channel \in Channels
  BY DEF Requests
<1>2. ChannelResolves(r, cfg)
  BY DEF Accepts
<1>3. MutatedChannel(r, cfg) \in Channel
  <2>1. cfg.profiles[r.name] \in Profile
    BY <1>1, <1>2 DEF ChannelResolves, Has, Config
  <2>2. QED
    BY <1>1, <1>2, <2>1, MutationChannelType DEF ChannelResolves, MutatedChannel
<1>4. CASE r.op = "models"
  <2>1. [MutatedChannel(r, cfg) EXCEPT !.pool = r.models] \in Channel
    BY <1>3, <1>4 DEF Requests, Channel
  <2>2. QED
    BY <1>1, <1>2, <1>4, <2>1, ChannelBackType DEF Effect, PutModels
<1>5. CASE r.op = "expose"
  <2>1. [MutatedChannel(r, cfg) EXCEPT !.exposed = r.ids] \in Channel
    BY <1>3, <1>5 DEF Requests, Channel
  <2>2. QED
    BY <1>1, <1>2, <1>5, <2>1, ChannelBackType DEF Effect, SetExposedModels
<1>6. CASE r.op = "fetch"
  <2> DEFINE ch == MutatedChannel(r, cfg)
             grown == [ch EXCEPT !.pool = [m \in Models |->
                        IF m \in r.ids /\ ~InPool(ch, m) THEN "seed" ELSE ch.pool[m]]]
  <2>1. grown \in Channel
    BY <1>3 DEF Channel, Pool
  <2> HIDE DEF grown
  <2>2. Effect(r, cfg) = WithChannel(r, cfg, grown)
    BY <1>6 DEF Effect, MergeFetched, grown
  <2>3. QED
    BY <1>1, <1>2, <2>1, <2>2, ChannelBackType
<1>7. QED
  BY <1>1, <1>4, <1>5, <1>6

(* Every mutation that is accepted maps a config to a config.              *)
LEMMA EffectType ==
    ASSUME NEW cfg \in Config, NEW r \in Requests, Accepts(r, cfg)
    PROVE  Effect(r, cfg) \in Config
<1>1. CASE r.op = "create"
  <2>1. r.name \in Names /\ r.prof \in Profile
    BY <1>1 DEF Requests
  <2>2. QED
    BY <1>1, <2>1 DEF Effect, Create, Config
<1>2. CASE r.op = "put"
  <2>1. r.name \in Names /\ r.prof \in Profile
    BY <1>2 DEF Requests
  <2>2. QED
    BY <1>2, <2>1 DEF Effect, Put, Config
<1>3. CASE r.op \in {"delete", "cliDelete"}
  <2>1. r.name \in Names
    BY <1>3 DEF Requests
  <2>2. QED
    BY <1>3, <2>1 DEF Effect, Delete, Config
<1>4. CASE r.op = "use"
  <2>1. r.name \in Names
    BY <1>4 DEF Requests
  <2>2. QED
    BY <1>4, <2>1 DEF Effect, Use, Config
<1>5. CASE r.op = "duplicate"
  <2>1. r.name \in Names /\ r.as \in Names
    BY <1>5 DEF Requests
  <2>2. QED
    BY <1>5, <2>1 DEF Effect, Duplicate, Config
<1>6. CASE r.op = "spoof"
  <2>1. r.name \in Names /\ r.agent \in Spoofs \cup {"default"}
    BY <1>6 DEF Requests, Accepts
  <2>2. cfg.profiles[r.name] \in Profile
    BY <1>6, <2>1 DEF Accepts, Has, Config
  <2>3. [cfg.profiles[r.name] EXCEPT !.agent = r.agent] \in Profile
    BY <2>1, <2>2 DEF Profile
  <2>4. QED
    BY <1>6, <2>1, <2>3 DEF Effect, Spoof, Config
<1>7. CASE r.op \in {"models", "expose", "fetch"}
  <2>1. PICK prof \in Profile : /\ Effect(r, cfg) = [cfg EXCEPT !.profiles[r.name] = prof]
                               /\ r.name \in Names
    BY <1>7, ChannelEffect
  <2>2. QED
    BY <2>1 DEF Config
<1>8. CASE r.op = "settings"
  <2>1. r.source \in Sources \cup {"other"}
    BY <1>8 DEF Requests
  <2>2. QED
    BY <1>8, <2>1 DEF Effect, PutSettings, Config
<1>9. CASE r.op = "replace"
  BY <1>9 DEF Effect, Requests
<1>10. QED
  BY <1>1, <1>2, <1>3, <1>4, <1>5, <1>6, <1>7, <1>8, <1>9 DEF Accepts

(* The outcome of an allowed call is a config.                             *)
LEMMA OutcomeType ==
    ASSUME NEW r \in Requests, NEW file \in Config \cup {Missing, Corrupt},
           Allowed(r, file)
    PROVE  Outcome(r, file) \in Config
<1>1. CASE r.op = "replace"
  <2>1. r.config \in Config
    BY <1>1 DEF Requests
  <2>2. QED
    BY <1>1, <2>1, MigratedType DEF Outcome
<1>2. CASE r.op # "replace"
  <2>1. Loaded(file) \in Config /\ Accepts(r, Loaded(file))
    BY <1>2, LoadedType DEF Allowed
  <2>2. QED
    BY <1>2, <2>1, EffectType, MigratedType DEF Outcome
<1>3. QED
  BY <1>1, <1>2

-----------------------------------------------------------------------------
(* The inductive invariant.                                                *)

IInv ==
    /\ TypeOK
    /\ NeverTorn
    /\ LockProtects
    /\ SnapshotCurrent
    /\ NoTempLeft

(* What the constants' assumption says of the special values.              *)
LEMMA SpecialValues ==
    /\ Torn \notin Config /\ Nothing \notin Config /\ Corrupt \notin Config
    /\ Missing \notin Config
    /\ Torn # Missing /\ Torn # Corrupt /\ Torn # Nothing
    /\ Nothing \notin Requests
    /\ NoClient \notin Clients
BY StoreAssumption

LEMMA InitIInv == Init => IInv
<1> SUFFICES ASSUME Init PROVE IInv
  OBVIOUS
<1>1. TypeOK
  BY StoreAssumption DEF Init, TypeOK, Phases, Results
<1>2. NeverTorn
  BY SpecialValues, StoreAssumption DEF Init, NeverTorn
<1>3. LockProtects
  BY SpecialValues DEF Init, LockProtects, Locked
<1>4. SnapshotCurrent
  BY DEF Init, SnapshotCurrent
<1>5. NoTempLeft
  BY DEF Init, NoTempLeft
<1>6. QED
  BY <1>1, <1>2, <1>3, <1>4, <1>5 DEF IInv

(* What a step of the callback finds in memory.                            *)
LEMMA MemoryType ==
    ASSUME IInv, NEW c \in Clients
    PROVE  /\ pc[c] # "idle" => request[c] \in Requests
           /\ disk \in Config \cup {Missing, Corrupt}
           /\ pc[c] = "mutating" => snapshot[c] \in Config
           /\ pc[c] \in {"creating", "writing", "renaming"} => snapshot[c] \in Config
<1>1. disk \in Config \cup {Missing, Corrupt}
  BY DEF IInv, TypeOK, NeverTorn
<1>2. pc[c] # "idle" => request[c] \in Requests
  BY DEF IInv, SnapshotCurrent
<1>3. ASSUME pc[c] = "mutating" PROVE snapshot[c] \in Config
  <2>1. CASE request[c].op = "replace"
    <3>1. snapshot[c] = request[c].config
      BY <1>3, <2>1 DEF IInv, SnapshotCurrent
    <3>2. QED
      BY <1>2, <1>3, <2>1, <3>1 DEF Requests
  <2>2. CASE request[c].op # "replace"
    <3>1. disk # Corrupt /\ snapshot[c] = Loaded(disk)
      BY <1>3, <2>2 DEF IInv, SnapshotCurrent
    <3>2. QED
      BY <1>1, <3>1, LoadedType
  <2>3. QED
    BY <2>1, <2>2
<1>4. ASSUME pc[c] \in {"creating", "writing", "renaming"} PROVE snapshot[c] \in Config
  <2>1. Allowed(request[c], disk) /\ snapshot[c] = Outcome(request[c], disk)
    BY <1>4 DEF IInv, SnapshotCurrent
  <2>2. QED
    BY <1>1, <1>2, <1>4, <2>1, OutcomeType
<1>5. QED
  BY <1>1, <1>2, <1>3, <1>4

LEMMA TypeStep == IInv /\ [Next]_vars => TypeOK'
<1> SUFFICES ASSUME IInv, [Next]_vars PROVE TypeOK'
  OBVIOUS
<1> USE DEF Phases, Locked, Results, Failures
<1>1. TypeOK
  BY DEF IInv
<1>2. ASSUME NEW c \in Clients, NEW r \in Calls, Begin(c, r) PROVE TypeOK'
  <2>1. r \in Requests
    BY StoreAssumption
  <2>2. snapshot' \in [Clients -> Config \cup {Nothing}]
    <3>1. disk # Corrupt => Loaded(disk) \in Config
      BY LoadedType DEF IInv, TypeOK, NeverTorn
    <3>2. QED
      BY <1>1, <1>2, <3>1 DEF Begin, TypeOK
  <2>3. pc' \in [Clients -> Phases] /\ result' \in [Clients -> Results]
    BY <1>1, <1>2 DEF Begin, ReturnEarly, TypeOK
  <2>4. calls' \in [Clients -> 0..MaxCalls]
    BY <1>1, <1>2, StoreAssumption DEF Begin, TypeOK
  <2>5. QED
    BY <1>1, <1>2, <2>1, <2>2, <2>3, <2>4 DEF Begin, TypeOK
<1>3. ASSUME NEW c \in Clients,
             FetchAnswered(c) \/ FetchFailed(c) \/ OpenFails(c) \/ Acquire(c) \/ Busy(c)
      PROVE  TypeOK'
  BY <1>1, <1>3 DEF FetchAnswered, FetchFailed, OpenFails, Acquire, Busy, ReturnEarly, TypeOK
<1>4. ASSUME NEW c \in Clients, Load(c) PROVE TypeOK'
  <2>1. snapshot' \in [Clients -> Config \cup {Nothing}]
    <3>1. pc[c] # "idle" /\ request[c] \in Requests
      BY <1>4, MemoryType DEF Load
    <3>2. request[c].op = "replace" => request[c].config \in Config
      BY <3>1 DEF Requests
    <3>3. disk # Corrupt => Loaded(disk) \in Config
      BY LoadedType DEF IInv, TypeOK, NeverTorn
    <3>4. QED
      BY <1>1, <1>4, <3>2, <3>3 DEF Load, Fail, TypeOK
  <2>2. pc' \in [Clients -> Phases] /\ result' \in [Clients -> Results]
    BY <1>1, <1>4 DEF Load, Fail, TypeOK
  <2>3. temp' \in [Clients -> Config \cup {Torn, Nothing}]
    BY <1>1, <1>4 DEF Load, Fail, TypeOK
  <2>4. QED
    BY <1>1, <1>4, <2>1, <2>2, <2>3 DEF Load, TypeOK
<1>5. ASSUME NEW c \in Clients, Mutate(c) PROVE TypeOK'
  <2>1. snapshot' \in [Clients -> Config \cup {Nothing}]
    <3>1. request[c] \in Requests /\ snapshot[c] \in Config
      BY <1>5, MemoryType DEF Mutate
    <3>2. Accepts(request[c], snapshot[c]) =>
             MigratedForSave(Effect(request[c], snapshot[c])) \in Config
      BY <3>1, EffectType, MigratedType
    <3>3. QED
      BY <1>1, <1>5, <3>2 DEF Mutate, TypeOK
  <2>2. pc' \in [Clients -> Phases] /\ result' \in [Clients -> Results]
    BY <1>1, <1>5 DEF Mutate, Fail, TypeOK
  <2>3. temp' \in [Clients -> Config \cup {Torn, Nothing}]
    BY <1>1, <1>5 DEF Mutate, Fail, TypeOK
  <2>4. QED
    BY <1>1, <1>5, <2>1, <2>2, <2>3 DEF Mutate, TypeOK
<1>6. ASSUME NEW c \in Clients, CreateTemp(c) \/ WriteTemp(c) \/ IOFails(c) \/ Unlock(c)
      PROVE  TypeOK'
  BY <1>1, <1>6, StoreAssumption DEF CreateTemp, WriteTemp, IOFails, Unlock, Fail, TypeOK
<1>7. ASSUME NEW c \in Clients, Rename(c) PROVE TypeOK'
  <2>1. temp[c] \in Config
    <3>1. temp[c] = snapshot[c]
      BY <1>7 DEF Rename, IInv, SnapshotCurrent
    <3>2. QED
      BY <1>7, <3>1, MemoryType DEF Rename
  <2>2. QED
    BY <1>1, <1>7, <2>1 DEF Rename, TypeOK
<1>8. ASSUME NEW p \in Processes, Crash(p) PROVE TypeOK'
  BY <1>1, <1>8, StoreAssumption DEF Crash, TypeOK
<1>9. CASE UNCHANGED vars
  BY <1>1, <1>9 DEF vars, TypeOK
<1>10. QED
  BY <1>2, <1>3, <1>4, <1>5, <1>6, <1>7, <1>8, <1>9 DEF Next, Step, Advances

(* Only the holder of the flock is inside the callback.                    *)
LEMMA LockStep == IInv /\ [Next]_vars => LockProtects'
<1> SUFFICES ASSUME IInv, [Next]_vars PROVE LockProtects'
  OBVIOUS
<1> USE DEF Locked
<1>1. TypeOK /\ LockProtects
  BY DEF IInv
<1>2. ASSUME NEW c \in Clients, NEW r \in Calls, Begin(c, r) PROVE LockProtects'
  BY <1>1, <1>2 DEF Begin, ReturnEarly, TypeOK, LockProtects
<1>3. ASSUME NEW c \in Clients,
             FetchAnswered(c) \/ FetchFailed(c) \/ OpenFails(c) \/ Busy(c)
      PROVE  LockProtects'
  BY <1>1, <1>3 DEF FetchAnswered, FetchFailed, OpenFails, Busy, ReturnEarly, TypeOK, LockProtects
<1>4. ASSUME NEW c \in Clients, Acquire(c) PROVE LockProtects'
  BY <1>1, <1>4, SpecialValues DEF Acquire, TypeOK, LockProtects
<1>5. ASSUME NEW c \in Clients,
             Load(c) \/ Mutate(c) \/ CreateTemp(c) \/ WriteTemp(c) \/ Rename(c) \/ IOFails(c)
      PROVE  LockProtects'
  BY <1>1, <1>5 DEF Load, Mutate, CreateTemp, WriteTemp, Rename, IOFails, Fail, TypeOK,
     LockProtects
<1>6. ASSUME NEW c \in Clients, Unlock(c) PROVE LockProtects'
  BY <1>1, <1>6, SpecialValues DEF Unlock, TypeOK, LockProtects
<1>7. ASSUME NEW p \in Processes, Crash(p) PROVE LockProtects'
  BY <1>1, <1>7, SpecialValues DEF Crash, TypeOK, LockProtects
<1>8. CASE UNCHANGED vars
  BY <1>1, <1>8 DEF vars, LockProtects
<1>9. QED
  BY <1>2, <1>3, <1>4, <1>5, <1>6, <1>7, <1>8 DEF Next, Step, Advances

(* A rename moves a complete config into place.                            *)
LEMMA TornStep == IInv /\ [Next]_vars => NeverTorn'
<1> SUFFICES ASSUME IInv, [Next]_vars PROVE NeverTorn'
  OBVIOUS
<1>1. ASSUME NEW c \in Clients, Rename(c) PROVE NeverTorn'
  <2>1. temp[c] = snapshot[c] /\ snapshot[c] \in Config
    BY <1>1, MemoryType DEF Rename, IInv, SnapshotCurrent
  <2>2. QED
    BY <1>1, <2>1, SpecialValues DEF Rename, NeverTorn
<1>2. CASE disk' = disk
  BY <1>2 DEF IInv, NeverTorn
<1>3. QED
  BY <1>1, <1>2 DEF Next, Step, Advances, Begin, FetchAnswered, FetchFailed, OpenFails, Acquire,
     Busy,
     Load, Mutate, CreateTemp, WriteTemp, IOFails, Unlock, Crash, vars

(* Every way out of the callback removes the temp file.                    *)
LEMMA TempStep == IInv /\ [Next]_vars => NoTempLeft'
<1> SUFFICES ASSUME IInv, [Next]_vars PROVE NoTempLeft'
  OBVIOUS
<1>1. TypeOK /\ NoTempLeft
  BY DEF IInv
<1>2. ASSUME NEW c \in Clients, NEW r \in Calls, Begin(c, r) PROVE NoTempLeft'
  BY <1>1, <1>2 DEF Begin, ReturnEarly, TypeOK, NoTempLeft
<1>3. ASSUME NEW c \in Clients,
             FetchAnswered(c) \/ FetchFailed(c) \/ OpenFails(c) \/ Acquire(c) \/ Busy(c)
      PROVE  NoTempLeft'
  BY <1>1, <1>3 DEF FetchAnswered, FetchFailed, OpenFails, Acquire, Busy, ReturnEarly, TypeOK,
     NoTempLeft
<1>4. ASSUME NEW c \in Clients,
             Load(c) \/ Mutate(c) \/ CreateTemp(c) \/ WriteTemp(c) \/ Rename(c) \/ IOFails(c)
      PROVE  NoTempLeft'
  BY <1>1, <1>4 DEF Load, Mutate, CreateTemp, WriteTemp, Rename, IOFails, Fail, TypeOK, NoTempLeft
<1>5. ASSUME NEW c \in Clients, Unlock(c) PROVE NoTempLeft'
  BY <1>1, <1>5 DEF Unlock, TypeOK, NoTempLeft
<1>6. ASSUME NEW p \in Processes, Crash(p) PROVE NoTempLeft'
  BY <1>1, <1>6 DEF Crash, TypeOK, NoTempLeft
<1>7. CASE UNCHANGED vars
  BY <1>1, <1>7 DEF vars, NoTempLeft
<1>8. QED
  BY <1>2, <1>3, <1>4, <1>5, <1>6, <1>7 DEF Next, Step, Advances

(* Nobody but the client in the callback changes the file, so what it      *)
(* holds in memory stays about the file as it is.                          *)
LEMMA SnapshotStep == IInv /\ [Next]_vars => SnapshotCurrent'
<1> SUFFICES ASSUME IInv, [Next]_vars PROVE SnapshotCurrent'
  OBVIOUS
<1>1. TypeOK /\ SnapshotCurrent
  BY DEF IInv
<1>2. ASSUME NEW c \in Clients, NEW r \in Calls, Begin(c, r) PROVE SnapshotCurrent'
  <2>1. r \in Requests /\ (r.op = "fetch" => Admissible(r))
    BY StoreAssumption DEF Admissible
  <2>2. pc'[c] \in {"idle", "waiting", "fetching"} /\ request'[c] = r
        /\ (pc'[c] # "idle" => Admissible(r))
    BY <1>1, <1>2, <2>1 DEF Begin, ReturnEarly, TypeOK
  <2>3. \A d \in Clients \ {c} : /\ pc'[d] = pc[d] /\ request'[d] = request[d]
                                 /\ snapshot'[d] = snapshot[d] /\ temp'[d] = temp[d]
    BY <1>1, <1>2 DEF Begin, ReturnEarly, TypeOK
  <2>4. disk' = disk
    BY <1>2 DEF Begin
  <2>5. QED
    BY <1>1, <2>1, <2>2, <2>3, <2>4 DEF SnapshotCurrent
<1>3. ASSUME NEW c \in Clients,
             FetchAnswered(c) \/ FetchFailed(c) \/ OpenFails(c) \/ Acquire(c) \/ Busy(c) \/ Unlock(c)
      PROVE  SnapshotCurrent'
  BY <1>1, <1>3 DEF FetchAnswered, FetchFailed, OpenFails, Acquire, Busy, Unlock, ReturnEarly,
     TypeOK, SnapshotCurrent
<1>4. ASSUME NEW c \in Clients, Load(c) PROVE SnapshotCurrent'
  BY <1>1, <1>4 DEF Load, Fail, TypeOK, SnapshotCurrent
<1>5. ASSUME NEW c \in Clients, Mutate(c) PROVE SnapshotCurrent'
  <2>1. Accepts(request[c], snapshot[c]) =>
           /\ Allowed(request[c], disk)
           /\ MigratedForSave(Effect(request[c], snapshot[c])) = Outcome(request[c], disk)
    <3>1. CASE request[c].op = "replace"
      BY <1>1, <1>5, <3>1 DEF Mutate, SnapshotCurrent, Allowed, Outcome, Effect
    <3>2. CASE request[c].op # "replace"
      BY <1>1, <1>5, <3>2 DEF Mutate, SnapshotCurrent, Allowed, Outcome
    <3>3. QED
      BY <3>1, <3>2
  <2>2. \A d \in Clients \ {c} : /\ pc'[d] = pc[d] /\ snapshot'[d] = snapshot[d] /\ temp'[d] = temp[d]
    BY <1>1, <1>5 DEF Mutate, Fail, TypeOK
  <2>3. disk' = disk /\ request' = request
    BY <1>5 DEF Mutate
  <2>4. \/ pc'[c] = "creating" /\ Accepts(request[c], snapshot[c])
           /\ snapshot'[c] = MigratedForSave(Effect(request[c], snapshot[c]))
        \/ pc'[c] = "returning"
    BY <1>1, <1>5 DEF Mutate, Fail, TypeOK
  <2>5. pc[c] # "idle"
    BY <1>5 DEF Mutate
  <2>6. QED
    BY <1>1, <2>1, <2>2, <2>3, <2>4, <2>5 DEF SnapshotCurrent
<1>6. ASSUME NEW c \in Clients, CreateTemp(c) \/ WriteTemp(c) \/ IOFails(c) PROVE SnapshotCurrent'
  BY <1>1, <1>6 DEF CreateTemp, WriteTemp, IOFails, Fail, TypeOK, SnapshotCurrent
<1>7. ASSUME NEW c \in Clients, Rename(c) PROVE SnapshotCurrent'
  <2>1. \A d \in Clients \ {c} : pc[d] \notin Locked
    BY <1>7 DEF Rename, IInv, LockProtects, Locked
  <2>2. pc'[c] = "returning" /\ \A d \in Clients \ {c} : pc'[d] = pc[d]
    BY <1>1, <1>7 DEF Rename, TypeOK
  <2>3. request' = request /\ pc[c] # "idle"
    BY <1>7 DEF Rename
  <2>4. QED
    BY <1>1, <2>1, <2>2, <2>3 DEF SnapshotCurrent, Locked
<1>8. ASSUME NEW p \in Processes, Crash(p) PROVE SnapshotCurrent'
  BY <1>1, <1>8 DEF Crash, TypeOK, SnapshotCurrent
<1>9. CASE UNCHANGED vars
  BY <1>1, <1>9 DEF vars, SnapshotCurrent
<1>10. QED
  BY <1>2, <1>3, <1>4, <1>5, <1>6, <1>7, <1>8, <1>9 DEF Next, Step, Advances

(* The invariant is inductive, so it holds in every reachable state.       *)
THEOREM Invariance == Spec => []IInv
<1>1. Init => IInv
  BY InitIInv
<1>2. IInv /\ [Next]_vars => IInv'
  <2> SUFFICES ASSUME IInv, [Next]_vars PROVE IInv'
    OBVIOUS
  <2>1. TypeOK'
    BY TypeStep
  <2>2. NeverTorn'
    BY TornStep
  <2>3. LockProtects'
    BY LockStep
  <2>4. SnapshotCurrent'
    BY SnapshotStep
  <2>5. NoTempLeft'
    BY TempStep
  <2>6. QED
    BY <2>1, <2>2, <2>3, <2>4, <2>5 DEF IInv
<1>3. QED
  BY <1>1, <1>2, PTL DEF Spec

-----------------------------------------------------------------------------
(* The properties of the runs, for every value of the constants.           *)

(* Every variable keeps its type.                                          *)
THEOREM TypeCorrect == Spec => []TypeOK
BY Invariance, PTL DEF IInv

(* Only the holder of the flock is between its load and its unlock.        *)
THEOREM MutualExclusion == Spec => []LockProtects
BY Invariance, PTL DEF IInv

(* No reader ever finds a half-written config file.                        *)
THEOREM AtomicReplacement == Spec => []NeverTorn
BY Invariance, PTL DEF IInv

(* Temp files lie around only during a write or after a kill.              *)
THEOREM TempFilesRemoved == Spec => []NoTempLeft
BY Invariance, PTL DEF IInv

(* What a call is about to write is its outcome on the file as it is.      *)
THEOREM SnapshotsAreCurrent == Spec => []SnapshotCurrent
BY Invariance, PTL DEF IInv

(* The file changes only by the rename of a client that is allowed to, to  *)
(* its outcome on the content it replaces.                                 *)
LEMMA DiskStep ==
    ASSUME IInv, [Next]_vars, disk' # disk
    PROVE  \E c \in Clients :
              /\ Rename(c)
              /\ Allowed(request[c], disk)
              /\ disk' = Outcome(request[c], disk)
<1>1. PICK c \in Clients : Rename(c)
  BY DEF Next, Step, Advances, Begin, FetchAnswered, FetchFailed, OpenFails, Acquire, Busy,
     Load, Mutate, CreateTemp, WriteTemp, IOFails, Unlock, Crash, vars
<1>2. temp[c] = snapshot[c] /\ snapshot[c] = Outcome(request[c], disk) /\ Allowed(request[c], disk)
  BY <1>1 DEF Rename, IInv, SnapshotCurrent
<1>3. QED
  BY <1>1, <1>2 DEF Rename

(* No call overwrites what another committed after its snapshot was taken. *)
THEOREM NoUpdateIsLost == Spec => NoLostUpdate
<1>1. ASSUME IInv, [Next]_vars
      PROVE  disk' # disk => \E c \in Clients :
                /\ pc[c] = "renaming"
                /\ Allowed(request[c], disk)
                /\ disk' = Outcome(request[c], disk)
  BY <1>1, DiskStep DEF Rename
<1>2. QED
  BY <1>1, Invariance, PTL DEF Spec, NoLostUpdate

(* A file that does not parse is only replaced by a whole-file save.       *)
THEOREM BrokenFileKept == Spec => BrokenIsNotDefault
<1>1. ASSUME IInv, [Next]_vars
      PROVE  disk = Corrupt /\ disk' # disk =>
                \E c \in Clients : pc[c] = "renaming" /\ request[c].op = "replace"
  BY <1>1, DiskStep DEF Rename, Allowed
<1>2. QED
  BY <1>1, Invariance, PTL DEF Spec, BrokenIsNotDefault

(* Merging fetched ids adds entries to one pool and changes nothing else.  *)
LEMMA MergeOnlyAdds ==
    ASSUME NEW cfg \in Config, NEW r \in Requests, r.op = "fetch", ChannelResolves(r, cfg)
    PROVE  OnlyAddsModels(r, cfg, MigratedForSave(MergeFetched(r, cfg)))
<1> DEFINE old   == cfg.profiles[r.name]
           prof  == EnsureMutationChannel(old, r.channel)
           ch    == MutatedChannel(r, cfg)
           grown == [ch EXCEPT !.pool = [m \in Models |->
                        IF m \in r.ids /\ ~InPool(ch, m) THEN "seed" ELSE ch.pool[m]]]
           new   == [prof EXCEPT !.channels[r.channel] = grown]
<1>1. r.name \in Names /\ r.channel \in Channels /\ r.channel \in Keys
      /\ Unnamed \in Keys /\ r.channel # Unnamed
  BY ConfigAssumption DEF Requests, Keys
<1>2. old \in Profile /\ HasMutationChannel(old, r.channel)
  BY <1>1 DEF ChannelResolves, Has, Config
<1>3. prof \in Profile /\ ch \in Channel /\ ch = prof.channels[r.channel]
  BY <1>1, <1>2, MutationChannelType DEF MutatedChannel
<1>4. \A k \in Keys : old.channels[k] # NoChannel /\ k # Unnamed => prof.channels[k] = old.channels[k]
  <2>1. CASE old.channels[r.channel] # NoChannel
    BY <2>1 DEF EnsureMutationChannel
  <2>2. CASE old.channels[r.channel] = NoChannel
    BY <1>1, <1>2, <2>2 DEF EnsureMutationChannel, Profile
  <2>3. QED
    BY <2>1, <2>2
<1>5. grown \in Channel /\ grown.exposed = ch.exposed
      /\ \A m \in Models : grown.pool[m] # ch.pool[m] => m \in r.ids /\ ~InPool(ch, m)
  BY <1>3 DEF Channel, Pool
<1>6. MergeFetched(r, cfg) = [cfg EXCEPT !.profiles[r.name] = new]
  BY DEF MergeFetched, WithChannel
<1> HIDE DEF grown, ch, prof, old
<1>7. new.channels[r.channel] = grown
      /\ \A k \in Keys \ {r.channel} : new.channels[k] = prof.channels[k]
  BY <1>1, <1>3 DEF Profile
<1> HIDE DEF new
<1> DEFINE saved == MigratedForSave(MergeFetched(r, cfg))
<1>8. /\ saved.current = cfg.current
      /\ saved.profiles[r.name] = new
      /\ \A n \in Names \ {r.name} : saved.profiles[n] = cfg.profiles[n]
  BY <1>1, <1>6 DEF MigratedForSave, Config
<1> HIDE DEF saved
<1>9. ASSUME NEW k \in Keys, NEW m \in Models, old.channels[k] # NoChannel, k # Unnamed
      PROVE  /\ new.channels[k] # NoChannel
             /\ new.channels[k].exposed = old.channels[k].exposed
             /\ new.channels[k].pool[m] # old.channels[k].pool[m] =>
                   k = r.channel /\ ~InPool(old.channels[k], m) /\ m \in r.ids
  <2>1. prof.channels[k] = old.channels[k]
    BY <1>4, <1>9
  <2>2. CASE k # r.channel
    BY <1>7, <1>9, <2>1, <2>2
  <2>3. CASE k = r.channel
    <3>1. new.channels[k] = grown /\ ch = old.channels[k]
      BY <1>3, <1>7, <2>1, <2>3
    <3>2. NoChannel \notin Channel
      BY ConfigAssumption
    <3>3. QED
      BY <1>5, <2>3, <3>1, <3>2
  <2>4. QED
    BY <2>2, <2>3
<1>10. QED
  BY <1>8, <1>9 DEF OnlyAddsModels, old, saved

(* fetch-models loses no entry, exposure, channel or supplier written      *)
(* while it was on the network.                                            *)
THEOREM FetchLosesNothing == Spec => FetchOnlyAdds
<1>1. ASSUME IInv, [Next]_vars, NEW c \in Clients,
             disk' # disk, pc[c] = "renaming", request[c].op = "fetch"
      PROVE  OnlyAddsModels(request[c], Loaded(disk), disk')
  <2>1. PICK d \in Clients : /\ Rename(d) /\ Allowed(request[d], disk)
                            /\ disk' = Outcome(request[d], disk)
    BY <1>1, DiskStep
  <2>2. d = c
    BY <1>1, <2>1 DEF Rename, IInv, LockProtects, Locked
  <2>3. Loaded(disk) \in Config /\ request[c] \in Requests
    BY <1>1, <2>1, <2>2, LoadedType, MemoryType DEF Allowed
  <2>4. ChannelResolves(request[c], Loaded(disk))
    BY <1>1, <2>1, <2>2 DEF Allowed, Accepts
  <2>5. disk' = MigratedForSave(MergeFetched(request[c], Loaded(disk)))
    BY <1>1, <2>1, <2>2 DEF Outcome, Effect
  <2>6. QED
    BY <1>1, <2>3, <2>4, <2>5, MergeOnlyAdds
<1>2. ASSUME IInv, [Next]_vars
      PROVE  \A c \in Clients : disk' # disk /\ pc[c] = "renaming" /\ pc'[c] = "returning"
                /\ request[c].op = "fetch" => OnlyAddsModels(request[c], Loaded(disk), disk')
  BY <1>1, <1>2
<1>3. QED
  BY <1>2, Invariance, PTL DEF Spec, FetchOnlyAdds

(* A callback that leaves the active supplier dangling is a rename that     *)
(* drops the name it is stored under; a deletion clears it, a selection and *)
(* the rest find theirs.                                                    *)
LEMMA EffectKeepsActive ==
    ASSUME NEW cfg \in Config, NEW r \in Requests, Accepts(r, cfg), r.op # "replace",
           ActiveExists(cfg)
    PROVE  \/ ActiveExists(Effect(r, cfg))
           \/ r.op = "put" /\ r.from = Effect(r, cfg).current
<1>1. cfg.current \in Names \cup {NoProfile} /\ NoProfile \notin Names \cup Profile
  BY ConfigAssumption DEF Config
<1> USE <1>1 DEF ActiveExists, Has
<1>2. CASE r.op = "create"
  BY <1>2 DEF Effect, Create, Config, Accepts
<1>3. CASE r.op = "put"
  <2>1. r.name \in Names /\ r.prof \in Profile
    BY <1>3 DEF Requests
  <2>2. QED
    BY <1>3, <2>1 DEF Effect, Put, Config
<1>4. CASE r.op \in {"delete", "cliDelete"}
  <2>1. r.name \in Names
    BY <1>4 DEF Requests
  <2>2. QED
    BY <1>4, <2>1 DEF Effect, Delete, Config
<1>5. CASE r.op = "use"
  <2>1. r.name \in Names /\ cfg.profiles[r.name] # NoProfile
    BY <1>5 DEF Requests, Accepts
  <2>2. QED
    BY <1>5, <2>1 DEF Effect, Use, Config
<1>6. CASE r.op = "duplicate"
  <2>1. r.as \in Names /\ cfg.profiles[r.name] # NoProfile
    BY <1>6 DEF Requests, Accepts
  <2>2. QED
    BY <1>6, <2>1 DEF Effect, Duplicate, Config
<1>7. ASSUME NEW prof \in Profile, NEW n \in Names
      PROVE  ActiveExists([cfg EXCEPT !.profiles[n] = prof])
  BY DEF Config
<1>8. CASE r.op = "spoof"
  <2>1. r.name \in Names /\ r.agent \in Spoofs \cup {"default"}
    BY <1>8 DEF Requests, Accepts
  <2>2. [cfg.profiles[r.name] EXCEPT !.agent = r.agent] \in Profile
    BY <1>8, <2>1 DEF Accepts, Config, Profile
  <2>3. QED
    BY <1>8, <2>1, <2>2, <1>7 DEF Effect, Spoof
<1>9. CASE r.op \in {"models", "expose", "fetch"}
  <2>1. PICK prof \in Profile : /\ Effect(r, cfg) = [cfg EXCEPT !.profiles[r.name] = prof]
                               /\ r.name \in Names
    BY <1>9, ChannelEffect
  <2>2. QED
    BY <1>7, <2>1
<1>10. CASE r.op = "settings"
  BY <1>10 DEF Effect, PutSettings, Config
<1>11. QED
  BY <1>2, <1>3, <1>4, <1>5, <1>6, <1>8, <1>9, <1>10 DEF Accepts

(* The active supplier stays one the config has, but for renames of it and *)
(* whole-file saves.                                                       *)
THEOREM ActiveSupplierStays == Spec => ActiveSupplierKept
<1>1. IInv /\ [Next]_vars =>
        [disk' # disk /\ disk # Corrupt /\ ActiveExists(Loaded(disk)) =>
            \/ ActiveExists(disk')
            \/ \E c \in Clients :
                  /\ pc[c] = "renaming"
                  /\ \/ request[c].op = "replace"
                     \/ request[c].op = "put" /\ request[c].from = disk'.current]_vars
  <2> SUFFICES ASSUME IInv, [Next]_vars, disk' # disk, disk # Corrupt,
                      ActiveExists(Loaded(disk))
               PROVE  \/ ActiveExists(disk')
                      \/ \E c \in Clients :
                            /\ pc[c] = "renaming"
                            /\ \/ request[c].op = "replace"
                               \/ request[c].op = "put" /\ request[c].from = disk'.current
    OBVIOUS
  <2>1. PICK c \in Clients : /\ Rename(c) /\ Allowed(request[c], disk)
                             /\ disk' = Outcome(request[c], disk)
    BY DiskStep
  <2>2. CASE request[c].op = "replace"
    BY <2>1, <2>2 DEF Rename
  <2>3. CASE request[c].op # "replace"
    <3> DEFINE r   == request[c]
               old == Loaded(disk)
               new == Effect(r, old)
    <3>1. old \in Config /\ r \in Requests /\ Accepts(r, old)
      BY <2>1, <2>3, LoadedType, MemoryType DEF Rename, Allowed
    <3>2. new \in Config /\ disk' = MigratedForSave(new)
      BY <2>1, <2>3, <3>1, EffectType DEF Outcome
    <3>3. ActiveExists(new) \/ (r.op = "put" /\ r.from = new.current)
      BY <2>3, <3>1, EffectKeepsActive
    <3> HIDE DEF new
    <3>4. disk'.current = new.current /\ disk'.profiles = new.profiles
      BY <3>2 DEF MigratedForSave, Config
    <3>5. QED
      BY <2>1, <3>3, <3>4 DEF ActiveExists, Has, Rename
  <2>4. QED
    BY <2>2, <2>3
<1>2. QED
  BY <1>1, Invariance, PTL DEF Spec, ActiveSupplierKept

-----------------------------------------------------------------------------
(* What the exposures of a channel can lose.                               *)

\* Nobody is about to commit such a call.
PoolsKept ==
    \A c \in Clients : pc[c] = "renaming" => ~DropsExposed(request[c], disk)

(* Resolving the channel of a mutation moves a channel at most.            *)
LEMMA MutationChannelSound ==
    ASSUME NEW prof \in Profile, NEW ch \in Channels, HasMutationChannel(prof, ch),
           Sound(prof)
    PROVE  Sound(EnsureMutationChannel(prof, ch))
<1> DEFINE empty     == [pool |-> EmptyPool, exposed |-> {}]
           inherited == IF prof.channels[Unnamed] # NoChannel
                        THEN prof.channels[Unnamed] ELSE empty
           new       == EnsureMutationChannel(prof, ch)
<1>1. Unnamed \in Keys /\ ch \in Keys /\ ch # Unnamed
  BY ConfigAssumption DEF Keys
<1>2. CASE prof.channels[ch] # NoChannel
  BY <1>2 DEF EnsureMutationChannel
<1>3. CASE prof.channels[ch] = NoChannel
  <2>1. new = [prof EXCEPT !.channels[ch] = inherited, !.channels[Unnamed] = NoChannel]
    BY <1>3 DEF EnsureMutationChannel
  <2>2. \A m \in inherited.exposed : InPool(inherited, m)
    <3>1. CASE prof.channels[Unnamed] # NoChannel
      BY <1>1, <3>1 DEF Sound, ChannelsOf
    <3>2. CASE prof.channels[Unnamed] = NoChannel
      BY <3>2
    <3>3. QED
      BY <3>1, <3>2
  <2> HIDE DEF inherited, new
  <2>3. /\ new.channels[ch] = inherited /\ new.channels[Unnamed] = NoChannel
        /\ \A k \in Keys \ {ch, Unnamed} : new.channels[k] = prof.channels[k]
    BY <1>1, <2>1 DEF Profile
  <2>4. Sound(new)
    BY <2>2, <2>3 DEF Sound, ChannelsOf
  <2>5. QED
    BY <2>4 DEF new
<1>4. QED
  BY <1>2, <1>3

(* Writing back a channel that exposes what its pool has keeps the config  *)
(* within its pools.                                                       *)
LEMMA ChannelBackSound ==
    ASSUME NEW cfg \in Config, NEW r, r.name \in Names, r.channel \in Channels,
           ChannelResolves(r, cfg), WithinPools(cfg),
           NEW ch \in Channel, \A m \in ch.exposed : InPool(ch, m)
    PROVE  WithinPools(WithChannel(r, cfg, ch))
<1> DEFINE prof == EnsureMutationChannel(cfg.profiles[r.name], r.channel)
           new  == [prof EXCEPT !.channels[r.channel] = ch]
<1>1. cfg.profiles[r.name] \in Profile /\ Sound(cfg.profiles[r.name])
  BY DEF ChannelResolves, Has, Config, WithinPools
<1>2. prof \in Profile /\ Sound(prof)
  BY <1>1, MutationChannelType, MutationChannelSound DEF ChannelResolves
<1>3. WithChannel(r, cfg, ch) = [cfg EXCEPT !.profiles[r.name] = new]
  BY DEF WithChannel
<1> HIDE DEF prof
<1>4. Sound(new)
  <2>1. /\ new.channels[r.channel] = ch
        /\ \A k \in Keys \ {r.channel} : new.channels[k] = prof.channels[k]
    BY <1>2 DEF Profile, Keys
  <2> HIDE DEF new
  <2>2. QED
    BY <1>2, <2>1 DEF Sound, ChannelsOf
<1> HIDE DEF new
<1>5. QED
  BY <1>3, <1>4 DEF WithinPools, Has, Config

(* A callback takes a config out of its pools only by dropping what is     *)
(* exposed: create and put validate what they bring, expose looks at the   *)
(* pool it finds, fetch only adds, duplicate copies, the rest leaves       *)
(* channels alone.                                                         *)
LEMMA EffectKeepsPools ==
    ASSUME NEW cfg \in Config, NEW r \in Requests, Admissible(r), Accepts(r, cfg),
           r.op # "replace", WithinPools(cfg),
           r.op = "models" =>
              \A m \in MutatedChannel(r, cfg).exposed : r.models[m] # "absent"
    PROVE  WithinPools(Effect(r, cfg))
<1>1. NoProfile \notin Names \cup Profile
  BY ConfigAssumption
<1>2. ASSUME NEW prof, Sound(prof), NEW n \in Names
      PROVE  WithinPools([cfg EXCEPT !.profiles[n] = prof])
  BY <1>2 DEF WithinPools, Has, Config
<1>3. CASE r.op = "create"
  <2>1. r.name \in Names /\ Sound(r.prof)
    BY <1>3 DEF Requests, Admissible, ValidProfile, Sound
  <2>2. QED
    BY <1>2, <1>3, <2>1 DEF Effect, Create
<1>4. CASE r.op = "put"
  <2>1. r.name \in Names /\ Sound(r.prof)
    BY <1>4 DEF Requests, Admissible, ValidProfile, Sound
  <2>2. QED
    BY <1>4, <2>1 DEF Effect, Put, WithinPools, Has, Config
<1>5. CASE r.op \in {"delete", "cliDelete"}
  BY <1>5 DEF Effect, Delete, WithinPools, Has, Config
<1>6. CASE r.op = "use"
  BY <1>6 DEF Effect, Use, WithinPools, Has, Config
<1>7. CASE r.op = "duplicate"
  <2>1. r.name \in Names /\ r.as \in Names /\ Has(cfg, r.name)
    BY <1>7 DEF Requests, Accepts
  <2>2. Sound(cfg.profiles[r.name])
    BY <2>1 DEF WithinPools
  <2>3. QED
    BY <1>2, <1>7, <2>1, <2>2 DEF Effect, Duplicate
<1>8. CASE r.op = "spoof"
  <2>1. r.name \in Names /\ Has(cfg, r.name)
    BY <1>8 DEF Requests, Accepts
  <2> DEFINE prof == cfg.profiles[r.name]
             new  == [prof EXCEPT !.agent = r.agent]
  <2>2. prof \in Profile /\ Sound(prof)
    BY <2>1 DEF WithinPools, Has, Config
  <2>3. new.channels = prof.channels
    BY <2>2 DEF Profile
  <2>4. Sound(new)
    BY <2>2, <2>3 DEF Sound, ChannelsOf
  <2>5. QED
    BY <1>2, <1>8, <2>1, <2>4 DEF Effect, Spoof
<1>9. CASE r.op \in {"models", "expose", "fetch"}
  <2> DEFINE ch == MutatedChannel(r, cfg)
  <2>1. r.name \in Names /\ r.channel \in Channels /\ r.channel \in Keys
    BY <1>9 DEF Requests, Keys
  <2>2. ChannelResolves(r, cfg)
    BY <1>9 DEF Accepts
  <2>3. cfg.profiles[r.name] \in Profile /\ Sound(cfg.profiles[r.name])
    BY <2>1, <2>2 DEF ChannelResolves, Has, Config, WithinPools
  <2>4. ch \in Channel /\ \A m \in ch.exposed : InPool(ch, m)
    <3>1. ch \in Channel
      BY <2>1, <2>2, <2>3, MutationChannelType DEF ChannelResolves, MutatedChannel
    <3>2. Sound(EnsureMutationChannel(cfg.profiles[r.name], r.channel))
      BY <2>1, <2>2, <2>3, MutationChannelSound DEF ChannelResolves
    <3>3. ch # NoChannel
      BY <3>1, ConfigAssumption
    <3>4. QED
      BY <2>1, <3>1, <3>2, <3>3 DEF Sound, ChannelsOf, MutatedChannel
  <2>5. \A m \in Models : m \in ch.exposed => ch.pool[m] # "absent"
    BY <2>4 DEF InPool
  <2>6. CASE r.op = "models"
    <3> DEFINE put == [ch EXCEPT !.pool = r.models]
    <3>1. put \in Channel /\ \A m \in put.exposed : InPool(put, m)
      BY <2>4, <2>6 DEF Requests, Channel, InPool
    <3>2. Effect(r, cfg) = WithChannel(r, cfg, put)
      BY <2>6 DEF Effect, PutModels
    <3> HIDE DEF put
    <3>3. QED
      BY <2>1, <2>2, <3>1, <3>2, ChannelBackSound
  <2>7. CASE r.op = "expose"
    <3> DEFINE shown == [ch EXCEPT !.exposed = r.ids]
    <3>1. \A m \in r.ids : InPool(ch, m)
      BY <2>7 DEF Accepts, MutatedChannel
    <3>2. shown \in Channel /\ \A m \in shown.exposed : InPool(shown, m)
      BY <2>4, <2>7, <3>1 DEF Requests, Channel, InPool
    <3>3. Effect(r, cfg) = WithChannel(r, cfg, shown)
      BY <2>7 DEF Effect, SetExposedModels
    <3> HIDE DEF shown
    <3>4. QED
      BY <2>1, <2>2, <3>2, <3>3, ChannelBackSound
  <2>8. CASE r.op = "fetch"
    <3> DEFINE grown == [ch EXCEPT !.pool = [m \in Models |->
                          IF m \in r.ids /\ ~InPool(ch, m) THEN "seed" ELSE ch.pool[m]]]
    <3>1. grown \in Channel /\ grown.exposed = ch.exposed
      BY <2>4 DEF Channel, Pool
    <3>2. \A m \in Models : InPool(ch, m) => InPool(grown, m)
      BY <2>4 DEF Channel, Pool, InPool
    <3>3. Effect(r, cfg) = WithChannel(r, cfg, grown)
      BY <2>8 DEF Effect, MergeFetched
    <3> HIDE DEF grown
    <3>4. \A m \in grown.exposed : InPool(grown, m)
      BY <2>4, <3>1, <3>2 DEF Channel
    <3>5. QED
      BY <2>1, <2>2, <3>1, <3>3, <3>4, ChannelBackSound
  <2>9. QED
    BY <1>9, <2>6, <2>7, <2>8
<1>10. CASE r.op = "settings"
  BY <1>10 DEF Effect, PutSettings, WithinPools, Has, Config
<1>11. QED
  BY <1>3, <1>4, <1>5, <1>6, <1>7, <1>8, <1>9, <1>10 DEF Accepts

(* The config a missing file stands for exposes the one model of its pool. *)
LEMMA DefaultWithinPools == WithinPools(DefaultConfig)
<1> DEFINE main == [pool    |-> [EmptyPool EXCEPT ![DefaultModel] = "edited"],
                    exposed |-> {DefaultModel}]
           prof == [channels |-> [k \in Keys |-> IF k = Main THEN main ELSE NoChannel],
                    capable  |-> TRUE, agent |-> "default"]
<1>1. InPool(main, DefaultModel) /\ main.exposed = {DefaultModel}
  BY ConfigAssumption DEF InPool, EmptyPool
<1> HIDE DEF main
<1>2. Sound(prof)
  BY <1>1 DEF Sound, ChannelsOf
<1>3. QED
  BY <1>2 DEF WithinPools, DefaultConfig, Has, main

(* A step that makes a channel expose what it does not carry is the commit *)
(* of a PUT models that drops an exposed id, or of a whole-file save that  *)
(* brings such a channel: no other call, and no interleaving of calls,     *)
(* failures and kills, can (profile_handlers.go:389, profile.go:76-79).    *)
LEMMA PoolStep ==
    ASSUME IInv, [Next]_vars, ExposedWithinPool, ~ExposedWithinPool'
    PROVE  \E c \in Clients : pc[c] = "renaming" /\ DropsExposed(request[c], disk)
<1>1. disk' # disk
  BY DEF ExposedWithinPool
<1>2. PICK c \in Clients : /\ Rename(c) /\ Allowed(request[c], disk)
                           /\ disk' = Outcome(request[c], disk)
  BY <1>1, DiskStep
<1>3. pc[c] = "renaming" /\ request[c] \in Requests /\ Admissible(request[c])
  BY <1>2 DEF Rename, IInv, SnapshotCurrent
<1>4. ~WithinPools(disk')
  BY DEF ExposedWithinPool, WithinPools, Sound
<1>5. ASSUME NEW cfg \in Config PROVE WithinPools(MigratedForSave(cfg)) <=> WithinPools(cfg)
  <2>1. MigratedForSave(cfg).profiles = cfg.profiles
    BY DEF MigratedForSave, Config
  <2>2. QED
    BY <2>1 DEF WithinPools, Has
<1>6. CASE request[c].op = "replace"
  <2>1. request[c].config \in Config /\ disk' = MigratedForSave(request[c].config)
    BY <1>2, <1>3, <1>6 DEF Requests, Outcome
  <2>2. ~WithinPools(request[c].config)
    BY <1>4, <1>5, <2>1
  <2>3. QED
    BY <1>3, <1>6, <2>2 DEF DropsExposed
<1>7. CASE request[c].op # "replace"
  <2> DEFINE old == Loaded(disk)
             r   == request[c]
  <2>1. old \in Config /\ Accepts(r, old) /\ disk # Corrupt /\ disk \in Config \cup {Missing}
    BY <1>2, <1>7, LoadedType, MemoryType DEF Allowed
  <2>2. WithinPools(old)
    <3>1. CASE disk = Missing
      BY <3>1, DefaultWithinPools DEF Loaded
    <3>2. CASE disk # Missing
      BY <2>1, <3>2, SpecialValues DEF Loaded, ExposedWithinPool, WithinPools, Sound
    <3>3. QED
      BY <3>1, <3>2
  <2>3. Effect(r, old) \in Config /\ disk' = MigratedForSave(Effect(r, old))
    BY <1>2, <1>3, <1>7, <2>1, EffectType DEF Outcome
  <2>4. ~WithinPools(Effect(r, old))
    BY <1>4, <1>5, <2>3
  <2>5. r.op = "models" /\ ~\A m \in MutatedChannel(r, old).exposed : r.models[m] # "absent"
    BY <1>3, <1>7, <2>1, <2>2, <2>4, EffectKeepsPools
  <2>6. QED
    BY <1>3, <2>5 DEF DropsExposed
<1>8. QED
  BY <1>6, <1>7

(* Only PUT models and whole-file saves take a config out of its pools.    *)
THEOREM OnlyPoolEditsExpose == Spec => ExposuresServable
<1>1. IInv /\ [Next]_vars =>
        [ExposedWithinPool /\ ~ExposedWithinPool' =>
            \E c \in Clients : pc[c] = "renaming" /\ DropsExposed(request[c], disk)]_vars
  BY PoolStep
<1>2. QED
  BY <1>1, Invariance, PTL DEF Spec, ExposuresServable

(* A channel exposes only what its pool carries, from a file of which that *)
(* holds and as long as nobody commits a PUT models or a whole-file save   *)
(* that drops an exposed id.                                               *)
THEOREM ExposedStayInPool ==
    ASSUME \A file \in InitialFiles \ {Missing, Corrupt} : WithinPools(file)
    PROVE  Spec /\ []PoolsKept => []ExposedWithinPool
<1>1. Init => ExposedWithinPool
  BY DEF Init, ExposedWithinPool, WithinPools, Sound
<1>2. IInv /\ PoolsKept /\ ExposedWithinPool /\ [Next]_vars => ExposedWithinPool'
  BY PoolStep DEF PoolsKept
<1>3. QED
  BY <1>1, <1>2, Invariance, PTL DEF Spec

-----------------------------------------------------------------------------
(* Refinement: the store implements AtomicConfig.                          *)

Abstract == [c \in Clients |->
                IF pc[c] = "idle" THEN "idle"
                ELSE IF pc[c] = "returning" THEN "done" ELSE "pending"]

(* The operators AtomicConfig takes from ProfileConfig are the same ones.  *)
LEMMA SameOperators ==
    ASSUME NEW r, NEW file
    PROVE  /\ Atomic!Admissible(r) = Admissible(r)
           /\ Atomic!Loaded(file) = Loaded(file)
           /\ Atomic!ChannelResolves(r, file) = ChannelResolves(r, file)
           /\ Atomic!Accepts(r, file) = Accepts(r, file)
           /\ Atomic!Effect(r, file) = Effect(r, file)
           /\ Atomic!MigratedForSave(file) = MigratedForSave(file)
<1> USE DEF Has, Atomic!Has, InPool, Atomic!InPool, ChannelsOf, Atomic!ChannelsOf,
        Keys, Atomic!Keys, EmptyPool, Atomic!EmptyPool
<1>1. Atomic!Admissible(r) = Admissible(r)
  BY DEF Admissible, Atomic!Admissible, ValidProfile, Atomic!ValidProfile
<1>2. Atomic!Loaded(file) = Loaded(file)
  BY DEF Loaded, Atomic!Loaded, DefaultConfig, Atomic!DefaultConfig
<1>3. \A prof, ch : Atomic!HasMutationChannel(prof, ch) = HasMutationChannel(prof, ch)
  BY DEF HasMutationChannel, Atomic!HasMutationChannel
<1>4. \A prof, ch : Atomic!EnsureMutationChannel(prof, ch) = EnsureMutationChannel(prof, ch)
  BY DEF EnsureMutationChannel, Atomic!EnsureMutationChannel
<1>5. Atomic!ChannelResolves(r, file) = ChannelResolves(r, file)
  BY <1>3 DEF ChannelResolves, Atomic!ChannelResolves
<1>6. Atomic!Accepts(r, file) = Accepts(r, file)
  BY <1>4, <1>5 DEF Accepts, Atomic!Accepts
<1>7. Atomic!Effect(r, file) = Effect(r, file)
  <2>1. \A ch : Atomic!WithChannel(r, file, ch) = WithChannel(r, file, ch)
    BY <1>4 DEF WithChannel, Atomic!WithChannel
  <2>2. Atomic!MutatedChannel(r, file) = MutatedChannel(r, file)
    BY <1>4 DEF MutatedChannel, Atomic!MutatedChannel
  <2>3. /\ Atomic!PutModels(r, file) = PutModels(r, file)
        /\ Atomic!SetExposedModels(r, file) = SetExposedModels(r, file)
        /\ Atomic!MergeFetched(r, file) = MergeFetched(r, file)
    BY <2>1, <2>2 DEF PutModels, Atomic!PutModels, SetExposedModels, Atomic!SetExposedModels,
       MergeFetched, Atomic!MergeFetched
  <2>4. QED
    BY <2>3 DEF Effect, Atomic!Effect, Create, Atomic!Create, Put, Atomic!Put, Delete,
       Atomic!Delete,
       Use, Atomic!Use, Duplicate, Atomic!Duplicate, Spoof, Atomic!Spoof,
       PutSettings, Atomic!PutSettings
<1>8. Atomic!MigratedForSave(file) = MigratedForSave(file)
  BY DEF MigratedForSave, Atomic!MigratedForSave, Sources, Atomic!Sources
<1>9. QED
  BY <1>1, <1>2, <1>5, <1>6, <1>7, <1>8

LEMMA SameCalls ==
    ASSUME NEW r, NEW file
    PROVE  /\ Atomic!Allowed(r, file) <=> Allowed(r, file)
           /\ Atomic!Outcome(r, file) = Outcome(r, file)
BY SameOperators DEF Allowed, Atomic!Allowed, Outcome, Atomic!Outcome

(* The initial states are initial states of AtomicConfig.                  *)
LEMMA InitRefines == Init => Atomic!Init
BY DEF Init, Atomic!Init

(* A step of one client maps to a step of the same call, or to a stutter.  *)
LEMMA StepRefines == IInv /\ [Next]_vars => [Atomic!Next]_(Atomic!vars)
<1> SUFFICES ASSUME IInv, [Next]_vars PROVE [Atomic!Next]_(Atomic!vars)
  OBVIOUS
<1> USE DEF Locked
<1>1. TypeOK /\ SnapshotCurrent
  BY DEF IInv
<1>2. ASSUME NEW c \in Clients, NEW r \in Calls, Begin(c, r) PROVE Atomic!Next
  <2>1. r.op = "fetch" => Admissible(r)
    BY DEF Admissible
  <2>2. CASE pc'[c] # "idle"
    <3>1. Admissible(r) /\ pc'[c] \in {"waiting", "fetching"}
          /\ result' = [result EXCEPT ![c] = "none"]
          /\ pc' = [pc EXCEPT ![c] = pc'[c]]
      BY <1>1, <1>2, <2>1, <2>2 DEF Begin, ReturnEarly, TypeOK
    <3>2. Abstract' = [Abstract EXCEPT ![c] = "pending"]
      BY <1>1, <1>2, <3>1 DEF Begin, TypeOK, Abstract
    <3>3. Atomic!Begin(c, r)
      BY <1>1, <1>2, <3>1, <3>2, SameOperators DEF Begin, Atomic!Begin, TypeOK, Abstract
    <3>4. QED
      BY <3>3 DEF Atomic!Next
  <2>3. CASE pc'[c] = "idle"
    <3>1. PICK res \in Atomic!Refusals(r) : result' = [result EXCEPT ![c] = res]
      BY <1>1, <1>2, <2>1, <2>3, SameOperators, SameCalls DEF Begin, ReturnEarly, TypeOK,
         Atomic!Refusals
    <3>2. pc' = pc
      BY <1>1, <1>2, <2>3 DEF Begin, ReturnEarly, TypeOK
    <3>3. Atomic!Refuse(c, r)
      BY <1>1, <1>2, <3>1, <3>2 DEF Begin, Atomic!Refuse, TypeOK
    <3>4. QED
      BY <3>3 DEF Atomic!Next
  <2>4. QED
    BY <2>2, <2>3
<1>3. ASSUME NEW c \in Clients, FetchFailed(c) \/ OpenFails(c) \/ Busy(c) PROVE Atomic!Next
  <2>1. PICK res \in {"busy", "ioError", "fetchFailed"} :
           pc' = [pc EXCEPT ![c] = "idle"] /\ result' = [result EXCEPT ![c] = res]
    BY <1>3 DEF FetchFailed, OpenFails, Busy, ReturnEarly
  <2>2. pc[c] \in {"fetching", "waiting"} /\ disk' = disk /\ request' = request
    BY <1>3 DEF FetchFailed, OpenFails, Busy
  <2>3. Abstract[c] = "pending" /\ Abstract' = [Abstract EXCEPT ![c] = "idle"]
    BY <1>1, <2>1, <2>2 DEF TypeOK, Abstract
  <2>4. Atomic!Fail(c)
    BY <2>1, <2>2, <2>3 DEF Atomic!Fail, Abstract
  <2>5. QED
    BY <2>4 DEF Atomic!Next
<1>4. ASSUME NEW c \in Clients,
             FetchAnswered(c) \/ Acquire(c) \/ CreateTemp(c) \/ WriteTemp(c)
      PROVE  UNCHANGED Atomic!vars
  <2>1. Abstract' = Abstract
    BY <1>1, <1>4 DEF FetchAnswered, Acquire, CreateTemp, WriteTemp, TypeOK, Abstract
  <2>2. QED
    BY <1>4, <2>1 DEF FetchAnswered, Acquire, CreateTemp, WriteTemp, Atomic!vars, Abstract
<1>5. ASSUME NEW c \in Clients, NEW res \in {"broken", "rejected", "ioError"},
             Fail(c, res), pc[c] \in Locked \ {"returning"},
             res # "ioError" => res \in Atomic!Refusals(request[c]),
             UNCHANGED <<disk, request>>
      PROVE  Atomic!Next
  <2>1. Abstract[c] = "pending" /\ Abstract' = [Abstract EXCEPT ![c] = "done"]
    BY <1>1, <1>5 DEF Fail, TypeOK, Abstract
  <2>2. Atomic!Fail(c)
    BY <1>5, <2>1 DEF Fail, Atomic!Fail, Abstract
  <2>3. QED
    BY <2>2 DEF Atomic!Next
<1>6. ASSUME NEW c \in Clients, Load(c) PROVE [Atomic!Next]_(Atomic!vars)
  <2>1. CASE request[c].op # "replace" /\ disk = Corrupt
    <3>1. Fail(c, "broken") /\ UNCHANGED <<disk, request>> /\ pc[c] \in Locked \ {"returning"}
      BY <1>6, <2>1 DEF Load
    <3>2. "broken" \in Atomic!Refusals(request[c])
      BY <2>1 DEF Atomic!Refusals
    <3>3. QED
      BY <1>5, <3>1, <3>2
  <2>2. CASE ~(request[c].op # "replace" /\ disk = Corrupt)
    <3>1. Abstract' = Abstract
      BY <1>1, <1>6, <2>2 DEF Load, TypeOK, Abstract
    <3>2. QED
      BY <1>6, <2>2, <3>1 DEF Load, Atomic!vars, Abstract
  <2>3. QED
    BY <2>1, <2>2
<1>7. ASSUME NEW c \in Clients, Mutate(c) PROVE [Atomic!Next]_(Atomic!vars)
  <2>1. CASE Accepts(request[c], snapshot[c])
    <3>1. Abstract' = Abstract
      BY <1>1, <1>7, <2>1 DEF Mutate, TypeOK, Abstract
    <3>2. QED
      BY <1>7, <2>1, <3>1 DEF Mutate, Atomic!vars, Abstract
  <2>2. CASE ~Accepts(request[c], snapshot[c])
    <3>1. Fail(c, "rejected") /\ UNCHANGED <<disk, request>> /\ pc[c] \in Locked \ {"returning"}
      BY <1>7, <2>2 DEF Mutate
    <3>2. request[c].op # "replace" /\ snapshot[c] = Loaded(disk)
      BY <1>1, <1>7, <2>2 DEF Mutate, SnapshotCurrent, Accepts
    <3>3. "rejected" \in Atomic!Refusals(request[c])
      BY <2>2, <3>2, SameCalls DEF Atomic!Refusals, Allowed
    <3>4. QED
      BY <1>5, <3>1, <3>3
  <2>3. QED
    BY <2>1, <2>2
<1>8. ASSUME NEW c \in Clients, Rename(c) PROVE Atomic!Next
  <2>1. disk' = Outcome(request[c], disk) /\ Allowed(request[c], disk)
    BY <1>1, <1>8 DEF Rename, SnapshotCurrent
  <2>2. Abstract[c] = "pending" /\ Abstract' = [Abstract EXCEPT ![c] = "done"]
    BY <1>1, <1>8 DEF Rename, TypeOK, Abstract
  <2>3. Atomic!TakeEffect(c)
    BY <1>8, <2>1, <2>2, SameCalls DEF Rename, Atomic!TakeEffect, Abstract
  <2>4. QED
    BY <2>3 DEF Atomic!Next
<1>9. ASSUME NEW c \in Clients, IOFails(c) PROVE Atomic!Next
  <2>1. Fail(c, "ioError") /\ UNCHANGED <<disk, request>> /\ pc[c] \in Locked \ {"returning"}
    BY <1>9 DEF IOFails
  <2>2. QED
    BY <1>5, <2>1
<1>10. ASSUME NEW c \in Clients, Unlock(c) PROVE Atomic!Next
  <2>1. Abstract[c] = "done" /\ Abstract' = [Abstract EXCEPT ![c] = "idle"]
    BY <1>1, <1>10 DEF Unlock, TypeOK, Abstract
  <2>2. Atomic!Return(c)
    BY <1>10, <2>1 DEF Unlock, Atomic!Return, Abstract
  <2>3. QED
    BY <2>2 DEF Atomic!Next
<1>11. ASSUME NEW p \in Processes, Crash(p) PROVE Atomic!Next
  <2>1. PICK dead \in SUBSET Clients : dead = {c \in Clients : ProcessOf[c] = p /\ pc[c] # "idle"}
    OBVIOUS
  <2>2. \A c \in dead : Abstract[c] # "idle"
    BY <2>1 DEF Abstract
  <2>3. Abstract' = [c \in Clients |-> IF c \in dead THEN "idle" ELSE Abstract[c]]
    BY <1>11, <2>1 DEF Crash, Abstract
  <2>4. Atomic!Kill(dead)
    BY <1>11, <2>1, <2>2, <2>3 DEF Crash, Atomic!Kill, Abstract
  <2>5. QED
    BY <2>4 DEF Atomic!Next
<1>12. CASE UNCHANGED vars
  BY <1>12 DEF vars, Atomic!vars
<1>13. QED
  BY <1>2, <1>3, <1>4, <1>6, <1>7, <1>8, <1>9, <1>10, <1>11, <1>12 DEF Next, Step, Advances

(* Every call takes effect at most once, in one step, on the file as it is *)
(* then, and its answer tells whether it did.                              *)
THEOREM Refinement == Spec => Implements
<1>1. Init => Atomic!Init
  BY InitRefines
<1>2. IInv /\ [Next]_vars => [Atomic!Next]_(Atomic!vars)
  BY StepRefines
<1>3. QED
  BY <1>1, <1>2, Invariance, PTL DEF Spec, Implements, Atomic!Spec
=============================================================================
