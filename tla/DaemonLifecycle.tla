-------------------------- MODULE DaemonLifecycle --------------------------
(***************************************************************************)
(* internal/daemon on Linux: Start, Stop and Status of one managed service *)
(* (the proxy or the web UI), called by processes that know of each other  *)
(* only through the pid file and the O_EXCL lock file next to it.          *)
(*                                                                         *)
(* A spawned daemon (child) is known by its identity, executable and start *)
(* token; its pid outlives it and may be given to another process (state   *)
(* "reused").  One process at a time listens on the port.                  *)
(***************************************************************************)
EXTENDS Naturals

CONSTANTS
    Operators,      \* processes that call Start and Stop
    Observers,      \* processes that call Status
    Children,       \* daemons that may be spawned
    Old,            \* the daemon an earlier pid file may name
    Absent,         \* no file, no child
    Dead,           \* a process that ended before the model begins
    Free,           \* nobody listens on the port
    Foreign,        \* an unmanaged process listens
    ForeignAnswers, \* the unmanaged listener answers 200 on /healthz
    HangsEnd,       \* a daemon that stopped answering may answer again
    MaxCalls,       \* bound: calls per process
    MaxDeaths,      \* bound: operators killed inside a call
    MaxForeign      \* bound: times an unmanaged process takes the port

Actors == Operators \cup Observers

ASSUME DaemonAssumption ==
    /\ Old \in Children
    /\ {Absent, Dead} \cap (Children \cup Actors) = {} /\ Absent # Dead
    /\ {Free, Foreign} \cap Children = {} /\ Free # Foreign
    /\ Operators \cap Observers = {}
    /\ ForeignAnswers \in BOOLEAN /\ HangsEnd \in BOOLEAN
    /\ MaxCalls \in Nat /\ MaxDeaths \in Nat /\ MaxForeign \in Nat

VARIABLES
    pidFile,    \* the child the pid file names
    lockFile,   \* who created the lock file, and whether its pid is in it yet
    child,      \* child[d]: the state of a daemon process
    port,       \* who listens
    identified, \* the children whose pid file carries their identity
    kind,       \* kind[o]: the call the actor is in, or made last
    pc,         \* pc[o]: where it is
    attempt,    \* attempt[o]: how often it tried to create the lock file
    info,       \* info[o]: the child the pid file named when it was read
    mine,       \* mine[o]: the child its Start spawned
    answer,     \* answer[o]: what its last call reported
    calls,      \* calls[o]: how many calls it made
    told,       \* the child last reported started and not stopped since
    misfired,   \* the children whose pid was signalled when another process had it
    swept,      \* the children whose record a Status removed while they booted
                \* or served
    deaths,     \* operators killed
    takeovers   \* times an unmanaged process took the port

files  == <<pidFile, lockFile>>
rest   == <<identified, deaths, takeovers>>
world  == <<child, port, rest>>
locals == <<kind, attempt, info, mine, calls>>
ghosts == <<told, misfired, swept>>
vars   == <<files, world, locals, pc, answer, ghosts>>

ChildStates == {"unborn", "booting", "serving", "hung", "gone", "reused"}
LockSteps   == {"create", "stamp", "inspect", "unlink"}
StartSteps  == {"spawn", "record", "owner", "wait", "ownerAgain", "finish", "unrecord", "abort"}
StopSteps   == {"signal", "poll", "kill"}
Inside      == {"read", "check", "health", "clean", "release"} \cup StartSteps \cup StopSteps
Answers     == {"none", "locked", "already", "started", "failed", "stopped", "running", "notRunning"}

NoLock == [by |-> Absent, stamped |-> FALSE]

Init ==
    /\ pidFile \in {Absent, Old}
    /\ lockFile \in {NoLock, [by |-> Dead, stamped |-> TRUE]}
    /\ identified \in SUBSET {Old}
    /\ \E was \in {"serving", "gone", "reused"} :
          /\ pidFile = Absent => was = "gone"
          /\ child = [d \in Children |-> IF d = Old THEN was ELSE "unborn"]
          /\ port = IF was = "serving" THEN Old ELSE Free
          /\ told = IF was = "serving" THEN Old ELSE Absent
    /\ kind = [o \in Actors |-> "none"]
    /\ pc = [o \in Actors |-> "idle"]
    /\ attempt = [o \in Actors |-> 0]
    /\ info = [o \in Actors |-> Absent]
    /\ mine = [o \in Actors |-> Absent]
    /\ answer = [o \in Actors |-> "none"]
    /\ calls = [o \in Actors |-> 0]
    /\ misfired = {} /\ swept = {}
    /\ deaths = 0 /\ takeovers = 0

-----------------------------------------------------------------------------

\* kill -0 succeeds: the pid exists, whoever has it now.
IsAlive(d) == child[d] \in {"booting", "serving", "hung", "reused"}

\* The pid is still the daemon's.
Running(d) == child[d] \in {"booting", "serving", "hung"}

\* managedProcess before it compares identities (a mutant).
ManagedProcess_ByPid(d) == TRUE

\* managedProcess: executable and start token are those that were recorded.
\* A record without either is taken for one of an older version.
ManagedProcess(d) == Running(d) \/ d \notin identified

\* managedHealth: something on the port answers the health endpoints, or, for
\* a record without identity, accepts the connection.
Health(d) ==
    \/ port \in Children /\ child[port] = "serving"
    \/ port = Foreign /\ ForeignAnswers
    \/ d \notin identified /\ port # Free

\* listeningPID names another process than d, or neither ss nor /proc tells.
OwnedByOther(d) == {FALSE, port # Free /\ port # d}

Goto(o, step) == pc' = [pc EXCEPT ![o] = step]

\* A locked operation ends through the deferred releaseLock, Status at once.
Answer(o, a) ==
    /\ answer' = [answer EXCEPT ![o] = a]
    /\ Goto(o, IF kind[o] = "status" THEN "idle" ELSE "release")

Begin(o, k) ==
    /\ pc[o] = "idle" /\ calls[o] < MaxCalls
    /\ kind' = [kind EXCEPT ![o] = k]
    /\ calls' = [calls EXCEPT ![o] = @ + 1]
    /\ attempt' = [attempt EXCEPT ![o] = 0]
    /\ info' = [info EXCEPT ![o] = Absent]
    /\ mine' = [mine EXCEPT ![o] = Absent]
    /\ answer' = [answer EXCEPT ![o] = "none"]
    /\ Goto(o, IF k = "status" THEN "read" ELSE "create")
    /\ UNCHANGED <<files, world, ghosts>>

-----------------------------------------------------------------------------
(* acquireLock and releaseLock                                             *)

\* O_CREATE|O_EXCL: the file is created empty, or it is there.
CreateLock(o) ==
    /\ pc[o] = "create"
    /\ attempt' = [attempt EXCEPT ![o] = @ + 1]
    /\ IF lockFile.by = Absent
       THEN lockFile' = [by |-> o, stamped |-> FALSE] /\ Goto(o, "stamp")
       ELSE Goto(o, "inspect") /\ UNCHANGED lockFile
    /\ UNCHANGED <<pidFile, world, kind, info, mine, calls, answer, ghosts>>

\* The pid goes into the file that was created, wherever that file is now.
StampLock(o) ==
    /\ pc[o] = "stamp"
    /\ lockFile' = [lockFile EXCEPT !.stamped = @ \/ lockFile.by = o]
    /\ Goto(o, "read")
    /\ UNCHANGED <<pidFile, world, locals, answer, ghosts>>

\* Read and judged: the pid of a live process, or stale.
InspectLock(o) ==
    /\ pc[o] = "inspect"
    /\ IF lockFile.by \in Operators /\ lockFile.stamped /\ pc[lockFile.by] # "dead"
       THEN answer' = [answer EXCEPT ![o] = "locked"] /\ Goto(o, "idle")
       ELSE Goto(o, "unlink") /\ UNCHANGED answer
    /\ UNCHANGED <<files, world, locals, ghosts>>

\* A third try (a mutant).
UnlinkLock_TriesAgain(o) ==
    /\ pc[o] = "unlink"
    /\ lockFile' = NoLock
    /\ IF attempt[o] <= 2
       THEN Goto(o, "create") /\ UNCHANGED answer
       ELSE answer' = [answer EXCEPT ![o] = "locked"] /\ Goto(o, "idle")
    /\ UNCHANGED <<pidFile, world, locals, ghosts>>

\* Whatever file has the name by now is removed; two tries are made.
UnlinkLock(o) ==
    /\ pc[o] = "unlink"
    /\ lockFile' = NoLock
    /\ IF attempt[o] < 2
       THEN Goto(o, "create") /\ UNCHANGED answer
       ELSE answer' = [answer EXCEPT ![o] = "locked"] /\ Goto(o, "idle")
    /\ UNCHANGED <<pidFile, world, locals, ghosts>>

\* releaseLock removes the file with that name.
ReleaseLock(o) ==
    /\ pc[o] = "release"
    /\ lockFile' = NoLock
    /\ Goto(o, "idle")
    /\ UNCHANGED <<pidFile, world, locals, answer, ghosts>>

-----------------------------------------------------------------------------
(* The three operations begin alike: read the pid file, judge what it says.*)

ReadPidFile(o) ==
    /\ pc[o] = "read"
    /\ info' = [info EXCEPT ![o] = pidFile]
    /\ IF pidFile # Absent
       THEN Goto(o, "check") /\ UNCHANGED answer
       ELSE IF kind[o] = "start" THEN Goto(o, "spawn") /\ UNCHANGED answer
       ELSE Answer(o, "notRunning")
    /\ UNCHANGED <<files, world, kind, attempt, mine, calls, ghosts>>

\* Start without looking whether the recorded daemon still runs (a mutant).
Check_StartsAnyway(o) ==
    /\ pc[o] = "check"
    /\ Goto(o, IF kind[o] = "start" \/ ~(IsAlive(info[o]) /\ ManagedProcess(info[o])) THEN "clean"
               ELSE IF kind[o] = "stop" THEN "signal" ELSE "health")
    /\ UNCHANGED <<files, world, locals, answer, ghosts>>

\* Liveness and identity.
Check(o) ==
    /\ pc[o] = "check"
    /\ Goto(o, IF ~(IsAlive(info[o]) /\ ManagedProcess(info[o])) THEN "clean"
               ELSE IF kind[o] = "stop" THEN "signal" ELSE "health")
    /\ UNCHANGED <<files, world, locals, answer, ghosts>>

\* Two attempts of the health endpoints; Status then asks who listens.
CheckHealth(o) ==
    /\ pc[o] = "health"
    /\ \E other \in OwnedByOther(info[o]) :
          IF Health(info[o]) /\ (kind[o] = "status" /\ info[o] \in identified => ~other)
          THEN Answer(o, IF kind[o] = "status" THEN "running" ELSE "already")
          ELSE Goto(o, "clean") /\ UNCHANGED answer
    /\ UNCHANGED <<files, world, locals, ghosts>>

\* removePidFile, whatever it names by now.
Clean(o) ==
    /\ pc[o] = "clean"
    /\ pidFile' = Absent
    /\ IF kind[o] = "start" THEN Goto(o, "spawn") /\ UNCHANGED answer
       ELSE Answer(o, IF kind[o] = "stop" THEN "stopped" ELSE "notRunning")
    /\ told' = IF kind[o] = "stop" THEN Absent ELSE told
    /\ swept' = IF kind[o] # "status" THEN swept
                ELSE swept \cup {d \in Children : d = pidFile /\ child[d] \in {"booting", "serving"}}
    /\ UNCHANGED <<lockFile, world, locals, misfired>>

-----------------------------------------------------------------------------
(* Start                                                                   *)

\* The log file is opened and the daemon spawned; both may fail.
Spawn(o) ==
    /\ pc[o] = "spawn"
    /\ \/ \E d \in Children :
             /\ child[d] = "unborn"
             /\ child' = [child EXCEPT ![d] = "booting"]
             /\ mine' = [mine EXCEPT ![o] = d]
             /\ Goto(o, "record") /\ UNCHANGED answer
       \/ Answer(o, "failed") /\ UNCHANGED <<child, mine>>
    /\ UNCHANGED <<files, port, rest, kind, attempt, info, calls, ghosts>>

\* processIdentity is read from /proc, where a child that has ended and has been
\* waited for leaves nothing; the pid file is written in state "starting".  If
\* it cannot be, kill.
Record(o) ==
    /\ pc[o] = "record"
    /\ \/ /\ pidFile' = mine[o]
          /\ identified' \in {identified \cup {mine[o]}} \cup (IF Running(mine[o]) THEN {} ELSE {identified})
          /\ Goto(o, "owner")
       \/ Goto(o, "abort") /\ UNCHANGED <<pidFile, identified>>
    /\ UNCHANGED <<lockFile, child, port, deaths, takeovers, locals, answer, ghosts>>

\* An unmanaged listener owns the port, before and after the health check.
CheckOwner(o) ==
    /\ pc[o] \in {"owner", "ownerAgain"}
    /\ \E other \in OwnedByOther(mine[o]) :
          Goto(o, IF other THEN "unrecord" ELSE IF pc[o] = "owner" THEN "wait" ELSE "finish")
    /\ UNCHANGED <<files, world, locals, answer, ghosts>>

\* waitForHealth sees an answer on the port; the exit of the child may have
\* been too recent for the goroutine that reports it.
WaitSucceeds(o) ==
    /\ pc[o] = "wait" /\ Health(mine[o])
    /\ Goto(o, "ownerAgain")
    /\ UNCHANGED <<files, world, locals, answer, ghosts>>

\* Waiting without a limit for a child that neither answers nor ends (a mutant).
WaitFails_OnlyWhenExited(o) ==
    /\ pc[o] = "wait" /\ ~Running(mine[o])
    /\ Goto(o, "unrecord")
    /\ UNCHANGED <<files, world, locals, answer, ghosts>>

\* The child has exited, or 15 attempts went unanswered.
WaitFails(o) ==
    /\ pc[o] = "wait"
    /\ Goto(o, "unrecord")
    /\ UNCHANGED <<files, world, locals, answer, ghosts>>

\* The pid file is rewritten in state "running"; if it cannot be, kill and
\* remove it.
Finish(o) ==
    /\ pc[o] = "finish"
    /\ \/ /\ pidFile' = mine[o]
          /\ told' = mine[o]
          /\ Answer(o, "started")
          /\ UNCHANGED child
       \/ /\ child' = [child EXCEPT ![mine[o]] = IF @ = "reused" THEN @ ELSE "gone"]
          /\ Goto(o, "unrecord")
          /\ UNCHANGED <<pidFile, told, answer>>
    /\ port' = IF port = mine[o] /\ child'[mine[o]] = "gone" THEN Free ELSE port
    /\ UNCHANGED <<lockFile, rest, locals, misfired, swept>>

Unrecord(o) ==
    /\ pc[o] = "unrecord"
    /\ pidFile' = Absent
    /\ Goto(o, "abort")
    /\ UNCHANGED <<lockFile, world, locals, answer, ghosts>>

\* The child is left behind (a mutant).
Abort_LeavesChild(o) ==
    /\ pc[o] = "abort"
    /\ Answer(o, "failed")
    /\ UNCHANGED <<files, world, locals, ghosts>>

\* cmd.Process.Kill reaches the child itself: os.Process knows when it ended.
Abort(o) ==
    /\ pc[o] = "abort"
    /\ child' = [child EXCEPT ![mine[o]] = IF @ = "reused" THEN @ ELSE "gone"]
    /\ port' = IF port = mine[o] THEN Free ELSE port
    /\ Answer(o, "failed")
    /\ UNCHANGED <<files, rest, locals, ghosts>>

-----------------------------------------------------------------------------
(* Stop                                                                    *)

\* SIGINT and SIGTERM go to the pid; a daemon that is not stuck ends by them
\* in its own time (Die).
Signal(o) ==
    /\ pc[o] = "signal"
    /\ misfired' = misfired \cup {d \in {info[o]} : child[d] = "reused"}
    /\ Goto(o, "poll")
    /\ UNCHANGED <<files, world, locals, answer, told, swept>>

\* The polls end and the daemon is taken for stopped (a mutant).
Poll_GivesUp(o) ==
    /\ pc[o] = "poll"
    /\ Goto(o, "clean")
    /\ UNCHANGED <<files, world, locals, answer, ghosts>>

\* 20 polls of 100 ms: the pid is gone, or it is not.
Poll(o) ==
    /\ pc[o] = "poll"
    /\ Goto(o, IF IsAlive(info[o]) THEN "kill" ELSE "clean")
    /\ UNCHANGED <<files, world, locals, answer, ghosts>>

\* kill -9.
Kill(o) ==
    /\ pc[o] = "kill"
    /\ misfired' = misfired \cup {d \in {info[o]} : child[d] = "reused"}
    /\ child' = [child EXCEPT ![info[o]] = "gone"]
    /\ port' = IF port = info[o] THEN Free ELSE port
    /\ Goto(o, "clean")
    /\ UNCHANGED <<files, rest, locals, answer, told, swept>>

-----------------------------------------------------------------------------
(* The daemons, the port and the operators' processes                      *)

\* A booting daemon binds the port, or ends because it is taken.
Listen(d) ==
    /\ child[d] = "booting"
    /\ IF port = Free
       THEN child' = [child EXCEPT ![d] = "serving"] /\ port' = d
       ELSE child' = [child EXCEPT ![d] = "gone"] /\ UNCHANGED port
    /\ UNCHANGED <<files, rest, locals, pc, answer, ghosts>>

\* It stops answering but keeps its socket, for good or for a while.
Hang(d) ==
    /\ child[d] = "serving"
    /\ child' = [child EXCEPT ![d] = "hung"]
    /\ UNCHANGED <<files, port, rest, locals, pc, answer, ghosts>>

Recover(d) ==
    /\ HangsEnd /\ child[d] = "hung"
    /\ child' = [child EXCEPT ![d] = "serving"]
    /\ UNCHANGED <<files, port, rest, locals, pc, answer, ghosts>>

\* It ends, by a signal or by itself.
Die(d) ==
    /\ Running(d)
    /\ child' = [child EXCEPT ![d] = "gone"]
    /\ port' = IF port = d THEN Free ELSE port
    /\ UNCHANGED <<files, rest, locals, pc, answer, ghosts>>

\* Its pid is given to another process.  Not within the seconds a Stop needs
\* from its identity check to its last signal: pids are handed out in a cycle.
Reuse(d) ==
    /\ child[d] = "gone"
    /\ \A o \in Operators : pc[o] \in StopSteps => info[o] # d
    /\ child' = [child EXCEPT ![d] = "reused"]
    /\ UNCHANGED <<files, port, rest, locals, pc, answer, ghosts>>

\* An unmanaged process takes the port, or gives it up.
ForeignPort ==
    /\ \/ port = Free /\ takeovers < MaxForeign
          /\ port' = Foreign /\ takeovers' = takeovers + 1
       \/ port = Foreign /\ port' = Free /\ UNCHANGED takeovers
    /\ UNCHANGED <<files, child, identified, deaths, locals, pc, answer, ghosts>>

\* An operator's process is killed inside a call: its files stay.
OperatorDies(o) ==
    /\ pc[o] \notin {"idle", "dead"} /\ deaths < MaxDeaths
    /\ deaths' = deaths + 1
    /\ Goto(o, "dead")
    /\ UNCHANGED <<files, child, port, identified, takeovers, locals, answer, ghosts>>

Step(o) ==
    \/ CreateLock(o) \/ StampLock(o) \/ InspectLock(o) \/ UnlinkLock(o) \/ ReleaseLock(o)
    \/ ReadPidFile(o) \/ Check(o) \/ CheckHealth(o) \/ Clean(o)
    \/ Spawn(o) \/ Record(o) \/ CheckOwner(o) \/ WaitSucceeds(o) \/ WaitFails(o)
    \/ Finish(o) \/ Unrecord(o) \/ Abort(o)
    \/ Signal(o) \/ Poll(o) \/ Kill(o)

Next ==
    \/ \E o \in Operators : Begin(o, "start") \/ Begin(o, "stop") \/ OperatorDies(o)
    \/ \E o \in Observers : Begin(o, "status")
    \/ \E o \in Actors : Step(o)
    \/ \E d \in Children : Listen(d) \/ Hang(d) \/ Recover(d) \/ Die(d) \/ Reuse(d)
    \/ ForeignPort

\* Every loop of an operation is bounded by a count and by timeouts.
Fairness == \A o \in Actors : WF_vars(Step(o))

Spec == Init /\ [][Next]_vars /\ Fairness

-----------------------------------------------------------------------------

TypeOK ==
    /\ pidFile \in Children \cup {Absent}
    /\ lockFile \in [by : Operators \cup {Absent, Dead}, stamped : BOOLEAN]
    /\ child \in [Children -> ChildStates]
    /\ port \in Children \cup {Free, Foreign}
    /\ kind \in [Actors -> {"none", "start", "stop", "status"}]
    /\ pc \in [Actors -> {"idle", "dead"} \cup LockSteps \cup Inside]
    /\ attempt \in [Actors -> 0..2]
    /\ info \in [Actors -> Children \cup {Absent}]
    /\ mine \in [Actors -> Children \cup {Absent}]
    /\ answer \in [Actors -> Answers]
    /\ calls \in [Actors -> 0..MaxCalls]
    /\ told \in Children \cup {Absent}
    /\ identified \subseteq Children
    /\ misfired \subseteq Children /\ swept \subseteq Children
    /\ deaths \in 0..MaxDeaths
    /\ takeovers \in 0..MaxForeign

(* No interleaving of operations, deaths and pid reuse signals a process    *)
(* that only inherited the pid of a recorded daemon, if the record carries  *)
(* an identity (system-contract 2.7 item 5, daemon.go:284).                 *)
IdentityProtects == misfired \cap identified = {}

(* A Start that fails, whatever else runs, leaves no child of its own alive *)
(* and no pid file that names it (system-contract 2.7 item 2).              *)
FailedStartLeavesNothing ==
    \A o \in Operators :
        kind[o] = "start" /\ answer[o] = "failed" /\ mine[o] # Absent =>
            ~Running(mine[o]) /\ pidFile # mine[o]

(* When Stop reports a daemon stopped, that daemon is gone: by itself, by   *)
(* the signals, or in the end by kill -9 (system-contract 2.7 item 5).      *)
StoppedIsGone ==
    \A o \in Operators :
        kind[o] = "stop" /\ answer[o] = "stopped" => ~Running(info[o])

(* A daemon that was reported started, serves and was not stopped is the    *)
(* one the pid file names: real pid, port and status agree                  *)
(* (system-contract.md:145); unless a Status, which takes no lock, removed  *)
(* the record of a living daemon on the strength of an earlier look: from   *)
(* then on a Start may take that one's answers for those of its own child.  *)
StartedIsRecorded ==
    swept = {} /\ told # Absent /\ child[told] = "serving" => pidFile = told

(* Two operations that change the daemon never overlap ("daemon operation   *)
(* already in progress", daemon.go:70; TestDaemonOperationLockRejects-      *)
(* ConcurrentMutation).                                                     *)
OneOperation ==
    \A o1, o2 \in Operators : pc[o1] \in Inside /\ pc[o2] \in Inside => o1 = o2

(* Every call returns, whatever becomes of the daemon, of the port and of   *)
(* the other operators, unless its own process is killed.                   *)
EveryCallReturns ==
    \A o \in Actors : pc[o] # "idle" ~> pc[o] \in {"idle", "dead"}
=============================================================================
