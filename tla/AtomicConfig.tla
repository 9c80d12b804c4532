---------------------------- MODULE AtomicConfig ----------------------------
(***************************************************************************)
(* What the config store promises: every call takes effect at most once,   *)
(* in one step, on the file as it is at that moment, and the answer tells  *)
(* whether it did.  No lock, no snapshot, no temp file.                    *)
(***************************************************************************)
EXTENDS ProfileConfig

CONSTANTS Clients, InitialFiles, Calls, Nothing

VARIABLES
    disk,       \* the config file
    call,       \* call[c]: "idle", "pending", or "done" but not yet returned
    request,    \* request[c]: the call c is in, or made last
    result      \* result[c]: how it ended

vars == <<disk, call, request, result>>

Init ==
    /\ disk \in InitialFiles
    /\ call = [c \in Clients |-> "idle"]
    /\ request = [c \in Clients |-> Nothing]
    /\ result = [c \in Clients |-> "none"]

Begin(c, r) ==
    /\ call[c] = "idle" /\ Admissible(r)
    /\ call' = [call EXCEPT ![c] = "pending"]
    /\ request' = [request EXCEPT ![c] = r]
    /\ result' = [result EXCEPT ![c] = "none"]
    /\ UNCHANGED disk

\* The reasons for which r may be turned down on the file as it is.
Refusals(r) ==
    {res \in {"refused", "broken", "rejected"} :
        /\ res = "refused" => ~Admissible(r)
        /\ res = "broken" => disk = Corrupt
        /\ res = "rejected" => ~Allowed(r, disk) \/ (r.op = "fetch" /\ ~ChannelResolves(r, Loaded(disk)))}

\* A call that is turned down as soon as it is made.
Refuse(c, r) ==
    /\ call[c] = "idle"
    /\ request' = [request EXCEPT ![c] = r]
    /\ \E res \in Refusals(r) : result' = [result EXCEPT ![c] = res]
    /\ UNCHANGED <<disk, call>>

TakeEffect(c) ==
    /\ call[c] = "pending" /\ Allowed(request[c], disk)
    /\ disk' = Outcome(request[c], disk)
    /\ call' = [call EXCEPT ![c] = "done"]
    /\ result' = [result EXCEPT ![c] = "ok"]
    /\ UNCHANGED request

\* A pending call fails without effect; the verdict is one of the file as it
\* is, or tells of a resource.
Fail(c) ==
    /\ call[c] = "pending"
    /\ \E next \in {"idle", "done"} : call' = [call EXCEPT ![c] = next]
    /\ \E res \in Refusals(request[c]) \cup {"busy", "ioError", "fetchFailed"} :
          result' = [result EXCEPT ![c] = res]
    /\ UNCHANGED <<disk, request>>

Return(c) ==
    /\ call[c] = "done"
    /\ call' = [call EXCEPT ![c] = "idle"]
    /\ UNCHANGED <<disk, request, result>>

Kill(dead) ==
    /\ \A c \in dead : call[c] # "idle"
    /\ call' = [c \in Clients |-> IF c \in dead THEN "idle" ELSE call[c]]
    /\ result' = [c \in Clients |-> IF c \in dead THEN "killed" ELSE result[c]]
    /\ UNCHANGED <<disk, request>>

Next ==
    \/ \E c \in Clients :
          \/ \E r \in Calls : Begin(c, r) \/ Refuse(c, r)
          \/ TakeEffect(c) \/ Fail(c) \/ Return(c)
    \/ \E dead \in SUBSET Clients : Kill(dead)

Spec == Init /\ [][Next]_vars
=============================================================================
