---------------------------- MODULE EventStream ----------------------------
(***************************************************************************)
(* What a client of the Responses API may expect of the events of one      *)
(* answer: items are announced, grow and are closed one after the other,   *)
(* and the answer ends once, with every item closed.  The relay may stop   *)
(* at any point.                                                           *)
(***************************************************************************)
EXTENDS Naturals

CONSTANT Items

VARIABLES
    phase,      \* nothing yet, announced, or over
    added,      \* the items announced so far
    deltas,     \* how often each has grown
    closed      \* the items that are complete

vars == <<phase, added, deltas, closed>>

TypeOK ==
    /\ phase \in {"fresh", "created", "ended"}
    /\ added \subseteq Items
    /\ deltas \in [Items -> Nat]
    /\ closed \subseteq added

Init ==
    /\ phase = "fresh"
    /\ added = {} /\ closed = {}
    /\ deltas = [i \in Items |-> 0]

Create ==
    /\ phase = "fresh"
    /\ phase' = "created"
    /\ UNCHANGED <<added, deltas, closed>>

Add(i) ==
    /\ phase = "created" /\ i \notin added
    /\ added' = added \cup {i}
    /\ UNCHANGED <<phase, deltas, closed>>

Grow(i) ==
    /\ phase = "created" /\ i \in added \ closed
    /\ deltas' = [deltas EXCEPT ![i] = @ + 1]
    /\ UNCHANGED <<phase, added, closed>>

Close(i) ==
    /\ phase = "created" /\ i \in added \ closed
    /\ closed' = closed \cup {i}
    /\ UNCHANGED <<phase, added, deltas>>

\* An answer without any output ends without having been announced.
End ==
    /\ phase # "ended" /\ closed = added
    /\ phase' = "ended"
    /\ UNCHANGED <<added, deltas, closed>>

Next == Create \/ End \/ \E i \in Items : Add(i) \/ Grow(i) \/ Close(i)

Spec == Init /\ [][Next]_vars
=============================================================================
