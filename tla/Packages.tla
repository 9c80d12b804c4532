------------------------------ MODULE Packages ------------------------------
(***************************************************************************)
(* The packages table of pi-switch.db: package add, delete, toggle and the *)
(* import of what Pi's settings.json lists, called by handlers of the web  *)
(* server and by CLI processes (server/package_handlers.go, piagent).      *)
(*                                                                         *)
(* Add and delete are one SQL statement.  A toggle is a SELECT and an      *)
(* UPDATE of its own.  An import reads settings and manifests first, with  *)
(* no transaction open, and applies what it found in one transaction.      *)
(* SQLite lets one connection write at a time; a write that waits longer   *)
(* than the driver's busy timeout fails with SQLITE_BUSY.                  *)
(***************************************************************************)
EXTENDS Naturals, FiniteSets

CONSTANTS
    Pkgs,       \* package ids: canonical sources
    Twins,      \* pairs of an npm and a git source of one package name
    Callers,    \* handlers and CLI processes
    MaxCalls,   \* bound: calls of all callers together
    MaxEdits,   \* bound: changes Pi or its user makes to settings and packages
    NoRow,      \* no row under this id
    NoOne       \* nobody holds SQLite's write lock

ASSUME PackagesAssumption ==
    /\ Pkgs # {} /\ Twins \subseteq Pkgs \X Pkgs
    /\ MaxCalls \in Nat /\ MaxEdits \in Nat
    /\ NoOne \notin Callers
    /\ NoRow \notin [state : {"installed", "removed"}, enabled : {"off", "on"}, origin : {"manual", "pi"}]

VARIABLES
    settings,   \* settings[p]: how settings.json lists p
    installed,  \* sources whose directory holds a valid Pi package
    rows,       \* the table, as committed
    txn,        \* the table, as the open transaction sees it
    writer,     \* the caller whose transaction holds the write lock
    pc,         \* pc[c]: where c is in its call
    toggle,     \* toggle[c]: the row c's toggle read
    found,      \* found[c]: what c's import discovered
    calls,      \* calls made
    edits,      \* edits made
    added,      \* history: ids a user added and neither deleted nor had Pi claim
    due,        \* history: due[p]: what the answers given say of enabled
    crossed     \* history: ids whose toggles were overtaken or refused

vars == <<settings, installed, rows, txn, writer, pc, toggle, found, calls,
          edits, added, due, crossed>>

Listing == {"absent", "off", "on"}
Switch  == {"off", "on"}
Flip(e) == IF e = "on" THEN "off" ELSE "on"
Row     == [state : {"installed", "removed"}, enabled : Switch, origin : {"manual", "pi"}]
InTx    == {"upserting", "sweeping", "committing"}

TypeOK ==
    /\ settings \in [Pkgs -> Listing] /\ installed \subseteq Pkgs
    /\ rows \in [Pkgs -> Row \cup {NoRow}] /\ txn \in [Pkgs -> Row \cup {NoRow}]
    /\ writer \in Callers \cup {NoOne}
    /\ pc \in [Callers -> {"idle", "toggling", "discovered"} \cup InTx]
    /\ toggle \in [Callers -> [pkg : Pkgs, enabled : Switch]]
    /\ found \in [Callers -> [Pkgs -> Listing]]
    /\ calls \in 0 .. MaxCalls /\ edits \in 0 .. MaxEdits
    /\ added \subseteq Pkgs /\ crossed \subseteq Pkgs
    /\ due \in [Pkgs -> Switch]

Init ==
    /\ settings \in [Pkgs -> Listing] /\ installed = Pkgs
    /\ rows = [p \in Pkgs |-> NoRow] /\ txn = rows
    /\ writer = NoOne
    /\ pc = [c \in Callers |-> "idle"]
    /\ toggle = [c \in Callers |-> [pkg |-> CHOOSE p \in Pkgs : TRUE, enabled |-> "off"]]
    /\ found = [c \in Callers |-> [p \in Pkgs |-> "absent"]]
    /\ calls = 0 /\ edits = 0
    /\ added = {} /\ crossed = {}
    /\ due = [p \in Pkgs |-> "off"]

-----------------------------------------------------------------------------
\* ListInstalledPackages: the ids a reader is shown.
Listed == {p \in Pkgs : rows[p] # NoRow /\ rows[p].state = "installed"}

\* The rows the statements write.
ManualRow(e)   == [state |-> "installed", enabled |-> e, origin |-> "manual"]
PiRow(e)       == [state |-> "installed", enabled |-> e, origin |-> "pi"]
Removed(row)   == [row EXCEPT !.state = "removed"]
Turned(row, e) == [row EXCEPT !.enabled = e]

\* Toggles on their way when another write decides p's enabled.
Toggling(p) == \E c \in Callers : pc[c] = "toggling" /\ toggle[c].pkg = p

\* The caller may start another call.
Starts(c) == pc[c] = "idle" /\ calls < MaxCalls /\ calls' = calls + 1

\* A statement outside a transaction waits for the write lock.
Free == writer = NoOne

\* Adding a package that has a row leaves its enabled alone (a mutant).
AddPackage_KeepsEnabled(c, p, e) ==
    /\ Starts(c) /\ Free
    /\ rows' = [rows EXCEPT ![p] = ManualRow(IF @ = NoRow THEN e ELSE @.enabled)]
    /\ added' = added \cup {p}
    /\ due' = [due EXCEPT ![p] = e]
    /\ crossed' = IF Toggling(p) THEN crossed \cup {p} ELSE crossed \ {p}
    /\ UNCHANGED <<settings, installed, txn, writer, pc, toggle, found, edits>>

AddPackage(c, p, e) ==
    /\ Starts(c) /\ Free
    /\ rows' = [rows EXCEPT ![p] = ManualRow(e)]
    /\ added' = added \cup {p}
    /\ due' = [due EXCEPT ![p] = e]
    /\ crossed' = IF Toggling(p) THEN crossed \cup {p} ELSE crossed \ {p}
    /\ UNCHANGED <<settings, installed, txn, writer, pc, toggle, found, edits>>

DeletePackage(c, p) ==
    /\ Starts(c) /\ Free /\ p \in Listed
    /\ rows' = [rows EXCEPT ![p] = Removed(rows[p])]
    /\ added' = added \ {p}
    /\ UNCHANGED <<settings, installed, txn, writer, pc, toggle, found, edits, due, crossed>>

\* A toggle reads any row, a removed one too.
ToggleRead(c, p) ==
    /\ Starts(c) /\ rows[p] # NoRow
    /\ toggle' = [toggle EXCEPT ![c] = [pkg |-> p, enabled |-> rows[p].enabled]]
    /\ pc' = [pc EXCEPT ![c] = "toggling"]
    /\ UNCHANGED <<settings, installed, rows, txn, writer, found, edits, added, due, crossed>>

ToggleWrite(c) ==
    LET p == toggle[c].pkg IN
    /\ pc[c] = "toggling" /\ Free
    /\ rows' = [rows EXCEPT ![p] = Turned(rows[p], Flip(toggle[c].enabled))]
    /\ pc' = [pc EXCEPT ![c] = "idle"]
    /\ due' = [due EXCEPT ![p] = Flip(due[p])]
    /\ crossed' = IF \E d \in Callers \ {c} : pc[d] = "toggling" /\ toggle[d].pkg = p
                  THEN crossed \cup {p} ELSE crossed
    /\ UNCHANGED <<settings, installed, txn, writer, toggle, found, calls, edits, added>>

\* The UPDATE's error is dropped: the answer is the same.
ToggleRefused(c) ==
    /\ pc[c] = "toggling" /\ ~Free
    /\ pc' = [pc EXCEPT ![c] = "idle"]
    /\ due' = [due EXCEPT ![toggle[c].pkg] = Flip(@)]
    /\ crossed' = crossed \cup {toggle[c].pkg}
    /\ UNCHANGED <<settings, installed, rows, txn, writer, toggle, found, calls, edits, added>>

-----------------------------------------------------------------------------
\* packageSourceIdentity: a source on disk is known by its own id, or by that
\* of a listed twin: the first match of a walk over a Go map.
Identities(s) == {s} \cup {t \in Pkgs : <<s, t>> \in Twins /\ settings[t] # "absent"}

\* The sources settings.json lists and whose package can be read.
Readable == {s \in installed : settings[s] # "absent"}

\* DiscoverPackages, when settings.json can be read.  Without it (not found,
\* not JSON) the import ends before it opens the database.
Discover(c) ==
    /\ Starts(c)
    /\ \E id \in [Readable -> Pkgs] :
          /\ \A s \in Readable : id[s] \in Identities(s)
          /\ found' = [found EXCEPT ![c] =
                [p \in Pkgs |-> IF \E s \in Readable : id[s] = p THEN settings[p] ELSE "absent"]]
    /\ pc' = [pc EXCEPT ![c] = "discovered"]
    /\ UNCHANGED <<settings, installed, rows, txn, writer, toggle, edits, added, due, crossed>>

\* The transaction's first statement takes the write lock.
BeginTx(c) ==
    /\ pc[c] = "discovered" /\ Free
    /\ writer' = c
    /\ txn' = rows
    /\ pc' = [pc EXCEPT ![c] = "upserting"]
    /\ UNCHANGED <<settings, installed, rows, toggle, found, calls, edits, added, due, crossed>>

\* Every package found, one INSERT .. ON CONFLICT DO UPDATE each.
Upsert(c) ==
    /\ pc[c] = "upserting"
    /\ txn' = [p \in Pkgs |->
          IF found[c][p] = "absent" THEN txn[p] ELSE PiRow(found[c][p])]
    /\ pc' = [pc EXCEPT ![c] = "sweeping"]
    /\ UNCHANGED <<settings, installed, rows, writer, toggle, found, calls, edits, added, due, crossed>>

\* Every row the import did not find is uninstalled (a mutant).
Sweep_AnyOrigin(c) ==
    /\ pc[c] = "sweeping"
    /\ txn' = [p \in Pkgs |->
          IF txn[p] # NoRow /\ found[c][p] = "absent" THEN Removed(txn[p]) ELSE txn[p]]
    /\ pc' = [pc EXCEPT ![c] = "committing"]
    /\ UNCHANGED <<settings, installed, rows, writer, toggle, found, calls, edits, added, due, crossed>>

\* Rows of an earlier import that this one did not find are uninstalled.
Sweep(c) ==
    /\ pc[c] = "sweeping"
    /\ txn' = [p \in Pkgs |->
          IF txn[p] # NoRow /\ txn[p].origin = "pi" /\ found[c][p] = "absent"
          THEN Removed(txn[p]) ELSE txn[p]]
    /\ pc' = [pc EXCEPT ![c] = "committing"]
    /\ UNCHANGED <<settings, installed, rows, writer, toggle, found, calls, edits, added, due, crossed>>

Commit(c) ==
    LET claimed == {p \in Pkgs : found[c][p] # "absent"} IN
    /\ pc[c] = "committing"
    /\ rows' = txn
    /\ writer' = NoOne
    /\ pc' = [pc EXCEPT ![c] = "idle"]
    /\ added' = added \ claimed
    /\ due' = [p \in Pkgs |-> IF p \in claimed THEN found[c][p] ELSE due[p]]
    /\ crossed' = {p \in crossed : p \notin claimed} \cup {p \in claimed : Toggling(p)}
    /\ UNCHANGED <<settings, installed, txn, toggle, found, calls, edits>>

\* The statements run without a transaction (a mutant).
Rollback_Commits(c) ==
    /\ pc[c] \in InTx
    /\ rows' = txn
    /\ writer' = NoOne
    /\ pc' = [pc EXCEPT ![c] = "idle"]
    /\ UNCHANGED <<settings, installed, txn, toggle, found, calls, edits, added, due, crossed>>

\* A statement or the commit fails, or the process is killed: SQLite rolls
\* back.
Rollback(c) ==
    /\ pc[c] \in InTx
    /\ writer' = NoOne
    /\ pc' = [pc EXCEPT ![c] = "idle"]
    /\ UNCHANGED <<settings, installed, rows, txn, toggle, found, calls, edits, added, due, crossed>>

\* The import cannot get the write lock, or a process is killed between its
\* reading and its writing.
GiveUp(c) ==
    /\ pc[c] \in {"discovered", "toggling"}
    /\ pc' = [pc EXCEPT ![c] = "idle"]
    /\ UNCHANGED <<settings, installed, rows, txn, writer, toggle, found, calls, edits, added, due, crossed>>

-----------------------------------------------------------------------------
\* Pi, its package manager or its user: settings.json, and what is on disk.
EditSettings(p, l) ==
    /\ edits < MaxEdits /\ edits' = edits + 1
    /\ settings' = [settings EXCEPT ![p] = l]
    /\ UNCHANGED <<installed, rows, txn, writer, pc, toggle, found, calls, added, due, crossed>>

Reinstall(p) ==
    /\ edits < MaxEdits /\ edits' = edits + 1
    /\ installed' = IF p \in installed THEN installed \ {p} ELSE installed \cup {p}
    /\ UNCHANGED <<settings, rows, txn, writer, pc, toggle, found, calls, added, due, crossed>>

Call(c) ==
    \/ \E p \in Pkgs, e \in Switch : AddPackage(c, p, e)
    \/ \E p \in Pkgs : DeletePackage(c, p) \/ ToggleRead(c, p)
    \/ ToggleWrite(c) \/ ToggleRefused(c)
    \/ Discover(c) \/ BeginTx(c) \/ Upsert(c) \/ Sweep(c) \/ Commit(c)
    \/ Rollback(c) \/ GiveUp(c)

Next ==
    \/ \E c \in Callers : Call(c)
    \/ \E p \in Pkgs : Reinstall(p) \/ \E l \in Listing : EditSettings(p, l)

Spec == Init /\ [][Next]_vars

-----------------------------------------------------------------------------
\* The row an import leaves under p, from what it found and the row as it was.
Imported(l, row) ==
    IF l # "absent" THEN PiRow(l)
    ELSE IF row # NoRow /\ row.origin = "pi" THEN Removed(row) ELSE row

\* What a user added by hand stays installed until it is deleted or Pi lists
\* it: an import uninstalls rows of origin pi only, the upsert of an add makes
\* the row manual again, and nothing that waited for the write lock acts on a
\* table read before (package_handlers.go:211, 338-362).
KeptForUser ==
    \A p \in added : p \in Listed /\ rows[p].origin = "manual"

\* Enabled is what the answers said: each toggle answered with success turns
\* it once, an add or an import sets it.  The exceptions are the ids of which a
\* toggle was overtaken between its SELECT and its UPDATE, or had its UPDATE
\* refused (package_handlers.go:431-440).
TogglesCount ==
    \A p \in Pkgs : rows[p] # NoRow /\ p \notin crossed => rows[p].enabled = due[p]

\* An import is seen as a whole or not at all: every package it found is
\* there, every other row of Pi is uninstalled, manual rows are as they were,
\* on the table as it is when the import commits (package_handlers.go:301-367).
ImportIsWhole ==
    [][~Free /\ rows' # rows =>
         \A p \in Pkgs : rows'[p] = Imported(found[writer][p], rows[p])]_vars

=============================================================================
