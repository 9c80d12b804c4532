--------------------------- MODULE PackagesProofs ---------------------------
(* Theorems about Packages for every set of ids, twins and callers.         *)
EXTENDS Packages, TLAPS

\* The caller inside a transaction is the one that holds the write lock.
LockHeld ==
    \A c \in Callers : writer = c <=> pc[c] \in InTx

\* What the open transaction sees, statement by statement.
TxnAsApplied ==
    \A c \in Callers, p \in Pkgs :
        /\ pc[c] = "upserting" => txn[p] = rows[p]
        /\ pc[c] = "sweeping" =>
              txn[p] = IF found[c][p] # "absent" THEN PiRow(found[c][p]) ELSE rows[p]
        /\ pc[c] = "committing" => txn[p] = Imported(found[c][p], rows[p])

\* What a toggle read is still there, unless it was overtaken.
ToggleCurrent ==
    \A c \in Callers :
        pc[c] = "toggling" =>
            LET p == toggle[c].pkg IN
            rows[p] # NoRow /\ (p \notin crossed => toggle[c].enabled = rows[p].enabled)

IInv == TypeOK /\ LockHeld /\ TxnAsApplied /\ ToggleCurrent /\ KeptForUser /\ TogglesCount

USE DEF InTx, Free, Listed, Starts

LEMMA NoRowIsNoRow == NoRow \notin Row
  BY PackagesAssumption DEF Row, Switch

LEMMA ManualRowType ==
    ASSUME NEW e \in Switch
    PROVE  /\ ManualRow(e) \in Row /\ ManualRow(e).enabled = e
           /\ ManualRow(e).state = "installed" /\ ManualRow(e).origin = "manual"
  BY DEF ManualRow, Row

LEMMA PiRowType ==
    ASSUME NEW e \in Switch
    PROVE  PiRow(e) \in Row /\ PiRow(e).enabled = e /\ PiRow(e).origin = "pi"
  BY DEF PiRow, Row

LEMMA RemovedType ==
    ASSUME NEW row \in Row
    PROVE  /\ Removed(row) \in Row
           /\ Removed(row).enabled = row.enabled /\ Removed(row).origin = row.origin
  BY DEF Removed, Row

LEMMA TurnedType ==
    ASSUME NEW row \in Row, NEW e \in Switch
    PROVE  /\ Turned(row, e) \in Row /\ Turned(row, e).enabled = e
           /\ Turned(row, e).state = row.state /\ Turned(row, e).origin = row.origin
  BY DEF Turned, Row

\* What an import makes of a row.
LEMMA ImportedRow ==
    ASSUME NEW l \in Listing, NEW row \in Row \cup {NoRow}
    PROVE  /\ Imported(l, row) \in Row \cup {NoRow}
           /\ l # "absent" => Imported(l, row) \in Row /\ Imported(l, row).enabled = l
           /\ l = "absent" /\ row = NoRow => Imported(l, row) = NoRow
           /\ l = "absent" /\ row # NoRow => Imported(l, row) \in Row /\ Imported(l, row).enabled = row.enabled
           /\ l = "absent" /\ row # NoRow /\ row.origin = "manual" => Imported(l, row) = row
  BY NoRowIsNoRow, PiRowType, RemovedType DEF Imported, Listing, Switch

LEMMA InitInv == Init => IInv
<1> SUFFICES ASSUME Init PROVE IInv
  OBVIOUS
<1>0. (CHOOSE p \in Pkgs : TRUE) \in Pkgs
  BY PackagesAssumption
<1>1. TypeOK
  BY <1>0, PackagesAssumption DEF Init, TypeOK, Listing, Switch
<1>2. LockHeld /\ TxnAsApplied /\ ToggleCurrent
  BY PackagesAssumption DEF Init, LockHeld, TxnAsApplied, ToggleCurrent
<1>3. KeptForUser /\ TogglesCount
  BY DEF Init, KeptForUser, TogglesCount
<1> QED
  BY <1>1, <1>2, <1>3 DEF IInv

LEMMA AddInv ==
    ASSUME IInv, NEW c \in Callers, NEW p \in Pkgs, NEW e \in Switch, AddPackage(c, p, e)
    PROVE  IInv'
<1> USE DEF IInv
<1>0. \A q \in Pkgs : rows'[q] = IF q = p THEN ManualRow(e) ELSE rows[q]
  BY DEF TypeOK, AddPackage
<1>1. TypeOK'
  BY ManualRowType, PackagesAssumption DEF TypeOK, AddPackage
<1>2. LockHeld' /\ TxnAsApplied'
  BY PackagesAssumption DEF TypeOK, LockHeld, TxnAsApplied, AddPackage
<1>3. ToggleCurrent'
  BY <1>0, ManualRowType, NoRowIsNoRow DEF TypeOK, ToggleCurrent, AddPackage, Toggling
<1>4. KeptForUser'
  BY <1>0, ManualRowType, NoRowIsNoRow DEF TypeOK, KeptForUser, AddPackage
<1>5. TogglesCount'
  BY <1>0, ManualRowType DEF TypeOK, TogglesCount, AddPackage
<1> QED
  BY <1>1, <1>2, <1>3, <1>4, <1>5

LEMMA DeleteInv ==
    ASSUME IInv, NEW c \in Callers, NEW p \in Pkgs, DeletePackage(c, p)
    PROVE  IInv'
<1> USE DEF IInv
<1>0. /\ rows[p] \in Row
      /\ \A q \in Pkgs : rows'[q] = IF q = p THEN Removed(rows[p]) ELSE rows[q]
  BY DEF TypeOK, DeletePackage
<1>1. TypeOK'
  BY <1>0, RemovedType, PackagesAssumption DEF TypeOK, DeletePackage
<1>2. LockHeld' /\ TxnAsApplied'
  BY PackagesAssumption DEF TypeOK, LockHeld, TxnAsApplied, DeletePackage
<1>3. ToggleCurrent'
  BY <1>0, RemovedType, NoRowIsNoRow DEF TypeOK, ToggleCurrent, DeletePackage
<1>4. KeptForUser'
  BY <1>0 DEF TypeOK, KeptForUser, DeletePackage
<1>5. TogglesCount'
  BY <1>0, RemovedType, NoRowIsNoRow DEF TypeOK, TogglesCount, DeletePackage
<1> QED
  BY <1>1, <1>2, <1>3, <1>4, <1>5

LEMMA ToggleReadInv ==
    ASSUME IInv, NEW c \in Callers, NEW p \in Pkgs, ToggleRead(c, p)
    PROVE  IInv'
<1> USE DEF IInv
<1>1. TypeOK'
  <2>1. rows[p].enabled \in Switch
    BY DEF TypeOK, ToggleRead, Row
  <2> QED
    BY <2>1, PackagesAssumption DEF TypeOK, ToggleRead
<1>2. LockHeld' /\ TxnAsApplied'
  BY DEF TypeOK, LockHeld, TxnAsApplied, ToggleRead
<1>3. ToggleCurrent'
  BY DEF TypeOK, ToggleCurrent, ToggleRead
<1>4. KeptForUser' /\ TogglesCount'
  BY DEF TypeOK, KeptForUser, TogglesCount, ToggleRead
<1> QED
  BY <1>1, <1>2, <1>3, <1>4

LEMMA ToggleWriteInv ==
    ASSUME IInv, NEW c \in Callers, ToggleWrite(c)
    PROVE  IInv'
<1> USE DEF IInv
<1> DEFINE p == toggle[c].pkg
           e == Flip(toggle[c].enabled)
<1>0. /\ p \in Pkgs /\ rows[p] \in Row /\ pc[c] = "toggling" /\ e \in Switch
      /\ p \notin crossed => toggle[c].enabled = rows[p].enabled
      /\ \A q \in Pkgs : rows'[q] = IF q = p THEN Turned(rows[p], e) ELSE rows[q]
  BY DEF TypeOK, ToggleWrite, ToggleCurrent, Flip, Switch
<1>1. TypeOK'
  BY <1>0, TurnedType DEF TypeOK, ToggleWrite, Flip, Switch
<1>2. LockHeld' /\ TxnAsApplied'
  BY PackagesAssumption DEF TypeOK, LockHeld, TxnAsApplied, ToggleWrite
<1> HIDE DEF e
<1>3. ToggleCurrent'
  <2> SUFFICES ASSUME NEW d \in Callers, pc'[d] = "toggling"
               PROVE  LET q == toggle'[d].pkg IN
                      rows'[q] # NoRow /\ (q \notin crossed' => toggle'[d].enabled = rows'[q].enabled)
    BY DEF ToggleCurrent
  <2>1. d # c /\ pc[d] = "toggling" /\ toggle' = toggle /\ toggle[d].pkg \in Pkgs
    BY DEF TypeOK, ToggleWrite
  <2>2. CASE toggle[d].pkg = p
    <3>1. p \in crossed'
      BY <2>1, <2>2 DEF ToggleWrite
    <3> QED
      BY <1>0, <2>1, <2>2, <3>1, TurnedType, NoRowIsNoRow
  <2>3. CASE toggle[d].pkg # p
    BY <1>0, <2>1, <2>3 DEF ToggleCurrent, ToggleWrite
  <2> QED
    BY <2>2, <2>3
<1>4. KeptForUser'
  BY <1>0, TurnedType, NoRowIsNoRow DEF TypeOK, KeptForUser, ToggleWrite
<1>5. TogglesCount'
  <2>1. /\ crossed \subseteq crossed'
        /\ due'[p] = Flip(due[p]) /\ \A q \in Pkgs : q # p => due'[q] = due[q]
    BY <1>0 DEF TypeOK, ToggleWrite
  <2>2. p \notin crossed => rows'[p].enabled = due'[p]
    BY <1>0, <2>1, TurnedType, NoRowIsNoRow DEF TogglesCount, e
  <2> QED
    BY <1>0, <2>1, <2>2 DEF TogglesCount
<1> QED
  BY <1>1, <1>2, <1>3, <1>4, <1>5

LEMMA DiscoverInv ==
    ASSUME IInv, NEW c \in Callers, Discover(c)
    PROVE  IInv'
<1> USE DEF IInv
<1>1. TypeOK'
  <2>1. found' \in [Callers -> [Pkgs -> Listing]]
    BY DEF TypeOK, Discover, Listing
  <2> QED
    BY <2>1, PackagesAssumption DEF TypeOK, Discover
<1>2. LockHeld' /\ TxnAsApplied'
  BY DEF TypeOK, LockHeld, TxnAsApplied, Discover
<1>3. ToggleCurrent' /\ KeptForUser' /\ TogglesCount'
  BY DEF TypeOK, ToggleCurrent, KeptForUser, TogglesCount, Discover
<1> QED
  BY <1>1, <1>2, <1>3

\* The statements of the transaction: nothing is visible outside.
LEMMA TxnInv ==
    ASSUME IInv, NEW c \in Callers, BeginTx(c) \/ Upsert(c) \/ Sweep(c)
    PROVE  IInv'
<1> USE DEF IInv
<1>1. TypeOK'
  <2>1. CASE BeginTx(c)
    BY <2>1 DEF TypeOK, BeginTx
  <2>2. CASE Upsert(c)
    BY <2>2, PiRowType DEF TypeOK, Upsert, Listing, Switch
  <2>3. CASE Sweep(c)
    <3>1. \A p \in Pkgs : txn'[p] \in Row \cup {NoRow}
      BY <2>3, RemovedType DEF TypeOK, Sweep
    <3> QED
      BY <2>3, <3>1 DEF TypeOK, Sweep
  <2> QED
    BY <2>1, <2>2, <2>3
<1>2. LockHeld'
  BY PackagesAssumption DEF TypeOK, LockHeld, BeginTx, Upsert, Sweep
<1>3. TxnAsApplied'
  <2>1. \A d \in Callers : d # c => pc'[d] = pc[d] /\ pc'[d] \notin InTx
    BY PackagesAssumption DEF TypeOK, LockHeld, BeginTx, Upsert, Sweep
  <2>2. CASE BeginTx(c)
    BY <2>1, <2>2 DEF TypeOK, TxnAsApplied, BeginTx
  <2>3. CASE Upsert(c)
    BY <2>1, <2>3 DEF TypeOK, TxnAsApplied, Upsert
  <2>4. CASE Sweep(c)
    BY <2>1, <2>4 DEF TypeOK, TxnAsApplied, Sweep, Imported
  <2> QED
    BY <2>2, <2>3, <2>4
<1>4. ToggleCurrent' /\ KeptForUser' /\ TogglesCount'
  BY DEF TypeOK, ToggleCurrent, KeptForUser, TogglesCount, BeginTx, Upsert, Sweep
<1> QED
  BY <1>1, <1>2, <1>3, <1>4

LEMMA CommitInv ==
    ASSUME IInv, NEW c \in Callers, Commit(c)
    PROVE  IInv' /\ writer = c /\ \A p \in Pkgs : rows'[p] = Imported(found[c][p], rows[p])
<1> USE DEF IInv
<1>0. /\ writer = c /\ rows' = txn
      /\ \A p \in Pkgs : rows'[p] = Imported(found[c][p], rows[p])
  BY DEF Commit, LockHeld, TxnAsApplied
<1>a. /\ \A d \in Callers : pc'[d] \notin InTx
      /\ \A d \in Callers : pc'[d] = "toggling" => pc[d] = "toggling" /\ toggle'[d] = toggle[d]
  BY DEF TypeOK, Commit, LockHeld
<1>b. \A p \in Pkgs : /\ rows[p] \in Row \cup {NoRow}
                      /\ found[c][p] # "absent" => rows'[p] \in Row /\ rows'[p].enabled = found[c][p]
                      /\ found[c][p] = "absent" => /\ rows[p] = NoRow => rows'[p] = NoRow
                                                   /\ rows[p] # NoRow => /\ rows'[p] \in Row
                                                                         /\ rows'[p].enabled = rows[p].enabled
                                                   /\ rows[p] # NoRow /\ rows[p].origin = "manual" => rows'[p] = rows[p]
  BY <1>0, ImportedRow DEF TypeOK
<1>1. TypeOK'
  BY PackagesAssumption DEF TypeOK, Commit, Listing, Switch
<1>2. LockHeld' /\ TxnAsApplied'
  BY <1>a, PackagesAssumption DEF LockHeld, TxnAsApplied, Commit
<1>3. ToggleCurrent'
  BY <1>a, <1>b, NoRowIsNoRow DEF TypeOK, ToggleCurrent, Toggling, Commit
<1>4. KeptForUser'
  BY <1>b DEF TypeOK, KeptForUser, Commit
<1>5. TogglesCount'
  BY <1>b DEF TypeOK, TogglesCount, Commit
<1> QED
  BY <1>0, <1>1, <1>2, <1>3, <1>4, <1>5

LEMMA EndInv ==
    ASSUME IInv, NEW c \in Callers, Rollback(c) \/ GiveUp(c) \/ ToggleRefused(c)
    PROVE  IInv'
<1> USE DEF IInv
<1>1. TypeOK'
  <2>1. toggle[c].pkg \in Pkgs /\ \A e \in Switch : Flip(e) \in Switch
    BY DEF TypeOK, Flip, Switch
  <2>2. CASE ToggleRefused(c)
    BY <2>1, <2>2 DEF TypeOK, ToggleRefused
  <2>3. CASE Rollback(c) \/ GiveUp(c)
    BY <2>3 DEF TypeOK, Rollback, GiveUp
  <2> QED
    BY <2>2, <2>3
<1>2. LockHeld' /\ TxnAsApplied'
  <2>1. CASE ToggleRefused(c) \/ GiveUp(c)
    <3>1. UNCHANGED <<writer, rows, txn, found>> /\ pc[c] \notin InTx
      BY <2>1 DEF GiveUp, ToggleRefused
    <3>2. \A d \in Callers : pc'[d] = IF d = c THEN "idle" ELSE pc[d]
      BY <2>1 DEF TypeOK, GiveUp, ToggleRefused
    <3> QED
      BY <3>1, <3>2 DEF LockHeld, TxnAsApplied
  <2>2. CASE Rollback(c)
    <3>1. writer = c /\ \A d \in Callers : pc'[d] \notin InTx
      BY <2>2 DEF TypeOK, LockHeld, Rollback
    <3> QED
      BY <2>2, <3>1, PackagesAssumption DEF TypeOK, LockHeld, TxnAsApplied, Rollback
  <2> QED
    BY <2>1, <2>2
<1>3. ToggleCurrent' /\ KeptForUser' /\ TogglesCount'
  BY DEF TypeOK, ToggleCurrent, KeptForUser, TogglesCount, Rollback, GiveUp, ToggleRefused
<1> QED
  BY <1>1, <1>2, <1>3

LEMMA EditInv ==
    ASSUME IInv, NEW p \in Pkgs, Reinstall(p) \/ \E l \in Listing : EditSettings(p, l)
    PROVE  IInv'
<1> USE DEF IInv
<1>1. TypeOK'
  BY PackagesAssumption DEF TypeOK, Reinstall, EditSettings
<1>2. LockHeld' /\ TxnAsApplied' /\ ToggleCurrent' /\ KeptForUser' /\ TogglesCount'
  BY DEF LockHeld, TxnAsApplied, ToggleCurrent, KeptForUser, TogglesCount, Reinstall, EditSettings
<1> QED
  BY <1>1, <1>2

LEMMA StepInv == IInv /\ [Next]_vars => IInv'
<1> SUFFICES ASSUME IInv, [Next]_vars PROVE IInv'
  OBVIOUS
<1>1. CASE UNCHANGED vars
  BY <1>1 DEF IInv, TypeOK, LockHeld, TxnAsApplied, ToggleCurrent, KeptForUser, TogglesCount, vars
<1>2. ASSUME NEW c \in Callers, Call(c) PROVE IInv'
  BY <1>2, AddInv, DeleteInv, ToggleReadInv, ToggleWriteInv, DiscoverInv, TxnInv, CommitInv,
     EndInv DEF Call
<1>3. CASE \E p \in Pkgs : Reinstall(p) \/ \E l \in Listing : EditSettings(p, l)
  BY <1>3, EditInv
<1> QED
  BY <1>1, <1>2, <1>3 DEF Next

-----------------------------------------------------------------------------
\* The strengthened invariant holds throughout: the write lock, what the open
\* transaction sees and what toggles hold in memory (package_handlers.go).
THEOREM PackagesInvariance == Spec => []IInv
  BY InitInv, StepInv, PTL DEF Spec

\* Every variable keeps its type.
THEOREM PackagesTypeCorrect == Spec => []TypeOK
  BY PackagesInvariance, PTL DEF IInv

\* What a user added is kept until deleted or listed by Pi, for every number
\* of callers, packages and calls (package_handlers.go:198, 304-330).
THEOREM UserPackagesKept == Spec => []KeptForUser
  BY PackagesInvariance, PTL DEF IInv

\* The answers to toggles add up, unless one was overtaken or refused
\* (package_handlers.go:425-436).
THEOREM TogglesAddUp == Spec => []TogglesCount
  BY PackagesInvariance, PTL DEF IInv

\* An import is applied as a whole to the table as it is at its commit, or
\* not at all (package_handlers.go:286-340).
THEOREM ImportsAreWhole == Spec => ImportIsWhole
<1>1. IInv /\ [Next]_vars =>
        [~Free /\ rows' # rows =>
            \A p \in Pkgs : rows'[p] = Imported(found[writer][p], rows[p])]_vars
  <2> SUFFICES ASSUME IInv, Next, ~Free, rows' # rows
               PROVE  \A p \in Pkgs : rows'[p] = Imported(found[writer][p], rows[p])
    OBVIOUS
  <2>1. ASSUME NEW c \in Callers, Call(c), ~Commit(c) PROVE rows' = rows
    BY <2>1 DEF Call, AddPackage, DeletePackage, ToggleRead, ToggleWrite, ToggleRefused,
                Discover, BeginTx, Upsert, Sweep, Rollback, GiveUp
  <2>2. ASSUME NEW p \in Pkgs, Reinstall(p) \/ \E l \in Listing : EditSettings(p, l)
        PROVE  rows' = rows
    BY <2>2 DEF Reinstall, EditSettings
  <2>3. PICK c \in Callers : Commit(c)
    BY <2>1, <2>2 DEF Next
  <2> QED
    BY <2>3, CommitInv
<1> QED
  BY <1>1, PackagesInvariance, PTL DEF ImportIsWhole, Spec
=============================================================================
