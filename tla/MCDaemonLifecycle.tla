------------------------- MODULE MCDaemonLifecycle -------------------------
(* Small instances of DaemonLifecycle. *)
EXTENDS DaemonLifecycle, TLC

CONSTANTS o1, o2, s1, d0, d1, d2

TwoChildren   == {d0, d1}
ThreeChildren == {d0, d1, d2}
TwoOperators  == {o1, o2}
OneOperator   == {o1}
OneObserver   == {s1}
NoObserver    == {}

\* Operators are alike, and so are the daemons that are not Old.
Symmetry == Permutations({o1, o2}) \cup Permutations({d1, d2})
=============================================================================
