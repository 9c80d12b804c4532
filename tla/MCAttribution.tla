--------------------------- MODULE MCAttribution ---------------------------
(* A small instance of Attribution: three sessions, one id a client gives.  *)
EXTENDS Attribution, TLC

CONSTANTS s1, s2, s3, own, m, r1

MCSessions == {s1, s2, s3}
MCClients  == {own}
MCModels   == {m}
MCHints    == {7}
MCRequests == {r1}
Alike      == Permutations(MCSessions)
=============================================================================
