---------------------------- MODULE MCRequestLog ----------------------------
(* Small instances of RequestLog. *)
EXTENDS RequestLog

CONSTANTS r1, r2, h1, h2, proxy, webui

OneRequest   == {r1}
TwoRequests  == {r1, r2}
OneOld       == {h1}
TwoOld       == {h1, h2}
ProxyAlone   == {proxy}
BothServices == {proxy, webui}
=============================================================================
