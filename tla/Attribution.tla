---------------------------- MODULE Attribution ----------------------------
(***************************************************************************)
(* Which conversation a request belongs to: Pi writes its session files,   *)
(* a server scans them into a cache that is served when old and refreshed  *)
(* in the background, the proxy names a request's conversation when it     *)
(* comes and logs it when it ends, and statistics name it again whenever   *)
(* they are read (scan, conversation, stats, server/proxy_handlers.go).    *)
(***************************************************************************)
EXTENDS Matching, Sequences, FiniteSets

CONSTANTS
    Sessions,   \* Pi's sessions
    Clients,    \* ids clients give their conversations
    Models, Hints,
    Requests,   \* requests there will be
    TTL,        \* age at which a snapshot is refreshed
    NoScan, NoRequest, Over, NoAnswer,
    MaxTime,    \* bound: the clock
    MaxWrites,  \* bound: lines of Pi's session files
    MaxChanges, \* bound: changes of the setting, and restarts
    MaxReads    \* bound: reads of the statistics

ASSUME AttributionAssumption ==
    /\ Window \in Nat /\ Gap \in Nat /\ TTL \in Nat
    /\ Hints \subseteq Nat /\ NoHint \notin Nat
    /\ NoModel \notin Models
    /\ Unlabeled \notin Sessions \cup Clients /\ NoId \notin Sessions \cup Clients
    /\ MaxTime \in Nat /\ MaxWrites \in Nat /\ MaxChanges \in Nat /\ MaxReads \in Nat

VARIABLES
    now,        \* the clock
    session,    \* session[s]: what s's file says
    source,     \* the setting conversationSource
    cache,      \* the server's snapshot of the session files
    scan,       \* the background scan: what each file said since its start
    flight,     \* flight[r]: what the proxy holds of r
    rows,       \* the table requests
    answer,     \* the statistics a client is given
    happened,   \* history: what a session's file has ever said
    writes, changes, reads

vars == <<now, session, source, cache, scan, flight, rows, answer, happened,
          writes, changes, reads>>

Conversations == Sessions \cup Clients
File == [last : 0 .. MaxTime, model : Models \cup {NoModel}, hint : Hints \cup {NoHint}]
Old  == [last : {0}, model : Models, hint : Hints \cup {NoHint}]
Seen == [Sessions -> File \cup {NoSession}]

Init ==
    /\ now = 0
    /\ session \in [Sessions -> Old \cup {NoSession}]
    /\ source \in Sources
    /\ cache = NoScan /\ scan = NoScan
    /\ flight = [r \in Requests |-> NoRequest]
    /\ rows = <<>>
    /\ answer = NoAnswer
    /\ happened = {<<s, session[s]>> : s \in {t \in Sessions : session[t] # NoSession}}
    /\ writes = 0 /\ changes = 0 /\ reads = 0

-----------------------------------------------------------------------------
\* ScanCached: the first caller scans; later ones get the snapshot there is,
\* and one of them starts a scan when it is old.
Snapshot == IF cache = NoScan THEN session ELSE cache.seen

ScanCached ==
    IF cache = NoScan
    THEN cache' = [at |-> now, seen |-> session] /\ UNCHANGED scan
    ELSE /\ UNCHANGED cache
         /\ scan' = IF now >= cache.at + TTL /\ scan = NoScan
                    THEN [s \in Sessions |-> {session[s]}] ELSE scan

\* The background scan has come to every file at some time since its start.
ScanEnds ==
    /\ scan # NoScan
    /\ \E seen \in [Sessions -> UNION {scan[s] : s \in Sessions}] :
          /\ \A s \in Sessions : seen[s] \in scan[s]
          /\ cache' = [at |-> now, seen |-> seen]
    /\ scan' = NoScan
    /\ UNCHANGED <<now, session, source, flight, rows, answer, happened, writes, changes, reads>>

-----------------------------------------------------------------------------
\* conversationIDFrom: sessions are looked at only for want of an id.  A guess
\* becomes the id of the request; its basis is kept for the property.
Arrive(r) ==
    /\ flight[r] = NoRequest
    /\ \E explicit \in Clients \cup {NoId}, model \in Models, tokens \in Hints \cup {NoHint} :
          LET id == Match(source, [explicit |-> explicit, model |-> model, at |-> now, tokens |-> tokens],
                          Snapshot)
          IN  /\ IF explicit = NoId /\ source = "sessionScan" THEN ScanCached ELSE UNCHANGED <<cache, scan>>
              /\ flight' = [flight EXCEPT ![r] =
                    [explicit |-> explicit, under |-> source, model |-> model, id |-> id,
                     basis |-> IF explicit = NoId /\ id # Unlabeled
                               THEN [at |-> now, tokens |-> tokens, seen |-> Snapshot] ELSE NoScan]]
    /\ UNCHANGED <<now, session, source, rows, answer, happened, writes, changes, reads>>

\* logRequest, at the end of the request and with its time and tokens.
Log(r) ==
    /\ flight[r] \notin {NoRequest, Over}
    /\ \E tokens \in Hints \cup {NoHint} :
          rows' = Append(rows, [explicit |-> flight[r].explicit, under |-> flight[r].under,
                                id |-> flight[r].id, basis |-> flight[r].basis, model |-> flight[r].model,
                                at |-> now, tokens |-> tokens])
    /\ flight' = [flight EXCEPT ![r] = Over]
    /\ UNCHANGED <<now, session, source, cache, scan, answer, happened, writes, changes, reads>>

-----------------------------------------------------------------------------
\* Service.match: the id in the row is the explicit one, if it is any.
Attributed(row, how, seen) ==
    Match(how, [explicit |-> IF row.id = Unlabeled THEN NoId ELSE row.id,
                model |-> row.model, at |-> row.at, tokens |-> row.tokens], seen)

\* newStatsService and the pass over all rows that counts and groups them.
StatsTotals ==
    /\ reads < MaxReads /\ reads' = reads + 1
    /\ IF source = "sessionScan" THEN ScanCached ELSE UNCHANGED <<cache, scan>>
    /\ answer' = [source |-> source, seen |-> Snapshot,
                  of |-> [n \in DOMAIN rows |-> Attributed(rows[n], source, Snapshot)]]
    /\ UNCHANGED <<now, session, source, flight, rows, happened, writes, changes>>

\* The page is named by the sessions of the moment (a mutant).
OnPage_Rescanned(n) == Attributed(rows[n], answer.source, session)

\* What a page that is read now says of a row, a later one included.  With
\* attribution off, it shows the id of the row as it is.
OnPage(n) ==
    IF answer.source = "off" THEN rows[n].id ELSE Attributed(rows[n], answer.source, answer.seen)

\* pageFacts, a second query, and the answer is given.
StatsPage ==
    /\ answer # NoAnswer
    /\ answer' = NoAnswer
    /\ UNCHANGED <<now, session, source, cache, scan, flight, rows, happened, writes, changes, reads>>

-----------------------------------------------------------------------------
\* What s's file says once Pi has added a line.  A scan may or may not see it.
SessionSays(s, file) ==
    /\ writes < MaxWrites /\ writes' = writes + 1
    /\ session' = [session EXCEPT ![s] = file]
    /\ happened' = happened \cup {<<s, file>>}
    /\ scan' = IF scan = NoScan THEN NoScan ELSE [scan EXCEPT ![s] = @ \cup {file}]
    /\ UNCHANGED <<now, source, cache, flight, rows, answer, changes, reads>>

\* A session begins with a header, or a message of the user is added.
Prompted(s) ==
    SessionSays(s, IF session[s] = NoSession THEN [last |-> now, model |-> NoModel, hint |-> NoHint]
                   ELSE [session[s] EXCEPT !.last = now])

\* An answer, with its model and perhaps with its usage.
Answered(s) ==
    /\ session[s] # NoSession
    /\ \E model \in Models, hint \in Hints \cup {session[s].hint} :
          SessionSays(s, [last |-> now, model |-> model, hint |-> hint])

\* A change of model, which says nothing of the time.
SwitchesModel(s) ==
    /\ session[s] # NoSession
    /\ \E model \in Models : SessionSays(s, [session[s] EXCEPT !.model = model])

Tick ==
    /\ now < MaxTime /\ now' = now + 1
    /\ UNCHANGED <<session, source, cache, scan, flight, rows, answer, happened, writes, changes, reads>>

\* The setting is changed.
ChangeSource ==
    /\ changes < MaxChanges /\ changes' = changes + 1
    /\ source' \in Sources \ {source}
    /\ UNCHANGED <<now, session, cache, scan, flight, rows, answer, happened, writes, reads>>

\* The server is killed and started again: what it was relaying is not logged.
Restart ==
    /\ changes < MaxChanges /\ changes' = changes + 1
    /\ cache' = NoScan /\ scan' = NoScan /\ answer' = NoAnswer
    /\ flight' = [r \in Requests |-> IF flight[r] = NoRequest THEN NoRequest ELSE Over]
    /\ UNCHANGED <<now, session, source, rows, happened, writes, reads>>

Next ==
    \/ \E r \in Requests : Arrive(r) \/ Log(r)
    \/ \E s \in Sessions : Prompted(s) \/ Answered(s) \/ SwitchesModel(s)
    \/ ScanEnds \/ StatsTotals \/ StatsPage
    \/ Tick \/ ChangeSource \/ Restart

Spec == Init /\ [][Next]_vars

-----------------------------------------------------------------------------
Guess   == [at : 0 .. MaxTime, tokens : Hints \cup {NoHint}, seen : Seen]
Request == [explicit : Clients \cup {NoId}, under : Sources, model : Models,
            id : Conversations \cup {Unlabeled}, basis : Guess \cup {NoScan}]
RowType == [explicit : Clients \cup {NoId}, under : Sources, model : Models,
            id : Conversations \cup {Unlabeled}, basis : Guess \cup {NoScan},
            at : 0 .. MaxTime, tokens : Hints \cup {NoHint}]

TypeOK ==
    /\ now \in 0 .. MaxTime /\ session \in Seen /\ source \in Sources
    /\ cache \in [at : 0 .. MaxTime, seen : Seen] \cup {NoScan}
    /\ scan \in [Sessions -> SUBSET (File \cup {NoSession})] \cup {NoScan}
    /\ flight \in [Requests -> Request \cup {NoRequest, Over}]
    /\ rows \in Seq(RowType)
    /\ happened \subseteq Sessions \X File

\* What the statistics say of a row, in the totals and on a page read now.
Said(n) == {OnPage(n)} \cup IF n \in DOMAIN answer.of THEN {answer.of[n]} ELSE {}

(* The id a client gave a request is the one every later answer gives it,   *)
(* in the totals and on the page, whatever Pi's sessions do, whatever the   *)
(* setting has been since and however often the server was started again    *)
(* (system-contract 2.5.4: an explicit id always wins); unless attribution  *)
(* was off when the request came, or is off now.                            *)
ExplicitWins ==
    answer # NoAnswer /\ answer.source # "off" =>
        \A n \in DOMAIN rows :
            rows[n].explicit # NoId /\ rows[n].under # "off" => Said(n) \subseteq {rows[n].explicit}

\* What a row that has no id of a client was attributed by: when it came, or
\* when the statistics were read.
Basis(n) == IF rows[n].id = Unlabeled
            THEN [at |-> rows[n].at, tokens |-> rows[n].tokens, seen |-> answer.seen]
            ELSE rows[n].basis
Input(n) == [at |-> Basis(n).at, model |-> rows[n].model, tokens |-> Basis(n).tokens]

Guessed(n)   == IF rows[n].id = Unlabeled \/ rows[n].explicit = NoId THEN Said(n) \ {Unlabeled} ELSE {}
Rivals(n, s) == Eligible(Input(n), Basis(n).seen) \ {s}

(* Whoever a request is attributed to without an id, when it comes or when  *)
(* the statistics are read, was a session whose file had said, at some      *)
(* time, that it was active with the request's model within the window,     *)
(* however old the snapshot and whatever was scanned in the meantime        *)
(* (matcher.go:108); it was closer than every other session the server knew *)
(* of, by the time or, at equal times, by the prompt; and it was closer by  *)
(* more than the gap than those that no prompt tells it from                *)
(* (matcher.go:161, system-contract 2.5.4), unless a session with a prompt  *)
(* to go by stands between the two: that one is the second, and the code    *)
(* looks no further, against what the comment and the contract say.         *)
NoGuess ==
    answer # NoAnswer => \A n \in DOMAIN rows : \A s \in Guessed(n) :
        LET i == Input(n)
            seen == Basis(n).seen
        IN  /\ \E file \in File : <<s, file>> \in happened
                  /\ file.model = i.model /\ Diff(i.at, file.last) <= Window
            /\ \A t \in Rivals(n, s) : Closer(i, seen[s], seen[t])
            /\ \A t \in Rivals(n, s) :
                  \/ Away(i, seen[t]) > Away(i, seen[s]) + Gap
                  \/ Known(i, seen[s]) \/ Known(i, seen[t])
                  \/ \E u \in Rivals(n, s) : Known(i, seen[u]) /\ ~Closer(i, seen[t], seen[u])

(* Whenever the page is read, it agrees with the totals and conversations   *)
(* of the same answer on every row they have in common: a scan that ends, a *)
(* session that moves on or a setting that is changed in between does not   *)
(* change the attribution (stats/service.go:303-323).  With attribution off *)
(* there are no conversations to agree with.                               *)
PageAgrees ==
    answer # NoAnswer /\ answer.source # "off" => \A n \in DOMAIN answer.of : OnPage(n) = answer.of[n]
=============================================================================
