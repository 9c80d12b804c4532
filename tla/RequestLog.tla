----------------------------- MODULE RequestLog -----------------------------
(***************************************************************************)
(* The two stores of request facts.  logRequest writes each answered       *)
(* request twice: a row of the SQLite table, then a line of requests.log.  *)
(* At start-up the proxy and the web UI import the lines that have no row  *)
(* (written by an older version, or while the database refused), each in a *)
(* process of its own, batch by batch, while requests go on.  A migration  *)
(* stream, kept in the database per file identity, says how far it came.   *)
(*                                                                         *)
(* Offsets count lines.  Request facts carry a nanosecond time stamp, so   *)
(* that the facts of two requests differ.                                  *)
(***************************************************************************)
EXTENDS Naturals, Sequences, FiniteSets

CONSTANTS
    Requests,       \* requests the proxy answers
    History,        \* requests of an older version, found in the log
    Importers,      \* processes that import at start-up
    Proxy,          \* the importer in whose process requests are answered
    BatchSize,      \* legacyBatchSize
    MaxImports,     \* bound: start-ups
    MaxCrashes,     \* bound: killed processes
    MaxFiles,       \* bound: log files, one after the other
    None,           \* nobody writes a line; no hash in an identity
    Live            \* the generation of rows that logRequest inserted

Facts == Requests \cup History

ASSUME LogAssumption ==
    /\ Requests \cap History = {}
    /\ IsFiniteSet(Requests) /\ IsFiniteSet(History)
    /\ Proxy \in Importers
    /\ None \notin Facts
    /\ BatchSize \in Nat \ {0}
    /\ MaxImports \in Nat /\ MaxCrashes \in Nat /\ MaxFiles \in Nat \ {0}

VARIABLES
    log,        \* the complete lines of requests.log
    tail,       \* writes begun since the last complete line: its beginning, or
                \* the rests of writes that failed
    writer,     \* the request whose line is being written
    file,       \* which file has the name: its inode
    rows,       \* the table requests
    streams,    \* the table legacy_migrations, by generation
    answered,   \* answered[r]: how far logRequest came with r
    pc,         \* pc[i]: where an import is
    seen,       \* seen[i]: what it holds of the file and its stream
    raced,      \* the log grew while an import was between its stat and its
                \* look at the stream
    mismarked,  \* a failed import gave a stream the size of a log whose hash
                \* the stream does not have
    imports,    \* start-ups so far
    crashes     \* processes killed

source == <<log, tail, writer, file>>
db     == <<rows, streams>>
causes == <<raced, mismarked>>
bounds == <<imports, crashes>>
vars   == <<source, db, answered, pc, seen, causes, bounds>>

Line    == [req : Facts, good : BOOLEAN]
Content == <<log, tail>>

\* The file only grows: a line is longer than what may precede its end.
SizeUpTo(offset) == (Cardinality(Requests) + 2) * offset
Size == SizeUpTo(Len(log)) + tail

\* An import that has read nothing yet.
Nothing == [size |-> 0, hash |-> None, gen |-> <<0, None>>,
            start |-> 0, offset |-> 0, read |-> 0, last |-> "no"]

Ended == {"idle", "done", "failed"}
Busy  == {"hash", "ensure", "read", "commit"}

\* The lines of an older version, and perhaps one that it did not finish.
Init ==
    /\ \E h \in [1..Cardinality(History) -> History] :
          /\ \A j, k \in DOMAIN h : h[j] = h[k] => j = k
          /\ log = [k \in DOMAIN h |-> [req |-> h[k], good |-> TRUE]]
    /\ tail \in {0, 1}
    /\ writer = None
    /\ file = 1
    /\ rows = {}
    /\ streams = [g \in {} |-> Nothing]
    /\ answered = [r \in Requests |-> "no"]
    /\ pc = [i \in Importers |-> "idle"]
    /\ seen = [i \in Importers |-> Nothing]
    /\ raced = FALSE /\ mismarked = FALSE
    /\ imports = 0
    /\ crashes = 0

-----------------------------------------------------------------------------
(* logRequest                                                              *)

Answered(r, step) == answered' = [answered EXCEPT ![r] = step]

\* The row first; a database that refuses is logged and the line still goes
\* to the file.
InsertRow(r) ==
    /\ answered[r] = "no"
    /\ Answered(r, "inserted")
    /\ rows' \in {rows, rows \cup {[req |-> r, gen |-> Live, offset |-> 0]}}
    /\ UNCHANGED <<source, streams, pc, seen, causes, bounds>>

\* Someone looks at a file that is about to change.
Races ==
    /\ raced' = (raced \/ \E i \in Importers : pc[i] \in {"hash", "ensure"})
    /\ UNCHANGED mismarked

\* appendLegacyLog: one write in append mode, which others see in part.
AppendBegins(r) ==
    /\ answered[r] = "inserted" /\ writer = None
    /\ writer' = r
    /\ tail' = tail + 1
    /\ Answered(r, "writing") /\ Races
    /\ UNCHANGED <<log, file, db, pc, seen, bounds>>

\* The line is complete; after the rest of a failed write it does not parse.
AppendEnds(r) ==
    /\ writer = r
    /\ writer' = None
    /\ log' = Append(log, [req |-> r, good |-> tail = 1])
    /\ tail' = 0
    /\ Answered(r, "logged") /\ Races
    /\ UNCHANGED <<file, db, pc, seen, bounds>>

\* The file cannot be opened, or the write comes short.
AppendFails(r) ==
    /\ \/ answered[r] = "inserted" /\ UNCHANGED writer
       \/ writer = r /\ writer' = None
    /\ Answered(r, "unlogged")
    /\ UNCHANGED <<log, tail, file, db, pc, seen, causes, bounds>>

-----------------------------------------------------------------------------
(* importLegacyPath                                                        *)

Goto(i, step) == pc' = [pc EXCEPT ![i] = step]

\* os.Stat: without a file there is nothing to import.
Stat(i) ==
    /\ pc[i] \in Ended /\ imports < MaxImports
    /\ imports' = imports + 1
    /\ seen' = [seen EXCEPT ![i] = [Nothing EXCEPT !.size = Size, !.gen = <<file, None>>]]
    /\ Goto(i, IF Size = 0 THEN "done" ELSE "hash")
    /\ UNCHANGED <<source, db, answered, causes, crashes>>

\* The hash of the whole file, as it is by now.
Hash(i) ==
    /\ pc[i] = "hash"
    /\ seen' = [seen EXCEPT ![i].hash = Content]
    /\ Goto(i, "ensure")
    /\ UNCHANGED <<source, db, answered, causes, bounds>>

\* The stream of generation g, created if there is none.
Ensured(g, size, hash) ==
    IF g \in DOMAIN streams THEN streams
    ELSE [x \in DOMAIN streams \cup {g} |->
            IF x = g THEN [offset |-> 0, size |-> size, hash |-> hash, completed |-> FALSE]
            ELSE streams[x]]

\* The source is shorter than the stream, or another of the same size.
Replaced(i, stream) ==
    \/ SizeUpTo(stream.offset) > seen[i].size
    \/ stream.hash # seen[i].hash /\ stream.size = seen[i].size

\* A stream that was completed once is never looked at again (a mutant).
Ensure_TrustsCompleted(i) ==
    /\ pc[i] = "ensure"
    /\ LET after  == Ensured(seen[i].gen, seen[i].size, seen[i].hash)
           stream == after[seen[i].gen]
       IN  /\ streams' = after
           /\ seen' = [seen EXCEPT ![i].start = stream.offset, ![i].offset = stream.offset]
           /\ Goto(i, IF stream.completed THEN "done" ELSE "read")
    /\ UNCHANGED <<source, rows, answered, causes, bounds>>

\* The stream is found or created; a replaced source gets a generation of its
\* own, and an import that has nothing left to do ends.
Ensure(i) ==
    /\ pc[i] = "ensure"
    /\ LET g      == seen[i].gen
           after  == Ensured(g, seen[i].size, seen[i].hash)
           stream == after[g]
       IN  /\ streams' = after
           /\ IF g[2] = None /\ Replaced(i, stream)
              THEN /\ seen' = [seen EXCEPT ![i].gen = <<g[1], seen[i].hash>>]
                   /\ UNCHANGED pc
              ELSE /\ seen' = [seen EXCEPT ![i].start = stream.offset, ![i].offset = stream.offset]
                   /\ Goto(i, IF stream.completed /\ SizeUpTo(stream.offset) >= seen[i].size
                              THEN "done" ELSE "read")
    /\ UNCHANGED <<source, rows, answered, causes, bounds>>

\* A tail without a newline counts as a line (a mutant).
Read_CountsTail(i) ==
    /\ pc[i] = "read"
    /\ LET left == Len(log) - seen[i].offset + (IF tail = 0 THEN 0 ELSE 1)
       IN  seen' = [seen EXCEPT
                ![i].read = IF left < BatchSize THEN left ELSE BatchSize,
                ![i].last = IF left < BatchSize THEN "end" ELSE "no"]
    /\ Goto(i, "commit")
    /\ UNCHANGED <<source, db, answered, causes, bounds>>

\* Complete lines are read up to a batch or to the end of the file as it is
\* by now; a tail without a newline is left where it is.
Read(i) ==
    /\ pc[i] = "read"
    /\ LET left == IF Len(log) < seen[i].offset THEN 0 ELSE Len(log) - seen[i].offset
       IN  seen' = [seen EXCEPT
                ![i].read = IF left < BatchSize THEN left ELSE BatchSize,
                ![i].last = IF left >= BatchSize THEN "no"
                            ELSE IF tail = 0 THEN "end" ELSE "tail"]
    /\ Goto(i, "commit")
    /\ UNCHANGED <<source, db, answered, causes, bounds>>

\* Every line that parses gets a row (a mutant).
RowsOf_All(i) ==
    {[req |-> log[k].req, gen |-> seen[i].gen, offset |-> k] :
        k \in {k \in (seen[i].offset + 1)..(seen[i].offset + seen[i].read) :
                  k <= Len(log) /\ log[k].good}}

\* The rows of a batch: the lines that parse and whose facts have no row of
\* logRequest.
RowsOf(i) ==
    {[req |-> log[k].req, gen |-> seen[i].gen, offset |-> k] :
        k \in {k \in (seen[i].offset + 1)..(seen[i].offset + seen[i].read) :
                  /\ k <= Len(log) /\ log[k].good
                  /\ [req |-> log[k].req, gen |-> Live, offset |-> 0] \notin rows}}

\* CommitLegacyBatch: the stream is where this import left it, and the index
\* on source and offset admits the rows.
Commits(i) ==
    /\ streams[seen[i].gen].offset = seen[i].offset
    /\ \A new \in RowsOf(i), old \in rows : new.gen # old.gen \/ new.offset # old.offset

\* Rows and offset are committed together.
Commit(i) ==
    /\ pc[i] = "commit" /\ Commits(i)
    /\ LET s    == seen[i]
           next == s.offset + s.read
       IN  /\ rows' = rows \cup RowsOf(i)
           /\ streams' = [streams EXCEPT ![s.gen] =
                 [offset |-> next, size |-> s.size, hash |-> s.hash, completed |-> s.last = "end"]]
           /\ seen' = [seen EXCEPT ![i].offset = next, ![i].read = 0]
           /\ Goto(i, IF s.last = "no" THEN "read"
                      ELSE IF s.last = "tail" /\ s.read > 0 /\ SizeUpTo(next) < s.size
                      THEN "commit" ELSE "done")
    /\ UNCHANGED <<source, answered, causes, bounds>>

\* MarkLegacyMigrationFailed, if the stream is still where the import found it:
\* the size is that of this import, the hash stays.
Marked(i) ==
    [g \in DOMAIN streams |->
        IF g = seen[i].gen /\ streams[g].offset = seen[i].start
        THEN [streams[g] EXCEPT !.completed = FALSE, !.size = seen[i].size] ELSE streams[g]]

\* An import ends with an error, and marks its stream or cannot.
Fails(i, mayMark) ==
    /\ Goto(i, "failed")
    /\ seen' = [seen EXCEPT ![i] = Nothing]
    /\ streams' \in {streams} \cup (IF mayMark THEN {Marked(i)} ELSE {})
    /\ mismarked' = (mismarked \/ \E g \in DOMAIN streams : streams'[g].size # streams[g].size)
    /\ UNCHANGED <<source, rows, answered, raced, bounds>>

\* ErrLegacyMigrationConflict: another import moved the stream.
Conflict(i) == pc[i] = "commit" /\ ~Commits(i) /\ Fails(i, TRUE)

\* The file cannot be read, or the database refuses.
ImportFails(i) == pc[i] \in Busy /\ Fails(i, pc[i] \in {"read", "commit"})

-----------------------------------------------------------------------------

\* Between two imports the log is moved away; a new file has a new identity.
Rotate ==
    /\ file < MaxFiles /\ writer = None
    /\ \A i \in Importers : pc[i] \in Ended
    /\ file' = file + 1
    /\ log' = << >> /\ tail' = 0
    /\ UNCHANGED <<writer, db, answered, pc, seen, causes, bounds>>

\* A process is killed: its import ends, and so do the requests in the proxy.
Crash(i) ==
    /\ crashes < MaxCrashes
    /\ crashes' = crashes + 1
    /\ Goto(i, "idle")
    /\ seen' = [seen EXCEPT ![i] = Nothing]
    /\ IF i = Proxy
       THEN /\ answered' = [r \in Requests |->
                  IF answered[r] \in {"inserted", "writing"} THEN "unlogged" ELSE answered[r]]
            /\ writer' = None
       ELSE UNCHANGED <<answered, writer>>
    /\ UNCHANGED <<log, tail, file, db, causes, imports>>

Import(i) == Hash(i) \/ Ensure(i) \/ Read(i) \/ Commit(i) \/ Conflict(i)

Next ==
    \/ \E r \in Requests : InsertRow(r) \/ AppendBegins(r) \/ AppendEnds(r) \/ AppendFails(r)
    \/ \E i \in Importers : Stat(i) \/ Import(i) \/ ImportFails(i) \/ Crash(i)
    \/ Rotate

Spec == Init /\ [][Next]_vars
-----------------------------------------------------------------------------

Hashes   == {None} \cup (Seq(Line) \X Nat)
Gen      == (1..MaxFiles) \X Hashes
Row      == [req : Facts, gen : {Live} \cup Gen, offset : Nat]
Progress == [offset : Nat, size : Nat, hash : Hashes, completed : BOOLEAN]
Seen     == [size : Nat, hash : Hashes, gen : (0..MaxFiles) \X Hashes, start : Nat, offset : Nat,
             read : 0..BatchSize, last : {"no", "end", "tail"}]

TypeOK ==
    /\ log \in Seq(Line) /\ tail \in 0..(Cardinality(Requests) + 1) /\ writer \in Requests \cup {None}
    /\ file \in 1..MaxFiles
    /\ rows \subseteq Row /\ \A row \in rows : row.gen = Live \/ row.gen \in DOMAIN streams
    /\ DOMAIN streams \subseteq Gen /\ streams \in [DOMAIN streams -> Progress]
    /\ answered \in [Requests -> {"no", "inserted", "writing", "logged", "unlogged"}]
    /\ pc \in [Importers -> Ended \cup Busy]
    /\ seen \in [Importers -> Seen]
    /\ raced \in BOOLEAN /\ mismarked \in BOOLEAN
    /\ imports \in 0..MaxImports
    /\ crashes \in 0..MaxCrashes

HasRow(f) == \E row \in rows : row.req = f

(* No request is counted twice, however imports, restarts and live requests *)
(* interleave: the import is idempotent (legacy_log.go:24-27, 118-119).     *)
NoDuplicate == \A row1, row2 \in rows : row1.req = row2.req => row1 = row2

(* ... as long as no line is written between the stat of an import and its  *)
(* look at the stream.                                                      *)
NoDuplicateUnlessRaced == ~raced => NoDuplicate

(* ... and no failed import left a stream with the size of one state of the *)
(* log and the hash of another.  Nothing else doubles a request: imports of *)
(* two processes, failed rows and lines, kills, a new file.                 *)
NoOtherDuplicate == ~raced /\ ~mismarked => NoDuplicate

(* What a stream has left behind it is in the database: rows and offset are *)
(* committed together, an incomplete last line is not passed over, and no   *)
(* kill in between loses a request (legacy_log.go:152-154).                 *)
NothingSkipped ==
    \A g \in DOMAIN streams : g[1] = file =>
        \A k \in 1..Len(log) : k <= streams[g].offset /\ log[k].good => HasRow(log[k].req)

(* An import that ends without an error leaves no line behind that was in   *)
(* the file when it began.                                                  *)
DoneCovers ==
    \A i \in Importers : pc[i] = "done" /\ seen[i].gen[1] = file =>
        \A k \in 1..Len(log) : SizeUpTo(k) <= seen[i].size /\ log[k].good => HasRow(log[k].req)
=============================================================================
