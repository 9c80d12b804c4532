-------------------------- MODULE RequestLogProofs --------------------------
(* Theorems about RequestLog for any requests, importers and bounds.        *)
EXTENDS RequestLog, FiniteSetTheorems, TLAPS

Begun == {r \in Requests : answered[r] \in {"writing", "logged", "unlogged"}}

\* One line is written at a time, and each request begins one at most.
Writing ==
    /\ \A r \in Requests : writer = r <=> answered[r] = "writing"
    /\ tail <= Cardinality(Begun) + 1

\* The log has each request once, if its line was completed.
LogTrue ==
    /\ \A j, k \in 1..Len(log) : log[j].req = log[k].req => j = k
    /\ \A k \in 1..Len(log) : log[k].req \in Requests => answered[log[k].req] = "logged"

\* A row is of a request that was answered, or of a line of this or an earlier file.
RowsTrue ==
    \A row \in rows :
        IF row.offset = 0
        THEN /\ row.req \in Requests /\ answered[row.req] # "no"
             /\ row = [req |-> row.req, gen |-> Live, offset |-> 0]
        ELSE /\ row.gen \in DOMAIN streams
             /\ row.req \in Requests => answered[row.req] = "logged"
             /\ row.gen[1] = file => row.offset <= Len(log) /\ log[row.offset].req = row.req
             /\ row.gen[1] # file => \A k \in 1..Len(log) : log[k].req # row.req

\* Streams of the current file lie within it.
StreamsWithin ==
    \A g \in DOMAIN streams : g[1] <= file /\ (g[1] = file => streams[g].offset <= Len(log))

\* What a running import holds is of the current file and lies within it; what
\* it saw at first is still there.
Within(i) ==
    /\ pc[i] \in Busy => seen[i].gen[1] = file
    /\ pc[i] = "done" => seen[i].gen[1] <= file
    /\ pc[i] \in Busy \cup {"done"} /\ seen[i].gen[1] = file => seen[i].size <= Size
    /\ pc[i] \in {"read", "commit"} => seen[i].gen \in DOMAIN streams /\ seen[i].offset <= Len(log)
    /\ pc[i] = "commit" => seen[i].offset + seen[i].read <= Len(log)

\* An import that met the end of the file has come past what it saw at first.
Covers(i) ==
    pc[i] = "commit" /\ seen[i].last # "no" =>
        \A k \in Nat : SizeUpTo(k) <= seen[i].size => k <= seen[i].offset + seen[i].read

ImportsWithin == \A i \in Importers : Within(i) /\ Covers(i)

\* A size and a hash may be of one state of the log.
OneState(size, hash) == size <= Size /\ (size = Size => hash = Content)

\* Without the two causes, sizes and hashes are of one state each, and nothing
\* is taken for a replaced source.
NeverReplaced ==
    ~raced /\ ~mismarked =>
        /\ \A g \in DOMAIN streams :
              g[2] = None /\ (g[1] = file => OneState(streams[g].size, streams[g].hash))
        /\ \A i \in Importers :
              /\ pc[i] \in Busy => seen[i].gen[2] = None
              /\ pc[i] \in {"hash", "ensure"} => seen[i].size = Size
              /\ pc[i] = "ensure" => seen[i].hash = Content
              /\ pc[i] \in {"read", "commit"} => OneState(seen[i].size, seen[i].hash)

IInv ==
    /\ TypeOK /\ Writing /\ LogTrue /\ RowsTrue
    /\ StreamsWithin /\ ImportsWithin /\ NothingSkipped /\ DoneCovers
    /\ NeverReplaced /\ NoOtherDuplicate
-----------------------------------------------------------------------------

USE DEF source, db, causes, bounds, Ended, Busy

\* A log is a finite sequence of lines.
LEMMA Lines ==
    ASSUME NEW s \in Seq(Line)
    PROVE  /\ Len(s) \in Nat
           /\ \A k \in 1..Len(s) : s[k].req \in Facts /\ s[k].good \in BOOLEAN
           /\ \A x \in Line : /\ Append(s, x) \in Seq(Line) /\ Len(Append(s, x)) = Len(s) + 1
                              /\ Append(s, x)[Len(s) + 1] = x
                              /\ \A k \in 1..Len(s) : Append(s, x)[k] = s[k]
<1>1. \A k \in 1..Len(s) : s[k] \in Line
  OBVIOUS
<1>2. ASSUME NEW x \in Line
      PROVE  /\ Append(s, x) \in Seq(Line) /\ Len(Append(s, x)) = Len(s) + 1
             /\ Append(s, x)[Len(s) + 1] = x
             /\ \A k \in 1..Len(s) : Append(s, x)[k] = s[k]
  OBVIOUS
<1> QED
  BY <1>1, <1>2 DEF Line

LEMMA Width == Cardinality(Requests) \in Nat /\ Cardinality(History) \in Nat
  BY FS_CardinalityType, LogAssumption

\* Sizes grow with lines, by more than an incomplete line can have.
LEMMA SizesGrow ==
    ASSUME NEW m \in Nat, NEW n \in Nat
    PROVE  /\ SizeUpTo(m) \in Nat /\ SizeUpTo(0) = 0
           /\ m < n => SizeUpTo(m) + Cardinality(Requests) + 2 <= SizeUpTo(n)
           /\ m <= n => SizeUpTo(m) <= SizeUpTo(n)
<1> DEFINE C == Cardinality(Requests) + 2
<1>1. C \in Nat
  BY Width
<1> HIDE DEF C
<1>2. C * m \in Nat /\ C * n \in Nat /\ C * 0 = 0
  BY <1>1
<1>3. m < n => C * m + C <= C * n
  <2> SUFFICES ASSUME m < n PROVE C * m + C <= C * n
    OBVIOUS
  <2> DEFINE d == n - m - 1
  <2>1. d \in Nat /\ n = m + 1 + d
    OBVIOUS
  <2>2. C * n = C * m + C + C * d /\ C * d \in Nat
    BY <1>1, <2>1
  <2> QED
    BY <1>1, <1>2, <2>2
<1> QED
  BY <1>1, <1>2, <1>3, Width DEF C, SizeUpTo

\* Nothing that is as small as the log lies beyond its last line.
LEMMA WithinLog ==
    ASSUME TypeOK, NEW k \in Nat, SizeUpTo(k) <= Size
    PROVE  k <= Len(log)
<1>1. Len(log) \in Nat /\ tail \in Nat /\ tail < Cardinality(Requests) + 2
  BY Lines, Width DEF TypeOK
<1>2. SizeUpTo(Len(log)) \in Nat /\ SizeUpTo(k) \in Nat
  BY <1>1, SizesGrow
<1>3. Len(log) < k => SizeUpTo(Len(log)) + Cardinality(Requests) + 2 <= SizeUpTo(k)
  BY <1>1, SizesGrow
<1>4. SizeUpTo(k) <= SizeUpTo(Len(log)) + tail
  BY DEF Size
<1> QED
  BY <1>1, <1>2, <1>3, <1>4, Width

LEMMA Types ==
    /\ Nothing \in Seen
    /\ \A f \in 1..MaxFiles, h \in Hashes : <<f, h>> \in Gen
    /\ \A g \in Gen : g[1] \in 1..MaxFiles /\ g[2] \in Hashes /\ g = <<g[1], g[2]>>
    /\ \A x \in Progress : /\ x.offset \in Nat /\ x.size \in Nat /\ x.hash \in Hashes
                           /\ x.completed \in BOOLEAN
  BY LogAssumption DEF Nothing, Seen, Gen, Hashes, Progress

\* What a process may hold of the file.
LEMMA SeenTypes ==
    ASSUME NEW x \in Seen
    PROVE  /\ x.size \in Nat /\ x.hash \in Hashes /\ x.start \in Nat /\ x.offset \in Nat
           /\ x.read \in 0..BatchSize /\ x.last \in {"no", "end", "tail"}
           /\ x.gen \in (0..MaxFiles) \X Hashes
  BY DEF Seen

\* The streams after one was looked for.
LEMMA EnsuredStreams ==
    ASSUME TypeOK, NEW g \in Gen, NEW size \in Nat, NEW h \in Hashes
    PROVE  /\ DOMAIN Ensured(g, size, h) = DOMAIN streams \cup {g}
           /\ Ensured(g, size, h) \in [DOMAIN streams \cup {g} -> Progress]
           /\ \A x \in DOMAIN streams : Ensured(g, size, h)[x] = streams[x]
           /\ g \notin DOMAIN streams =>
                 Ensured(g, size, h)[g] = [offset |-> 0, size |-> size, hash |-> h, completed |-> FALSE]
  BY DEF TypeOK, Ensured, Progress

\* The streams after an import failed.
LEMMA FailedStreams ==
    ASSUME TypeOK, NEW i \in Importers, NEW m \in BOOLEAN, Fails(i, m)
    PROVE  /\ DOMAIN streams' = DOMAIN streams /\ streams' \in [DOMAIN streams -> Progress]
           /\ \A g \in DOMAIN streams : /\ streams'[g].offset = streams[g].offset
                                        /\ streams'[g].hash = streams[g].hash
                                        /\ mismarked' \/ streams'[g].size = streams[g].size
           /\ mismarked => mismarked'
<1>1. streams' = streams \/ streams' = Marked(i)
  BY DEF Fails
<1>2. CASE streams' = streams
  BY <1>2 DEF TypeOK, Fails
<1>3. CASE streams' = Marked(i)
  <2>1. seen[i].size \in Nat
    BY SeenTypes DEF TypeOK
  <2>2. DOMAIN streams' = DOMAIN streams
    BY <1>3 DEF Marked
  <2>3. ASSUME NEW g \in DOMAIN streams
        PROVE  /\ streams'[g] \in Progress /\ streams'[g].offset = streams[g].offset
               /\ streams'[g].hash = streams[g].hash
    <3>1. streams[g] \in Progress
      BY DEF TypeOK
    <3> QED
      BY <1>3, <2>1, <3>1 DEF Marked, Progress
  <2>4. streams' \in [DOMAIN streams -> Progress]
    BY <1>3, <2>3 DEF Marked
  <2> QED
    BY <2>2, <2>3, <2>4 DEF Fails, TypeOK
<1> QED
  BY <1>1, <1>2, <1>3

\* Requests that begun a line are no more than requests.
LEMMA BegunFew ==
    /\ IsFiniteSet(Begun) /\ Cardinality(Begun) \in Nat
    /\ Cardinality(Begun) <= Cardinality(Requests)
<1>1. Begun \subseteq Requests
  BY DEF Begun
<1> QED
  BY <1>1, FS_Subset, FS_CardinalityType, LogAssumption

LEMMA FewGrow ==
    ASSUME NEW S \in SUBSET Requests, NEW T \in SUBSET Requests, S \subseteq T
    PROVE  /\ Cardinality(S) \in Nat /\ Cardinality(T) \in Nat
           /\ Cardinality(S) <= Cardinality(T) /\ Cardinality(T) <= Cardinality(Requests)
<1>1. IsFiniteSet(S) /\ IsFiniteSet(T)
  BY FS_Subset, LogAssumption
<1> QED
  BY <1>1, FS_Subset, FS_CardinalityType, LogAssumption

\* The types of the file, of the database and of the processes.
FileType ==
    /\ log \in Seq(Line) /\ tail \in 0..(Cardinality(Requests) + 1) /\ writer \in Requests \cup {None}
    /\ file \in 1..MaxFiles
    /\ answered \in [Requests -> {"no", "inserted", "writing", "logged", "unlogged"}]

DbType ==
    /\ rows \subseteq Row /\ \A row \in rows : row.gen = Live \/ row.gen \in DOMAIN streams
    /\ DOMAIN streams \subseteq Gen /\ streams \in [DOMAIN streams -> Progress]

ImportType ==
    /\ pc \in [Importers -> Ended \cup Busy]
    /\ seen \in [Importers -> Seen]
    /\ raced \in BOOLEAN /\ mismarked \in BOOLEAN
    /\ imports \in 0..MaxImports
    /\ crashes \in 0..MaxCrashes

LEMMA TypeParts == TypeOK <=> FileType /\ DbType /\ ImportType
  BY DEF TypeOK, FileType, DbType, ImportType

LEMMA InitInv == Init => IInv
<1> SUFFICES ASSUME Init PROVE IInv
  OBVIOUS
<1> USE LogAssumption DEF Init
<1>1. PICK h \in [1..Cardinality(History) -> History] :
          /\ \A j, k \in DOMAIN h : h[j] = h[k] => j = k
          /\ log = [k \in DOMAIN h |-> [req |-> h[k], good |-> TRUE]]
  OBVIOUS
<1>2. log \in [1..Cardinality(History) -> Line] /\ \A k \in DOMAIN h : log[k].req = h[k]
  BY <1>1 DEF Line, Facts
<1>3. log \in Seq(Line) /\ Len(log) = Cardinality(History)
  <2>1. \A S, n : n \in Nat => \A f \in [1..n -> S] : f \in Seq(S) /\ Len(f) = n
    OBVIOUS
  <2> QED
    BY <1>2, <2>1, Width, Zenon
<1>4. FileType
  BY <1>3, Width DEF FileType
<1>5. DbType
  BY DEF DbType
<1>6. ImportType
  <2>1. seen \in [Importers -> Seen] /\ pc \in [Importers -> Ended \cup Busy]
    BY Types
  <2>2. raced = FALSE /\ mismarked = FALSE /\ imports = 0 /\ crashes = 0
    OBVIOUS
  <2>3. 0 \in 0..MaxImports /\ 0 \in 0..MaxCrashes
    OBVIOUS
  <2> QED
    BY <2>1, <2>2, <2>3, Zenon DEF ImportType
<1>7. Writing
  BY BegunFew, Width DEF Writing, Facts
<1>8. LogTrue
  <2>1. \A k \in 1..Len(log) : k \in DOMAIN h /\ h[k] \in History /\ log[k].req = h[k]
    BY <1>2, <1>3
  <2> QED
    BY <1>1, <2>1 DEF LogTrue
<1>9. RowsTrue /\ StreamsWithin /\ ImportsWithin /\ NothingSkipped /\ DoneCovers
  BY DEF RowsTrue, StreamsWithin, ImportsWithin, Within, Covers, NothingSkipped, DoneCovers
<1>10. NeverReplaced /\ NoOtherDuplicate
  BY DEF NeverReplaced, NoOtherDuplicate, NoDuplicate
<1> QED
  BY <1>4, <1>5, <1>6, <1>7, <1>8, <1>9, <1>10, TypeParts DEF IInv

-----------------------------------------------------------------------------
(* What each step of an import does, in terms of its fields.                *)

LEMMA SeenUpdates ==
    ASSUME NEW x \in Seen
    PROVE  /\ \A h \in Hashes : [x EXCEPT !.hash = h] \in Seen
           /\ \A g \in (0..MaxFiles) \X Hashes : [x EXCEPT !.gen = g] \in Seen
           /\ \A n \in Nat : [x EXCEPT !.start = n, !.offset = n] \in Seen
           /\ \A n \in Nat : [x EXCEPT !.offset = n, !.read = 0] \in Seen
           /\ \A n \in 0..BatchSize, l \in {"no", "end", "tail"} :
                 [x EXCEPT !.read = n, !.last = l] \in Seen
           /\ \A n \in Nat, g \in (0..MaxFiles) \X Hashes : [x EXCEPT !.size = n, !.gen = g] \in Seen
<1> USE LogAssumption DEF Seen
<1>1. \A h \in Hashes : [x EXCEPT !.hash = h] \in Seen
  OBVIOUS
<1>2. \A g \in (0..MaxFiles) \X Hashes : [x EXCEPT !.gen = g] \in Seen
  OBVIOUS
<1>3. \A n \in Nat : [x EXCEPT !.start = n, !.offset = n] \in Seen
  OBVIOUS
<1>4. \A n \in Nat : [x EXCEPT !.offset = n, !.read = 0] \in Seen
  <2>1. 0 \in 0..BatchSize
    OBVIOUS
  <2> QED
    BY <2>1
<1>5. \A n \in 0..BatchSize, l \in {"no", "end", "tail"} : [x EXCEPT !.read = n, !.last = l] \in Seen
  OBVIOUS
<1>6. \A n \in Nat, g \in (0..MaxFiles) \X Hashes : [x EXCEPT !.size = n, !.gen = g] \in Seen
  OBVIOUS
<1> QED
  BY <1>1, <1>2, <1>3, <1>4, <1>5, <1>6, Zenon

\* An import moves on alone.
Moves(i) ==
    /\ seen' \in [Importers -> Seen] /\ pc' \in [Importers -> Ended \cup Busy]
    /\ \A j \in Importers : j # i => seen'[j] = seen[j] /\ pc'[j] = pc[j]

LEMMA StatDoes ==
    ASSUME TypeOK, NEW i \in Importers, Stat(i)
    PROVE  /\ Moves(i) /\ pc[i] \in Ended
           /\ seen'[i].size = Size /\ seen'[i].gen = <<file, None>>
           /\ pc'[i] = IF Size = 0 THEN "done" ELSE "hash"
           /\ imports' \in 0..MaxImports /\ UNCHANGED <<source, db, answered, causes, crashes>>
<1> DEFINE x == [Nothing EXCEPT !.size = Size, !.gen = <<file, None>>]
<1>1. FileType /\ ImportType
  BY TypeParts
<1>2. Size \in Nat
  <2>1. SizeUpTo(Len(log)) \in Nat /\ tail \in Nat
    BY <1>1, Lines, SizesGrow, Width DEF FileType
  <2> QED
    BY <2>1 DEF Size
<1>3. <<file, None>> \in (0..MaxFiles) \X Hashes
  BY <1>1, LogAssumption DEF FileType, Hashes
<1>4. x \in Seen
  BY <1>2, <1>3, Types, SeenUpdates
<1>5. x.size = Size /\ x.gen = <<file, None>>
  BY DEF Nothing
<1>6. seen' = [seen EXCEPT ![i] = x] /\ pc' = [pc EXCEPT ![i] = IF Size = 0 THEN "done" ELSE "hash"]
  BY DEF Stat, Goto
<1> HIDE DEF x
<1>7. Moves(i) /\ seen'[i] = x /\ pc'[i] = IF Size = 0 THEN "done" ELSE "hash"
  BY <1>1, <1>4, <1>6 DEF ImportType, Moves
<1> QED
  BY <1>1, <1>5, <1>7, LogAssumption DEF ImportType, Stat

LEMMA HashDoes ==
    ASSUME TypeOK, NEW i \in Importers, Hash(i)
    PROVE  /\ Moves(i) /\ pc[i] = "hash" /\ pc'[i] = "ensure"
           /\ seen'[i].hash = Content /\ seen'[i].size = seen[i].size /\ seen'[i].gen = seen[i].gen
           /\ UNCHANGED <<source, db, answered, causes, bounds>>
<1> DEFINE x == [seen[i] EXCEPT !.hash = Content]
<1>1. FileType /\ ImportType
  BY TypeParts
<1>2. Content \in Hashes
  BY <1>1, Width DEF FileType, Hashes, Content
<1>3. x \in Seen /\ seen[i] \in Seen
  BY <1>1, <1>2, SeenUpdates DEF ImportType
<1>4. x.hash = Content /\ x.size = seen[i].size /\ x.gen = seen[i].gen
  BY <1>3 DEF Seen
<1>5. seen' = [seen EXCEPT ![i] = x] /\ pc' = [pc EXCEPT ![i] = "ensure"]
  BY DEF Hash, Goto
<1> HIDE DEF x
<1>6. Moves(i) /\ seen'[i] = x /\ pc'[i] = "ensure"
  BY <1>1, <1>3, <1>5 DEF ImportType, Moves
<1> QED
  BY <1>4, <1>6 DEF Hash

LEMMA EnsureDoes ==
    ASSUME TypeOK, NEW i \in Importers, Ensure(i), seen[i].gen \in Gen
    PROVE  LET g == seen[i].gen IN
           /\ Moves(i) /\ pc[i] = "ensure"
           /\ seen'[i].size = seen[i].size /\ seen'[i].hash = seen[i].hash
           /\ DOMAIN streams' = DOMAIN streams \cup {g}
           /\ streams' \in [DOMAIN streams \cup {g} -> Progress]
           /\ \A x \in DOMAIN streams : streams'[x] = streams[x]
           /\ g \notin DOMAIN streams =>
                 streams'[g] = [offset |-> 0, size |-> seen[i].size, hash |-> seen[i].hash, completed |-> FALSE]
           /\ \/ /\ pc'[i] = "ensure" /\ g[2] = None /\ Replaced(i, streams'[g])
                 /\ seen'[i].gen = <<g[1], seen[i].hash>>
              \/ /\ seen'[i].gen = g /\ seen'[i].offset = streams'[g].offset
                 /\ pc'[i] \in {"read", "done"}
                 /\ pc'[i] = "done" => SizeUpTo(streams'[g].offset) >= seen[i].size
           /\ UNCHANGED <<source, rows, answered, causes, bounds>>
<1> DEFINE g == seen[i].gen
           stream == streams'[g]
           y == [seen[i] EXCEPT !.gen = <<g[1], seen[i].hash>>]
           z == [seen[i] EXCEPT !.start = stream.offset, !.offset = stream.offset]
<1>1. FileType /\ ImportType
  BY TypeParts
<1>2. seen[i] \in Seen /\ seen[i].size \in Nat /\ seen[i].hash \in Hashes /\ g \in Gen
  BY <1>1, SeenTypes DEF ImportType
<1>3. streams' = Ensured(g, seen[i].size, seen[i].hash)
  BY DEF Ensure
<1>4. /\ DOMAIN streams' = DOMAIN streams \cup {g}
      /\ streams' \in [DOMAIN streams \cup {g} -> Progress]
      /\ \A x \in DOMAIN streams : streams'[x] = streams[x]
      /\ g \notin DOMAIN streams =>
            stream = [offset |-> 0, size |-> seen[i].size, hash |-> seen[i].hash, completed |-> FALSE]
  <2> DEFINE e == Ensured(g, seen[i].size, seen[i].hash)
  <2>1. /\ DOMAIN e = DOMAIN streams \cup {g} /\ e \in [DOMAIN streams \cup {g} -> Progress]
        /\ \A x \in DOMAIN streams : e[x] = streams[x]
        /\ g \notin DOMAIN streams =>
              e[g] = [offset |-> 0, size |-> seen[i].size, hash |-> seen[i].hash, completed |-> FALSE]
    <3> HIDE DEF g
    <3> QED
      BY <1>2, EnsuredStreams
  <2> QED
    BY <1>3, <2>1
<1>5. stream.offset \in Nat
  BY <1>4, Types
<1>6. \/ /\ g[2] = None /\ Replaced(i, stream) /\ seen' = [seen EXCEPT ![i] = y] /\ pc' = pc
      \/ /\ seen' = [seen EXCEPT ![i] = z]
         /\ pc' = [pc EXCEPT ![i] = IF stream.completed /\ SizeUpTo(stream.offset) >= seen[i].size
                                    THEN "done" ELSE "read"]
  BY <1>3 DEF Ensure, Goto
<1>7. y \in Seen /\ z \in Seen
  <2>1. <<g[1], seen[i].hash>> \in (0..MaxFiles) \X Hashes
    BY <1>2, Types, LogAssumption
  <2> QED
    BY <1>2, <1>5, <2>1, SeenUpdates
<1>8. /\ y.size = seen[i].size /\ y.hash = seen[i].hash /\ y.gen = <<g[1], seen[i].hash>>
      /\ z.size = seen[i].size /\ z.hash = seen[i].hash /\ z.gen = g /\ z.offset = stream.offset
  BY <1>2 DEF Seen
<1>9. pc[i] = "ensure" /\ UNCHANGED <<source, rows, answered, causes, bounds>>
  BY DEF Ensure
<1> HIDE DEF y, z, stream, g
<1>10. CASE seen' = [seen EXCEPT ![i] = y] /\ pc' = pc
  <2>1. Moves(i) /\ seen'[i] = y /\ pc'[i] = "ensure"
    BY <1>1, <1>7, <1>9, <1>10 DEF ImportType, Moves
  <2>2. CASE g[2] = None /\ Replaced(i, stream)
    BY <1>4, <1>8, <1>9, <2>1, <2>2 DEF g, stream
  <2>3. CASE seen' = [seen EXCEPT ![i] = z] /\ pc' = [pc EXCEPT ![i] =
                   IF stream.completed /\ SizeUpTo(stream.offset) >= seen[i].size THEN "done" ELSE "read"]
    BY <1>1, <1>9, <1>10, <2>3 DEF ImportType
  <2> QED
    BY <1>6, <2>2, <2>3
<1>11. CASE /\ seen' = [seen EXCEPT ![i] = z]
            /\ pc' = [pc EXCEPT ![i] = IF stream.completed /\ SizeUpTo(stream.offset) >= seen[i].size
                                       THEN "done" ELSE "read"]
  <2>1. pc'[i] = IF stream.completed /\ SizeUpTo(stream.offset) >= seen[i].size THEN "done" ELSE "read"
    BY <1>1, <1>11 DEF ImportType
  <2>2. Moves(i) /\ seen'[i] = z
    BY <1>1, <1>7, <1>11 DEF ImportType, Moves
  <2> QED
    BY <1>4, <1>8, <1>9, <2>1, <2>2 DEF g, stream
<1> QED
  BY <1>6, <1>10, <1>11

LEMMA ReadDoes ==
    ASSUME TypeOK, NEW i \in Importers, Read(i)
    PROVE  /\ Moves(i) /\ pc[i] = "read" /\ pc'[i] = "commit"
           /\ seen'[i].size = seen[i].size /\ seen'[i].hash = seen[i].hash
           /\ seen'[i].gen = seen[i].gen /\ seen'[i].offset = seen[i].offset
           /\ seen[i].offset <= Len(log) =>
                 /\ seen'[i].offset + seen'[i].read <= Len(log)
                 /\ seen'[i].last # "no" => seen'[i].offset + seen'[i].read = Len(log)
           /\ UNCHANGED <<source, db, answered, causes, bounds>>
<1> DEFINE left == IF Len(log) < seen[i].offset THEN 0 ELSE Len(log) - seen[i].offset
           n == IF left < BatchSize THEN left ELSE BatchSize
           l == IF left >= BatchSize THEN "no" ELSE IF tail = 0 THEN "end" ELSE "tail"
           x == [seen[i] EXCEPT !.read = n, !.last = l]
<1>1. FileType /\ ImportType
  BY TypeParts
<1>2. seen[i] \in Seen /\ seen[i].offset \in Nat /\ Len(log) \in Nat
  BY <1>1, SeenTypes, Lines DEF ImportType, FileType
<1>3. left \in Nat /\ n \in 0..BatchSize /\ l \in {"no", "end", "tail"}
  BY <1>2, LogAssumption
<1>4. seen[i].offset <= Len(log) =>
         seen[i].offset + n <= Len(log) /\ (l # "no" => seen[i].offset + n = Len(log))
  BY <1>2, LogAssumption
<1>5. seen' = [seen EXCEPT ![i] = x] /\ pc' = [pc EXCEPT ![i] = "commit"]
  BY DEF Read, Goto
<1> HIDE DEF left, n, l
<1>6. x \in Seen
  BY <1>2, <1>3, SeenUpdates
<1>7. /\ x.size = seen[i].size /\ x.hash = seen[i].hash /\ x.gen = seen[i].gen
      /\ x.offset = seen[i].offset /\ x.read = n /\ x.last = l
  BY <1>2 DEF Seen
<1> HIDE DEF x
<1>8. Moves(i) /\ seen'[i] = x /\ pc'[i] = "commit"
  BY <1>1, <1>5, <1>6 DEF ImportType, Moves
<1> QED
  BY <1>4, <1>7, <1>8 DEF Read

LEMMA CommitDoes ==
    ASSUME TypeOK, NEW i \in Importers, Commit(i), seen[i].gen \in DOMAIN streams
    PROVE  /\ Moves(i) /\ pc[i] = "commit" /\ Commits(i)
           /\ pc'[i] \in {"read", "commit", "done"} /\ (pc'[i] = "read" <=> seen[i].last = "no")
           /\ seen'[i].size = seen[i].size /\ seen'[i].hash = seen[i].hash
           /\ seen'[i].gen = seen[i].gen /\ seen'[i].last = seen[i].last
           /\ seen'[i].offset = seen[i].offset + seen[i].read /\ seen'[i].read = 0
           /\ rows' = rows \cup RowsOf(i)
           /\ DOMAIN streams' = DOMAIN streams /\ streams' \in [DOMAIN streams -> Progress]
           /\ \A g \in DOMAIN streams : g # seen[i].gen => streams'[g] = streams[g]
           /\ streams'[seen[i].gen].offset = seen[i].offset + seen[i].read
           /\ streams'[seen[i].gen].size = seen[i].size /\ streams'[seen[i].gen].hash = seen[i].hash
           /\ UNCHANGED <<source, answered, causes, bounds>>
<1> DEFINE s == seen[i]
           next == s.offset + s.read
           x == [s EXCEPT !.offset = next, !.read = 0]
           p == [offset |-> next, size |-> s.size, hash |-> s.hash, completed |-> s.last = "end"]
           step == IF s.last = "no" THEN "read"
                   ELSE IF s.last = "tail" /\ s.read > 0 /\ SizeUpTo(next) < s.size THEN "commit" ELSE "done"
<1>1. DbType /\ ImportType
  BY TypeParts
<1>2. s \in Seen
  BY <1>1 DEF ImportType
<1>3. s.size \in Nat /\ s.hash \in Hashes /\ next \in Nat
  BY <1>2, SeenTypes
<1>4. /\ streams' = [streams EXCEPT ![s.gen] = p] /\ rows' = rows \cup RowsOf(i)
      /\ seen' = [seen EXCEPT ![i] = x] /\ pc' = [pc EXCEPT ![i] = step]
      /\ pc[i] = "commit" /\ Commits(i) /\ UNCHANGED <<source, answered, causes, bounds>>
  BY DEF Commit, Goto
<1> HIDE DEF next
<1>5. x \in Seen
  BY <1>2, <1>3, SeenUpdates
<1>6. /\ x.size = s.size /\ x.hash = s.hash /\ x.gen = s.gen /\ x.last = s.last
      /\ x.offset = next /\ x.read = 0
  BY <1>2 DEF Seen
<1>7. p \in Progress
  BY <1>3 DEF Progress
<1>8. p.offset = next /\ p.size = s.size /\ p.hash = s.hash
  OBVIOUS
<1> HIDE DEF p, x
<1>9. /\ DOMAIN streams' = DOMAIN streams /\ streams' \in [DOMAIN streams -> Progress]
      /\ \A g \in DOMAIN streams : g # s.gen => streams'[g] = streams[g]
      /\ streams'[s.gen] = p
  BY <1>1, <1>4, <1>7 DEF DbType
<1>10. step \in {"read", "commit", "done"} /\ (step = "read" <=> s.last = "no")
  OBVIOUS
<1> HIDE DEF step
<1>11. Moves(i) /\ seen'[i] = x /\ pc'[i] = step
  BY <1>1, <1>4, <1>5, <1>10 DEF ImportType, Moves
<1> QED
  BY <1>4, <1>6, <1>8, <1>9, <1>10, <1>11 DEF next

\* The streams stay where they are, and so does all else.
LEMMA FailDoes ==
    ASSUME TypeOK, NEW i \in Importers, Conflict(i) \/ ImportFails(i)
    PROVE  /\ Moves(i) /\ pc'[i] = "failed" /\ seen'[i] = Nothing
           /\ DOMAIN streams' = DOMAIN streams /\ streams' \in [DOMAIN streams -> Progress]
           /\ \A g \in DOMAIN streams : /\ streams'[g].offset = streams[g].offset
                                        /\ streams'[g].hash = streams[g].hash
                                        /\ mismarked' \/ streams'[g].size = streams[g].size
           /\ mismarked' \in BOOLEAN /\ (mismarked => mismarked')
           /\ UNCHANGED <<source, rows, answered, raced, bounds>>
<1>1. PICK m \in BOOLEAN : Fails(i, m)
  <2>1. CASE Conflict(i)
    BY <2>1 DEF Conflict
  <2>2. CASE ImportFails(i) /\ pc[i] \in {"read", "commit"}
    <3>1. Fails(i, TRUE)
      BY <2>2 DEF ImportFails, Fails
    <3> QED
      BY <3>1
  <2>3. CASE ImportFails(i) /\ pc[i] \notin {"read", "commit"}
    <3>1. Fails(i, FALSE)
      BY <2>3 DEF ImportFails, Fails
    <3> QED
      BY <3>1
  <2> QED
    BY <2>1, <2>2, <2>3
<1>2. ImportType
  BY TypeParts
<1>3. seen' = [seen EXCEPT ![i] = Nothing] /\ pc' = [pc EXCEPT ![i] = "failed"]
  BY <1>1 DEF Fails, Goto
<1>4. Moves(i) /\ pc'[i] = "failed" /\ seen'[i] = Nothing
  BY <1>2, <1>3, Types DEF ImportType, Moves
<1>5. mismarked' \in BOOLEAN
  BY <1>1 DEF Fails
<1> QED
  BY <1>1, <1>4, <1>5, FailedStreams DEF Fails

LEMMA CrashDoes ==
    ASSUME TypeOK, NEW i \in Importers, Crash(i)
    PROVE  /\ Moves(i) /\ pc'[i] = "idle" /\ seen'[i] = Nothing
           /\ crashes' \in 0..MaxCrashes
           /\ UNCHANGED <<log, tail, file, db, causes, imports>>
           /\ writer' \in {writer, None}
           /\ \A r \in Requests :
                 /\ answered[r] \notin {"inserted", "writing"} => answered'[r] = answered[r]
                 /\ answered[r] \in {"inserted", "writing"} => answered'[r] \in {answered[r], "unlogged"}
                 /\ answered'[r] = "writing" => writer' = writer
           /\ answered' \in [Requests -> {"no", "inserted", "writing", "logged", "unlogged"}]
           /\ writer' = None \/ answered' = answered
<1>1. FileType /\ ImportType
  BY TypeParts
<1>2. seen' = [seen EXCEPT ![i] = Nothing] /\ pc' = [pc EXCEPT ![i] = "idle"]
  BY DEF Crash, Goto
<1>3. Moves(i) /\ pc'[i] = "idle" /\ seen'[i] = Nothing
  BY <1>1, <1>2, Types DEF ImportType, Moves
<1>4. crashes' \in 0..MaxCrashes /\ UNCHANGED <<log, tail, file, db, causes, imports>>
  BY <1>1, LogAssumption DEF Crash, ImportType
<1>5. CASE i = Proxy
  BY <1>1, <1>3, <1>4, <1>5 DEF Crash, FileType
<1>6. CASE i # Proxy
  BY <1>1, <1>3, <1>4, <1>6 DEF Crash, FileType
<1> QED
  BY <1>5, <1>6

-----------------------------------------------------------------------------
(* The steps of the specification, one invariant after the other.           *)

\* The rows of a batch come from lines of the log.
LEMMA NewRows ==
    ASSUME TypeOK, NEW i \in Importers, seen[i].gen \in Gen, NEW row \in RowsOf(i)
    PROVE  /\ row \in Row /\ row.gen = seen[i].gen /\ row.offset \in 1..Len(log)
           /\ row.req = log[row.offset].req /\ log[row.offset].good
           /\ row.offset > seen[i].offset /\ row.offset <= seen[i].offset + seen[i].read
           /\ [req |-> row.req, gen |-> Live, offset |-> 0] \notin rows
<1>1. FileType /\ ImportType
  BY TypeParts
<1>2. seen[i].offset \in Nat /\ seen[i].read \in Nat /\ Len(log) \in Nat
  BY <1>1, SeenTypes, Lines, LogAssumption DEF ImportType, FileType
<1>3. PICK k \in (seen[i].offset + 1)..(seen[i].offset + seen[i].read) :
          /\ k <= Len(log) /\ log[k].good /\ [req |-> log[k].req, gen |-> Live, offset |-> 0] \notin rows
          /\ row = [req |-> log[k].req, gen |-> seen[i].gen, offset |-> k]
  BY DEF RowsOf
<1>4. k \in 1..Len(log)
  BY <1>2, <1>3
<1>5. log[k].req \in Facts
  BY <1>1, <1>4, Lines DEF FileType
<1> QED
  BY <1>2, <1>3, <1>4, <1>5 DEF Row

\* The generation a running import has in hand is a generation.
LEMMA HasGen ==
    ASSUME TypeOK, ImportsWithin, NEW i \in Importers, pc[i] \in Busy
    PROVE  seen[i].gen \in Gen /\ seen[i].gen[1] = file
<1>1. FileType /\ ImportType
  BY TypeParts
<1>2. seen[i].gen \in (0..MaxFiles) \X Hashes /\ seen[i].gen[1] = file /\ file \in 1..MaxFiles
  BY <1>1, SeenTypes DEF ImportType, FileType, ImportsWithin, Within
<1> QED
  BY <1>2 DEF Gen

LEMMA FileStep == ASSUME IInv, [Next]_vars PROVE FileType' /\ Writing'
<1>0. TypeOK /\ FileType /\ Writing /\ None \notin Requests
  BY TypeParts, LogAssumption DEF IInv, Facts
<1>1. ASSUME NEW r \in Requests, InsertRow(r) PROVE FileType' /\ Writing'
  BY <1>0, <1>1 DEF InsertRow, Answered, FileType, Writing, Begun
<1>2. ASSUME NEW r \in Requests, AppendBegins(r) PROVE FileType' /\ Writing'
  <2>1. /\ r \notin Begun /\ Begun' = Begun \cup {r} /\ tail' = tail + 1
        /\ Cardinality(Begun) + 1 \in Nat /\ tail \in Nat
    BY <1>0, <1>2, BegunFew DEF AppendBegins, Answered, FileType, Begun
  <2>2. Cardinality(Begun') = Cardinality(Begun) + 1
    BY <2>1, BegunFew, FS_AddElement
  <2>3. Cardinality(Begun') <= Cardinality(Requests)
    <3>1. Begun \subseteq Begun' /\ Begun' \in SUBSET Requests /\ Begun \in SUBSET Requests
      BY <2>1 DEF Begun
    <3> QED
      BY <3>1, FewGrow
  <2>4. /\ writer' \in Requests \cup {None} /\ UNCHANGED <<log, file>>
        /\ answered' \in [Requests -> {"no", "inserted", "writing", "logged", "unlogged"}]
        /\ \A q \in Requests : writer' = q <=> answered'[q] = "writing"
    BY <1>0, <1>2 DEF AppendBegins, Answered, FileType, Writing
  <2> QED
    BY <1>0, <2>1, <2>2, <2>3, <2>4, Width DEF FileType, Writing
<1>3. ASSUME NEW r \in Requests, AppendEnds(r) PROVE FileType' /\ Writing'
  <2>1. [req |-> r, good |-> tail = 1] \in Line
    BY DEF Line, Facts
  <2>2. log' \in Seq(Line)
    BY <1>0, <1>3, <2>1, Lines DEF AppendEnds, FileType
  <2>3. /\ writer' = None /\ tail' = 0 /\ file' = file
        /\ answered' \in [Requests -> {"no", "inserted", "writing", "logged", "unlogged"}]
        /\ \A q \in Requests : answered'[q] # "writing" /\ q # None
    BY <1>0, <1>3 DEF AppendEnds, Answered, FileType, Writing
  <2>4. Cardinality(Begun') \in Nat
    <3>1. Begun' \in SUBSET Requests
      BY DEF Begun
    <3> QED
      BY <3>1, FewGrow
  <2> QED
    BY <1>0, <2>2, <2>3, <2>4, Width DEF FileType, Writing
<1>4. ASSUME NEW r \in Requests, AppendFails(r) PROVE FileType' /\ Writing'
  <2>1. /\ UNCHANGED <<log, tail, file>> /\ writer' \in Requests \cup {None}
        /\ answered' \in [Requests -> {"no", "inserted", "writing", "logged", "unlogged"}]
        /\ \A q \in Requests : writer' = q <=> answered'[q] = "writing"
    BY <1>0, <1>4 DEF AppendFails, Answered, FileType, Writing
  <2>2. Cardinality(Begun) \in Nat /\ Cardinality(Begun') \in Nat /\ Cardinality(Begun) <= Cardinality(Begun')
    <3>1. Begun \subseteq Begun' /\ Begun' \in SUBSET Requests /\ Begun \in SUBSET Requests
      BY <1>0, <1>4 DEF AppendFails, Answered, FileType, Begun
    <3> QED
      BY <3>1, FewGrow
  <2> QED
    BY <1>0, <2>1, <2>2, Width DEF FileType, Writing
<1>5. ASSUME \/ \E i \in Importers : Stat(i) \/ Hash(i) \/ Ensure(i) \/ Read(i) \/ Commit(i) \/ Conflict(i) \/ ImportFails(i)
          \/ UNCHANGED vars
      PROVE  FileType' /\ Writing'
  BY <1>0, <1>5 DEF Stat, Goto, Hash, Ensure, Read, Commit, Conflict, ImportFails, Fails, vars,
     FileType, Writing, Begun
<1>11. ASSUME Rotate PROVE FileType' /\ Writing'
  <2>1. Cardinality(Begun) \in Nat /\ Begun' = Begun /\ log' \in Seq(Line) /\ tail' = 0
        /\ file' \in 1..MaxFiles /\ UNCHANGED <<writer, answered>>
    BY <1>0, <1>11, BegunFew, LogAssumption DEF Rotate, FileType, Begun
  <2> QED
    BY <1>0, <2>1, Width DEF FileType, Writing
<1>12. ASSUME NEW i \in Importers, Crash(i) PROVE FileType' /\ Writing'
  <2>1. /\ UNCHANGED <<log, tail, file>> /\ writer' \in {writer, None}
        /\ answered' \in [Requests -> {"no", "inserted", "writing", "logged", "unlogged"}]
        /\ \A q \in Requests : writer' = q <=> answered'[q] = "writing"
    BY <1>0, <1>12, CrashDoes DEF Writing
  <2>2. Cardinality(Begun) \in Nat /\ Cardinality(Begun') \in Nat /\ Cardinality(Begun) <= Cardinality(Begun')
    <3>1. Begun \subseteq Begun' /\ Begun' \in SUBSET Requests /\ Begun \in SUBSET Requests
      BY <1>0, <1>12, CrashDoes DEF Begun
    <3> QED
      BY <3>1, FewGrow
  <2> QED
    BY <1>0, <2>1, <2>2, Width DEF FileType, Writing
<1> QED
  BY <1>1, <1>2, <1>3, <1>4, <1>5, <1>11, <1>12 DEF Next, Import

LEMMA ImportTypeStep == ASSUME IInv, [Next]_vars PROVE ImportType'
<1>0. TypeOK /\ ImportsWithin /\ ImportType
  BY TypeParts DEF IInv
<1>1. ASSUME NEW r \in Requests, InsertRow(r) PROVE ImportType'
  BY <1>0, <1>1 DEF InsertRow, Answered, ImportType
<1>2. ASSUME \E r \in Requests : AppendBegins(r) \/ AppendEnds(r) PROVE ImportType'
  BY <1>0, <1>2 DEF AppendBegins, Answered, Races, AppendEnds, ImportType
<1>4. ASSUME \/ \E r \in Requests : AppendFails(r)
          \/ Rotate
          \/ UNCHANGED vars
      PROVE  ImportType'
  BY <1>0, <1>4 DEF AppendFails, Answered, Rotate, vars, ImportType
<1>5. ASSUME NEW i \in Importers, Stat(i) PROVE ImportType'
  BY <1>0, <1>5, StatDoes DEF ImportType, Moves
<1>6. ASSUME NEW i \in Importers, Hash(i) PROVE ImportType'
  BY <1>0, <1>6, HashDoes DEF ImportType, Moves
<1>7. ASSUME NEW i \in Importers, Ensure(i) PROVE ImportType'
  <2>1. seen[i].gen \in Gen
    BY <1>0, <1>7, HasGen DEF Ensure
  <2> QED
    BY <1>0, <1>7, <2>1, EnsureDoes DEF ImportType, Moves
<1>8. ASSUME NEW i \in Importers, Read(i) PROVE ImportType'
  BY <1>0, <1>8, ReadDoes DEF ImportType, Moves
<1>9. ASSUME NEW i \in Importers, Commit(i) PROVE ImportType'
  <2>1. seen[i].gen \in DOMAIN streams
    BY <1>0, <1>9 DEF Commit, ImportsWithin, Within
  <2> QED
    BY <1>0, <1>9, <2>1, CommitDoes DEF ImportType, Moves
<1>10. ASSUME NEW i \in Importers, Conflict(i) \/ ImportFails(i) PROVE ImportType'
  BY <1>0, <1>10, FailDoes DEF ImportType, Moves
<1>12. ASSUME NEW i \in Importers, Crash(i) PROVE ImportType'
  BY <1>0, <1>12, CrashDoes DEF ImportType, Moves
<1> QED
  BY <1>1, <1>2, <1>4, <1>5, <1>6, <1>7, <1>8, <1>9, <1>10, <1>12 DEF Next, Import

LEMMA DbTypeStep == ASSUME IInv, [Next]_vars PROVE DbType'
<1>0. TypeOK /\ ImportsWithin /\ DbType /\ FileType /\ ImportType
  BY TypeParts DEF IInv
<1>1. ASSUME NEW r \in Requests, InsertRow(r) PROVE DbType'
  <2>1. [req |-> r, gen |-> Live, offset |-> 0] \in Row
    BY DEF Row, Facts
  <2> QED
    BY <1>0, <1>1, <2>1 DEF InsertRow, DbType
<1>2. ASSUME \/ \E r \in Requests : AppendBegins(r) \/ AppendEnds(r) \/ AppendFails(r)
          \/ Rotate
          \/ UNCHANGED vars
      PROVE  DbType'
  BY <1>0, <1>2 DEF AppendBegins, Answered, Races, AppendEnds, AppendFails, Rotate, vars, DbType
<1>5. ASSUME \E i \in Importers : Stat(i) \/ Hash(i) \/ Read(i) PROVE DbType'
  BY <1>0, <1>5 DEF Stat, Goto, Hash, Read, DbType
<1>7. ASSUME NEW i \in Importers, Ensure(i) PROVE DbType'
  <2>1. seen[i].gen \in Gen
    BY <1>0, <1>7, HasGen DEF Ensure
  <2>2. /\ rows' = rows /\ DOMAIN streams' = DOMAIN streams \cup {seen[i].gen}
        /\ streams' \in [DOMAIN streams \cup {seen[i].gen} -> Progress]
    BY <1>0, <1>7, <2>1, EnsureDoes
  <2> QED
    BY <1>0, <2>1, <2>2 DEF DbType
<1>9. ASSUME NEW i \in Importers, Commit(i) PROVE DbType'
  <2>1. seen[i].gen \in DOMAIN streams /\ seen[i].gen \in Gen
    BY <1>0, <1>9 DEF Commit, ImportsWithin, Within, DbType
  <2>2. /\ rows' = rows \cup RowsOf(i) /\ DOMAIN streams' = DOMAIN streams
        /\ streams' \in [DOMAIN streams -> Progress]
    BY <1>0, <1>9, <2>1, CommitDoes
  <2>3. ASSUME NEW row \in RowsOf(i)
        PROVE  row \in Row /\ row.gen = seen[i].gen
    BY <1>0, <2>1, <2>3, NewRows
  <2> QED
    BY <1>0, <2>1, <2>2, <2>3 DEF DbType
<1>10. ASSUME NEW i \in Importers, Conflict(i) \/ ImportFails(i) PROVE DbType'
  BY <1>0, <1>10, FailDoes DEF DbType
<1>12. ASSUME NEW i \in Importers, Crash(i) PROVE DbType'
  BY <1>0, <1>12, CrashDoes DEF DbType
<1> QED
  BY <1>1, <1>2, <1>5, <1>7, <1>9, <1>10, <1>12 DEF Next, Import

LEMMA LogStep == ASSUME IInv, [Next]_vars PROVE LogTrue'
<1>0. TypeOK /\ FileType /\ Writing /\ LogTrue /\ Len(log) \in Nat
  BY TypeParts, Lines DEF IInv, FileType
<1>1. ASSUME NEW r \in Requests, InsertRow(r) PROVE LogTrue'
  BY <1>0, <1>1 DEF InsertRow, Answered, LogTrue, FileType
<1>2. ASSUME NEW r \in Requests, AppendBegins(r) PROVE LogTrue'
  BY <1>0, <1>2 DEF AppendBegins, Answered, Races, LogTrue, FileType
<1>3. ASSUME NEW r \in Requests, AppendEnds(r) PROVE LogTrue'
  <2>1. [req |-> r, good |-> tail = 1] \in Line
    BY DEF Line, Facts
  <2>2. /\ Len(log') = Len(log) + 1 /\ log'[Len(log) + 1].req = r
        /\ \A k \in 1..Len(log) : log'[k] = log[k]
    BY <1>0, <1>3, <2>1, Lines DEF AppendEnds, FileType
  <2>3. /\ answered[r] = "writing" /\ answered'[r] = "logged"
        /\ \A q \in Requests : q # r => answered'[q] = answered[q]
    BY <1>0, <1>3 DEF AppendEnds, Answered, FileType, Writing
  <2>4. \A k \in 1..Len(log) : log[k].req # r
    BY <1>0, <2>3 DEF LogTrue
  <2> QED
    BY <1>0, <2>2, <2>3, <2>4 DEF LogTrue
<1>4. ASSUME NEW r \in Requests, AppendFails(r) PROVE LogTrue'
  <2>1. /\ log' = log /\ answered[r] # "logged"
        /\ \A q \in Requests : q # r => answered'[q] = answered[q]
    BY <1>0, <1>4 DEF AppendFails, Answered, FileType, Writing
  <2> QED
    BY <1>0, <2>1 DEF LogTrue
<1>5. ASSUME \/ \E i \in Importers : Stat(i) \/ Hash(i) \/ Ensure(i) \/ Read(i) \/ Commit(i) \/ Conflict(i) \/ ImportFails(i)
          \/ UNCHANGED vars
      PROVE  LogTrue'
  BY <1>0, <1>5 DEF Stat, Goto, Hash, Ensure, Read, Commit, Conflict, ImportFails, Fails, vars,
     LogTrue, FileType
<1>11. ASSUME Rotate PROVE LogTrue'
  <2>1. Len(log') = 0
    BY <1>11 DEF Rotate
  <2> QED
    BY <2>1 DEF LogTrue
<1>12. ASSUME NEW i \in Importers, Crash(i) PROVE LogTrue'
  BY <1>0, <1>12, CrashDoes DEF LogTrue
<1> QED
  BY <1>1, <1>2, <1>3, <1>4, <1>5, <1>11, <1>12 DEF Next, Import

LEMMA RowsStep == ASSUME IInv, [Next]_vars PROVE RowsTrue'
<1>0. TypeOK /\ FileType /\ DbType /\ Writing /\ LogTrue /\ RowsTrue /\ StreamsWithin /\ ImportsWithin /\ Len(log) \in Nat
  BY TypeParts, Lines DEF IInv, FileType
<1>1. ASSUME NEW r \in Requests, InsertRow(r) PROVE RowsTrue'
  BY <1>0, <1>1 DEF InsertRow, Answered, RowsTrue, FileType
<1>2. ASSUME NEW r \in Requests, AppendBegins(r) PROVE RowsTrue'
  BY <1>0, <1>2 DEF AppendBegins, Answered, Races, RowsTrue, FileType
<1>3. ASSUME NEW r \in Requests, AppendEnds(r) PROVE RowsTrue'
  <2>1. [req |-> r, good |-> tail = 1] \in Line
    BY DEF Line, Facts
  <2>2. /\ Len(log') = Len(log) + 1 /\ log'[Len(log) + 1].req = r
        /\ \A k \in 1..Len(log) : log'[k] = log[k]
    BY <1>0, <1>3, <2>1, Lines DEF AppendEnds, FileType
  <2>3. /\ answered[r] = "writing" /\ answered'[r] = "logged"
        /\ \A q \in Requests : q # r => answered'[q] = answered[q]
        /\ UNCHANGED <<rows, streams, file>>
    BY <1>0, <1>3 DEF AppendEnds, Answered, FileType, Writing
  <2>4. \A row \in rows : row.offset \in Nat
    BY <1>0 DEF DbType, Row
  <2> QED
    BY <1>0, <2>2, <2>3, <2>4 DEF RowsTrue
<1>4. ASSUME NEW r \in Requests, AppendFails(r) PROVE RowsTrue'
  <2>1. /\ UNCHANGED <<log, rows, streams, file>> /\ answered[r] # "logged" /\ answered'[r] # "no"
        /\ \A q \in Requests : q # r => answered'[q] = answered[q]
    BY <1>0, <1>4 DEF AppendFails, Answered, FileType, Writing
  <2> QED
    BY <1>0, <2>1 DEF RowsTrue
<1>5. ASSUME \E i \in Importers : Stat(i) \/ Hash(i) \/ Read(i) PROVE RowsTrue'
  BY <1>0, <1>5 DEF Stat, Goto, Hash, Read, RowsTrue, FileType
<1>7. ASSUME NEW i \in Importers, Ensure(i) PROVE RowsTrue'
  <2>1. seen[i].gen \in Gen
    BY <1>0, <1>7, HasGen DEF Ensure
  <2>2. UNCHANGED <<log, file, rows, answered>> /\ DOMAIN streams \subseteq DOMAIN streams'
    BY <1>0, <1>7, <2>1, EnsureDoes
  <2> QED
    BY <1>0, <2>2 DEF RowsTrue
<1>9. ASSUME NEW i \in Importers, Commit(i) PROVE RowsTrue'
  <2>1. seen[i].gen \in DOMAIN streams /\ seen[i].gen \in Gen /\ seen[i].gen[1] = file
    BY <1>0, <1>9, HasGen DEF Commit, ImportsWithin, Within
  <2>2. /\ rows' = rows \cup RowsOf(i) /\ DOMAIN streams' = DOMAIN streams
        /\ UNCHANGED <<log, file, answered>>
    BY <1>0, <1>9, <2>1, CommitDoes
  <2>3. ASSUME NEW row \in RowsOf(i)
        PROVE  /\ row.offset # 0 /\ row.gen = seen[i].gen /\ row.offset \in 1..Len(log)
               /\ log[row.offset].req = row.req
    <3>1. /\ row.gen = seen[i].gen /\ row.offset \in 1..Len(log)
          /\ log[row.offset].req = row.req
      BY <1>0, <2>1, <2>3, NewRows
    <3> QED
      BY <1>0, <3>1
  <2>4. \A row \in RowsOf(i) : row.req \in Requests => answered[row.req] = "logged"
    BY <1>0, <2>3 DEF LogTrue
  <2> QED
    BY <1>0, <2>1, <2>2, <2>3, <2>4 DEF RowsTrue
<1>10. ASSUME NEW i \in Importers, Conflict(i) \/ ImportFails(i) PROVE RowsTrue'
  BY <1>0, <1>10, FailDoes DEF RowsTrue
<1>11. ASSUME Rotate PROVE RowsTrue'
  <2>1. Len(log') = 0 /\ file' = file + 1 /\ file \in Nat /\ UNCHANGED <<rows, streams, answered>>
    BY <1>0, <1>11 DEF Rotate, FileType
  <2>2. \A g \in DOMAIN streams : g[1] \in Nat /\ g[1] # file'
    BY <1>0, <2>1, Types, LogAssumption DEF DbType, StreamsWithin
  <2> QED
    BY <1>0, <2>1, <2>2 DEF RowsTrue
<1>12. ASSUME NEW i \in Importers, Crash(i) PROVE RowsTrue'
  <2>1. /\ UNCHANGED <<log, file, rows, streams>>
        /\ \A r \in Requests : /\ answered[r] = "logged" => answered'[r] = "logged"
                               /\ answered[r] # "no" => answered'[r] # "no"
    BY <1>0, <1>12, CrashDoes
  <2> QED
    BY <1>0, <2>1 DEF RowsTrue
<1>13. ASSUME UNCHANGED vars PROVE RowsTrue'
  BY <1>0, <1>13 DEF vars, RowsTrue, FileType
<1> QED
  BY <1>1, <1>2, <1>3, <1>4, <1>5, <1>7, <1>9, <1>10, <1>11, <1>12, <1>13 DEF Next, Import

LEMMA SizeIsNat == TypeOK => Size \in Nat /\ Len(log) \in Nat /\ file \in Nat
<1> SUFFICES ASSUME TypeOK PROVE Size \in Nat /\ Len(log) \in Nat /\ file \in Nat
  OBVIOUS
<1>1. Len(log) \in Nat /\ tail \in Nat /\ file \in Nat
  BY Lines, Width DEF TypeOK
<1>2. SizeUpTo(Len(log)) \in Nat
  BY <1>1, SizesGrow
<1> QED
  BY <1>1, <1>2 DEF Size

\* The file of a name only grows.
Grows ==
    /\ Len(log) <= Len(log') /\ \A k \in 1..Len(log) : log'[k] = log[k]
    /\ Size' \in Nat /\ ((Content' = Content /\ Size' = Size) \/ Size < Size')


LEMMA SourceSteps == ASSUME IInv, [Next]_vars PROVE (file' = file /\ Grows) \/ Rotate
<1>0. TypeOK /\ FileType /\ Writing /\ Size \in Nat /\ Len(log) \in Nat
  BY TypeParts, SizeIsNat DEF IInv, FileType
<1>1. ASSUME \E r \in Requests : InsertRow(r) \/ AppendFails(r)
      PROVE  (file' = file /\ Grows) \/ Rotate
  <2>1. UNCHANGED <<log, tail, file>>
    BY <1>1 DEF InsertRow, AppendFails
  <2> QED
    BY <1>0, <2>1 DEF Size, Content, Grows
<1>2. ASSUME NEW r \in Requests, AppendBegins(r) PROVE (file' = file /\ Grows) \/ Rotate
  <2>1. log' = log /\ file' = file /\ tail' = tail + 1 /\ tail \in Nat
    BY <1>0, <1>2, Width DEF AppendBegins, FileType
  <2>2. SizeUpTo(Len(log)) \in Nat
    BY <1>0, SizesGrow
  <2> QED
    BY <1>0, <2>1, <2>2 DEF Size, Grows
<1>3. ASSUME NEW r \in Requests, AppendEnds(r) PROVE (file' = file /\ Grows) \/ Rotate
  <2>1. [req |-> r, good |-> tail = 1] \in Line
    BY DEF Line, Facts
  <2>2. /\ Len(log') = Len(log) + 1 /\ file' = file /\ tail' = 0
        /\ \A k \in 1..Len(log) : log'[k] = log[k]
    BY <1>0, <1>3, <2>1, Lines DEF AppendEnds, FileType
  <2>3. tail \in Nat /\ tail < Cardinality(Requests) + 2
    BY <1>0, Width DEF FileType
  <2>4. /\ SizeUpTo(Len(log)) \in Nat /\ SizeUpTo(Len(log) + 1) \in Nat
        /\ SizeUpTo(Len(log)) + Cardinality(Requests) + 2 <= SizeUpTo(Len(log) + 1)
    BY <1>0, SizesGrow
  <2>5. Size' = SizeUpTo(Len(log) + 1)
    BY <2>2, <2>4 DEF Size, SizeUpTo
  <2> QED
    BY <1>0, <2>2, <2>3, <2>4, <2>5, Width DEF Size, Grows
<1>5. ASSUME \E i \in Importers : Stat(i) \/ Hash(i) \/ Ensure(i) \/ Read(i) \/ Commit(i) \/ Conflict(i) \/ ImportFails(i)
      PROVE  (file' = file /\ Grows) \/ Rotate
  <2>1. UNCHANGED <<log, tail, file>>
    BY <1>5 DEF Stat, Hash, Ensure, Read, Commit, Conflict, ImportFails, Fails
  <2> QED
    BY <1>0, <2>1 DEF Size, Content, Grows
<1>11. ASSUME Rotate PROVE (file' = file /\ Grows) \/ Rotate
  BY <1>11
<1>12. ASSUME NEW i \in Importers, Crash(i) PROVE (file' = file /\ Grows) \/ Rotate
  <2>1. UNCHANGED <<log, tail, file>>
    BY <1>0, <1>12, CrashDoes
  <2> QED
    BY <1>0, <2>1 DEF Size, Content, Grows
<1>13. ASSUME UNCHANGED vars PROVE (file' = file /\ Grows) \/ Rotate
  <2>1. UNCHANGED <<log, tail, file>>
    BY <1>13 DEF vars
  <2> QED
    BY <1>0, <2>1 DEF Size, Content, Grows
<1> QED
  BY <1>1, <1>2, <1>3, <1>5, <1>11, <1>12, <1>13 DEF Next, Import

LEMMA StreamsStep == ASSUME IInv, [Next]_vars PROVE StreamsWithin'
<1>0. TypeOK /\ DbType /\ StreamsWithin /\ ImportsWithin /\ Len(log) \in Nat /\ file \in Nat
  BY TypeParts, SizeIsNat DEF IInv
<1>1. ASSUME \E r \in Requests : InsertRow(r) \/ AppendBegins(r) \/ AppendFails(r)
      PROVE  StreamsWithin'
  BY <1>0, <1>1 DEF InsertRow, Answered, AppendBegins, Races, AppendFails, StreamsWithin
<1>3. ASSUME NEW r \in Requests, AppendEnds(r) PROVE StreamsWithin'
  <2>1. file' = file /\ streams' = streams /\ Len(log) <= Len(log')
    <3>1. streams' = streams /\ file' = file
      BY <1>3 DEF AppendEnds
    <3> QED
      BY <1>0, <3>1, SourceSteps DEF Grows, Rotate
  <2>2. Len(log') \in Nat
    BY FileStep, Lines DEF FileType
  <2>3. \A g \in DOMAIN streams : streams[g].offset \in Nat
    BY <1>0, Types DEF DbType
  <2> QED
    BY <1>0, <2>1, <2>2, <2>3 DEF StreamsWithin
<1>5. ASSUME \E i \in Importers : Stat(i) \/ Hash(i) \/ Read(i) PROVE StreamsWithin'
  BY <1>0, <1>5 DEF Stat, Goto, Hash, Read, StreamsWithin
<1>7. ASSUME NEW i \in Importers, Ensure(i) PROVE StreamsWithin'
  <2>1. seen[i].gen \in Gen /\ seen[i].gen[1] = file
    BY <1>0, <1>7, HasGen DEF Ensure
  <2>2. /\ UNCHANGED <<log, file>> /\ DOMAIN streams' = DOMAIN streams \cup {seen[i].gen}
        /\ \A x \in DOMAIN streams : streams'[x] = streams[x]
        /\ seen[i].gen \notin DOMAIN streams => streams'[seen[i].gen].offset = 0
    <3>1. seen[i].gen \notin DOMAIN streams => streams'[seen[i].gen] =
             [offset |-> 0, size |-> seen[i].size, hash |-> seen[i].hash, completed |-> FALSE]
      BY <1>0, <1>7, <2>1, EnsureDoes
    <3>2. /\ UNCHANGED <<log, file>> /\ DOMAIN streams' = DOMAIN streams \cup {seen[i].gen}
          /\ \A x \in DOMAIN streams : streams'[x] = streams[x]
      BY <1>0, <1>7, <2>1, EnsureDoes
    <3> QED
      BY <3>1, <3>2
  <2> QED
    BY <1>0, <2>1, <2>2 DEF StreamsWithin
<1>9. ASSUME NEW i \in Importers, Commit(i) PROVE StreamsWithin'
  <2>1. seen[i].gen \in DOMAIN streams /\ seen[i].gen \in Gen /\ seen[i].gen[1] = file
    BY <1>0, <1>9, HasGen DEF Commit, ImportsWithin, Within
  <2>2. /\ UNCHANGED <<log, file>> /\ DOMAIN streams' = DOMAIN streams
        /\ \A x \in DOMAIN streams : x # seen[i].gen => streams'[x] = streams[x]
        /\ streams'[seen[i].gen].offset = seen[i].offset + seen[i].read
    BY <1>0, <1>9, <2>1, CommitDoes
  <2>3. seen[i].offset + seen[i].read <= Len(log)
    BY <1>0, <1>9 DEF Commit, ImportsWithin, Within
  <2> QED
    BY <1>0, <2>1, <2>2, <2>3 DEF StreamsWithin
<1>10. ASSUME NEW i \in Importers, Conflict(i) \/ ImportFails(i) PROVE StreamsWithin'
  BY <1>0, <1>10, FailDoes DEF StreamsWithin
<1>11. ASSUME Rotate PROVE StreamsWithin'
  <2>1. file' = file + 1 /\ streams' = streams
    BY <1>11 DEF Rotate
  <2>2. \A g \in DOMAIN streams : g[1] \in Nat /\ g[1] <= file
    BY <1>0, Types, LogAssumption DEF DbType, StreamsWithin
  <2> QED
    BY <1>0, <2>1, <2>2 DEF StreamsWithin
<1>12. ASSUME NEW i \in Importers, Crash(i) PROVE StreamsWithin'
  BY <1>0, <1>12, CrashDoes DEF StreamsWithin
<1>13. ASSUME UNCHANGED vars PROVE StreamsWithin'
  BY <1>0, <1>13 DEF vars, StreamsWithin
<1> QED
  BY <1>1, <1>3, <1>5, <1>7, <1>9, <1>10, <1>11, <1>12, <1>13 DEF Next, Import

\* An import that moves on alone leaves the others what they hold.
LEMMA OthersStay ==
    ASSUME ImportsWithin, NEW i \in Importers, Moves(i), UNCHANGED <<log, tail, file>>,
           DOMAIN streams \subseteq DOMAIN streams', Within(i)', Covers(i)'
    PROVE  ImportsWithin'
<1>1. \A j \in Importers : j # i => (Within(j) => Within(j)') /\ (Covers(j) => Covers(j)')
  <2>1. Size' = Size
    BY DEF Size
  <2> QED
    BY <2>1 DEF Moves, Within, Covers
<1> QED
  BY <1>1 DEF ImportsWithin

LEMMA ImportsStep == ASSUME IInv, [Next]_vars PROVE ImportsWithin'
<1>0. TypeOK /\ ImportType /\ ImportsWithin /\ StreamsWithin /\ Size \in Nat /\ Len(log) \in Nat /\ file \in Nat
  BY TypeParts, SizeIsNat DEF IInv
<1>1. ASSUME \E r \in Requests : InsertRow(r) \/ AppendBegins(r) \/ AppendEnds(r) \/ AppendFails(r)
      PROVE  ImportsWithin'
  <2>1. UNCHANGED <<pc, seen, streams, file>>
    BY <1>1 DEF InsertRow, AppendBegins, AppendEnds, AppendFails
  <2>2. Grows
    BY <1>0, <2>1, SourceSteps DEF Rotate
  <2>3. Len(log') \in Nat
    BY FileStep, Lines DEF FileType
  <2>4. \A j \in Importers : seen[j].size \in Nat /\ seen[j].offset \in Nat /\ seen[j].read \in Nat
    BY <1>0, SeenTypes, LogAssumption DEF ImportType
  <2>5. ASSUME NEW j \in Importers PROVE Within(j)' /\ Covers(j)'
    <3>1. Within(j) /\ Covers(j)
      BY <1>0 DEF ImportsWithin
    <3> QED
      BY <1>0, <2>1, <2>2, <2>3, <2>4, <3>1 DEF Within, Covers, Grows
  <2> QED
    BY <2>5 DEF ImportsWithin
<1>5. ASSUME NEW i \in Importers, Stat(i) PROVE ImportsWithin'
  <2>1. /\ Moves(i) /\ UNCHANGED <<log, tail, file, streams>>
        /\ pc'[i] \in {"done", "hash"} /\ seen'[i].size = Size /\ seen'[i].gen = <<file, None>>
    BY <1>0, <1>5, StatDoes
  <2>2. Size' = Size
    BY <2>1 DEF Size
  <2>3. Within(i)' /\ Covers(i)'
    BY <1>0, <2>1, <2>2 DEF Within, Covers
  <2> QED
    BY <1>0, <2>1, <2>3, OthersStay
<1>6. ASSUME NEW i \in Importers, Hash(i) PROVE ImportsWithin'
  <2>1. /\ Moves(i) /\ UNCHANGED <<log, tail, file, streams>> /\ pc[i] = "hash"
        /\ pc'[i] = "ensure" /\ seen'[i].size = seen[i].size /\ seen'[i].gen = seen[i].gen
    BY <1>0, <1>6, HashDoes
  <2>2. Size' = Size
    BY <2>1 DEF Size
  <2>3. Within(i)' /\ Covers(i)'
    BY <1>0, <2>1, <2>2 DEF ImportsWithin, Within, Covers
  <2> QED
    BY <1>0, <2>1, <2>3, OthersStay
<1>7. ASSUME NEW i \in Importers, Ensure(i) PROVE ImportsWithin'
  <2>1. seen[i].gen \in Gen /\ seen[i].gen[1] = file
    BY <1>0, <1>7, HasGen DEF Ensure
  <2>2. /\ Moves(i) /\ UNCHANGED <<log, tail, file>> /\ pc[i] = "ensure"
        /\ seen'[i].size = seen[i].size /\ DOMAIN streams' = DOMAIN streams \cup {seen[i].gen}
    BY <1>0, <1>7, <2>1, EnsureDoes
  <2>3. \/ pc'[i] = "ensure" /\ seen'[i].gen = <<seen[i].gen[1], seen[i].hash>>
        \/ /\ seen'[i].gen = seen[i].gen /\ seen'[i].offset = streams'[seen[i].gen].offset
           /\ pc'[i] \in {"read", "done"}
    BY <1>0, <1>7, <2>1, EnsureDoes
  <2>4. seen'[i].gen[1] = file /\ pc'[i] \in {"ensure", "read", "done"}
    BY <2>1, <2>3
  <2>5. seen[i].size <= Size /\ Size' = Size
    BY <1>0, <2>1, <2>2 DEF ImportsWithin, Within, Size
  <2>6. pc'[i] = "read" => seen'[i].gen \in DOMAIN streams' /\ seen'[i].offset <= Len(log)
    BY <2>1, <2>2, <2>3, StreamsStep DEF StreamsWithin
  <2>7. Within(i)' /\ Covers(i)'
    BY <1>0, <2>2, <2>4, <2>5, <2>6 DEF Within, Covers
  <2> QED
    BY <1>0, <2>2, <2>7, OthersStay
<1>8. ASSUME NEW i \in Importers, Read(i) PROVE ImportsWithin'
  <2>1. /\ Moves(i) /\ UNCHANGED <<log, tail, file, streams>> /\ pc[i] = "read" /\ pc'[i] = "commit"
        /\ seen'[i].size = seen[i].size /\ seen'[i].gen = seen[i].gen
        /\ seen'[i].offset = seen[i].offset
    BY <1>0, <1>8, ReadDoes
  <2>2. /\ seen[i].offset <= Len(log) /\ seen[i].gen \in DOMAIN streams /\ seen[i].gen[1] = file
        /\ seen[i].size <= Size
    BY <1>0, <2>1 DEF ImportsWithin, Within
  <2>3. /\ seen'[i].offset + seen'[i].read <= Len(log)
        /\ seen'[i].last # "no" => seen'[i].offset + seen'[i].read = Len(log)
    BY <1>0, <1>8, <2>2, ReadDoes
  <2>4. \A k \in Nat : SizeUpTo(k) <= seen[i].size => k <= Len(log)
    <3> SUFFICES ASSUME NEW k \in Nat, SizeUpTo(k) <= seen[i].size PROVE k <= Len(log)
      OBVIOUS
    <3>1. SizeUpTo(k) \in Nat /\ seen[i].size \in Nat
      BY <1>0, SizesGrow, SeenTypes DEF ImportType
    <3> QED
      BY <1>0, <2>2, <3>1, WithinLog
  <2>5. Size' = Size
    BY <2>1 DEF Size
  <2>6. Within(i)'
    BY <1>0, <2>1, <2>2, <2>3, <2>5 DEF Within
  <2>7. Covers(i)'
    BY <2>1, <2>3, <2>4 DEF Covers
  <2> QED
    BY <1>0, <2>1, <2>6, <2>7, OthersStay
<1>9. ASSUME NEW i \in Importers, Commit(i) PROVE ImportsWithin'
  <2>1. seen[i].gen \in DOMAIN streams /\ seen[i].gen \in Gen /\ seen[i].gen[1] = file
    BY <1>0, <1>9, HasGen DEF Commit, ImportsWithin, Within
  <2>2. /\ Moves(i) /\ UNCHANGED <<log, tail, file>> /\ DOMAIN streams' = DOMAIN streams
        /\ pc[i] = "commit" /\ pc'[i] \in {"read", "commit", "done"}
        /\ seen'[i].size = seen[i].size /\ seen'[i].gen = seen[i].gen /\ seen'[i].last = seen[i].last
        /\ seen'[i].offset = seen[i].offset + seen[i].read /\ seen'[i].read = 0
    BY <1>0, <1>9, <2>1, CommitDoes
  <2>3. /\ seen[i].offset \in Nat /\ seen[i].read \in Nat /\ seen[i].size <= Size
        /\ seen[i].offset + seen[i].read <= Len(log)
    BY <1>0, <2>1, <2>2, SeenTypes, LogAssumption DEF ImportType, ImportsWithin, Within
  <2>4. Size' = Size
    BY <2>2 DEF Size
  <2>5. Within(i)'
    BY <1>0, <2>1, <2>2, <2>3, <2>4 DEF Within
  <2>6. seen'[i].offset + seen'[i].read = seen[i].offset + seen[i].read
    BY <2>2, <2>3
  <2>7. Covers(i)'
    BY <1>0, <2>2, <2>6 DEF ImportsWithin, Covers
  <2> QED
    BY <1>0, <2>2, <2>5, <2>7, OthersStay
<1>10. ASSUME NEW i \in Importers, Conflict(i) \/ ImportFails(i) PROVE ImportsWithin'
  <2>1. /\ Moves(i) /\ UNCHANGED <<log, tail, file>> /\ DOMAIN streams \subseteq DOMAIN streams'
        /\ pc'[i] \in {"idle", "failed"}
    BY <1>0, <1>10, FailDoes
  <2>2. Within(i)' /\ Covers(i)'
    BY <2>1 DEF Within, Covers
  <2> QED
    BY <1>0, <2>1, <2>2, OthersStay
<1>11. ASSUME Rotate PROVE ImportsWithin'
  <2>1. /\ file' = file + 1 /\ UNCHANGED <<pc, seen>>
        /\ \A j \in Importers : pc[j] \in Ended
    BY <1>11 DEF Rotate
  <2>2. \A j \in Importers : seen[j].gen[1] \in Nat
    BY <1>0, SeenTypes, LogAssumption DEF ImportType
  <2> QED
    BY <1>0, <2>1, <2>2 DEF ImportsWithin, Within, Covers
<1>12. ASSUME NEW i \in Importers, Crash(i) PROVE ImportsWithin'
  <2>1. /\ Moves(i) /\ UNCHANGED <<log, tail, file>> /\ DOMAIN streams \subseteq DOMAIN streams'
        /\ pc'[i] \in {"idle", "failed"}
    BY <1>0, <1>12, CrashDoes
  <2>2. Within(i)' /\ Covers(i)'
    BY <2>1 DEF Within, Covers
  <2> QED
    BY <1>0, <2>1, <2>2, OthersStay
<1>13. ASSUME UNCHANGED vars PROVE ImportsWithin'
  BY <1>0, <1>13 DEF vars, ImportsWithin, Within, Covers, Size
<1> QED
  BY <1>1, <1>5, <1>6, <1>7, <1>8, <1>9, <1>10, <1>11, <1>12, <1>13 DEF Next, Import

LEMMA SkippedStep == ASSUME IInv, [Next]_vars PROVE NothingSkipped'
<1>0. TypeOK /\ DbType /\ ImportType /\ StreamsWithin /\ ImportsWithin /\ NothingSkipped /\ Len(log) \in Nat /\ file \in Nat
  BY TypeParts, SizeIsNat DEF IInv
<1>1. ASSUME NEW r \in Requests, InsertRow(r) PROVE NothingSkipped'
  <2>1. UNCHANGED <<log, file, streams>> /\ rows \subseteq rows'
    BY <1>1 DEF InsertRow
  <2> QED
    BY <1>0, <2>1 DEF NothingSkipped, HasRow
<1>2. ASSUME \E r \in Requests : AppendBegins(r) \/ AppendFails(r) PROVE NothingSkipped'
  BY <1>0, <1>2 DEF AppendBegins, Answered, Races, AppendFails, NothingSkipped, HasRow
<1>3. ASSUME NEW r \in Requests, AppendEnds(r) PROVE NothingSkipped'
  <2>1. UNCHANGED <<file, streams, rows>> /\ Len(log') = Len(log) + 1
    BY <1>0, <1>3 DEF AppendEnds
  <2>2. Grows
    BY <1>0, <2>1, SourceSteps DEF Rotate
  <2>3. \A g \in DOMAIN streams : streams[g].offset \in Nat /\ (g[1] = file => streams[g].offset <= Len(log))
    BY <1>0, Types DEF DbType, StreamsWithin
  <2> QED
    BY <1>0, <2>1, <2>2, <2>3 DEF NothingSkipped, HasRow, Grows
<1>5. ASSUME \E i \in Importers : Stat(i) \/ Hash(i) \/ Read(i) PROVE NothingSkipped'
  BY <1>0, <1>5 DEF Stat, Goto, Hash, Read, NothingSkipped, HasRow
<1>7. ASSUME NEW i \in Importers, Ensure(i) PROVE NothingSkipped'
  <2>1. seen[i].gen \in Gen /\ seen[i].gen[1] = file
    BY <1>0, <1>7, HasGen DEF Ensure
  <2>2. /\ UNCHANGED <<log, file, rows>> /\ DOMAIN streams' = DOMAIN streams \cup {seen[i].gen}
        /\ \A x \in DOMAIN streams : streams'[x] = streams[x]
    BY <1>0, <1>7, <2>1, EnsureDoes
  <2>3. seen[i].gen \notin DOMAIN streams => streams'[seen[i].gen].offset = 0
    <3>1. seen[i].gen \notin DOMAIN streams => streams'[seen[i].gen] =
             [offset |-> 0, size |-> seen[i].size, hash |-> seen[i].hash, completed |-> FALSE]
      BY <1>0, <1>7, <2>1, EnsureDoes
    <3> QED
      BY <3>1
  <2> QED
    BY <1>0, <2>2, <2>3 DEF NothingSkipped, HasRow
<1>9. ASSUME NEW i \in Importers, Commit(i) PROVE NothingSkipped'
  <2>1. seen[i].gen \in DOMAIN streams /\ seen[i].gen \in Gen /\ seen[i].gen[1] = file
    BY <1>0, <1>9, HasGen DEF Commit, ImportsWithin, Within
  <2>2. /\ UNCHANGED <<log, file>> /\ DOMAIN streams' = DOMAIN streams
        /\ rows' = rows \cup RowsOf(i) /\ Commits(i)
        /\ \A x \in DOMAIN streams : x # seen[i].gen => streams'[x] = streams[x]
        /\ streams'[seen[i].gen].offset = seen[i].offset + seen[i].read
    BY <1>0, <1>9, <2>1, CommitDoes
  <2>3. seen[i].offset \in Nat /\ seen[i].read \in Nat /\ streams[seen[i].gen].offset = seen[i].offset
    BY <1>0, <2>2, SeenTypes, LogAssumption DEF ImportType, Commits
  <2>4. ASSUME NEW k \in 1..Len(log), k <= seen[i].offset + seen[i].read, log[k].good
        PROVE  \E row \in rows' : row.req = log[k].req
    <3>1. CASE k <= seen[i].offset
      BY <1>0, <2>1, <2>2, <2>3, <2>4, <3>1 DEF NothingSkipped, HasRow
    <3>2. CASE seen[i].offset < k /\ [req |-> log[k].req, gen |-> Live, offset |-> 0] \in rows
      BY <2>2, <3>2
    <3>3. CASE seen[i].offset < k /\ [req |-> log[k].req, gen |-> Live, offset |-> 0] \notin rows
      <4>1. k \in (seen[i].offset + 1)..(seen[i].offset + seen[i].read) /\ k <= Len(log)
        BY <1>0, <2>3, <2>4, <3>3
      <4>2. [req |-> log[k].req, gen |-> seen[i].gen, offset |-> k] \in RowsOf(i)
        BY <2>4, <3>3, <4>1 DEF RowsOf
      <4> QED
        BY <2>2, <4>2
    <3> QED
      BY <1>0, <2>3, <2>4, <3>1, <3>2, <3>3
  <2> QED
    BY <1>0, <2>1, <2>2, <2>4 DEF NothingSkipped, HasRow
<1>10. ASSUME NEW i \in Importers, Conflict(i) \/ ImportFails(i) PROVE NothingSkipped'
  <2>1. /\ UNCHANGED <<log, file, rows>> /\ DOMAIN streams' = DOMAIN streams
        /\ \A x \in DOMAIN streams : streams'[x].offset = streams[x].offset
    BY <1>0, <1>10, FailDoes
  <2> QED
    BY <1>0, <2>1 DEF NothingSkipped, HasRow
<1>11. ASSUME Rotate PROVE NothingSkipped'
  <2>1. file' = file + 1 /\ streams' = streams
    BY <1>11 DEF Rotate
  <2>2. \A g \in DOMAIN streams : g[1] \in Nat /\ g[1] <= file
    BY <1>0, Types, LogAssumption DEF DbType, StreamsWithin
  <2> QED
    BY <1>0, <2>1, <2>2 DEF NothingSkipped
<1>12. ASSUME NEW i \in Importers, Crash(i) PROVE NothingSkipped'
  <2>1. UNCHANGED <<log, file, streams, rows>>
    BY <1>0, <1>12, CrashDoes
  <2> QED
    BY <1>0, <2>1 DEF NothingSkipped, HasRow
<1>13. ASSUME UNCHANGED vars PROVE NothingSkipped'
  BY <1>0, <1>13 DEF vars, NothingSkipped, HasRow
<1> QED
  BY <1>1, <1>2, <1>3, <1>5, <1>7, <1>9, <1>10, <1>11, <1>12, <1>13 DEF Next, Import

\* What the imports that ended cover does not depend on the others.
LEMMA OthersCover ==
    ASSUME DoneCovers, NEW i \in Importers, Moves(i), UNCHANGED <<log, file>>, rows \subseteq rows',
           pc'[i] = "done" /\ seen'[i].gen[1] = file =>
              \A k \in 1..Len(log) : SizeUpTo(k) <= seen'[i].size /\ log[k].good => HasRow(log[k].req)'
    PROVE  DoneCovers'
  BY DEF DoneCovers, HasRow, Moves

LEMMA CoverStep == ASSUME IInv, [Next]_vars PROVE DoneCovers'
<1>0. TypeOK /\ DbType /\ ImportType /\ ImportsWithin /\ DoneCovers /\ Size \in Nat /\ Len(log) \in Nat /\ file \in Nat
  BY TypeParts, SizeIsNat DEF IInv
<1>1. ASSUME NEW r \in Requests, InsertRow(r) PROVE DoneCovers'
  <2>1. UNCHANGED <<log, file, pc, seen>> /\ rows \subseteq rows'
    BY <1>1 DEF InsertRow
  <2> QED
    BY <1>0, <2>1 DEF DoneCovers, HasRow
<1>2. ASSUME \E r \in Requests : AppendBegins(r) \/ AppendFails(r) PROVE DoneCovers'
  BY <1>0, <1>2 DEF AppendBegins, Answered, Races, AppendFails, DoneCovers, HasRow
<1>3. ASSUME NEW r \in Requests, AppendEnds(r) PROVE DoneCovers'
  <2>1. UNCHANGED <<file, pc, seen, rows>> /\ Len(log') = Len(log) + 1
    BY <1>0, <1>3 DEF AppendEnds
  <2>2. Grows
    BY <1>0, <2>1, SourceSteps DEF Rotate
  <2>3. ASSUME NEW j \in Importers, pc[j] = "done", seen[j].gen[1] = file,
               NEW k \in 1..Len(log'), SizeUpTo(k) <= seen[j].size
        PROVE  k \in 1..Len(log)
    <3>1. k \in Nat /\ seen[j].size \in Nat /\ seen[j].size <= Size
      BY <1>0, <2>1, <2>3, SeenTypes DEF ImportType, ImportsWithin, Within
    <3>2. SizeUpTo(k) \in Nat
      BY <3>1, SizesGrow
    <3>3. k <= Len(log)
      BY <1>0, <2>3, <3>1, <3>2, WithinLog
    <3> QED
      BY <1>0, <2>3, <3>3
  <2> QED
    BY <1>0, <2>1, <2>2, <2>3 DEF DoneCovers, HasRow, Grows
<1>5. ASSUME NEW i \in Importers, Stat(i) PROVE DoneCovers'
  <2>1. /\ Moves(i) /\ UNCHANGED <<log, file, rows>> /\ seen'[i].size = Size
        /\ pc'[i] = IF Size = 0 THEN "done" ELSE "hash"
    BY <1>0, <1>5, StatDoes
  <2>2. \A k \in 1..Len(log) : SizeUpTo(k) \in Nat /\ 0 < SizeUpTo(k)
    <3> SUFFICES ASSUME NEW k \in 1..Len(log) PROVE SizeUpTo(k) \in Nat /\ 0 < SizeUpTo(k)
      OBVIOUS
    <3>1. SizeUpTo(k) \in Nat /\ SizeUpTo(0) + Cardinality(Requests) + 2 <= SizeUpTo(k) /\ SizeUpTo(0) = 0
      BY <1>0, SizesGrow
    <3> QED
      BY <3>1, Width
  <2> QED
    BY <1>0, <2>1, <2>2, OthersCover
<1>6. ASSUME NEW i \in Importers, Hash(i) PROVE DoneCovers'
  <2>1. Moves(i) /\ UNCHANGED <<log, file, rows>> /\ pc'[i] # "done"
    BY <1>0, <1>6, HashDoes
  <2> QED
    BY <1>0, <2>1, OthersCover
<1>7. ASSUME NEW i \in Importers, Ensure(i) PROVE DoneCovers'
  <2>1. seen[i].gen \in Gen /\ seen[i].gen[1] = file
    BY <1>0, <1>7, HasGen DEF Ensure
  <2>2. Moves(i) /\ UNCHANGED <<log, file, rows>> /\ seen'[i].size = seen[i].size
    BY <1>0, <1>7, <2>1, EnsureDoes
  <2>3. pc'[i] = "done" => /\ seen'[i].gen = seen[i].gen
                           /\ SizeUpTo(streams'[seen[i].gen].offset) >= seen[i].size
    BY <1>0, <1>7, <2>1, EnsureDoes
  <2>4. seen[i].gen \in DOMAIN streams' /\ streams'[seen[i].gen].offset \in Nat
    <3>1. DOMAIN streams' = DOMAIN streams \cup {seen[i].gen} /\ streams' \in [DOMAIN streams' -> Progress]
      BY <1>0, <1>7, <2>1, EnsureDoes
    <3> QED
      BY <3>1, Types
  <2>5. ASSUME pc'[i] = "done", NEW k \in 1..Len(log), SizeUpTo(k) <= seen[i].size, log[k].good
        PROVE  HasRow(log[k].req)'
    <3> DEFINE n == streams'[seen[i].gen].offset
    <3>1. SizeUpTo(k) \in Nat /\ SizeUpTo(n) \in Nat /\ seen[i].size \in Nat
      BY <1>0, <2>4, SizesGrow, SeenTypes, Width DEF ImportType
    <3>2. n < k => SizeUpTo(n) + Cardinality(Requests) + 2 <= SizeUpTo(k)
      BY <2>4, SizesGrow
    <3>3. k <= n
      <4> HIDE DEF n
      <4> QED
        BY <1>0, <2>3, <2>4, <2>5, <3>1, <3>2, Width DEF n
    <3> QED
      BY <2>1, <2>2, <2>4, <2>5, <3>3, SkippedStep DEF NothingSkipped
  <2> QED
    BY <1>0, <2>2, <2>5, OthersCover
<1>8. ASSUME NEW i \in Importers, Read(i) PROVE DoneCovers'
  <2>1. Moves(i) /\ UNCHANGED <<log, file, rows>> /\ pc'[i] # "done"
    BY <1>0, <1>8, ReadDoes
  <2> QED
    BY <1>0, <2>1, OthersCover
<1>9. ASSUME NEW i \in Importers, Commit(i) PROVE DoneCovers'
  <2>1. seen[i].gen \in DOMAIN streams /\ seen[i].gen \in Gen /\ seen[i].gen[1] = file
    BY <1>0, <1>9, HasGen DEF Commit, ImportsWithin, Within
  <2>2. /\ Moves(i) /\ UNCHANGED <<log, file>> /\ rows \subseteq rows'
        /\ pc[i] = "commit" /\ (pc'[i] = "done" => seen[i].last # "no")
        /\ seen'[i].size = seen[i].size /\ seen'[i].gen = seen[i].gen
        /\ DOMAIN streams' = DOMAIN streams
        /\ streams'[seen[i].gen].offset = seen[i].offset + seen[i].read
    BY <1>0, <1>9, <2>1, CommitDoes
  <2>3. ASSUME pc'[i] = "done", NEW k \in 1..Len(log), SizeUpTo(k) <= seen[i].size, log[k].good
        PROVE  HasRow(log[k].req)'
    <3>1. k <= seen[i].offset + seen[i].read
      BY <1>0, <2>2, <2>3 DEF ImportsWithin, Covers
    <3> QED
      BY <2>1, <2>2, <2>3, <3>1, SkippedStep DEF NothingSkipped
  <2> QED
    BY <1>0, <2>2, <2>3, OthersCover
<1>10. ASSUME NEW i \in Importers, Conflict(i) \/ ImportFails(i) PROVE DoneCovers'
  <2>1. Moves(i) /\ UNCHANGED <<log, file, rows>> /\ pc'[i] # "done"
    BY <1>0, <1>10, FailDoes
  <2> QED
    BY <1>0, <2>1, OthersCover
<1>11. ASSUME Rotate PROVE DoneCovers'
  <2>1. file' = file + 1 /\ UNCHANGED <<pc, seen>>
    BY <1>11 DEF Rotate
  <2>2. \A j \in Importers : seen[j].gen[1] \in Nat /\ (pc[j] = "done" => seen[j].gen[1] <= file)
    BY <1>0, SeenTypes, LogAssumption DEF ImportType, ImportsWithin, Within
  <2> QED
    BY <1>0, <2>1, <2>2 DEF DoneCovers
<1>12. ASSUME NEW i \in Importers, Crash(i) PROVE DoneCovers'
  <2>1. Moves(i) /\ UNCHANGED <<log, file, rows>> /\ pc'[i] # "done"
    BY <1>0, <1>12, CrashDoes
  <2> QED
    BY <1>0, <2>1, OthersCover
<1>13. ASSUME UNCHANGED vars PROVE DoneCovers'
  BY <1>0, <1>13 DEF vars, DoneCovers, HasRow
<1> QED
  BY <1>1, <1>2, <1>3, <1>5, <1>6, <1>7, <1>8, <1>9, <1>10, <1>11, <1>12, <1>13 DEF Next, Import

\* The two parts of NeverReplaced that one stream and one import have.
OneStream(g) == g[2] = None /\ (g[1] = file => OneState(streams[g].size, streams[g].hash))

OneImport(i) ==
    /\ pc[i] \in Busy => seen[i].gen[2] = None
    /\ pc[i] \in {"hash", "ensure"} => seen[i].size = Size
    /\ pc[i] = "ensure" => seen[i].hash = Content
    /\ pc[i] \in {"read", "commit"} => OneState(seen[i].size, seen[i].hash)

OneStates == (\A g \in DOMAIN streams : OneStream(g)) /\ (\A i \in Importers : OneImport(i))

LEMMA NeverReplacedParts == NeverReplaced <=> (~raced /\ ~mismarked => OneStates)
  BY DEF NeverReplaced, OneStates, OneStream, OneImport

\* The causes stay.
LEMMA CausesStay == ASSUME IInv, [Next]_vars PROVE (raced => raced') /\ (mismarked => mismarked')
<1>1. TypeOK
  BY DEF IInv
<1>2. ASSUME NEW r \in Requests, InsertRow(r) \/ AppendBegins(r) \/ AppendEnds(r) \/ AppendFails(r)
      PROVE  (raced => raced') /\ (mismarked => mismarked')
  <2>1. raced' = raced \/ raced' = (raced \/ \E i \in Importers : pc[i] \in {"hash", "ensure"})
    BY <1>2 DEF InsertRow, AppendBegins, AppendEnds, AppendFails, Races
  <2>2. mismarked' = mismarked
    BY <1>2 DEF InsertRow, AppendBegins, AppendEnds, AppendFails, Races
  <2>3. raced \in BOOLEAN
    BY <1>1 DEF TypeOK
  <2>4. ASSUME raced PROVE raced'
    BY <2>1, <2>3, <2>4
  <2> QED
    BY <2>2, <2>4
<1>3. ASSUME NEW i \in Importers, Stat(i) \/ Hash(i) \/ Ensure(i) \/ Read(i) \/ Commit(i)
      PROVE  (raced => raced') /\ (mismarked => mismarked')
  BY <1>3 DEF Stat, Hash, Ensure, Read, Commit
<1>4. ASSUME NEW i \in Importers, Conflict(i) \/ ImportFails(i)
      PROVE  (raced => raced') /\ (mismarked => mismarked')
  BY <1>1, <1>4, FailDoes
<1>5. ASSUME NEW i \in Importers, Crash(i)
      PROVE  (raced => raced') /\ (mismarked => mismarked')
  BY <1>1, <1>5, CrashDoes
<1>6. ASSUME Rotate PROVE (raced => raced') /\ (mismarked => mismarked')
  BY <1>6 DEF Rotate
<1>7. ASSUME UNCHANGED vars PROVE (raced => raced') /\ (mismarked => mismarked')
  BY <1>7 DEF vars
<1> QED
  BY <1>2, <1>3, <1>4, <1>5, <1>6, <1>7 DEF Next, Import

\* An import that moves on alone leaves the others as they are.
LEMMA OthersOneState ==
    ASSUME NEW i \in Importers, Moves(i), UNCHANGED <<log, tail, file>>,
           \A j \in Importers : OneImport(j), OneImport(i)'
    PROVE  \A j \in Importers : OneImport(j)'
<1>1. Size' = Size /\ Content' = Content
  BY DEF Size, Content
<1>2. \A j \in Importers : j # i => OneImport(j)'
  BY <1>1 DEF Moves, OneImport, OneState
<1> QED
  BY <1>2

\* So does an import that leaves the streams alone, too.
LEMMA SameStreams ==
    ASSUME UNCHANGED <<log, tail, file, streams>>, \A g \in DOMAIN streams : OneStream(g)
    PROVE  \A g \in DOMAIN streams' : OneStream(g)'
<1>1. Size' = Size /\ Content' = Content
  BY DEF Size, Content
<1> QED
  BY <1>1 DEF OneStream, OneState

LEMMA OneStateStep == ASSUME IInv, [Next]_vars, ~raced', ~mismarked' PROVE OneStates'
<1>0. TypeOK /\ FileType /\ DbType /\ ImportType /\ StreamsWithin /\ ImportsWithin /\ OneStates /\ ~raced' /\ ~mismarked' /\ Size \in Nat /\ Len(log) \in Nat /\ file \in Nat
  BY CausesStay, NeverReplacedParts, TypeParts, SizeIsNat DEF IInv
<1>1. ASSUME \E r \in Requests : InsertRow(r) \/ AppendFails(r) PROVE OneStates'
  <2>1. UNCHANGED <<log, tail, file, streams, pc, seen>>
    BY <1>1 DEF InsertRow, AppendFails
  <2>2. Size' = Size /\ Content' = Content
    BY <2>1 DEF Size, Content
  <2> QED
    BY <1>0, <2>1, <2>2 DEF OneStates, OneStream, OneImport, OneState
<1>2. ASSUME NEW r \in Requests, AppendBegins(r) PROVE OneStates'
  <2>1. UNCHANGED <<file, streams, pc, seen>>
    BY <1>2 DEF AppendBegins
  <2>2. Size < Size' /\ \A j \in Importers : pc[j] \notin {"hash", "ensure"}
    <3>1. raced' = (raced \/ \E j \in Importers : pc[j] \in {"hash", "ensure"})
      BY <1>2 DEF AppendBegins, Races
    <3>2. Size < Size'
      <4>1. tail' # tail /\ file' = file
        BY <1>0, <1>2, Width DEF AppendBegins, FileType
      <4> QED
        BY <1>0, <4>1, SourceSteps DEF Grows, Content, Rotate
    <3> QED
      BY <1>0, <3>1, <3>2
  <2>3. \A g \in DOMAIN streams : streams[g].size \in Nat
    BY <1>0, Types DEF DbType
  <2>4. \A j \in Importers : seen[j].size \in Nat
    BY <1>0, SeenTypes DEF ImportType
  <2>5. Size' \in Nat
    BY <1>0, <2>1, SourceSteps DEF Grows, Rotate
  <2>6. ASSUME NEW size \in Nat, NEW h, OneState(size, h) PROVE OneState(size, h)'
    BY <1>0, <2>2, <2>5, <2>6 DEF OneState
  <2>7. \A g \in DOMAIN streams : OneStream(g)'
    BY <1>0, <2>1, <2>3, <2>6 DEF OneStates, OneStream
  <2>8. \A j \in Importers : OneImport(j)'
    BY <1>0, <2>1, <2>2, <2>4, <2>6 DEF OneStates, OneImport
  <2> QED
    BY <2>1, <2>7, <2>8 DEF OneStates
<1>3. ASSUME NEW r \in Requests, AppendEnds(r) PROVE OneStates'
  <2>1. UNCHANGED <<file, streams, pc, seen>>
    BY <1>3 DEF AppendEnds
  <2>2. Size < Size' /\ \A j \in Importers : pc[j] \notin {"hash", "ensure"}
    <3>1. raced' = (raced \/ \E j \in Importers : pc[j] \in {"hash", "ensure"})
      BY <1>3 DEF AppendEnds, Races
    <3>2. Size < Size'
      <4>1. Len(log') # Len(log) /\ file' = file
        BY <1>0, <1>3 DEF AppendEnds, FileType
      <4> QED
        BY <1>0, <4>1, SourceSteps DEF Grows, Content, Rotate
    <3> QED
      BY <1>0, <3>1, <3>2
  <2>3. \A g \in DOMAIN streams : streams[g].size \in Nat
    BY <1>0, Types DEF DbType
  <2>4. \A j \in Importers : seen[j].size \in Nat
    BY <1>0, SeenTypes DEF ImportType
  <2>5. Size' \in Nat
    BY <1>0, <2>1, SourceSteps DEF Grows, Rotate
  <2>6. ASSUME NEW size \in Nat, NEW h, OneState(size, h) PROVE OneState(size, h)'
    BY <1>0, <2>2, <2>5, <2>6 DEF OneState
  <2>7. \A g \in DOMAIN streams : OneStream(g)'
    BY <1>0, <2>1, <2>3, <2>6 DEF OneStates, OneStream
  <2>8. \A j \in Importers : OneImport(j)'
    BY <1>0, <2>1, <2>2, <2>4, <2>6 DEF OneStates, OneImport
  <2> QED
    BY <2>1, <2>7, <2>8 DEF OneStates
<1>5. ASSUME NEW i \in Importers, Stat(i) PROVE OneStates'
  <2>1. /\ Moves(i) /\ UNCHANGED <<log, tail, file, streams>>
        /\ pc'[i] \in {"done", "hash"} /\ seen'[i].size = Size /\ seen'[i].gen = <<file, None>>
    BY <1>0, <1>5, StatDoes
  <2>2. Size' = Size
    BY <2>1 DEF Size
  <2>3. OneImport(i)'
    BY <2>1, <2>2 DEF OneImport
  <2> QED
    BY <1>0, <2>1, <2>3, OthersOneState, SameStreams DEF OneStates
<1>6. ASSUME NEW i \in Importers, Hash(i) PROVE OneStates'
  <2>1. /\ Moves(i) /\ UNCHANGED <<log, tail, file, streams>> /\ pc[i] = "hash" /\ pc'[i] = "ensure"
        /\ seen'[i].size = seen[i].size /\ seen'[i].gen = seen[i].gen /\ seen'[i].hash = Content
    BY <1>0, <1>6, HashDoes
  <2>2. Size' = Size /\ Content' = Content
    BY <2>1 DEF Size, Content
  <2>3. OneImport(i)'
    BY <1>0, <2>1, <2>2 DEF OneStates, OneImport
  <2> QED
    BY <1>0, <2>1, <2>3, OthersOneState, SameStreams DEF OneStates
<1>7. ASSUME NEW i \in Importers, Ensure(i) PROVE OneStates'
  <2>1. seen[i].gen \in Gen /\ seen[i].gen[1] = file
    BY <1>0, <1>7, HasGen DEF Ensure
  <2> DEFINE g == seen[i].gen
  <2>2. /\ Moves(i) /\ UNCHANGED <<log, tail, file>> /\ pc[i] = "ensure"
        /\ seen'[i].size = seen[i].size /\ seen'[i].hash = seen[i].hash
        /\ DOMAIN streams' = DOMAIN streams \cup {g}
        /\ \A x \in DOMAIN streams : streams'[x] = streams[x]
    BY <1>0, <1>7, <2>1, EnsureDoes
  <2>3. \/ Replaced(i, streams'[g])
        \/ seen'[i].gen = g /\ pc'[i] \in {"read", "done"}
    BY <1>0, <1>7, <2>1, EnsureDoes
  <2>4. g \notin DOMAIN streams =>
           streams'[g] = [offset |-> 0, size |-> seen[i].size, hash |-> seen[i].hash, completed |-> FALSE]
    BY <1>0, <1>7, <2>1, EnsureDoes
  <2>5. /\ Size' = Size /\ Content' = Content
        /\ g[2] = None /\ seen[i].size = Size /\ seen[i].hash = Content
    BY <1>0, <2>2 DEF OneStates, OneImport, Size, Content
  <2>6. OneState(streams'[g].size, streams'[g].hash) /\ streams'[g].offset \in Nat /\ streams'[g].offset <= Len(log)
    <3>1. CASE g \in DOMAIN streams
      BY <1>0, <2>1, <2>2, <3>1, Types DEF OneStates, OneStream, StreamsWithin, DbType
    <3>2. CASE g \notin DOMAIN streams
      <4>1. streams'[g].size = Size /\ streams'[g].hash = Content /\ streams'[g].offset = 0
        BY <2>4, <2>5, <3>2
      <4> QED
        BY <1>0, <4>1 DEF OneState
    <3> QED
      BY <3>1, <3>2
  <2>7. ~Replaced(i, streams'[g])
    <3> DEFINE n == streams'[g].offset
    <3>1. SizeUpTo(n) \in Nat /\ SizeUpTo(n) <= SizeUpTo(Len(log)) /\ SizeUpTo(Len(log)) \in Nat
      <4> HIDE DEF n
      <4> QED
        BY <1>0, <2>6, SizesGrow DEF n
    <3>2. tail \in Nat
      BY <1>0, Width DEF FileType
    <3>3. SizeUpTo(n) <= Size
      BY <3>1, <3>2 DEF Size
    <3>4. ~(SizeUpTo(n) > seen[i].size)
      BY <1>0, <2>5, <3>1, <3>3
    <3> QED
      BY <2>5, <2>6, <3>4 DEF Replaced, OneState
  <2> HIDE DEF g
  <2>8. \A x \in DOMAIN streams' : OneStream(x)'
    BY <1>0, <2>2, <2>5, <2>6 DEF OneStates, OneStream, OneState
  <2>9. OneImport(i)'
    <3>1. seen'[i].size = Size' /\ seen'[i].hash = Content' /\ Size' \in Nat
      BY <1>0, <2>2, <2>5
    <3> QED
      BY <2>3, <2>5, <2>7, <3>1 DEF OneImport, OneState
  <2> QED
    BY <1>0, <2>2, <2>8, <2>9, OthersOneState DEF OneStates
<1>8. ASSUME NEW i \in Importers, Read(i) PROVE OneStates'
  <2>1. /\ Moves(i) /\ UNCHANGED <<log, tail, file, streams>> /\ pc[i] = "read" /\ pc'[i] = "commit"
        /\ seen'[i].size = seen[i].size /\ seen'[i].gen = seen[i].gen /\ seen'[i].hash = seen[i].hash
    BY <1>0, <1>8, ReadDoes
  <2>2. Size' = Size /\ Content' = Content
    BY <2>1 DEF Size, Content
  <2>3. OneImport(i)'
    BY <1>0, <2>1, <2>2 DEF OneStates, OneImport, OneState
  <2> QED
    BY <1>0, <2>1, <2>3, OthersOneState, SameStreams DEF OneStates
<1>9. ASSUME NEW i \in Importers, Commit(i) PROVE OneStates'
  <2>1. seen[i].gen \in DOMAIN streams /\ seen[i].gen \in Gen /\ seen[i].gen[1] = file
    BY <1>0, <1>9, HasGen DEF Commit, ImportsWithin, Within
  <2>2. /\ Moves(i) /\ UNCHANGED <<log, tail, file>> /\ pc[i] = "commit"
        /\ pc'[i] \in {"read", "commit", "done"}
        /\ seen'[i].size = seen[i].size /\ seen'[i].gen = seen[i].gen /\ seen'[i].hash = seen[i].hash
        /\ DOMAIN streams' = DOMAIN streams
        /\ \A x \in DOMAIN streams : x # seen[i].gen => streams'[x] = streams[x]
        /\ streams'[seen[i].gen].size = seen[i].size /\ streams'[seen[i].gen].hash = seen[i].hash
    BY <1>0, <1>9, <2>1, CommitDoes
  <2>3. Size' = Size /\ Content' = Content
    BY <2>2 DEF Size, Content
  <2>4. OneImport(i)'
    BY <1>0, <2>2, <2>3 DEF OneStates, OneImport, OneState
  <2>5. \A x \in DOMAIN streams' : OneStream(x)'
    <3>1. OneState(seen[i].size, seen[i].hash) /\ seen[i].gen[2] = None
      BY <1>0, <2>2 DEF OneStates, OneImport
    <3> QED
      BY <1>0, <2>2, <2>3, <3>1 DEF OneStates, OneStream, OneState
  <2> QED
    BY <1>0, <2>2, <2>4, <2>5, OthersOneState DEF OneStates
<1>10. ASSUME NEW i \in Importers, Conflict(i) \/ ImportFails(i) PROVE OneStates'
  <2>1. /\ Moves(i) /\ UNCHANGED <<log, tail, file>> /\ pc'[i] = "failed" /\ DOMAIN streams' = DOMAIN streams
        /\ \A x \in DOMAIN streams : streams'[x].hash = streams[x].hash /\ streams'[x].size = streams[x].size
    BY <1>0, <1>10, FailDoes
  <2>2. Size' = Size /\ Content' = Content
    BY <2>1 DEF Size, Content
  <2>3. OneImport(i)'
    BY <2>1 DEF OneImport
  <2>4. \A x \in DOMAIN streams' : OneStream(x)'
    BY <1>0, <2>1, <2>2 DEF OneStates, OneStream, OneState
  <2> QED
    BY <1>0, <2>1, <2>3, <2>4, OthersOneState DEF OneStates
<1>11. ASSUME Rotate PROVE OneStates'
  <2>1. /\ file' = file + 1 /\ UNCHANGED <<pc, seen, streams>>
        /\ \A j \in Importers : pc[j] \in Ended
    BY <1>11 DEF Rotate
  <2>2. \A g \in DOMAIN streams : g[1] \in Nat /\ g[1] <= file
    BY <1>0, Types, LogAssumption DEF DbType, StreamsWithin
  <2>3. \A g \in DOMAIN streams' : OneStream(g)'
    BY <1>0, <2>1, <2>2 DEF OneStates, OneStream
  <2>4. \A j \in Importers : OneImport(j)'
    BY <2>1 DEF OneImport
  <2> QED
    BY <2>3, <2>4 DEF OneStates
<1>12. ASSUME NEW i \in Importers, Crash(i) PROVE OneStates'
  <2>1. Moves(i) /\ UNCHANGED <<log, tail, file, streams>> /\ pc'[i] \in {"idle", "failed"}
    BY <1>0, <1>12, CrashDoes
  <2>2. OneImport(i)'
    BY <2>1 DEF OneImport
  <2> QED
    BY <1>0, <2>1, <2>2, OthersOneState, SameStreams DEF OneStates
<1>13. ASSUME UNCHANGED vars PROVE OneStates'
  <2>1. UNCHANGED <<log, tail, file, streams, pc, seen>>
    BY <1>13 DEF vars
  <2>2. Size' = Size /\ Content' = Content
    BY <2>1 DEF Size, Content
  <2> QED
    BY <1>0, <2>1, <2>2 DEF OneStates, OneStream, OneImport, OneState
<1> QED
  BY <1>1, <1>2, <1>3, <1>5, <1>6, <1>7, <1>8, <1>9, <1>10, <1>11, <1>12, <1>13 DEF Next, Import

LEMMA ReplacedStep == ASSUME IInv, [Next]_vars PROVE NeverReplaced'
<1>1. (~raced' /\ ~mismarked') => OneStates'
  BY OneStateStep
<1> QED
  BY <1>1 DEF NeverReplaced, OneStates, OneStream, OneImport

LEMMA DuplicateStep == ASSUME IInv, [Next]_vars, ~raced, ~mismarked PROVE NoDuplicate'
<1>0. TypeOK /\ FileType /\ DbType /\ ImportType /\ LogTrue /\ RowsTrue /\ StreamsWithin /\ ImportsWithin /\ OneStates /\ NoDuplicate /\ Len(log) \in Nat
  BY NeverReplacedParts, TypeParts, SizeIsNat DEF IInv, NoOtherDuplicate
<1>1. ASSUME NEW r \in Requests, InsertRow(r) PROVE NoDuplicate'
  <2>1. \A row \in rows : row.req # r
    BY <1>0, <1>1 DEF InsertRow, RowsTrue
  <2>2. rows' \in {rows, rows \cup {[req |-> r, gen |-> Live, offset |-> 0]}}
    BY <1>1 DEF InsertRow
  <2> QED
    BY <1>0, <2>1, <2>2 DEF NoDuplicate
<1>2. ASSUME \E r \in Requests : AppendBegins(r) \/ AppendEnds(r) \/ AppendFails(r)
      PROVE  NoDuplicate'
  BY <1>0, <1>2 DEF AppendBegins, Answered, Races, AppendEnds, AppendFails, NoDuplicate
<1>5. ASSUME \E i \in Importers : Stat(i) \/ Hash(i) \/ Read(i) PROVE NoDuplicate'
  BY <1>0, <1>5 DEF Stat, Goto, Hash, Read, NoDuplicate
<1>7. ASSUME NEW i \in Importers, Ensure(i) PROVE NoDuplicate'
  <2>1. rows' = rows
    BY <1>7 DEF Ensure
  <2> QED
    BY <1>0, <2>1 DEF NoDuplicate
<1>9. ASSUME NEW i \in Importers, Commit(i) PROVE NoDuplicate'
  <2>1. seen[i].gen \in DOMAIN streams /\ seen[i].gen \in Gen /\ seen[i].gen[1] = file
    BY <1>0, <1>9, HasGen DEF Commit, ImportsWithin, Within
  <2>2. rows' = rows \cup RowsOf(i) /\ Commits(i) /\ pc[i] = "commit"
    BY <1>0, <1>9, <2>1, CommitDoes
  <2>3. ASSUME NEW row \in RowsOf(i)
        PROVE  /\ row \in Row /\ row.gen = seen[i].gen /\ row.offset \in 1..Len(log)
               /\ row.req = log[row.offset].req
               /\ [req |-> row.req, gen |-> Live, offset |-> 0] \notin rows
    BY <1>0, <2>1, <2>3, NewRows
  <2>4. ASSUME NEW row1 \in RowsOf(i), NEW row2 \in RowsOf(i), row1.req = row2.req
        PROVE  row1 = row2
    <3>1. /\ row1 \in Row /\ row1.gen = seen[i].gen /\ row1.offset \in 1..Len(log)
          /\ row1.req = log[row1.offset].req
      BY <2>3
    <3>2. /\ row2 \in Row /\ row2.gen = seen[i].gen /\ row2.offset \in 1..Len(log)
          /\ row2.req = log[row2.offset].req
      BY <2>3
    <3>3. row1.offset = row2.offset
      BY <1>0, <2>4, <3>1, <3>2 DEF LogTrue
    <3>4. \A x \in Row : x = [req |-> x.req, gen |-> x.gen, offset |-> x.offset]
      BY DEF Row
    <3> QED
      BY <2>4, <3>1, <3>2, <3>3, <3>4
  <2>5. ASSUME NEW old \in rows, NEW new \in RowsOf(i), old.req = new.req
        PROVE  FALSE
    <3>1. old.offset # 0
      BY <1>0, <2>3, <2>5 DEF RowsTrue
    <3>2. old.gen \in DOMAIN streams /\ old.offset \in Nat /\ old.gen[1] = file
      <4>1. old.offset \in Nat
        BY <1>0 DEF DbType, Row
      <4>2. new.offset \in 1..Len(log) /\ log[new.offset].req = old.req
        BY <2>3, <2>5
      <4> QED
        BY <1>0, <3>1, <4>1, <4>2 DEF RowsTrue
    <3>3. old.offset \in 1..Len(log) /\ log[old.offset].req = old.req
      BY <1>0, <3>1, <3>2 DEF RowsTrue
    <3>4. old.offset = new.offset
      BY <1>0, <2>3, <2>5, <3>3 DEF LogTrue
    <3>5. old.gen \in Gen /\ old.gen[2] = None /\ seen[i].gen[2] = None
      BY <1>0, <2>2, <3>2 DEF OneStates, OneStream, OneImport, DbType
    <3>6. old.gen = seen[i].gen
      BY <2>1, <3>2, <3>5, Types
    <3> QED
      BY <2>2, <2>3, <3>4, <3>6 DEF Commits
  <2> QED
    BY <1>0, <2>2, <2>4, <2>5 DEF NoDuplicate
<1>10. ASSUME NEW i \in Importers, Conflict(i) \/ ImportFails(i) PROVE NoDuplicate'
  <2>1. rows' = rows
    BY <1>0, <1>10, FailDoes
  <2> QED
    BY <1>0, <2>1 DEF NoDuplicate
<1>11. ASSUME Rotate PROVE NoDuplicate'
  BY <1>0, <1>11 DEF Rotate, NoDuplicate
<1>12. ASSUME NEW i \in Importers, Crash(i) PROVE NoDuplicate'
  <2>1. rows' = rows
    BY <1>0, <1>12, CrashDoes
  <2> QED
    BY <1>0, <2>1 DEF NoDuplicate
<1>13. ASSUME UNCHANGED vars PROVE NoDuplicate'
  BY <1>0, <1>13 DEF vars, NoDuplicate
<1> QED
  BY <1>1, <1>2, <1>5, <1>7, <1>9, <1>10, <1>11, <1>12, <1>13 DEF Next, Import

LEMMA StepInv == ASSUME IInv, [Next]_vars PROVE IInv'
<1>1. TypeOK'
  <2>1. FileType' /\ DbType' /\ ImportType'
    BY FileStep, DbTypeStep, ImportTypeStep
  <2> QED
    BY <2>1 DEF TypeOK, FileType, DbType, ImportType
<1>2. NoOtherDuplicate'
  <2>1. ~raced' /\ ~mismarked' => NoDuplicate'
    BY CausesStay, DuplicateStep
  <2> QED
    BY <2>1 DEF NoOtherDuplicate
<1>3. Writing' /\ LogTrue' /\ RowsTrue' /\ StreamsWithin' /\ ImportsWithin'
  BY FileStep, LogStep, RowsStep, StreamsStep, ImportsStep
<1>4. NothingSkipped' /\ DoneCovers' /\ NeverReplaced'
  BY SkippedStep, CoverStep, ReplacedStep
<1> QED
  BY <1>1, <1>2, <1>3, <1>4 DEF IInv

-----------------------------------------------------------------------------

(* The invariant holds for any requests, old lines and importers, and for    *)
(* any number of start-ups, kills and log files.                             *)
THEOREM LogInvariance == Spec => []IInv
<1>1. IInv /\ UNCHANGED vars => IInv'
  BY StepInv
<1> QED
  BY InitInv, StepInv, <1>1, PTL DEF Spec

(* Rows, streams and what imports hold are of their types; every row comes   *)
(* from logRequest or from a stream the database has.                        *)
THEOREM LogTypeCorrect == Spec => []TypeOK
<1>1. IInv => TypeOK
  BY DEF IInv
<1> QED
  BY LogInvariance, <1>1, PTL

(* What a stream has left behind it is in the database: rows and offset are  *)
(* committed together, and no kill, conflict or failed write in between      *)
(* loses a request (legacy_log.go:152-154).                                  *)
THEOREM NothingIsSkipped == Spec => []NothingSkipped
<1>1. IInv => NothingSkipped
  BY DEF IInv
<1> QED
  BY LogInvariance, <1>1, PTL

(* An import that ends without an error leaves no line behind that was in    *)
(* the file when it began.                                                   *)
THEOREM DoneImportsCover == Spec => []DoneCovers
<1>1. IInv => DoneCovers
  BY DEF IInv
<1> QED
  BY LogInvariance, <1>1, PTL

(* Two things and no third give a request two rows: a line written between   *)
(* the stat of an import and its look at the stream, and a failed import     *)
(* that left a stream a size without its hash.                               *)
THEOREM NothingElseDoubles == Spec => []NoOtherDuplicate
<1>1. IInv => NoOtherDuplicate
  BY DEF IInv
<1> QED
  BY LogInvariance, <1>1, PTL
=============================================================================
