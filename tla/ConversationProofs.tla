------------------------ MODULE ConversationProofs ------------------------
(* Theorems about Attribution, for all sessions, models, clocks and windows, *)
(* and about ToolHistory, for histories and answers of any length.           *)
EXTENDS Attribution, ToolHistory, SequenceTheorems, WellFoundedInduction, TLAPS

-----------------------------------------------------------------------------
(* The rule that names a conversation                                        *)

\* Of some numbers one is least.
LEMMA LeastNumber ==
    ASSUME NEW T \in SUBSET Nat, T # {}
    PROVE  \E x \in T : \A y \in T : x <= y
<1>1. IsWellFoundedOn({ss \in Nat \X Nat : ss[1] < ss[2]}, Nat)
  BY NatLessThanWellFounded, SMT DEF OpToRel
<1>2. PICK x \in T : \A y \in T : ~(<<y, x>> \in {ss \in Nat \X Nat : ss[1] < ss[2]})
  <2>. DEFINE R == {ss \in Nat \X Nat : ss[1] < ss[2]}
  <2>1. IsWellFoundedOn(R, Nat)
    BY <1>1
  <2>. HIDE DEF R
  <2>2. \E x \in T : \A y \in T : ~(<<y, x>> \in R)
    BY <2>1, WFMin
  <2>. QED
    BY <2>2 DEF R
<1>3. \A y \in T : x <= y
  <2>. SUFFICES ASSUME NEW y \in T, ~(x <= y) PROVE FALSE
    OBVIOUS
  <2>1. x \in Nat /\ y \in Nat /\ y < x
    OBVIOUS
  <2>. QED
    BY <1>2, <2>1
<1>. QED
  BY <1>3

\* What a request or a row asks the rule.
Asked(i) == i.at \in Nat /\ (i.tokens \in Hints \cup {NoHint})

LEMMA DistancesAreNatural ==
    ASSUME NEW i, Asked(i), NEW c \in File
    PROVE  /\ Away(i, c) \in Nat /\ Prompt(i, c) \in Nat
<1>1. c.last \in Nat /\ c.hint \in Hints \cup {NoHint} /\ Hints \subseteq Nat /\ NoHint \notin Nat
  BY AttributionAssumption DEF File
<1>2. \A a, b \in Nat : Diff(a, b) \in Nat
  BY DEF Diff
<1>3. i.at \in Nat /\ i.tokens \in Hints \cup {NoHint}
  BY DEF Asked
<1>4. Away(i, c) \in Nat
  BY <1>1, <1>2, <1>3 DEF Away
<1>5. CASE Known(i, c)
  <2>1. i.tokens \in Nat /\ c.hint \in Nat
    BY <1>1, <1>3, <1>5 DEF Known
  <2>2. Prompt(i, c) = Diff(i.tokens, c.hint)
    BY <1>5 DEF Prompt
  <2>. QED
    BY <1>2, <1>4, <2>1, <2>2
<1>6. CASE ~Known(i, c)
  BY <1>4, <1>6 DEF Prompt
<1>. QED
  BY <1>5, <1>6

\* Of some files of sessions none is closer than one of them.
LEMMA SomeIsClosest ==
    ASSUME NEW i, Asked(i), NEW seen, NEW S, S # {}, \A s \in S : seen[s] \in File
    PROVE  /\ Closest(i, S, seen) \in S
           /\ \A t \in S : ~Closer(i, seen[t], seen[Closest(i, S, seen)])
<1>. DEFINE A(s) == Away(i, seen[s])
            K(s) == Known(i, seen[s])
            P(s) == Prompt(i, seen[s])
            Near == {s \in S : \A t \in S : A(s) <= A(t)}
            Hinted == {s \in Near : K(s)}
            Best == IF Hinted # {} THEN Hinted ELSE Near
<1>1. \A s \in S : A(s) \in Nat /\ P(s) \in Nat
  BY DistancesAreNatural
<1>. HIDE DEF A, K, P
<1>2. Near # {}
  <2>1. {A(s) : s \in S} \in SUBSET Nat /\ {A(s) : s \in S} # {}
    BY <1>1
  <2>2. PICK x \in {A(s) : s \in S} : \A y \in {A(s) : s \in S} : x <= y
    BY <2>1, LeastNumber
  <2>. QED
    BY <2>2
<1>3. Best # {} /\ Best \subseteq S
  BY <1>2
<1>4. PICK b \in Best : \A t \in Best : P(b) <= P(t)
  <2>1. {P(s) : s \in Best} \in SUBSET Nat /\ {P(s) : s \in Best} # {}
    BY <1>1, <1>3
  <2>2. PICK x \in {P(s) : s \in Best} : \A y \in {P(s) : s \in Best} : x <= y
    BY <2>1, LeastNumber
  <2>. QED
    BY <2>2
<1>5. \A t \in S : ~Closer(i, seen[t], seen[b])
  <2>. SUFFICES ASSUME NEW t \in S, Closer(i, seen[t], seen[b]) PROVE FALSE
    OBVIOUS
  <2>1. \/ A(t) < A(b)
        \/ A(t) = A(b) /\ K(t) /\ ~K(b)
        \/ A(t) = A(b) /\ (K(t) <=> K(b)) /\ P(t) < P(b)
    BY DEF Closer, A, K, P
  <2>2. b \in Near /\ A(b) <= A(t)
    BY <1>3
  <2>3. A(t) = A(b) /\ t \in Near
    BY <2>1, <2>2, <1>1, <1>3
  <2>4. CASE K(t) /\ ~K(b)
    BY <2>3, <2>4
  <2>5. CASE (K(t) <=> K(b)) /\ P(t) < P(b)
    <3>1. t \in Best
      BY <2>3, <2>5
    <3>. QED
      BY <3>1, <1>4, <2>5, <1>1
  <2>. QED
    BY <2>1, <2>2, <2>4, <2>5, <1>1, <1>3
<1>. QED
  BY <1>3, <1>5 DEF Closest

\* The session the rule chooses, if it chooses one.
LEMMA NearestIsEligible ==
    ASSUME NEW i, Asked(i), NEW seen \in Seen
    PROVE  /\ Nearest(i, seen) \in Sessions \cup {Unlabeled}
           /\ Nearest(i, seen) # Unlabeled => Nearest(i, seen) \in Eligible(i, seen)
<1>. DEFINE S == Eligible(i, seen)
<1>1. DOMAIN seen = Sessions /\ S \subseteq Sessions
  BY DEF Seen, Eligible
<1>2. \A s \in S : seen[s] \in File
  BY <1>1 DEF Seen, Eligible
<1>3. CASE S = {}
  BY <1>3 DEF Nearest
<1>4. CASE S # {}
  <2>1. Closest(i, S, seen) \in S
    BY <1>2, <1>4, SomeIsClosest
  <2>2. Nearest(i, seen) \in {Unlabeled, Closest(i, S, seen)}
    BY DEF Nearest
  <2>. QED
    BY <1>1, <2>1, <2>2
<1>. QED
  BY <1>3, <1>4

\* What can be said for a session that is chosen.
Founded(i, s, seen) ==
    /\ s \in Eligible(i, seen)
    /\ \A t \in Eligible(i, seen) \ {s} : Closer(i, seen[s], seen[t])
    /\ \A t \in Eligible(i, seen) \ {s} :
          \/ Away(i, seen[t]) > Away(i, seen[s]) + Gap
          \/ Known(i, seen[s]) \/ Known(i, seen[t])
          \/ \E u \in Eligible(i, seen) \ {s} : Known(i, seen[u]) /\ ~Closer(i, seen[t], seen[u])

\* The one that is chosen is closer than its second, and so than all others.
LEMMA NearestIsFounded ==
    ASSUME NEW i, Asked(i), NEW seen \in Seen, Nearest(i, seen) # Unlabeled
    PROVE  Founded(i, Nearest(i, seen), seen)
<1>. DEFINE S      == Eligible(i, seen)
            best   == Closest(i, S, seen)
            rest   == S \ {best}
            second == Closest(i, rest, seen)
            A(s) == Away(i, seen[s])
            K(s) == Known(i, seen[s])
            P(s) == Prompt(i, seen[s])
<1>1. \A s \in S : seen[s] \in File
  BY DEF Seen, Eligible
<1>2. S # {} /\ best = Nearest(i, seen)
  BY DEF Nearest
<1>3. best \in S
  BY <1>1, <1>2, SomeIsClosest
<1>4. ASSUME NEW t \in rest
      PROVE  /\ Closer(i, seen[best], seen[t])
             /\ \/ A(t) > A(best) + Gap
                \/ K(best) \/ K(t)
                \/ \E u \in rest : K(u) /\ ~Closer(i, seen[t], seen[u])
  <2>1. second \in rest /\ \A s \in rest : ~Closer(i, seen[s], seen[second])
    <3>1. \A s \in rest : seen[s] \in File
      BY <1>1
    <3>2. rest # {}
      BY <1>4
    <3>. HIDE DEF S, best, rest
    <3>. QED
      BY <3>1, <3>2, SomeIsClosest
  <2>2. ~Ambiguous(i, seen[best], seen[second])
    BY <1>2, <1>4 DEF Nearest
  <2>3. t \in S /\ second \in S
    BY <2>1
  <2>. HIDE DEF S, best, rest, second
  <2>4. \A s \in S : A(s) \in Nat /\ P(s) \in Nat
    BY <1>1, DistancesAreNatural
  <2>5. Closer(i, seen[best], seen[second])
        /\ (~K(best) /\ ~K(second) => ~(A(second) - A(best) <= Gap))
    BY <2>2 DEF Ambiguous
  <2>6. ~Closer(i, seen[t], seen[second])
    BY <2>1
  <2>. HIDE DEF A, K, P
  <2>7. \A a, b \in S : Closer(i, seen[a], seen[b]) <=>
            \/ A(a) < A(b)
            \/ A(a) = A(b) /\ K(a) /\ ~K(b)
            \/ A(a) = A(b) /\ (K(a) <=> K(b)) /\ P(a) < P(b)
    BY DEF Closer, A, K, P
  <2>8. Closer(i, seen[best], seen[t])
    BY <1>3, <2>3, <2>4, <2>5, <2>6, <2>7
  <2>9. A(second) <= A(t)
    BY <2>3, <2>4, <2>6, <2>7
  <2>10. ASSUME ~K(best), ~K(second) PROVE A(t) > A(best) + Gap
    BY <1>3, <2>3, <2>4, <2>5, <2>9, <2>10, AttributionAssumption
  <2>. QED
    BY <2>1, <2>6, <2>8, <2>10
<1>. QED
  BY <1>2, <1>3, <1>4 DEF Founded

\* The rule is asked no more than the time, the model and the prompt.
LEMMA FoundedAlike ==
    ASSUME NEW i, NEW j, i.at = j.at, i.model = j.model, i.tokens = j.tokens,
           NEW s, NEW seen, Founded(i, s, seen)
    PROVE  Founded(j, s, seen)
<1>1. \A c : /\ Away(i, c) = Away(j, c) /\ (Known(i, c) <=> Known(j, c))
             /\ Prompt(i, c) = Prompt(j, c)
  BY DEF Away, Known, Prompt
<1>2. Eligible(i, seen) = Eligible(j, seen)
  BY <1>1 DEF Eligible
<1>3. \A a, b : Closer(i, a, b) <=> Closer(j, a, b)
  BY <1>1 DEF Closer
<1>. QED
  BY <1>1, <1>2, <1>3 DEF Founded

-----------------------------------------------------------------------------
\* What the rule gives, by what it is asked.
LEMMA MatchType ==
    ASSUME NEW how \in Sources, NEW i, Asked(i), i.explicit \in Conversations \cup {NoId},
           NEW seen \in Seen
    PROVE  Match(how, i, seen) \in Conversations \cup {Unlabeled}
  BY NearestIsEligible DEF Match, Conversations

LEMMA ExplicitMatch ==
    ASSUME NEW how \in Sources, how # "off", NEW i, i.explicit # NoId, NEW seen
    PROVE  Match(how, i, seen) = i.explicit
  BY DEF Match

LEMMA GuessedMatch ==
    ASSUME NEW how \in Sources, NEW i, i.explicit = NoId, NEW seen,
           Match(how, i, seen) # Unlabeled
    PROVE  Match(how, i, seen) = Nearest(i, seen)
  BY DEF Match

-----------------------------------------------------------------------------
(* The inductive invariant                                                   *)

\* What is said of sessions was said by their files.
SaidOf(seen) == \A s \in Sessions : seen[s] # NoSession => <<s, seen[s]>> \in happened

Remembered ==
    /\ SaidOf(session)
    /\ cache # NoScan => SaidOf(cache.seen)
    /\ scan # NoScan =>
          \A s \in Sessions : \A file \in scan[s] : file # NoSession => <<s, file>> \in happened
    /\ answer # NoAnswer => SaidOf(answer.seen)

\* An id a client gave is the one a request and its row have.
KeptId(x) == x.explicit # NoId /\ x.under # "off" => x.id = x.explicit

IdsKept ==
    /\ \A r \in Requests : flight[r] \notin {NoRequest, Over} => KeptId(flight[r])
    /\ \A n \in DOMAIN rows : KeptId(rows[n])

\* An answer is of rows there are, by one snapshot.
AnswerHolds ==
    answer # NoAnswer =>
        /\ answer.source \in Sources /\ answer.seen \in Seen
        /\ DOMAIN answer.of \subseteq DOMAIN rows
        /\ \A n \in DOMAIN answer.of :
              answer.of[n] = Attributed(rows[n], answer.source, answer.seen)

\* A conversation that was guessed for a request had its session behind it.
Traced(x) ==
    x.explicit = NoId /\ x.id # Unlabeled =>
        /\ x.basis \in Guess /\ SaidOf(x.basis.seen)
        /\ Founded([at |-> x.basis.at, model |-> x.model, tokens |-> x.basis.tokens],
                   x.id, x.basis.seen)

GuessesTraced ==
    /\ \A r \in Requests : flight[r] \notin {NoRequest, Over} => Traced(flight[r])
    /\ \A n \in DOMAIN rows : Traced(rows[n])

IInv == TypeOK /\ Remembered /\ IdsKept /\ AnswerHolds /\ GuessesTraced

LEMMA RowsAreTyped ==
    ASSUME TypeOK, NEW n \in DOMAIN rows
    PROVE  rows[n] \in RowType
  BY DEF TypeOK

LEMMA InitInv == Init => IInv
<1>. SUFFICES ASSUME Init PROVE IInv
  OBVIOUS
<1>1. 0 \in 0 .. MaxTime
  BY AttributionAssumption
<1>2. session \in Seen
  <2>1. Old \subseteq File
    BY <1>1 DEF Old, File
  <2>. QED
    BY <2>1 DEF Init, Seen
<1>3. happened \subseteq Sessions \X File
  BY <1>2 DEF Init, Seen
<1>4. TypeOK
  BY <1>1, <1>2, <1>3 DEF Init, TypeOK
<1>5. Remembered
  BY DEF Init, Remembered, SaidOf
<1>6. IdsKept /\ AnswerHolds /\ GuessesTraced
  BY DEF Init, IdsKept, AnswerHolds, GuessesTraced
<1>. QED
  BY <1>4, <1>5, <1>6 DEF IInv

-----------------------------------------------------------------------------
(* The actions                                                               *)

\* The snapshot a request or a reader gets, and what is left for the next.
LEMMA SnapshotHolds ==
    ASSUME TypeOK, Remembered
    PROVE  Snapshot \in Seen /\ SaidOf(Snapshot)
  BY DEF TypeOK, Remembered, Snapshot

LEMMA ScanCachedHolds ==
    ASSUME TypeOK, Remembered, ScanCached \/ UNCHANGED <<cache, scan>>
    PROVE  /\ cache' \in [at : 0 .. MaxTime, seen : Seen] \cup {NoScan}
           /\ scan' \in [Sessions -> SUBSET (File \cup {NoSession})] \cup {NoScan}
           /\ cache' # NoScan => SaidOf(cache'.seen)
           /\ scan' # NoScan =>
                \A s \in Sessions : \A file \in scan'[s] : file # NoSession => <<s, file>> \in happened
<1>1. CASE UNCHANGED <<cache, scan>>
  BY <1>1 DEF TypeOK, Remembered
<1>2. CASE ScanCached /\ cache = NoScan
  <2>1. cache' = [at |-> now, seen |-> session] /\ scan' = scan
    BY <1>2 DEF ScanCached
  <2>. QED
    BY <2>1 DEF TypeOK, Remembered
<1>3. CASE ScanCached /\ cache # NoScan
  <2>1. cache' = cache /\ (scan' = scan \/ scan' = [s \in Sessions |-> {session[s]}])
    BY <1>3 DEF ScanCached
  <2>2. [s \in Sessions |-> {session[s]}] \in [Sessions -> SUBSET (File \cup {NoSession})]
    BY DEF TypeOK, Seen
  <2>3. \A s \in Sessions : \A file \in {session[s]} : file # NoSession => <<s, file>> \in happened
    BY DEF Remembered, SaidOf
  <2>4. CASE scan' = scan
    BY <2>1, <2>4 DEF TypeOK, Remembered
  <2>5. CASE scan' = [s \in Sessions |-> {session[s]}]
    BY <2>1, <2>2, <2>3, <2>5 DEF TypeOK, Remembered
  <2>. QED
    BY <2>1, <2>4, <2>5
<1>. QED
  BY <1>1, <1>2, <1>3

\* What is said stays said, so a guess keeps what it has behind it.
LEMMA TracedStays ==
    ASSUME NEW x, Traced(x), happened \subseteq happened'
    PROVE  Traced(x)'
  BY DEF Traced, SaidOf

LEMMA GuessesStay ==
    ASSUME GuessesTraced, UNCHANGED <<flight, rows>>, happened \subseteq happened'
    PROVE  GuessesTraced'
<1>1. \A x : Traced(x) => Traced(x)'
  BY TracedStays
<1>. QED
  BY <1>1 DEF GuessesTraced

LEMMA ArriveInv ==
    ASSUME IInv, NEW r \in Requests, Arrive(r)
    PROVE  IInv'
<1>. USE DEF IInv
<1>1. PICK explicit \in Clients \cup {NoId}, model \in Models, tokens \in Hints \cup {NoHint} :
        LET id == Match(source, [explicit |-> explicit, model |-> model, at |-> now, tokens |-> tokens],
                        Snapshot)
        IN  /\ ScanCached \/ UNCHANGED <<cache, scan>>
            /\ flight' = [flight EXCEPT ![r] =
                  [explicit |-> explicit, under |-> source, model |-> model, id |-> id,
                   basis |-> IF explicit = NoId /\ id # Unlabeled
                             THEN [at |-> now, tokens |-> tokens, seen |-> Snapshot] ELSE NoScan]]
  BY DEF Arrive
<1>2. UNCHANGED <<now, session, source, rows, answer, happened>>
  BY DEF Arrive
<1>. DEFINE i  == [explicit |-> explicit, model |-> model, at |-> now, tokens |-> tokens]
            id == Match(source, i, Snapshot)
            guess == [at |-> now, tokens |-> tokens, seen |-> Snapshot]
            new == [explicit |-> explicit, under |-> source, model |-> model, id |-> id,
                    basis |-> IF explicit = NoId /\ id # Unlabeled THEN guess ELSE NoScan]
<1>3. Asked(i)
  BY AttributionAssumption DEF Asked, TypeOK
<1>4. Snapshot \in Seen /\ SaidOf(Snapshot) /\ source \in Sources
  BY SnapshotHolds DEF TypeOK
<1>5. id \in Conversations \cup {Unlabeled}
  <2>1. i.explicit \in Conversations \cup {NoId}
    BY DEF Conversations
  <2>. QED
    BY <1>3, <1>4, <2>1, MatchType
<1>6. guess \in Guess
  BY <1>4 DEF Guess, TypeOK
<1>7. new \in Request
  <2>. HIDE DEF id, guess
  <2>. QED
    BY <1>4, <1>5, <1>6 DEF Request
<1>8. KeptId(new)
  <2>1. explicit # NoId /\ source # "off" => id = explicit
    BY <1>4, ExplicitMatch
  <2>. QED
    BY <2>1 DEF KeptId
<1>9. Traced(new)
  <2>. SUFFICES ASSUME explicit = NoId, id # Unlabeled PROVE Traced(new)
    BY DEF Traced
  <2>1. id = Nearest(i, Snapshot)
    BY <1>4, GuessedMatch
  <2>2. Founded(i, id, Snapshot)
    <3>. HIDE DEF i
    <3>. QED
      BY <1>3, <1>4, <2>1, NearestIsFounded
  <2>3. Founded([at |-> now, model |-> model, tokens |-> tokens], id, Snapshot)
    <3>. DEFINE k == [at |-> now, model |-> model, tokens |-> tokens]
    <3>1. i.at = k.at /\ i.model = k.model /\ i.tokens = k.tokens
      OBVIOUS
    <3>. HIDE DEF i, k, id
    <3>2. Founded(k, id, Snapshot)
      BY <2>2, <3>1, FoundedAlike
    <3>. QED
      BY <3>2 DEF k
  <2>4. new.basis = guess /\ new.id = id /\ new.model = model
    <3>. HIDE DEF id, guess
    <3>. QED
      OBVIOUS
  <2>. HIDE DEF new, id
  <2>. QED
    BY <1>4, <1>6, <2>3, <2>4 DEF Traced
<1>10. flight' = [flight EXCEPT ![r] = new] /\ (ScanCached \/ UNCHANGED <<cache, scan>>)
  BY <1>1
<1>. HIDE DEF new
<1>11. flight' \in [Requests -> Request \cup {NoRequest, Over}]
  BY <1>7, <1>10 DEF TypeOK
<1>12. TypeOK'
  BY <1>2, <1>10, <1>11, ScanCachedHolds DEF TypeOK
<1>13. Remembered'
  BY <1>2, <1>10, ScanCachedHolds DEF Remembered, SaidOf
<1>14. IdsKept'
  BY <1>2, <1>8, <1>10 DEF IdsKept, TypeOK
<1>15. GuessesTraced'
  <2>1. \A x : Traced(x) => Traced(x)'
    BY <1>2, TracedStays
  <2>2. \A q \in Requests : flight'[q] = IF q = r THEN new ELSE flight[q]
    BY <1>10 DEF TypeOK
  <2>. QED
    BY <1>2, <1>9, <2>1, <2>2 DEF GuessesTraced
<1>16. AnswerHolds'
  BY <1>2 DEF AnswerHolds
<1>. QED
  BY <1>12, <1>13, <1>14, <1>15, <1>16

LEMMA LogInv ==
    ASSUME IInv, NEW r \in Requests, Log(r)
    PROVE  IInv'
<1>. USE DEF IInv
<1>1. PICK tokens \in Hints \cup {NoHint} :
        rows' = Append(rows, [explicit |-> flight[r].explicit, under |-> flight[r].under,
                              id |-> flight[r].id, basis |-> flight[r].basis,
                              model |-> flight[r].model, at |-> now, tokens |-> tokens])
  BY DEF Log
<1>2. /\ flight' = [flight EXCEPT ![r] = Over]
      /\ flight[r] \notin {NoRequest, Over}
      /\ UNCHANGED <<now, session, source, cache, scan, answer, happened>>
  BY DEF Log
<1>. DEFINE row == [explicit |-> flight[r].explicit, under |-> flight[r].under,
                    id |-> flight[r].id, basis |-> flight[r].basis,
                    model |-> flight[r].model, at |-> now, tokens |-> tokens]
<1>3. row \in RowType /\ KeptId(row) /\ Traced(row)
  <2>1. flight[r] \in Request /\ KeptId(flight[r]) /\ Traced(flight[r])
    BY <1>2 DEF TypeOK, IdsKept, GuessesTraced
  <2>2. row \in RowType /\ KeptId(row)
    BY <2>1 DEF Request, RowType, TypeOK, KeptId
  <2>3. Traced(row)
    BY <2>1 DEF Traced
  <2>. QED
    BY <2>2, <2>3
<1>. HIDE DEF row
<1>4. rows' = Append(rows, row)
  BY <1>1 DEF row
<1>5. rows \in Seq(RowType)
  BY DEF TypeOK
<1>6. /\ rows' \in Seq(RowType)
      /\ DOMAIN rows' = DOMAIN rows \cup {Len(rows) + 1}
      /\ \A n \in DOMAIN rows : rows'[n] = rows[n]
      /\ rows'[Len(rows) + 1] = row
  BY <1>3, <1>4, <1>5
<1>7. TypeOK'
  BY <1>2, <1>6 DEF TypeOK
<1>8. Remembered'
  BY <1>2 DEF Remembered, SaidOf
<1>9. IdsKept'
  BY <1>2, <1>3, <1>6 DEF IdsKept, TypeOK
<1>10. AnswerHolds'
  BY <1>2, <1>6 DEF AnswerHolds
<1>11. GuessesTraced'
  <2>1. \A x : Traced(x) => Traced(x)'
    BY <1>2, TracedStays
  <2>2. \A q \in Requests : flight'[q] = IF q = r THEN Over ELSE flight[q]
    BY <1>2 DEF TypeOK
  <2>. QED
    BY <1>3, <1>6, <2>1, <2>2 DEF GuessesTraced
<1>. QED
  BY <1>7, <1>8, <1>9, <1>10, <1>11

LEMMA ScanEndsInv ==
    ASSUME IInv, ScanEnds
    PROVE  IInv'
<1>. USE DEF IInv
<1>1. PICK seen \in [Sessions -> UNION {scan[s] : s \in Sessions}] :
        /\ \A s \in Sessions : seen[s] \in scan[s]
        /\ cache' = [at |-> now, seen |-> seen]
  BY DEF ScanEnds
<1>2. scan # NoScan /\ scan' = NoScan
      /\ UNCHANGED <<now, session, source, flight, rows, answer, happened>>
  BY DEF ScanEnds
<1>3. seen \in Seen
  <2>1. \A s \in Sessions : scan[s] \subseteq File \cup {NoSession}
    BY <1>2 DEF TypeOK
  <2>. QED
    BY <1>1, <2>1 DEF Seen
<1>4. SaidOf(seen)
  BY <1>1, <1>2 DEF Remembered, SaidOf
<1>5. TypeOK'
  <2>1. cache' \in [at : 0 .. MaxTime, seen : Seen]
    BY <1>1, <1>3 DEF TypeOK
  <2>. QED
    BY <1>2, <2>1 DEF TypeOK
<1>6. Remembered'
  BY <1>1, <1>2, <1>4 DEF Remembered, SaidOf
<1>7. IdsKept' /\ AnswerHolds' /\ GuessesTraced'
  BY <1>2, GuessesStay DEF IdsKept, AnswerHolds
<1>. QED
  BY <1>5, <1>6, <1>7

LEMMA StatsTotalsInv ==
    ASSUME IInv, StatsTotals
    PROVE  IInv'
<1>. USE DEF IInv
<1>1. /\ ScanCached \/ UNCHANGED <<cache, scan>>
      /\ answer' = [source |-> source, seen |-> Snapshot,
                    of |-> [n \in DOMAIN rows |-> Attributed(rows[n], source, Snapshot)]]
      /\ UNCHANGED <<now, session, source, flight, rows, happened>>
  BY DEF StatsTotals
<1>2. Snapshot \in Seen /\ SaidOf(Snapshot) /\ source \in Sources
  BY SnapshotHolds DEF TypeOK
<1>3. TypeOK'
  BY <1>1, ScanCachedHolds DEF TypeOK
<1>. HIDE DEF IInv
<1>4. answer'.seen = Snapshot /\ answer'.source = source
      /\ answer'.of = [n \in DOMAIN rows |-> Attributed(rows[n], source, Snapshot)]
  BY <1>1
<1>5. Remembered'
  <2>1. SaidOf(answer.seen)'
    BY <1>1, <1>2, <1>4 DEF SaidOf
  <2>2. SaidOf(session)'
    BY <1>1 DEF IInv, Remembered, SaidOf
  <2>3. (cache # NoScan => SaidOf(cache.seen))'
    BY <1>1, ScanCachedHolds DEF IInv, SaidOf
  <2>4. (scan # NoScan =>
          \A s \in Sessions : \A file \in scan[s] : file # NoSession => <<s, file>> \in happened)'
    BY <1>1, ScanCachedHolds DEF IInv
  <2>. QED
    BY <2>1, <2>2, <2>3, <2>4 DEF Remembered
<1>6. IdsKept'
  BY <1>1 DEF IInv, IdsKept
<1>7. AnswerHolds'
  BY <1>1, <1>2, <1>4 DEF AnswerHolds
<1>8. GuessesTraced'
  BY <1>1, GuessesStay DEF IInv
<1>. QED
  BY <1>3, <1>5, <1>6, <1>7, <1>8 DEF IInv

LEMMA SessionSaysInv ==
    ASSUME IInv, NEW s \in Sessions, NEW file \in File, SessionSays(s, file)
    PROVE  IInv'
<1>. USE DEF IInv
<1>1. /\ session' = [session EXCEPT ![s] = file]
      /\ happened' = happened \cup {<<s, file>>}
      /\ scan' = IF scan = NoScan THEN NoScan ELSE [scan EXCEPT ![s] = @ \cup {file}]
      /\ UNCHANGED <<now, source, cache, flight, rows, answer>>
  BY DEF SessionSays
<1>2. session' \in Seen /\ happened' \subseteq Sessions \X File
  BY <1>1 DEF TypeOK, Seen
<1>3. scan' \in [Sessions -> SUBSET (File \cup {NoSession})] \cup {NoScan}
  <2>1. CASE scan = NoScan
    BY <1>1, <2>1
  <2>2. CASE scan # NoScan
    <3>1. scan \in [Sessions -> SUBSET (File \cup {NoSession})]
      BY <2>2 DEF TypeOK
    <3>2. scan' = [scan EXCEPT ![s] = scan[s] \cup {file}]
      BY <1>1, <2>2
    <3>3. scan[s] \cup {file} \in SUBSET (File \cup {NoSession})
      BY <3>1
    <3>. QED
      BY <3>1, <3>2, <3>3
  <2>. QED
    BY <2>1, <2>2
<1>4. TypeOK'
  BY <1>1, <1>2, <1>3 DEF TypeOK
<1>5. Remembered'
  <2>1. \A seen : SaidOf(seen) => SaidOf(seen)'
    BY <1>1 DEF SaidOf
  <2>2. SaidOf(session)'
    BY <1>1 DEF SaidOf, Remembered, TypeOK, Seen
  <2>3. scan' # NoScan =>
          \A t \in Sessions : \A f \in scan'[t] : f # NoSession => <<t, f>> \in happened'
    BY <1>1 DEF Remembered, TypeOK
  <2>4. /\ cache # NoScan => SaidOf(cache.seen)'
        /\ answer # NoAnswer => SaidOf(answer.seen)'
    BY <1>1 DEF SaidOf, Remembered
  <2>. QED
    BY <1>1, <2>2, <2>3, <2>4 DEF Remembered
<1>6. IdsKept' /\ AnswerHolds' /\ GuessesTraced'
  BY <1>1, GuessesStay DEF IdsKept, AnswerHolds
<1>. QED
  BY <1>4, <1>5, <1>6

LEMMA SessionWritesInv ==
    ASSUME IInv, NEW s \in Sessions, Prompted(s) \/ Answered(s) \/ SwitchesModel(s)
    PROVE  IInv'
<1>. DEFINE file == session[s]
<1>1. now \in 0 .. MaxTime /\ (file # NoSession => file \in File)
  BY DEF IInv, TypeOK, Seen
<1>2. CASE Prompted(s)
  <2>1. [last |-> now, model |-> NoModel, hint |-> NoHint] \in File
    BY <1>1 DEF File
  <2>2. file # NoSession => [file EXCEPT !.last = now] \in File
    BY <1>1 DEF File
  <2>3. (IF file = NoSession THEN [last |-> now, model |-> NoModel, hint |-> NoHint]
         ELSE [file EXCEPT !.last = now]) \in File
    BY <2>1, <2>2
  <2>. QED
    BY <1>2, <2>3, SessionSaysInv DEF Prompted
<1>3. CASE Answered(s)
  <2>1. file \in File
    BY <1>1, <1>3 DEF Answered
  <2>2. PICK model \in Models, hint \in Hints \cup {file.hint} :
          SessionSays(s, [last |-> now, model |-> model, hint |-> hint])
    BY <1>3 DEF Answered
  <2>3. [last |-> now, model |-> model, hint |-> hint] \in File
    BY <1>1, <2>1 DEF File
  <2>. QED
    BY <2>2, <2>3, SessionSaysInv
<1>4. CASE SwitchesModel(s)
  <2>1. file \in File
    BY <1>1, <1>4 DEF SwitchesModel
  <2>2. PICK model \in Models : SessionSays(s, [file EXCEPT !.model = model])
    BY <1>4 DEF SwitchesModel
  <2>3. [file EXCEPT !.model = model] \in File
    BY <2>1 DEF File
  <2>. QED
    BY <2>2, <2>3, SessionSaysInv
<1>. QED
  BY <1>2, <1>3, <1>4

LEMMA OtherInv ==
    ASSUME IInv, StatsPage \/ Tick \/ ChangeSource \/ Restart
    PROVE  IInv'
<1>. USE DEF IInv
<1>1. CASE StatsPage
  <2>1. GuessesTraced'
    BY <1>1, GuessesStay DEF StatsPage
  <2>. QED
    BY <1>1, <2>1 DEF StatsPage, TypeOK, Remembered, SaidOf, IdsKept, AnswerHolds
<1>2. CASE Tick
  <2>1. now' \in 0 .. MaxTime
    BY <1>2, AttributionAssumption DEF Tick, TypeOK
  <2>2. TypeOK' /\ Remembered'
    BY <1>2, <2>1 DEF Tick, TypeOK, Remembered, SaidOf
  <2>3. IdsKept' /\ AnswerHolds' /\ GuessesTraced'
    BY <1>2, GuessesStay DEF Tick, IdsKept, AnswerHolds
  <2>. QED
    BY <2>2, <2>3
<1>3. CASE ChangeSource
  <2>1. TypeOK' /\ Remembered'
    BY <1>3 DEF ChangeSource, TypeOK, Remembered, SaidOf
  <2>2. IdsKept' /\ AnswerHolds' /\ GuessesTraced'
    BY <1>3, GuessesStay DEF ChangeSource, IdsKept, AnswerHolds
  <2>. QED
    BY <2>1, <2>2
<1>4. CASE Restart
  <2>1. TypeOK' /\ Remembered'
    BY <1>4 DEF Restart, TypeOK, Remembered, SaidOf
  <2>2. IdsKept' /\ AnswerHolds'
    BY <1>4 DEF Restart, IdsKept, AnswerHolds
  <2>3. GuessesTraced'
    <3>1. \A x : Traced(x) => Traced(x)'
      BY <1>4, TracedStays DEF Restart
    <3>2. \A r \in Requests : flight'[r] \in {NoRequest, Over}
      BY <1>4 DEF Restart
    <3>. QED
      BY <1>4, <3>1, <3>2 DEF Restart, GuessesTraced
  <2>. QED
    BY <2>1, <2>2, <2>3
<1>. QED
  BY <1>1, <1>2, <1>3, <1>4

-----------------------------------------------------------------------------
(* What follows                                                              *)

LEMMA ExplicitFollows == IInv => ExplicitWins
<1>. SUFFICES ASSUME IInv, answer # NoAnswer, answer.source # "off", NEW n \in DOMAIN rows,
                     rows[n].explicit # NoId, rows[n].under # "off"
              PROVE  Said(n) \subseteq {rows[n].explicit}
  BY DEF ExplicitWins
<1>1. rows[n] \in RowType /\ rows[n].id = rows[n].explicit
  BY RowsAreTyped DEF IInv, IdsKept, KeptId
<1>2. rows[n].id \in Clients /\ rows[n].id # Unlabeled /\ rows[n].id # NoId
  BY <1>1, AttributionAssumption DEF RowType
<1>3. Attributed(rows[n], answer.source, answer.seen) = rows[n].id
  <2>1. answer.source \in Sources
    BY DEF IInv, AnswerHolds
  <2>. QED
    BY <1>2, <2>1, ExplicitMatch DEF Attributed
<1>4. OnPage(n) = rows[n].id
  BY <1>3 DEF OnPage
<1>. QED
  BY <1>1, <1>3, <1>4 DEF Said, IInv, AnswerHolds

\* A founded guess is what the property asks of it.
LEMMA FoundedIsNoGuess ==
    ASSUME IInv, NEW n \in DOMAIN rows, NEW s,
           Basis(n).seen \in Seen, SaidOf(Basis(n).seen), Founded(Input(n), s, Basis(n).seen)
    PROVE  LET i == Input(n)
               seen == Basis(n).seen
           IN  /\ \E file \in File : <<s, file>> \in happened
                     /\ file.model = i.model /\ Diff(i.at, file.last) <= Window
               /\ \A t \in Rivals(n, s) : Closer(i, seen[s], seen[t])
               /\ \A t \in Rivals(n, s) :
                     \/ Away(i, seen[t]) > Away(i, seen[s]) + Gap
                     \/ Known(i, seen[s]) \/ Known(i, seen[t])
                     \/ \E u \in Rivals(n, s) : Known(i, seen[u]) /\ ~Closer(i, seen[t], seen[u])
<1>. DEFINE i == Input(n)
            seen == Basis(n).seen
<1>1. seen \in Seen /\ SaidOf(seen) /\ Founded(i, s, seen) /\ Rivals(n, s) = Eligible(i, seen) \ {s}
  BY DEF Rivals
<1>. HIDE DEF i, seen
<1>2. s \in Eligible(i, seen) /\ s \in Sessions
  BY <1>1 DEF Founded, Eligible, Seen
<1>3. /\ seen[s] \in File /\ seen[s].model = i.model
      /\ Diff(i.at, seen[s].last) <= Window /\ <<s, seen[s]>> \in happened
  BY <1>1, <1>2 DEF Eligible, Away, Seen, SaidOf
<1>4. /\ \E file \in File : <<s, file>> \in happened
            /\ file.model = i.model /\ Diff(i.at, file.last) <= Window
      /\ \A t \in Rivals(n, s) : Closer(i, seen[s], seen[t])
      /\ \A t \in Rivals(n, s) :
            \/ Away(i, seen[t]) > Away(i, seen[s]) + Gap
            \/ Known(i, seen[s]) \/ Known(i, seen[t])
            \/ \E u \in Rivals(n, s) : Known(i, seen[u]) /\ ~Closer(i, seen[t], seen[u])
  BY <1>1, <1>3 DEF Founded
<1>. QED
  BY <1>4 DEF i, seen

\* One made as statistics are read is founded on their snapshot.
LEMMA LateGuessFounded ==
    ASSUME IInv, answer # NoAnswer, NEW n \in DOMAIN rows, rows[n].id = Unlabeled,
           NEW s \in Said(n) \ {Unlabeled}
    PROVE  /\ Basis(n).seen \in Seen /\ SaidOf(Basis(n).seen)
           /\ Founded(Input(n), s, Basis(n).seen)
<1>. DEFINE j == [explicit |-> NoId, model |-> rows[n].model, at |-> rows[n].at,
                  tokens |-> rows[n].tokens]
<1>1. answer.source \in Sources /\ answer.seen \in Seen /\ SaidOf(answer.seen)
  BY DEF IInv, AnswerHolds, Remembered
<1>2. Asked(j)
  BY RowsAreTyped, AttributionAssumption DEF IInv, RowType, Asked
<1>3. s = Match(answer.source, j, answer.seen)
  <2>1. s = OnPage(n) \/ s = Attributed(rows[n], answer.source, answer.seen)
    BY DEF Said, IInv, AnswerHolds
  <2>. QED
    BY <2>1 DEF OnPage, Attributed
<1>4. s = Nearest(j, answer.seen)
  BY <1>1, <1>3, GuessedMatch
<1>5. Basis(n) = [at |-> rows[n].at, tokens |-> rows[n].tokens, seen |-> answer.seen]
  BY DEF Basis
<1>6. j.at = Input(n).at /\ j.model = Input(n).model /\ j.tokens = Input(n).tokens
  BY <1>5 DEF Input
<1>. HIDE DEF j
<1>7. Founded(j, s, answer.seen)
  BY <1>1, <1>2, <1>4, NearestIsFounded
<1>8. Founded(Input(n), s, answer.seen)
  BY <1>6, <1>7, FoundedAlike
<1>. QED
  BY <1>1, <1>5, <1>8

\* One made as the request came is what the row says, and founded on its own.
LEMMA EarlyGuessFounded ==
    ASSUME IInv, answer # NoAnswer, NEW n \in DOMAIN rows,
           rows[n].explicit = NoId, rows[n].id # Unlabeled, NEW s \in Said(n) \ {Unlabeled}
    PROVE  /\ Basis(n).seen \in Seen /\ SaidOf(Basis(n).seen)
           /\ Founded(Input(n), s, Basis(n).seen)
<1>1. rows[n] \in RowType /\ Traced(rows[n])
  BY RowsAreTyped DEF IInv, GuessesTraced
<1>2. rows[n].id # NoId
  BY <1>1, AttributionAssumption DEF RowType, Conversations
<1>3. \A how \in Sources : \A seen : how # "off" => Attributed(rows[n], how, seen) = rows[n].id
  BY <1>2, ExplicitMatch DEF Attributed
<1>4. \A seen : Attributed(rows[n], "off", seen) = Unlabeled
  BY DEF Attributed, Match
<1>5. s = rows[n].id
  <2>1. s = OnPage(n) \/ s = Attributed(rows[n], answer.source, answer.seen)
    BY DEF Said, IInv, AnswerHolds
  <2>2. answer.source \in Sources
    BY DEF IInv, AnswerHolds
  <2>. QED
    BY <1>3, <1>4, <2>1, <2>2 DEF OnPage
<1>6. Basis(n) = rows[n].basis
  BY DEF Basis
<1>. QED
  BY <1>1, <1>5, <1>6 DEF Traced, Guess, Input

LEMMA NoGuessFollows == IInv => NoGuess
<1>. SUFFICES ASSUME IInv, answer # NoAnswer, NEW n \in DOMAIN rows, NEW s \in Guessed(n)
              PROVE  /\ Basis(n).seen \in Seen /\ SaidOf(Basis(n).seen)
                     /\ Founded(Input(n), s, Basis(n).seen)
  BY FoundedIsNoGuess DEF NoGuess
<1>1. s \in Said(n) \ {Unlabeled} /\ (rows[n].id = Unlabeled \/ rows[n].explicit = NoId)
  BY DEF Guessed
<1>. QED
  BY <1>1, LateGuessFounded, EarlyGuessFounded

-----------------------------------------------------------------------------
(* The invariant holds in every reachable state.                            *)
THEOREM AttributionInvariance == Spec => []IInv
<1>1. Init => IInv
  BY InitInv
<1>2. IInv /\ [Next]_vars => IInv'
  <2>. SUFFICES ASSUME IInv, [Next]_vars PROVE IInv'
    OBVIOUS
  <2>1. ASSUME NEW r \in Requests, Arrive(r) PROVE IInv'
    BY <2>1, ArriveInv
  <2>2. ASSUME NEW r \in Requests, Log(r) PROVE IInv'
    BY <2>2, LogInv
  <2>3. ASSUME NEW s \in Sessions, Prompted(s) \/ Answered(s) \/ SwitchesModel(s) PROVE IInv'
    BY <2>3, SessionWritesInv
  <2>4. CASE ScanEnds
    BY <2>4, ScanEndsInv
  <2>5. CASE StatsTotals
    BY <2>5, StatsTotalsInv
  <2>6. CASE StatsPage \/ Tick \/ ChangeSource \/ Restart
    BY <2>6, OtherInv
  <2>7. CASE UNCHANGED vars
    <3>1. GuessesTraced'
      BY <2>7, GuessesStay DEF vars, IInv
    <3>. QED
      BY <2>7, <3>1 DEF vars, IInv, TypeOK, Remembered, SaidOf, IdsKept, AnswerHolds
  <2>. QED
    BY <2>1, <2>2, <2>3, <2>4, <2>5, <2>6, <2>7 DEF Next
<1>. QED
  BY <1>1, <1>2, PTL DEF Spec

(* Snapshots, rows and requests are what the code's types say.              *)
THEOREM AttributionTypeCorrect == Spec => []TypeOK
<1>1. IInv => TypeOK
  BY DEF IInv
<1>. QED
  BY <1>1, AttributionInvariance, PTL

(* The id a client gives a request is never lost to a guess.                *)
THEOREM ClientsKeepTheirIds == Spec => []ExplicitWins
  BY AttributionInvariance, ExplicitFollows, PTL

(* A guess, made when the request came or when statistics are read, has the *)
(* file of a session behind it that was closer than every other.            *)
THEOREM GuessesAreFounded == Spec => []NoGuess
  BY AttributionInvariance, NoGuessFollows, PTL

(* An answer's page and its totals agree, whenever the page is read.        *)
THEOREM AnswersAreOfOneSnapshot == Spec => []PageAgrees
<1>1. IInv => PageAgrees
  BY DEF IInv, AnswerHolds, PageAgrees, OnPage
<1>. QED
  BY <1>1, AttributionInvariance, PTL

-----------------------------------------------------------------------------
(* Induction over numbers and sequences, with a set for what is shown.      *)

\* Induction: what holds of 0 and of the next number holds of all.
LEMMA NumberInduction ==
    ASSUME NEW T, 0 \in T, \A n \in Nat : n \in T => n + 1 \in T
    PROVE  Nat \subseteq T
<1> SUFFICES ASSUME Nat \ T # {} PROVE FALSE
  OBVIOUS
<1> DEFINE R == OpToRel(<, Nat)
<1>1. \E x \in Nat \ T : \A y \in Nat \ T : ~(<<y, x>> \in R)
  <2>1. IsWellFoundedOn(R, Nat)
    BY NatLessThanWellFounded
  <2> HIDE DEF R
  <2>2. Nat \ T \subseteq Nat
    OBVIOUS
  <2>3. QED
    BY <2>1, <2>2, WFMin, Zenon
<1>2. PICK x \in Nat \ T : \A y \in Nat \ T : ~(<<y, x>> \in R)
  BY <1>1
<1>3. \A y \in Nat : y < x => <<y, x>> \in R
  BY DEF OpToRel
<1>4. x # 0 /\ x - 1 \in Nat /\ x - 1 < x /\ (x - 1) + 1 = x
  BY SMT
<1>5. x - 1 \in T
  BY <1>2, <1>3, <1>4
<1>6. QED
  BY <1>4, <1>5

\* Induction: what holds of <<>> and with one member more holds of all sequences.
LEMMA SequenceInduction ==
    ASSUME NEW X, NEW T, <<>> \in T,
           \A s \in Seq(X), x \in X : s \in T => Append(s, x) \in T
    PROVE  Seq(X) \subseteq T
<1> DEFINE N == {n \in Nat : \A s \in Seq(X) : Len(s) = n => s \in T}
<1>1. 0 \in N
  <2>1. \A s \in Seq(X) : Len(s) = 0 => s = <<>>
    BY EmptySeq
  <2>2. QED
    BY <2>1
<1>2. ASSUME NEW n \in Nat, n \in N PROVE n + 1 \in N
  <2> SUFFICES ASSUME NEW s \in Seq(X), Len(s) = n + 1 PROVE s \in T
    OBVIOUS
  <2>1. s # <<>>
    BY EmptySeq
  <2>2. PICK t \in Seq(X), x \in X : s = Append(t, x)
    BY <2>1, SequenceEmptyOrAppend
  <2>3. Len(t) = n
    BY <2>2, AppendProperties, LenProperties
  <2>4. QED
    BY <1>2, <2>2, <2>3
<1> HIDE DEF N
<1>3. Nat \subseteq N
  BY <1>1, <1>2, NumberInduction
<1>4. QED
  BY <1>3, LenProperties DEF N

-----------------------------------------------------------------------------
(* Flattened sequences.                                                     *)

\* The partial flattenings of a sequence of sequences.
Flattens(f, s, n) ==
    f = [i \in 1..n |-> IF i = 1 THEN s[i] ELSE f[i - 1] \o s[i]]

\* There are partial flattenings, FlattenSeq chooses some.
LEMMA FlattensExists ==
    ASSUME NEW s, NEW n \in Nat
    PROVE  \E f : Flattens(f, s, n)
<1> DEFINE T == {k \in Nat : \E f : Flattens(f, s, k)}
<1>1. 0 \in T
  <2>1. Flattens([i \in 1..0 |-> s], s, 0)
    BY DEF Flattens
  <2>2. QED
    BY <2>1
<1>2. ASSUME NEW k \in Nat, k \in T PROVE k + 1 \in T
  <2>1. PICK f : Flattens(f, s, k)
    BY <1>2
  <2> DEFINE g == [i \in 1..(k + 1) |->
                      IF i = k + 1 THEN (IF i = 1 THEN s[i] ELSE f[k] \o s[i]) ELSE f[i]]
  <2>2. Flattens(g, s, k + 1)
    <3>1. \A i \in 1..k : g[i] = f[i]
      OBVIOUS
    <3>2. \A i \in 1..k : f[i] = IF i = 1 THEN s[i] ELSE f[i - 1] \o s[i]
      BY <2>1 DEF Flattens
    <3>3. ASSUME NEW i \in 1..(k + 1)
          PROVE  g[i] = IF i = 1 THEN s[i] ELSE g[i - 1] \o s[i]
      <4>1. CASE i = k + 1
        <5>1. i - 1 = k /\ (i # 1 => k \in 1..k)
          BY <4>1
        <5>2. i # 1 => g[i - 1] = f[k]
          BY <3>1, <5>1
        <5>3. g[i] = IF i = 1 THEN s[i] ELSE f[k] \o s[i]
          BY <4>1
        <5>4. QED
          BY <5>2, <5>3
      <4>2. CASE i \in 1..k
        <5>1. i # 1 => i - 1 \in 1..k
          BY <4>2
        <5>2. QED
          BY <3>1, <3>2, <4>2, <5>1
      <4>3. QED
        BY <4>1, <4>2
    <3>4. QED
      BY <3>3, Zenon DEF Flattens
  <2>3. QED
    BY <2>2
<1> HIDE DEF T
<1>3. Nat \subseteq T
  BY <1>1, <1>2, NumberInduction
<1>4. QED
  BY <1>3 DEF T

\* Those of two sequences agree as far as the sequences do.
LEMMA FlattensAgree ==
    ASSUME NEW s, NEW t, NEW n \in Nat, NEW m \in Nat, n <= m,
           \A i \in 1..n : s[i] = t[i],
           NEW f, Flattens(f, s, n), NEW g, Flattens(g, t, m)
    PROVE  \A i \in 1..n : f[i] = g[i]
<1> DEFINE T == {k \in Nat : \A i \in 1..n : i <= k => f[i] = g[i]}
<1>1. 0 \in T
  OBVIOUS
<1>2. ASSUME NEW k \in Nat, k \in T PROVE k + 1 \in T
  <2>1. SUFFICES ASSUME k + 1 \in 1..n PROVE f[k + 1] = g[k + 1]
    BY <1>2
  <2> DEFINE j == k + 1
  <2>a. j \in 1..n /\ j \in 1..m
    BY <2>1
  <2> HIDE DEF j
  <2>2. f[j] = (IF j = 1 THEN s[j] ELSE f[j - 1] \o s[j])
    BY <2>a DEF Flattens
  <2>3. g[j] = (IF j = 1 THEN t[j] ELSE g[j - 1] \o t[j])
    BY <2>a DEF Flattens
  <2>4. k + 1 # 1 => f[(k + 1) - 1] = g[(k + 1) - 1]
    <3>1. (k + 1) - 1 = k /\ (k + 1 # 1 => k \in 1..n)
      BY <2>1
    <3>2. k \in 1..n => f[k] = g[k]
      BY <1>2
    <3>3. QED
      BY <3>1, <3>2
  <2>5. QED
    BY <2>1, <2>2, <2>3, <2>4 DEF j
<1> HIDE DEF T
<1>3. Nat \subseteq T
  BY <1>1, <1>2, NumberInduction
<1>4. QED
  BY <1>3 DEF T

\* FlattenSeq is the last of the partial flattenings.
LEMMA FlattenIs ==
    ASSUME NEW s, Len(s) \in Nat \ {0}
    PROVE  \E f : Flattens(f, s, Len(s)) /\ FlattenSeq(s) = f[Len(s)]
<1> DEFINE f == CHOOSE f : Flattens(f, s, Len(s))
<1>1. Flattens(f, s, Len(s))
  BY FlattensExists
<1>2. FlattenSeq(s) = f[Len(s)]
  BY Zenon DEF FlattenSeq, Flattens
<1>3. QED
  BY <1>1, <1>2

\* Nothing flattens to nothing.
LEMMA FlattenEmpty == FlattenSeq(<<>>) = <<>>
BY DEF FlattenSeq

\* A sequence more is flattened to the end.
LEMMA FlattenAppend ==
    ASSUME NEW X, NEW s \in Seq(Seq(X)), NEW x \in Seq(X)
    PROVE  FlattenSeq(Append(s, x)) = FlattenSeq(s) \o x
<1> DEFINE t == Append(s, x)
<1>1. /\ Len(s) \in Nat /\ Len(t) = Len(s) + 1 /\ Len(t) \in Nat \ {0}
      /\ t[Len(t)] = x /\ \A i \in 1..Len(s) : s[i] = t[i]
  BY AppendProperties, LenProperties
<1> HIDE DEF t
<1>2. PICK g : Flattens(g, t, Len(t)) /\ FlattenSeq(t) = g[Len(t)]
  BY <1>1, FlattenIs
<1>3. g[Len(t)] = IF Len(t) = 1 THEN t[Len(t)] ELSE g[Len(t) - 1] \o t[Len(t)]
  <2>1. Len(t) \in 1..Len(t)
    BY <1>1
  <2>2. QED
    BY <1>2, <2>1 DEF Flattens
<1>4. CASE s = <<>>
  <2>1. FlattenSeq(t) = x
    <3>1. Len(t) = 1
      BY <1>1, <1>4, EmptySeq
    <3>2. QED
      BY <1>1, <1>2, <1>3, <3>1
  <2>2. QED
    BY <1>4, <2>1, FlattenEmpty, ConcatEmptySeq DEF t
<1>5. CASE s # <<>>
  <2>1. Len(s) \in Nat \ {0}
    BY <1>5, EmptySeq
  <2>2. PICK f : Flattens(f, s, Len(s)) /\ FlattenSeq(s) = f[Len(s)]
    BY <2>1, FlattenIs
  <2>3. Len(s) <= Len(t)
    BY <1>1
  <2>4. \A i \in 1..Len(s) : f[i] = g[i]
    <3>1. Flattens(f, s, Len(s)) /\ Flattens(g, t, Len(t)) /\ \A i \in 1..Len(s) : s[i] = t[i]
      BY <1>1, <1>2, <2>2
    <3>2. \A n, m \in Nat : n <= m /\ Flattens(f, s, n) /\ Flattens(g, t, m)
                              /\ (\A i \in 1..n : s[i] = t[i]) => \A i \in 1..n : f[i] = g[i]
      BY FlattensAgree
    <3>3. QED
      BY <1>1, <2>3, <3>1, <3>2, Zenon
  <2>5. f[Len(s)] = g[Len(s)] /\ Len(t) # 1 /\ Len(t) - 1 = Len(s)
    BY <1>1, <2>1, <2>4
  <2>6. QED
    BY <1>1, <1>2, <1>3, <2>2, <2>5 DEF t
<1>6. QED
  BY <1>4, <1>5

-----------------------------------------------------------------------------
(* What each member of a sequence gives.                                    *)

\* What each member of a sequence gives, with a function for an operator.
FlatMap(s, g) == FlattenSeq([n \in DOMAIN s |-> g[s[n]]])
Gives(X, Y)   == [X -> Seq(Y)]

\* Nothing gives nothing.
LEMMA FlatMapEmpty == ASSUME NEW g PROVE FlatMap(<<>>, g) = <<>>
<1>1. [n \in DOMAIN <<>> |-> g[<<>>[n]]] = <<>>
  OBVIOUS
<1>2. QED
  BY <1>1, FlattenEmpty DEF FlatMap

\* What the last member gives comes last.
LEMMA FlatMapAppend ==
    ASSUME NEW X, NEW Y, NEW g \in Gives(X, Y), NEW s \in Seq(X), NEW x \in X
    PROVE  FlatMap(Append(s, x), g) = FlatMap(s, g) \o g[x]
<1> DEFINE t == Append(s, x)
           u == [n \in DOMAIN s |-> g[s[n]]]
           v == [n \in DOMAIN t |-> g[t[n]]]
<1>1. /\ Len(s) \in Nat /\ DOMAIN s = 1..Len(s)
      /\ t \in Seq(X) /\ Len(t) = Len(s) + 1 /\ DOMAIN t = 1..Len(t)
      /\ t[Len(s) + 1] = x /\ \A i \in 1..Len(s) : t[i] = s[i]
  BY AppendProperties, LenProperties
<1>2. \A n \in 1..Len(s) : s[n] \in X
  BY ElementOfSeq
<1> HIDE DEF t
<1>3. u \in Seq(Seq(Y)) /\ Len(u) = Len(s) /\ \A n \in 1..Len(s) : u[n] = g[s[n]]
  BY <1>1, <1>2 DEF Gives
<1>4. v \in Seq(Seq(Y)) /\ Len(v) = Len(s) + 1 /\ \A n \in 1..(Len(s) + 1) : v[n] = g[t[n]]
  BY <1>1, <1>2 DEF Gives
<1>5. g[x] \in Seq(Y)
  BY DEF Gives
<1> HIDE DEF u, v
<1>6. v = Append(u, g[x])
  <2>1. /\ Append(u, g[x]) \in Seq(Seq(Y)) /\ Len(Append(u, g[x])) = Len(s) + 1
        /\ \A n \in 1..Len(s) : Append(u, g[x])[n] = g[s[n]]
        /\ Append(u, g[x])[Len(s) + 1] = g[x]
    BY <1>1, <1>3, <1>5, AppendProperties
  <2>2. \A n \in 1..(Len(s) + 1) : v[n] = Append(u, g[x])[n]
    <3>1. \A n \in 1..(Len(s) + 1) : n \in 1..Len(s) \/ n = Len(s) + 1
      BY <1>1
    <3>2. QED
      BY <1>1, <1>4, <2>1, <3>1, ZenonT(40)
  <2>3. QED
    BY <1>1, <1>4, <2>1, <2>2, SeqEqual
<1>7. FlattenSeq(v) = FlattenSeq(u) \o g[x]
  BY <1>3, <1>5, <1>6, FlattenAppend
<1>8. QED
  BY <1>7 DEF FlatMap, t, u, v

\* The members of what is given.
LEMMA FlatMapType ==
    ASSUME NEW X, NEW Y, NEW g \in Gives(X, Y), NEW s \in Seq(X)
    PROVE  FlatMap(s, g) \in Seq(Y)
<1> DEFINE T == {t \in Seq(X) : FlatMap(t, g) \in Seq(Y)}
<1>1. <<>> \in T
  BY FlatMapEmpty, EmptySeq
<1>2. ASSUME NEW t \in Seq(X), NEW x \in X, t \in T PROVE Append(t, x) \in T
  <2>1. FlatMap(t, g) \in Seq(Y) /\ g[x] \in Seq(Y)
    BY <1>2 DEF Gives
  <2>2. FlatMap(t, g) \o g[x] \in Seq(Y)
    BY <2>1, ConcatProperties
  <2>3. FlatMap(Append(t, x), g) = FlatMap(t, g) \o g[x] /\ Append(t, x) \in Seq(X)
    BY FlatMapAppend, AppendProperties
  <2>4. QED
    BY <2>2, <2>3
<1> HIDE DEF T
<1>3. Seq(X) \subseteq T
  BY <1>1, <1>2, SequenceInduction
<1>4. QED
  BY <1>3 DEF T

\* One member gives what it gives.
LEMMA FlatMapOne ==
    ASSUME NEW X, NEW Y, NEW g \in Gives(X, Y), NEW x \in X
    PROVE  FlatMap(<<x>>, g) = g[x]
<1>1. <<x>> = Append(<<>>, x) /\ <<>> \in Seq(X)
  OBVIOUS
<1>2. FlatMap(<<x>>, g) = FlatMap(<<>>, g) \o g[x]
  BY <1>1, FlatMapAppend
<1>3. g[x] \in Seq(Y)
  BY DEF Gives
<1>4. QED
  BY <1>2, <1>3, FlatMapEmpty, ConcatEmptySeq

\* What two sequences give together.
LEMMA FlatMapConcat ==
    ASSUME NEW X, NEW Y, NEW g \in Gives(X, Y), NEW s \in Seq(X), NEW t \in Seq(X)
    PROVE  FlatMap(s \o t, g) = FlatMap(s, g) \o FlatMap(t, g)
<1> DEFINE T == {u \in Seq(X) : FlatMap(s \o u, g) = FlatMap(s, g) \o FlatMap(u, g)}
<1>1. <<>> \in T
  <2>1. FlatMap(s, g) \in Seq(Y)
    BY FlatMapType
  <2>2. QED
    BY <2>1, FlatMapEmpty, ConcatEmptySeq, EmptySeq
<1>2. ASSUME NEW u \in Seq(X), NEW x \in X, u \in T PROVE Append(u, x) \in T
  <2>1. /\ s \o u \in Seq(X) /\ Append(u, x) \in Seq(X)
        /\ s \o Append(u, x) = Append(s \o u, x)
    BY AppendProperties, ConcatProperties, AppendIsConcat, ConcatAssociative
  <2>2. FlatMap(s, g) \in Seq(Y) /\ FlatMap(u, g) \in Seq(Y) /\ g[x] \in Seq(Y)
    BY FlatMapType DEF Gives
  <2>3. FlatMap(s \o Append(u, x), g) = (FlatMap(s, g) \o FlatMap(u, g)) \o g[x]
    BY <1>2, <2>1, FlatMapAppend
  <2>4. FlatMap(Append(u, x), g) = FlatMap(u, g) \o g[x]
    BY FlatMapAppend
  <2>5. (FlatMap(s, g) \o FlatMap(u, g)) \o g[x] = FlatMap(s, g) \o (FlatMap(u, g) \o g[x])
    <3>1. ASSUME NEW a \in Seq(Y), NEW b \in Seq(Y), NEW c \in Seq(Y)
          PROVE  (a \o b) \o c = a \o (b \o c)
      BY ConcatAssociative, SMTT(30)
    <3>2. QED
      BY <2>2, <3>1, Zenon
  <2>6. QED
    BY <2>1, <2>3, <2>4, <2>5
<1> HIDE DEF T
<1>3. Seq(X) \subseteq T
  BY <1>1, <1>2, SequenceInduction
<1>4. QED
  BY <1>3 DEF T

\* What each gives of what each gives.
LEMMA FlatMapTwice ==
    ASSUME NEW X, NEW Y, NEW Z, NEW g \in Gives(X, Y), NEW h \in Gives(Y, Z),
           NEW k \in Gives(X, Z), \A x \in X : k[x] = FlatMap(g[x], h), NEW s \in Seq(X)
    PROVE  FlatMap(FlatMap(s, g), h) = FlatMap(s, k)
<1> DEFINE T == {t \in Seq(X) : FlatMap(FlatMap(t, g), h) = FlatMap(t, k)}
<1>1. k \in Gives(X, Z) /\ \A x \in X : k[x] = FlatMap(g[x], h)
  OBVIOUS
<1>2. <<>> \in T
  BY FlatMapEmpty, EmptySeq
<1>3. ASSUME NEW t \in Seq(X), NEW x \in X, t \in T PROVE Append(t, x) \in T
  <2>1. FlatMap(t, g) \in Seq(Y) /\ g[x] \in Seq(Y) /\ Append(t, x) \in Seq(X)
    BY FlatMapType, AppendProperties DEF Gives
  <2>2. FlatMap(Append(t, x), g) = FlatMap(t, g) \o g[x] /\ FlatMap(Append(t, x), k) = FlatMap(t, k) \o k[x]
    BY <1>1, FlatMapAppend
  <2>3. FlatMap(FlatMap(t, g) \o g[x], h) = FlatMap(FlatMap(t, g), h) \o FlatMap(g[x], h)
    <3>1. \A t1, t2 \in Seq(Y) : FlatMap(t1 \o t2, h) = FlatMap(t1, h) \o FlatMap(t2, h)
      BY FlatMapConcat
    <3>2. QED
      BY <2>1, <3>1
  <2>4. QED
    BY <1>1, <1>3, <2>1, <2>2, <2>3
<1> HIDE DEF T
<1>4. Seq(X) \subseteq T
  BY <1>2, <1>3, SequenceInduction
<1>5. QED
  BY <1>4 DEF T

\* Only the members of a sequence matter.
LEMMA FlatMapSame ==
    ASSUME NEW s, NEW g, NEW h, \A n \in DOMAIN s : g[s[n]] = h[s[n]]
    PROVE  FlatMap(s, g) = FlatMap(s, h)
<1>1. [n \in DOMAIN s |-> g[s[n]]] = [n \in DOMAIN s |-> h[s[n]]]
  OBVIOUS
<1>2. QED
  BY <1>1, Zenon DEF FlatMap

\* If no member gives anything, nothing is given.
LEMMA FlatMapNothing ==
    ASSUME NEW X, NEW g, NEW s \in Seq(X), \A n \in DOMAIN s : g[s[n]] = <<>>
    PROVE  FlatMap(s, g) = <<>>
<1> DEFINE h == [x \in X |-> <<>>]
           T == {t \in Seq(X) : FlatMap(t, h) = <<>>}
<1>1. h \in Gives(X, X) /\ \A x \in X : h[x] = <<>>
  BY DEF Gives
<1> HIDE DEF h
<1>2. <<>> \in T
  BY FlatMapEmpty
<1>3. ASSUME NEW t \in Seq(X), NEW x \in X, t \in T PROVE Append(t, x) \in T
  <2>1. FlatMap(Append(t, x), h) = FlatMap(t, h) \o h[x]
    BY <1>1, FlatMapAppend
  <2>2. QED
    BY <1>1, <1>3, <2>1, AppendProperties
<1> HIDE DEF T
<1>4. Seq(X) \subseteq T
  BY <1>2, <1>3, SequenceInduction
<1>5. \A n \in DOMAIN s : s[n] \in X
  BY ElementOfSeq, LenProperties
<1>6. FlatMap(s, g) = FlatMap(s, h)
  BY <1>1, <1>5, FlatMapSame
<1>7. QED
  BY <1>4, <1>6 DEF T

\* What is made of s and then seen through h is s seen through k.
LEMMA FlatMapVia ==
    ASSUME NEW X, NEW Y, NEW Z, NEW g \in Gives(X, Y), NEW h \in Gives(Y, Z), NEW k,
           NEW s \in Seq(X), \A n \in DOMAIN s : FlatMap(g[s[n]], h) = k[s[n]]
    PROVE  FlatMap(FlatMap(s, g), h) = FlatMap(s, k)
<1> DEFINE f == [x \in X |-> FlatMap(g[x], h)]
<1>0. f \in Gives(X, Z) /\ \A x \in X : f[x] = FlatMap(g[x], h)
  <2>1. \A x \in X : g[x] \in Seq(Y)
    BY DEF Gives
  <2>2. \A x \in X : FlatMap(g[x], h) \in Seq(Z)
    BY <2>1, FlatMapType
  <2>3. QED
    BY <2>2 DEF Gives
<1> HIDE DEF f
<1>1. FlatMap(FlatMap(s, g), h) = FlatMap(s, f)
  BY <1>0, FlatMapTwice
<1>2. \A n \in DOMAIN s : s[n] \in X
  BY ElementOfSeq, LenProperties
<1>3. \A n \in DOMAIN s : f[s[n]] = k[s[n]]
  BY <1>0, <1>2
<1>4. QED
  BY <1>1, <1>3, FlatMapSame

-----------------------------------------------------------------------------
(* Histories, and what is heard of them.                                    *)

Roles == {"system", "user", "assistant", "tool", "item"}
Kinds == {"text", "image", "printed", "thought"}
Ids   == Nat \cup {Blank}
Part  == [kind : Kinds, of : Int] \cup [kind : {"call"}, id : Ids, args : {"json", "null", "broken", "missing"}]
         \cup [kind : {"result"}, id : Ids]
Msg   == [role : Roles, parts : Seq(Part)]
Entry == [by : Roles \cup {"tools"}, part : Part]

\* What a listener G hears of a history: G[r][p] is what it hears of p in a message of r.
Ear(G)     == [m \in Msg |-> FlatMap(m.parts, G[m.role])]
Hear(G, h) == FlatMap(h, Ear(G))
Listener   == [Roles -> Gives(Part, Entry)]

\* Joining what is heard.
LEMMA Splice ==
    /\ \A a, b \in Seq(Entry) : a \o b \in Seq(Entry)
    /\ \A a \in Seq(Entry) : a \o <<>> = a /\ <<>> \o a = a
    /\ \A a, b, c \in Seq(Entry) : (a \o b) \o c = a \o (b \o c)
<1>1. \A a, b \in Seq(Entry) : a \o b \in Seq(Entry)
  BY ConcatProperties
<1>2. \A a \in Seq(Entry) : a \o <<>> = a /\ <<>> \o a = a
  BY ConcatEmptySeq
<1>3. ASSUME NEW a \in Seq(Entry), NEW b \in Seq(Entry), NEW c \in Seq(Entry)
      PROVE  (a \o b) \o c = a \o (b \o c)
  BY ConcatAssociative, SMTT(30)
<1>4. QED
  BY <1>1, <1>2, <1>3, Zenon

\* What is heard of parts.
LEMMA HearPart ==
    ASSUME NEW g \in Gives(Part, Entry)
    PROVE  /\ \A ps \in Seq(Part) : FlatMap(ps, g) \in Seq(Entry)
           /\ FlatMap(<<>>, g) = <<>>
           /\ \A p \in Part : FlatMap(<<p>>, g) = g[p]
           /\ \A ps \in Seq(Part), p \in Part : FlatMap(Append(ps, p), g) = FlatMap(ps, g) \o g[p]
           /\ \A ps, qs \in Seq(Part) : FlatMap(ps \o qs, g) = FlatMap(ps, g) \o FlatMap(qs, g)
<1>1. \A ps \in Seq(Part) : FlatMap(ps, g) \in Seq(Entry)
  BY FlatMapType
<1>2. \A p \in Part : FlatMap(<<p>>, g) = g[p]
  BY FlatMapOne
<1>3. \A ps \in Seq(Part), p \in Part : FlatMap(Append(ps, p), g) = FlatMap(ps, g) \o g[p]
  BY FlatMapAppend
<1>4. \A ps, qs \in Seq(Part) : FlatMap(ps \o qs, g) = FlatMap(ps, g) \o FlatMap(qs, g)
  BY FlatMapConcat
<1>5. QED
  BY <1>1, <1>2, <1>3, <1>4, FlatMapEmpty, Zenon

\* What is heard of a message is what is heard of its parts.
LEMMA EarIs ==
    ASSUME NEW G \in Listener
    PROVE  Ear(G) \in Gives(Msg, Entry) /\ \A m \in Msg : Ear(G)[m] = FlatMap(m.parts, G[m.role])
<1> SUFFICES ASSUME NEW m \in Msg PROVE FlatMap(m.parts, G[m.role]) \in Seq(Entry)
  BY DEF Ear, Gives
<1>1. m.parts \in Seq(Part) /\ G[m.role] \in Gives(Part, Entry)
  BY DEF Msg, Listener
<1>2. QED
  BY <1>1, HearPart

\* What is heard of messages.
LEMMA HearMessage ==
    ASSUME NEW G \in Listener
    PROVE  /\ \A h \in Seq(Msg) : Hear(G, h) \in Seq(Entry)
           /\ Hear(G, <<>>) = <<>>
           /\ \A m \in Msg : Hear(G, <<m>>) = FlatMap(m.parts, G[m.role])
           /\ \A h \in Seq(Msg), m \in Msg :
                 Hear(G, Append(h, m)) = Hear(G, h) \o FlatMap(m.parts, G[m.role])
           /\ \A h, d \in Seq(Msg) : Hear(G, h \o d) = Hear(G, h) \o Hear(G, d)
<1> DEFINE k == Ear(G)
<1>1. k \in Gives(Msg, Entry) /\ \A m \in Msg : k[m] = FlatMap(m.parts, G[m.role])
  BY EarIs
<1> HIDE DEF k
<1>2. \A h \in Seq(Msg) : FlatMap(h, k) \in Seq(Entry)
  BY <1>1, FlatMapType
<1>3. \A m \in Msg : FlatMap(<<m>>, k) = k[m]
  BY <1>1, FlatMapOne
<1>4. \A h \in Seq(Msg), m \in Msg : FlatMap(Append(h, m), k) = FlatMap(h, k) \o k[m]
  BY <1>1, FlatMapAppend
<1>5. \A h, d \in Seq(Msg) : FlatMap(h \o d, k) = FlatMap(h, k) \o FlatMap(d, k)
  BY <1>1, FlatMapConcat
<1>6. \A h : Hear(G, h) = FlatMap(h, k)
  BY Zenon DEF Hear, k
<1>7. QED
  BY <1>1, <1>2, <1>3, <1>4, <1>5, <1>6, FlatMapEmpty, Zenon

-----------------------------------------------------------------------------
(* Listeners, rewritings and filters.                                       *)

\* What a listener hears of a part p of a message of r, who keeps the entries in K
\* and rewrites them by g; and who has the parts rewritten by f before.
Hears(K, g, r, p)  == IF p.kind = "thought" \/ Heard(r, p) \notin K THEN <<>> ELSE <<g[Heard(r, p)]>>
Listening(K, f, g) == [r \in Roles |-> [p \in Part |-> Hears(K, g, r, f[p])]]
PartMap  == [Part -> Part]
EntryMap == [Entry -> Entry]

Same       == [p \in Part |-> p]
SameEntry  == [t \in Entry |-> t]
PlainEntry == [t \in Entry |-> [t EXCEPT !.part = Marshaled(@)]]
Rewrite(pr) == [p \in Part |-> IF pr[2] = "messages" THEN Printed(p)
                               ELSE IF pr[1] = "messages" THEN Marshaled(p) ELSE p]

NotWords     == {t \in Entry : t.by \notin {"assistant", "system"}}
NotCalls     == {t \in Entry : t.by # "system" /\ t.part.kind # "call"
                               /\ ~(t.by = "assistant" /\ t.part.of < 0)}
Instructions == {t \in Entry : t.by = "system"}
Filters      == {NotWords, NotCalls, Instructions}

\* What happened is an entry.
LEMMA HeardType == ASSUME NEW r \in Roles, NEW p \in Part PROVE Heard(r, p) \in Entry
  BY DEF Heard, Entry

\* json.Marshal leaves a part its kind, and changes calls only.
LEMMA MarshaledType ==
    ASSUME NEW p \in Part
    PROVE  Marshaled(p) \in Part /\ Marshaled(p).kind = p.kind /\ (p.kind # "call" => Marshaled(p) = p)
<1>1. CASE p.kind = "call"
  <2>1. p \in [kind : {"call"}, id : Ids, args : {"json", "null", "broken", "missing"}]
    BY <1>1 DEF Part, Kinds
  <2>2. QED
    BY <1>1, <2>1 DEF Marshaled, Part
<1>2. CASE p.kind # "call"
  BY <1>2 DEF Marshaled
<1>3. QED
  BY <1>1, <1>2

\* chatContentToAnthropic changes images only.
LEMMA PrintedType ==
    ASSUME NEW p \in Part
    PROVE  /\ Printed(p) \in Part /\ (p.kind # "image" => Printed(p) = p)
           /\ (p.kind = "image" => Printed(p).kind = "printed")
<1>1. CASE p.kind = "image"
  <2>1. p \in [kind : Kinds, of : Int]
    BY <1>1 DEF Part
  <2>2. QED
    BY <1>1, <2>1 DEF Printed, Part, Kinds
<1>2. CASE p.kind # "image"
  BY <1>2 DEF Printed
<1>3. QED
  BY <1>1, <1>2

\* The rewritings are of parts and of entries.
LEMMA MapTypes ==
    /\ Same \in PartMap /\ SameEntry \in EntryMap /\ PlainEntry \in EntryMap
    /\ \A pr : Rewrite(pr) \in PartMap
<1>1. Same \in PartMap /\ SameEntry \in EntryMap
  BY DEF Same, SameEntry, PartMap, EntryMap
<1>2. \A pr : Rewrite(pr) \in PartMap
  BY PrintedType, MarshaledType DEF Rewrite, PartMap
<1>3. PlainEntry \in EntryMap
  <2>1. \A t \in Entry : [t EXCEPT !.part = Marshaled(@)] \in Entry
    BY MarshaledType DEF Entry
  <2>2. QED
    BY <2>1 DEF PlainEntry, EntryMap
<1>4. QED
  BY <1>1, <1>2, <1>3

\* A listener that keeps K, after f and before g.
LEMMA ListeningIs ==
    ASSUME NEW K, NEW f \in PartMap, NEW g \in EntryMap
    PROVE  /\ Listening(K, f, g) \in Listener
           /\ \A r \in Roles : Listening(K, f, g)[r] \in Gives(Part, Entry)
           /\ \A r \in Roles : \A p \in Part : Listening(K, f, g)[r][p] = Hears(K, g, r, f[p])
<1>1. \A r \in Roles : \A p \in Part : g[Heard(r, f[p])] \in Entry
  BY HeardType DEF PartMap, EntryMap
<1>2. \A r \in Roles : \A p \in Part : Hears(K, g, r, f[p]) \in Seq(Entry)
  BY <1>1 DEF Hears
<1>3. \A r \in Roles : [p \in Part |-> Hears(K, g, r, f[p])] \in Gives(Part, Entry)
  BY <1>2 DEF Gives
<1>4. Listening(K, f, g) \in Listener
  BY <1>3, Zenon DEF Listening, Listener
<1>5. QED
  BY <1>4 DEF Listening, Listener

\* Thoughts are not heard.
LEMMA ThoughtUnheard == ASSUME NEW K, NEW g, NEW r, NEW p, p.kind = "thought" PROVE Hears(K, g, r, p) = <<>>
  BY DEF Hears

\* Whose message a call or a result is in does not matter.
LEMMA CallHeard ==
    ASSUME NEW K, NEW g, NEW r, NEW q, NEW p, p.kind \in {"call", "result"}
    PROVE  Hears(K, g, r, p) = Hears(K, g, q, p)
<1>1. Heard(r, p) = Heard(q, p)
  BY DEF Heard
<1>2. QED
  BY <1>1, Zenon DEF Hears

\* Who listens to all but words does not hear an assistant.
LEMMA WordUnheard ==
    ASSUME NEW g, NEW r \in {"assistant", "system"}, NEW p, p.kind \notin {"call", "result"}
    PROVE  Hears(NotWords, g, r, p) = <<>>
<1>1. Heard(r, p).by = r
  BY DEF Heard
<1>2. Heard(r, p) \notin NotWords
  BY <1>1 DEF NotWords
<1>3. QED
  BY <1>2, Zenon DEF Hears

\* Who listens to all but calls hears no call.
LEMMA CallUnheard ==
    ASSUME NEW K \in {NotCalls, Instructions}, NEW g, NEW r, NEW p, p.kind = "call"
    PROVE  Hears(K, g, r, p) = <<>>
<1>1. Heard(r, p).by = "tools" /\ Heard(r, p).part = p
  BY DEF Heard
<1>2. Heard(r, p) \notin K
  <2>1. CASE K = NotCalls
    BY <1>1, <2>1 DEF NotCalls
  <2>2. CASE K = Instructions
    BY <1>1, <2>2 DEF Instructions
  <2>3. QED
    BY <2>1, <2>2
<1>3. QED
  BY <1>2, Zenon DEF Hears

\* The parts of the kinds ks.
Pick(ks) == [p \in Part |-> IF p.kind \in ks THEN <<p>> ELSE <<>>]

\* Parts of some kinds, one at a time.
LEMMA PickIs ==
    ASSUME NEW ks
    PROVE  /\ Pick(ks) \in Gives(Part, Part)
           /\ \A p \in Part : p.kind \in ks => Pick(ks)[p] = <<p>>
           /\ \A p \in Part : p.kind \notin ks => Pick(ks)[p] = <<>>
  BY DEF Pick, Gives

\* The members of a sequence are of its set.
LEMMA MembersIn ==
    ASSUME NEW X, NEW s \in Seq(X)
    PROVE  \A n \in DOMAIN s : s[n] \in X
  BY ElementOfSeq, LenProperties

\* Words, calls and thoughts are picked part by part.
LEMMA WordsAre == ASSUME NEW ps \in Seq(Part) PROVE Words(ps) = FlatMap(ps, Pick({"text", "image"}))
<1>1. \A n \in DOMAIN ps : ps[n] \in Part
  BY MembersIn
<1>2. QED
  BY <1>1, Zenon DEF Words, Those, Each, FlatMap, Pick

\* The same of calls.
LEMMA CallsAre == ASSUME NEW ps \in Seq(Part) PROVE Calls(ps) = FlatMap(ps, Pick({"call"}))
<1>1. \A n \in DOMAIN ps : ps[n] \in Part
  BY MembersIn
<1>2. [n \in DOMAIN ps |-> IF ps[n].kind = "call" THEN <<ps[n]>> ELSE <<>>]
      = [n \in DOMAIN ps |-> Pick({"call"})[ps[n]]]
  BY <1>1 DEF Pick
<1>3. QED
  BY <1>2, Zenon DEF Calls, Those, Each, FlatMap

\* The same of thoughts.
LEMMA ThoughtsAre == ASSUME NEW ps \in Seq(Part) PROVE Thoughts(ps) = FlatMap(ps, Pick({"thought"}))
<1>1. \A n \in DOMAIN ps : ps[n] \in Part
  BY MembersIn
<1>2. [n \in DOMAIN ps |-> IF ps[n].kind = "thought" THEN <<ps[n]>> ELSE <<>>]
      = [n \in DOMAIN ps |-> Pick({"thought"})[ps[n]]]
  BY <1>1 DEF Pick
<1>3. QED
  BY <1>2, Zenon DEF Thoughts, Those, Each, FlatMap

\* What is picked are parts.
LEMMA SelectedType ==
    ASSUME NEW ps \in Seq(Part)
    PROVE  Words(ps) \in Seq(Part) /\ Calls(ps) \in Seq(Part) /\ Thoughts(ps) \in Seq(Part)
<1>1. \A ks : FlatMap(ps, Pick(ks)) \in Seq(Part)
  BY PickIs, FlatMapType
<1>2. QED
  BY <1>1, WordsAre, CallsAre, ThoughtsAre

-----------------------------------------------------------------------------
(* Words and calls, apart and together.                                     *)

\* What is heard of parts that are picked.
LEMMA PickedHeard ==
    ASSUME NEW ks, NEW g \in Gives(Part, Entry), NEW h, NEW ps \in Seq(Part),
           \A n \in DOMAIN ps : h[ps[n]] = IF ps[n].kind \in ks THEN g[ps[n]] ELSE <<>>
    PROVE  FlatMap(FlatMap(ps, Pick(ks)), g) = FlatMap(ps, h)
<1>1. \A n \in DOMAIN ps : ps[n] \in Part
  BY MembersIn
<1>2. FlatMap(<<>>, g) = <<>> /\ \A p \in Part : FlatMap(<<p>>, g) = g[p]
  BY HearPart, Zenon
<1>3. \A n \in DOMAIN ps : FlatMap(Pick(ks)[ps[n]], g) = h[ps[n]]
  <2> SUFFICES ASSUME NEW n \in DOMAIN ps PROVE FlatMap(Pick(ks)[ps[n]], g) = h[ps[n]]
    OBVIOUS
  <2>1. ps[n] \in Part
    BY <1>1
  <2>2. CASE ps[n].kind \in ks
    BY <1>2, <2>1, <2>2, PickIs
  <2>3. CASE ps[n].kind \notin ks
    BY <1>2, <2>1, <2>3, PickIs
  <2>4. QED
    BY <2>2, <2>3
<1>4. Pick(ks) \in Gives(Part, Part)
  BY PickIs
<1>5. QED
  BY <1>3, <1>4, FlatMapVia

\* The calls, as F writes them.
CallsBy(F) == [p \in Part |-> IF p.kind = "call" THEN <<F[p]>> ELSE <<>>]

\* Calls, each rewritten, one at a time.
LEMMA CallsByIs ==
    ASSUME NEW F \in PartMap
    PROVE  /\ CallsBy(F) \in Gives(Part, Part)
           /\ \A p \in Part : p.kind = "call" => CallsBy(F)[p] = <<F[p]>> /\ F[p] \in Part
           /\ \A p \in Part : p.kind # "call" => CallsBy(F)[p] = <<>>
  BY DEF CallsBy, Gives, PartMap

\* What is heard of calls that are rewritten.
LEMMA CallsByHeard ==
    ASSUME NEW F \in PartMap, NEW g \in Gives(Part, Entry), NEW h, NEW ps \in Seq(Part),
           \A n \in DOMAIN ps : h[ps[n]] = IF ps[n].kind = "call" THEN g[F[ps[n]]] ELSE <<>>
    PROVE  FlatMap(FlatMap(ps, CallsBy(F)), g) = FlatMap(ps, h)
<1>1. \A n \in DOMAIN ps : ps[n] \in Part
  BY MembersIn
<1>2. FlatMap(<<>>, g) = <<>> /\ \A p \in Part : FlatMap(<<p>>, g) = g[p]
  BY HearPart, Zenon
<1>3. \A n \in DOMAIN ps : FlatMap(CallsBy(F)[ps[n]], g) = h[ps[n]]
  <2> SUFFICES ASSUME NEW n \in DOMAIN ps PROVE FlatMap(CallsBy(F)[ps[n]], g) = h[ps[n]]
    OBVIOUS
  <2>1. ps[n] \in Part
    BY <1>1
  <2>2. CASE ps[n].kind = "call"
    BY <1>2, <2>1, <2>2, CallsByIs
  <2>3. CASE ps[n].kind # "call"
    BY <1>2, <2>1, <2>3, CallsByIs
  <2>4. QED
    BY <2>2, <2>3
<1>4. CallsBy(F) \in Gives(Part, Part)
  BY CallsByIs
<1>5. QED
  BY <1>3, <1>4, FlatMapVia

\* A filter keeps the words of a message or its calls, not both.
LEMMA WordsThenCalls ==
    ASSUME NEW K \in Filters, NEW F \in PartMap, NEW g \in EntryMap,
           NEW r \in {"system", "user", "assistant"}, NEW q \in Roles, NEW ps \in Seq(Part),
           \A n \in DOMAIN ps :
              /\ ps[n].kind \in {"text", "image", "thought", "call"}
              /\ ps[n].kind = "call" => r # "user" /\ F[ps[n]].kind = "call"
              /\ ps[n].kind # "call" => F[ps[n]] = ps[n]
    PROVE  FlatMap(Words(ps), Listening(K, Same, g)[r])
              \o FlatMap(FlatMap(ps, CallsBy(F)), Listening(K, Same, g)[q])
           = FlatMap(ps, Listening(K, F, g)[r])
<1> DEFINE a == Listening(K, Same, g)[r]
           b == Listening(K, Same, g)[q]
           h == Listening(K, F, g)[r]
<1>0. r \in Roles /\ Same \in PartMap /\ \A p \in Part : Same[p] = p
  BY MapTypes DEF Roles, Same
<1>1. /\ a \in Gives(Part, Entry) /\ b \in Gives(Part, Entry) /\ h \in Gives(Part, Entry)
      /\ \A p \in Part : /\ a[p] = Hears(K, g, r, p) /\ b[p] = Hears(K, g, q, p)
                         /\ h[p] = Hears(K, g, r, F[p])
  <2>0. \A f \in PartMap : \A w \in Roles :
           /\ Listening(K, f, g)[w] \in Gives(Part, Entry)
           /\ \A p \in Part : Listening(K, f, g)[w][p] = Hears(K, g, w, f[p])
    BY ListeningIs, ZenonT(40)
  <2>1. a \in Gives(Part, Entry) /\ \A p \in Part : a[p] = Hears(K, g, r, Same[p])
    BY <1>0, <2>0
  <2>2. b \in Gives(Part, Entry) /\ \A p \in Part : b[p] = Hears(K, g, q, Same[p])
    BY <1>0, <2>0
  <2>3. h \in Gives(Part, Entry) /\ \A p \in Part : h[p] = Hears(K, g, r, F[p])
    BY <1>0, <2>0
  <2> HIDE DEF a, b, h
  <2>4. QED
    BY <1>0, <2>1, <2>2, <2>3
<1> HIDE DEF a, b, h
<1>2. \A n \in DOMAIN ps : ps[n] \in Part /\ F[ps[n]] \in Part
  BY MembersIn DEF PartMap
<1>3. \A n \in DOMAIN ps : ps[n].kind \in {"text", "image"} => h[ps[n]] = a[ps[n]]
  BY <1>1, <1>2
<1>4. \A n \in DOMAIN ps : ps[n].kind = "thought" => h[ps[n]] = <<>>
  BY <1>1, <1>2, ThoughtUnheard
<1>5. \A n \in DOMAIN ps : ps[n].kind = "call" => h[ps[n]] = b[F[ps[n]]]
  BY <1>1, <1>2, CallHeard
<1>6. FlatMap(ps, h) \in Seq(Entry)
  BY <1>1, HearPart
<1>7. ASSUME \A n \in DOMAIN ps : ps[n].kind = "call" => h[ps[n]] = <<>>
      PROVE  FlatMap(Words(ps), a) \o FlatMap(FlatMap(ps, CallsBy(F)), b) = FlatMap(ps, h)
  <2>1. FlatMap(Words(ps), a) = FlatMap(ps, h)
    <3>1. \A n \in DOMAIN ps : h[ps[n]] = IF ps[n].kind \in {"text", "image"} THEN a[ps[n]] ELSE <<>>
      BY <1>3, <1>4, <1>7
    <3>2. QED
      BY <1>1, <3>1, PickedHeard, WordsAre
  <2>2. FlatMap(FlatMap(ps, CallsBy(F)), b) = <<>>
    <3> DEFINE z == [p \in Part |-> <<>>]
    <3>1. \A n \in DOMAIN ps : z[ps[n]] = IF ps[n].kind = "call" THEN b[F[ps[n]]] ELSE <<>>
      BY <1>2, <1>5, <1>7
    <3>2. \A n \in DOMAIN ps : z[ps[n]] = <<>>
      BY <1>2
    <3> HIDE DEF z
    <3>3. FlatMap(FlatMap(ps, CallsBy(F)), b) = FlatMap(ps, z)
      BY <1>1, <3>1, CallsByHeard
    <3>4. QED
      BY <3>2, <3>3, FlatMapNothing
  <2>3. QED
    BY <1>6, <2>1, <2>2, Splice
<1>8. ASSUME \A n \in DOMAIN ps : ps[n].kind \in {"text", "image"} => h[ps[n]] = <<>>
      PROVE  FlatMap(Words(ps), a) \o FlatMap(FlatMap(ps, CallsBy(F)), b) = FlatMap(ps, h)
  <2>1. FlatMap(Words(ps), a) = <<>>
    <3> DEFINE z == [p \in Part |-> <<>>]
    <3>1. \A n \in DOMAIN ps : z[ps[n]] = IF ps[n].kind \in {"text", "image"} THEN a[ps[n]] ELSE <<>>
      BY <1>2, <1>3, <1>8
    <3>2. \A n \in DOMAIN ps : z[ps[n]] = <<>>
      BY <1>2
    <3> HIDE DEF z
    <3>3. QED
      BY <1>1, <3>1, <3>2, PickedHeard, WordsAre, FlatMapNothing
  <2>2. FlatMap(FlatMap(ps, CallsBy(F)), b) = FlatMap(ps, h)
    <3>1. \A n \in DOMAIN ps : h[ps[n]] = IF ps[n].kind = "call" THEN b[F[ps[n]]] ELSE <<>>
      BY <1>4, <1>5, <1>8
    <3>2. QED
      BY <1>1, <3>1, CallsByHeard
  <2>3. QED
    BY <1>6, <2>1, <2>2, Splice
<1>9. \/ \A n \in DOMAIN ps : ps[n].kind = "call" => h[ps[n]] = <<>>
      \/ \A n \in DOMAIN ps : ps[n].kind \in {"text", "image"} => h[ps[n]] = <<>>
  <2>1. CASE K = NotWords /\ r = "user"
    BY <2>1
  <2>2. CASE K = NotWords /\ r # "user"
    BY <1>1, <1>2, <2>2, WordUnheard, SMTT(30)
  <2>3. CASE K # NotWords
    BY <1>1, <1>2, <2>3, CallUnheard DEF Filters
  <2>4. QED
    BY <2>1, <2>2, <2>3
<1>10. QED
  BY <1>7, <1>8, <1>9 DEF a, b, h

-----------------------------------------------------------------------------
(* Messages, and a conversion message by message.                           *)

\* A message of parts.
LEMMA MessageIs ==
    ASSUME NEW r \in Roles, NEW ps \in Seq(Part)
    PROVE  Message(r, ps) \in Msg /\ Message(r, ps).role = r /\ Message(r, ps).parts = ps
  BY DEF Message, Msg

\* Words of a role are heard as a message of it.
LEMMA SaidHeard ==
    ASSUME NEW G \in Listener, NEW r \in Roles, NEW ps \in Seq(Part)
    PROVE  SaidBy(r, ps) \in Seq(Msg) /\ Hear(G, SaidBy(r, ps)) = FlatMap(ps, G[r])
<1>1. CASE ps = <<>>
  BY <1>1, FlatMapEmpty, HearMessage, EmptySeq DEF SaidBy
<1>2. CASE ps # <<>>
  <2>1. SaidBy(r, ps) = <<Message(r, ps)>>
    BY <1>2 DEF SaidBy
  <2>2. Hear(G, <<Message(r, ps)>>) = FlatMap(ps, G[r])
    BY MessageIs, HearMessage
  <2>3. <<Message(r, ps)>> \in Seq(Msg)
    BY MessageIs
  <2>4. QED
    BY <2>1, <2>2, <2>3
<1>3. QED
  BY <1>1, <1>2

\* Items are heard as a message of them.
LEMMA AloneHeard ==
    ASSUME NEW G \in Listener, NEW ps \in Seq(Part)
    PROVE  Alone(ps) \in Seq(Msg) /\ Hear(G, Alone(ps)) = FlatMap(ps, G["item"])
<1> DEFINE c == [p \in Part |-> <<Message("item", <<p>>)>>]
<1>1. "item" \in Roles /\ \A p \in Part : <<p>> \in Seq(Part)
  BY DEF Roles
<1>2. \A p \in Part : Message("item", <<p>>) \in Msg
  BY <1>1, MessageIs
<1>3. c \in Gives(Part, Msg) /\ \A p \in Part : c[p] = <<Message("item", <<p>>)>>
  BY <1>2 DEF Gives
<1>4. \A n \in DOMAIN ps : ps[n] \in Part
  BY MembersIn
<1>5. Alone(ps) = FlatMap(ps, c)
  <2>1. [n \in DOMAIN ps |-> <<Message("item", <<ps[n]>>)>>] = [n \in DOMAIN ps |-> c[ps[n]]]
    BY <1>3, <1>4
  <2>2. QED
    BY <2>1, Zenon DEF Alone, Each, FlatMap
<1> HIDE DEF c
<1>6. G["item"] \in Gives(Part, Entry)
  BY <1>1 DEF Listener
<1>7. \A p \in Part : Hear(G, c[p]) = G["item"][p]
  <2> SUFFICES ASSUME NEW p \in Part PROVE Hear(G, c[p]) = G["item"][p]
    OBVIOUS
  <2>1. Hear(G, c[p]) = FlatMap(<<p>>, G["item"])
    <3> DEFINE m == Message("item", <<p>>)
    <3>1. m \in Msg /\ m.role = "item" /\ m.parts = <<p>> /\ c[p] = <<m>>
      BY <1>1, <1>3, MessageIs
    <3> HIDE DEF m
    <3>2. Hear(G, <<m>>) = FlatMap(m.parts, G[m.role])
      BY <3>1, HearMessage
    <3>3. QED
      BY <3>1, <3>2
  <2>2. FlatMap(<<p>>, G["item"]) = G["item"][p]
    BY <1>6, HearPart
  <2>3. QED
    BY <2>1, <2>2
<1>8. Ear(G) \in Gives(Msg, Entry)
  BY EarIs
<1>9. FlatMap(FlatMap(ps, c), Ear(G)) = FlatMap(ps, G["item"])
  <2>1. \A n \in DOMAIN ps : FlatMap(c[ps[n]], Ear(G)) = G["item"][ps[n]]
    BY <1>4, <1>7 DEF Hear
  <2>2. QED
    BY <1>3, <1>8, <2>1, FlatMapVia
<1>10. QED
  BY <1>3, <1>5, <1>9, FlatMapType DEF Hear

\* The messages that are no instructions.
Uninstructed == {m \in Msg : m.role # "system"}

\* No instructions are among what another role says.
LEMMA SaidUninstructed ==
    ASSUME NEW r \in Roles, r # "system", NEW ps \in Seq(Part)
    PROVE  SaidBy(r, ps) \in Seq(Uninstructed)
<1>1. Message(r, ps) \in Uninstructed
  BY MessageIs DEF Uninstructed
<1>2. QED
  BY <1>1, EmptySeq DEF SaidBy

\* Nor among items.
LEMMA AloneUninstructed == ASSUME NEW ps \in Seq(Part) PROVE Alone(ps) \in Seq(Uninstructed)
<1> DEFINE c == [p \in Part |-> <<Message("item", <<p>>)>>]
<1>1. \A p \in Part : Message("item", <<p>>) \in Uninstructed
  <2>1. "item" \in Roles /\ \A p \in Part : <<p>> \in Seq(Part)
    BY DEF Roles
  <2>2. QED
    BY <2>1, MessageIs DEF Uninstructed
<1>2. c \in Gives(Part, Uninstructed)
  BY <1>1 DEF Gives
<1>3. \A n \in DOMAIN ps : ps[n] \in Part
  BY MembersIn
<1>4. Alone(ps) = FlatMap(ps, c)
  <2>1. [n \in DOMAIN ps |-> <<Message("item", <<ps[n]>>)>>] = [n \in DOMAIN ps |-> c[ps[n]]]
    BY <1>3
  <2>2. QED
    BY <2>1, Zenon DEF Alone, Each, FlatMap
<1> HIDE DEF c
<1>5. QED
  BY <1>2, <1>4, FlatMapType

\* What each message becomes is heard as the message was.
LEMMA ConversionHeard ==
    ASSUME NEW X \in SUBSET Msg, NEW c \in Gives(X, Msg), NEW G \in Listener, NEW H \in Listener,
           NEW h \in Seq(X),
           \A m \in X : Hear(G, c[m]) = FlatMap(m.parts, H[m.role])
    PROVE  FlatMap(h, c) \in Seq(Msg) /\ Hear(G, FlatMap(h, c)) = Hear(H, h)
<1>1. \A n \in DOMAIN h : h[n] \in X
  BY MembersIn
<1>2. Ear(G) \in Gives(Msg, Entry) /\ \A m \in Msg : Ear(H)[m] = FlatMap(m.parts, H[m.role])
  BY EarIs
<1>3. \A n \in DOMAIN h : FlatMap(c[h[n]], Ear(G)) = Ear(H)[h[n]]
  BY <1>1, <1>2 DEF Hear
<1>4. FlatMap(FlatMap(h, c), Ear(G)) = FlatMap(h, Ear(H))
  BY <1>2, <1>3, FlatMapVia
<1>5. QED
  BY <1>4, FlatMapType DEF Hear

\* What each conversion rewrites.
LEMMA RewriteIs ==
    /\ Rewrite(<<"chat", "responses">>) = Same /\ Rewrite(<<"responses", "chat">>) = Same
    /\ \A p \in Part : /\ Rewrite(<<"chat", "messages">>)[p] = Printed(p)
                       /\ Rewrite(<<"messages", "chat">>)[p] = Marshaled(p)
  BY DEF Rewrite, Same

\* Calls that are not rewritten are the calls.
LEMMA CallsBySame == \A ps \in Seq(Part) : FlatMap(ps, CallsBy(Same)) = Calls(ps)
<1>1. CallsBy(Same) = Pick({"call"})
  BY DEF CallsBy, Same, Pick
<1>2. QED
  BY <1>1, CallsAre

\* Who leaves words or calls out does not hear instructions.
LEMMA SystemUnheard ==
    ASSUME NEW K \in {NotWords, NotCalls}, NEW g, NEW p, p.kind \notin {"call", "result"}
    PROVE  Hears(K, g, "system", p) = <<>>
<1>1. Heard("system", p).by = "system"
  BY DEF Heard
<1>2. Heard("system", p) \notin K
  <2>1. CASE K = NotWords
    BY <1>1, <2>1 DEF NotWords
  <2>2. CASE K = NotCalls
    BY <1>1, <2>2 DEF NotCalls
  <2>3. QED
    BY <2>1, <2>2
<1>3. QED
  BY <1>2, Zenon DEF Hears

-----------------------------------------------------------------------------
(* Histories a conversion does not refuse; Chat's to Responses.             *)

\* The messages of a protocol.
Speakers(protocol) ==
    {"user", "assistant"} \cup (IF protocol = "messages" THEN {} ELSE {"system"})
    \cup (IF protocol = "chat" THEN {"tool"} ELSE {}) \cup (IF protocol = "responses" THEN {"item"} ELSE {})

SoundPart(protocol, role, p) ==
    \/ role = "system" /\ p.kind = "text"
    \/ role = "user" /\ (p.kind \in {"text", "image"} \/ (protocol = "messages" /\ p.kind = "result"))
    \/ role = "assistant" /\ p.kind \in {"text", "thought", "call"}
    \/ role = "tool" /\ p.kind = "result"
    \/ role = "item" /\ p.kind \in {"thought", "call", "result"}

Sound(protocol) ==
    {m \in Msg : /\ m.role \in Speakers(protocol)
                 /\ \A n \in DOMAIN m.parts : SoundPart(protocol, m.role, m.parts[n])
                 /\ m.role = "item" => \E p \in Part : m.parts = <<p>>}

\* Those that a conversion does not refuse.
Accepted(pr) == {m \in Sound(pr[1]) : \A n \in DOMAIN m.parts : ~RefusedPart(pr, m, m.parts[n])}

\* Accepted messages are messages of sound parts.
LEMMA AcceptedAre ==
    ASSUME NEW pr
    PROVE  /\ Accepted(pr) \in SUBSET Msg
           /\ \A m \in Accepted(pr) : m.parts \in Seq(Part) /\ m.role \in Speakers(pr[1])
           /\ \A m \in Accepted(pr) : \A n \in DOMAIN m.parts :
                 m.parts[n] \in Part /\ SoundPart(pr[1], m.role, m.parts[n])
<1>1. Accepted(pr) \in SUBSET Msg
  BY DEF Accepted, Sound
<1>2. ASSUME NEW m \in Accepted(pr), NEW n \in DOMAIN m.parts
      PROVE  m.parts[n] \in Part /\ SoundPart(pr[1], m.role, m.parts[n])
  <2>1. m.parts \in Seq(Part)
    BY <1>1 DEF Msg
  <2>2. m.parts[n] \in Part
    BY <2>1, MembersIn
  <2>3. QED
    BY <2>2 DEF Accepted, Sound
<1>3. \A m \in Accepted(pr) : m.parts \in Seq(Part) /\ m.role \in Speakers(pr[1])
  BY DEF Accepted, Sound, Msg
<1>4. QED
  BY <1>1, <1>2, <1>3

\* A listener to what is not rewritten.
LEMMA SameHears ==
    ASSUME NEW K, NEW g \in EntryMap
    PROVE  /\ Listening(K, Same, g) \in Listener
           /\ \A r \in Roles : Listening(K, Same, g)[r] \in Gives(Part, Entry)
           /\ \A r \in Roles : \A p \in Part : Listening(K, Same, g)[r][p] = Hears(K, g, r, p)
<1>1. Same \in PartMap /\ \A p \in Part : Same[p] = p
  BY MapTypes DEF Same
<1>2. \A r \in Roles : \A p \in Part : Listening(K, Same, g)[r][p] = Hears(K, g, r, Same[p])
  BY <1>1, ListeningIs
<1>3. QED
  BY <1>1, <1>2, ListeningIs

\* A conversion of a history, and what is heard of it.
HearsAlike(pr, K, g, c, h) ==
    c \in Seq(Msg) /\ Hear(Listening(K, Same, g), c) = Hear(Listening(K, Rewrite(pr), g), h)

\* ChatToResponses loses nothing, and keeps the order.
LEMMA ItemsHeard ==
    ASSUME NEW K \in {NotWords, NotCalls}, NEW g \in EntryMap,
           NEW h \in Seq(Accepted(<<"chat", "responses">>))
    PROVE  /\ HearsAlike(<<"chat", "responses">>, K, g, Items(h), h)
           /\ Items(h) \in Seq(Uninstructed)
<1> DEFINE X == Accepted(<<"chat", "responses">>)
           G == Listening(K, Same, g)
           c == [m \in X |->
                    CASE m.role = "system" -> <<>>
                      [] m.role = "tool"   -> Alone(m.parts)
                      [] OTHER -> SaidBy(m.role, Words(m.parts)) \o Alone(Calls(m.parts))]
<1>1. /\ X \in SUBSET Msg
      /\ \A m \in X : m.parts \in Seq(Part) /\ m.role \in {"system", "user", "assistant", "tool"}
      /\ \A m \in X : \A n \in DOMAIN m.parts :
            m.parts[n] \in Part /\ SoundPart("chat", m.role, m.parts[n])
  BY AcceptedAre DEF Speakers
<1>2. /\ \A m \in X : m.role = "system" => c[m] = <<>>
      /\ \A m \in X : m.role = "tool" => c[m] = Alone(m.parts)
      /\ \A m \in X : m.role \notin {"system", "tool"} =>
            c[m] = SaidBy(m.role, Words(m.parts)) \o Alone(Calls(m.parts))
  OBVIOUS
<1>3. Items(h) = FlatMap(h, c)
  <2>1. \A n \in DOMAIN h : h[n] \in X
    BY MembersIn
  <2>2. QED
    BY <2>1, Zenon DEF Items, Each, FlatMap
<1>4. DOMAIN c = X /\ c = [m \in X |-> c[m]]
  OBVIOUS
<1>5. /\ G \in Listener /\ \A r \in Roles : G[r] \in Gives(Part, Entry)
      /\ \A r \in Roles : \A p \in Part : G[r][p] = Hears(K, g, r, p)
  BY SameHears, Zenon
<1> HIDE DEF X, G, c
<1>6. ASSUME NEW m \in X
      PROVE  /\ c[m] \in Seq(Uninstructed) /\ c[m] \in Seq(Msg)
             /\ Hear(G, c[m]) = FlatMap(m.parts, G[m.role])
  <2>1. m \in Msg /\ m.role \in Roles /\ m.parts \in Seq(Part)
    BY <1>1 DEF Msg
  <2>2. CASE m.role = "system"
    <3>1. \A n \in DOMAIN m.parts : G["system"][m.parts[n]] = <<>>
      BY <1>1, <1>5, <2>1, <2>2, SystemUnheard DEF SoundPart
    <3>2. FlatMap(m.parts, G["system"]) = <<>>
      BY <2>1, <3>1, FlatMapNothing
    <3>3. QED
      BY <1>2, <1>5, <2>2, <3>2, HearMessage, EmptySeq, ZenonT(40)
  <2>3. CASE m.role = "tool"
    <3>1. \A n \in DOMAIN m.parts : G["tool"][m.parts[n]] = G["item"][m.parts[n]]
      BY <1>1, <1>5, <2>1, <2>3, CallHeard DEF SoundPart, Roles
    <3>2. FlatMap(m.parts, G["tool"]) = FlatMap(m.parts, G["item"])
      BY <3>1, FlatMapSame
    <3>3. QED
      BY <1>2, <1>5, <2>1, <2>3, <3>2, AloneHeard, AloneUninstructed
  <2>4. CASE m.role \notin {"system", "tool"}
    <3>1. m.role \in {"user", "assistant"}
      BY <1>1, <2>4
    <3>2. FlatMap(Words(m.parts), G[m.role]) \o FlatMap(Calls(m.parts), G["item"])
          = FlatMap(m.parts, G[m.role])
      <4>1. \A n \in DOMAIN m.parts :
               /\ m.parts[n].kind \in {"text", "image", "thought", "call"}
               /\ m.parts[n].kind = "call" => m.role # "user" /\ Same[m.parts[n]].kind = "call"
               /\ m.parts[n].kind # "call" => Same[m.parts[n]] = m.parts[n]
        BY <1>1, <3>1 DEF SoundPart, Same
      <4>2. K \in Filters /\ Same \in PartMap /\ "item" \in Roles
        BY MapTypes DEF Filters, Roles
      <4>3. FlatMap(Words(m.parts), G[m.role]) \o FlatMap(FlatMap(m.parts, CallsBy(Same)), G["item"])
            = FlatMap(m.parts, G[m.role])
        <5>1. m.role \in {"system", "user", "assistant"}
          BY <3>1
        <5>2. FlatMap(Words(m.parts), Listening(K, Same, g)[m.role])
                 \o FlatMap(FlatMap(m.parts, CallsBy(Same)), Listening(K, Same, g)["item"])
              = FlatMap(m.parts, Listening(K, Same, g)[m.role])
          BY <2>1, <4>1, <4>2, <5>1, WordsThenCalls
        <5>3. QED
          BY <5>2 DEF G
      <4>4. QED
        BY <2>1, <4>3, CallsBySame
    <3>3. /\ Words(m.parts) \in Seq(Part) /\ Calls(m.parts) \in Seq(Part)
      BY <2>1, SelectedType
    <3>4. /\ SaidBy(m.role, Words(m.parts)) \in Seq(Msg)
          /\ Hear(G, SaidBy(m.role, Words(m.parts))) = FlatMap(Words(m.parts), G[m.role])
          /\ Alone(Calls(m.parts)) \in Seq(Msg)
          /\ Hear(G, Alone(Calls(m.parts))) = FlatMap(Calls(m.parts), G["item"])
      BY <1>5, <2>1, <3>3, SaidHeard, AloneHeard
    <3>5. Hear(G, SaidBy(m.role, Words(m.parts)) \o Alone(Calls(m.parts)))
          = Hear(G, SaidBy(m.role, Words(m.parts))) \o Hear(G, Alone(Calls(m.parts)))
      BY <1>5, <3>4, HearMessage
    <3>6. SaidBy(m.role, Words(m.parts)) \o Alone(Calls(m.parts)) \in Seq(Msg)
      BY <3>4, ConcatProperties
    <3>7. SaidBy(m.role, Words(m.parts)) \o Alone(Calls(m.parts)) \in Seq(Uninstructed)
      <4>1. SaidBy(m.role, Words(m.parts)) \in Seq(Uninstructed) /\ Alone(Calls(m.parts)) \in Seq(Uninstructed)
        BY <2>1, <2>4, <3>3, SaidUninstructed, AloneUninstructed
      <4>2. QED
        BY <4>1, ConcatProperties
    <3>8. QED
      BY <1>2, <2>4, <3>2, <3>4, <3>5, <3>6, <3>7
  <2>5. QED
    BY <2>2, <2>3, <2>4
<1>7. c \in Gives(X, Msg) /\ c \in Gives(X, Uninstructed)
  BY <1>4, <1>6, Zenon DEF Gives
<1>8. FlatMap(h, c) \in Seq(Msg) /\ Hear(G, FlatMap(h, c)) = Hear(G, h)
  BY <1>1, <1>5, <1>6, <1>7, ConversionHeard DEF X
<1>9. QED
  BY <1>3, <1>7, <1>8, RewriteIs, FlatMapType DEF HearsAlike, G, X

-----------------------------------------------------------------------------
(* Chat's to Anthropic's.                                                   *)

\* OpenAIToAnthropic loses nothing, and keeps the order.
LEMMA BlocksHeard ==
    ASSUME NEW K \in {NotWords, NotCalls}, NEW g \in EntryMap,
           NEW h \in Seq(Accepted(<<"chat", "messages">>))
    PROVE  /\ HearsAlike(<<"chat", "messages">>, K, g, Blocks(h), h)
           /\ Blocks(h) \in Seq(Uninstructed)
<1> DEFINE X == Accepted(<<"chat", "messages">>)
           F == Rewrite(<<"chat", "messages">>)
           G == Listening(K, Same, g)
           H == Listening(K, F, g)
           d == [p \in Part |-> IF p.kind = "thought" THEN <<>> ELSE <<Printed(p)>>]
           o(m) == IF m.role = "tool" THEN "user" ELSE m.role
           c == [m \in X |-> IF m.role = "system" THEN <<>>
                             ELSE <<Message(o(m), FlatMap(m.parts, d))>>]
<1>1. /\ X \in SUBSET Msg
      /\ \A m \in X : m.parts \in Seq(Part) /\ m.role \in {"system", "user", "assistant", "tool"}
      /\ \A m \in X : \A n \in DOMAIN m.parts :
            m.parts[n] \in Part /\ SoundPart("chat", m.role, m.parts[n])
  BY AcceptedAre DEF Speakers
<1>2. /\ \A p \in Part : p.kind = "thought" => d[p] = <<>>
      /\ \A p \in Part : p.kind # "thought" => d[p] = <<Printed(p)>>
  OBVIOUS
<1>3. d \in Gives(Part, Part)
  BY PrintedType DEF Gives
<1>4. /\ \A m \in X : m.role = "system" => c[m] = <<>>
      /\ \A m \in X : m.role # "system" => c[m] = <<Message(o(m), FlatMap(m.parts, d))>>
      /\ DOMAIN c = X /\ c = [m \in X |-> c[m]]
  OBVIOUS
<1>5. Blocks(h) = FlatMap(h, c)
  <2>1. \A n \in DOMAIN h : h[n] \in X
    BY MembersIn
  <2>2. \A m \in X : \A n \in DOMAIN m.parts : m.parts[n] \in Part
    BY <1>1
  <2>3. ASSUME NEW m \in X
        PROVE  Each(m.parts, LAMBDA p : IF p.kind = "thought" THEN <<>> ELSE <<Printed(p)>>)
               = FlatMap(m.parts, d)
    <3>1. [n \in DOMAIN m.parts |-> IF m.parts[n].kind = "thought" THEN <<>> ELSE <<Printed(m.parts[n])>>]
          = [n \in DOMAIN m.parts |-> d[m.parts[n]]]
      BY <2>2
    <3>2. QED
      BY <3>1, Zenon DEF Each, FlatMap
  <2>4. [n \in DOMAIN h |-> IF h[n].role = "system" THEN <<>>
          ELSE <<Message(IF h[n].role = "tool" THEN "user" ELSE h[n].role,
                    Each(h[n].parts, LAMBDA p : IF p.kind = "thought" THEN <<>> ELSE <<Printed(p)>>))>>]
        = [n \in DOMAIN h |-> c[h[n]]]
    BY <2>1, <2>3, Zenon
  <2>5. QED
    BY <2>4, Zenon DEF Blocks, Each, FlatMap
<1>6. /\ G \in Listener /\ \A r \in Roles : G[r] \in Gives(Part, Entry)
      /\ \A r \in Roles : \A p \in Part : G[r][p] = Hears(K, g, r, p)
  BY SameHears, Zenon
<1>7. F \in PartMap /\ \A p \in Part : F[p] = Printed(p)
  BY MapTypes, RewriteIs, Zenon
<1> HIDE DEF F
<1>8. H \in Listener /\ \A r \in Roles : \A p \in Part : H[r][p] = Hears(K, g, r, Printed(p))
  <2>1. Listening(K, F, g) \in Listener
        /\ \A r \in Roles : \A p \in Part : Listening(K, F, g)[r][p] = Hears(K, g, r, F[p])
    BY <1>7, ListeningIs
  <2>2. QED
    BY <1>7, <2>1
<1> HIDE DEF X, G, H, d, c
<1>9. ASSUME NEW m \in X
      PROVE  /\ c[m] \in Seq(Uninstructed) /\ c[m] \in Seq(Msg)
             /\ Hear(G, c[m]) = FlatMap(m.parts, H[m.role])
  <2>1. m \in Msg /\ m.role \in Roles /\ m.parts \in Seq(Part)
        /\ \A n \in DOMAIN m.parts : m.parts[n] \in Part
    BY <1>1 DEF Roles
  <2>2. CASE m.role = "system"
    <3>1. \A n \in DOMAIN m.parts : H["system"][m.parts[n]] = <<>>
      <4>1. \A n \in DOMAIN m.parts : m.parts[n].kind = "text" /\ m.parts[n] \in Part
        BY <1>1, <2>2 DEF SoundPart
      <4>2. \A p \in Part : p.kind = "text" => Printed(p).kind = "text"
        BY DEF Printed
      <4>3. \A p \in Part : H["system"][p] = Hears(K, g, "system", Printed(p))
        BY <1>8, <2>1, <2>2
      <4>4. \A p : p.kind = "text" => Hears(K, g, "system", p) = <<>>
        BY SystemUnheard
      <4>5. QED
        BY <4>1, <4>2, <4>3, <4>4
    <3>2. FlatMap(m.parts, H["system"]) = <<>>
      BY <2>1, <3>1, FlatMapNothing
    <3>3. QED
      BY <1>4, <1>6, <2>2, <3>2, HearMessage, EmptySeq, ZenonT(40)
  <2>3. CASE m.role # "system"
    <3>1. o(m) \in Roles /\ (m.role # "tool" => o(m) = m.role)
      BY <2>1 DEF Roles
    <3>2. FlatMap(m.parts, d) \in Seq(Part)
      BY <1>3, <2>1, FlatMapType
    <3>3. /\ c[m] \in Seq(Uninstructed) /\ c[m] \in Seq(Msg)
          /\ Hear(G, c[m]) = FlatMap(FlatMap(m.parts, d), G[o(m)])
      <4> DEFINE w == Message(o(m), FlatMap(m.parts, d))
      <4>1. w \in Msg /\ w.role = o(m) /\ w.parts = FlatMap(m.parts, d)
        BY <3>1, <3>2, MessageIs
      <4>2. c[m] = <<w>>
        BY <1>4, <2>3
      <4> HIDE DEF w
      <4>3. Hear(G, <<w>>) = FlatMap(w.parts, G[w.role])
        BY <1>6, <4>1, HearMessage
      <4>4. w \in Uninstructed
        BY <2>3, <4>1 DEF Uninstructed
      <4>5. QED
        BY <4>1, <4>2, <4>3, <4>4
    <3>4. \A n \in DOMAIN m.parts : FlatMap(d[m.parts[n]], G[o(m)]) = H[m.role][m.parts[n]]
      <4> SUFFICES ASSUME NEW n \in DOMAIN m.parts
                   PROVE  FlatMap(d[m.parts[n]], G[o(m)]) = H[m.role][m.parts[n]]
        OBVIOUS
      <4> DEFINE p == m.parts[n]
      <4>1. p \in Part /\ SoundPart("chat", m.role, p)
        BY <1>1
      <4> HIDE DEF p
      <4>2. /\ Printed(p) \in Part /\ (p.kind = "thought" => Printed(p).kind = "thought")
            /\ (p.kind = "result" => Printed(p).kind = "result")
        BY <4>1, PrintedType
      <4>3. H[m.role][p] = Hears(K, g, m.role, Printed(p)) /\ G[o(m)] \in Gives(Part, Entry)
        BY <1>6, <1>8, <2>1, <3>1, <4>1
      <4>4. CASE p.kind = "thought"
        <5>1. Hears(K, g, m.role, Printed(p)) = <<>>
          BY <4>2, <4>4, ThoughtUnheard
        <5>2. QED
          BY <1>2, <4>1, <4>3, <4>4, <5>1, FlatMapEmpty DEF p
      <4>5. CASE p.kind # "thought"
        <5>1. d[p] = <<Printed(p)>>
          BY <1>2, <4>1, <4>5
        <5>2. FlatMap(<<Printed(p)>>, G[o(m)]) = G[o(m)][Printed(p)]
          BY <4>2, <4>3, HearPart
        <5>3. G[o(m)][Printed(p)] = Hears(K, g, o(m), Printed(p))
          BY <1>6, <3>1, <4>2
        <5>4. Hears(K, g, o(m), Printed(p)) = Hears(K, g, m.role, Printed(p))
          <6>1. CASE m.role = "tool"
            BY <4>1, <4>2, <6>1, CallHeard DEF SoundPart
          <6>2. CASE m.role # "tool"
            BY <3>1, <6>2
          <6>3. QED
            BY <6>1, <6>2
        <5>5. QED
          BY <4>3, <5>1, <5>2, <5>3, <5>4 DEF p
      <4>6. QED
        BY <4>4, <4>5
    <3>5. FlatMap(FlatMap(m.parts, d), G[o(m)]) = FlatMap(m.parts, H[m.role])
      <4>1. G[o(m)] \in Gives(Part, Entry)
        BY <1>6, <3>1
      <4>2. QED
        BY <1>3, <2>1, <3>4, <4>1, FlatMapVia
    <3>6. QED
      BY <3>3, <3>5
  <2>4. QED
    BY <2>2, <2>3
<1>10. c \in Gives(X, Msg) /\ c \in Gives(X, Uninstructed)
  BY <1>4, <1>9, Zenon DEF Gives
<1>11. FlatMap(h, c) \in Seq(Msg) /\ Hear(G, FlatMap(h, c)) = Hear(H, h)
  BY <1>1, <1>6, <1>8, <1>9, <1>10, ConversionHeard DEF X
<1>12. QED
  BY <1>5, <1>10, <1>11, FlatMapType DEF HearsAlike, G, H, F, X

-----------------------------------------------------------------------------
(* Conversions that take one thing after the other.                         *)

\* A function that is defined from its value for the number before.
Steps(S, n)           == [(1..n) \X S -> S]
Recursive(f, S, b, n, t) == f \in [0..n -> S] /\ f[0] = b /\ \A i \in 1..n : f[i] = t[<<i, f[i - 1]>>]

\* A recursive function over numbers has values.
LEMMA RecursionExists ==
    ASSUME NEW S, NEW b \in S, NEW n \in Nat, NEW t \in Steps(S, n)
    PROVE  \E f : Recursive(f, S, b, n, t)
<1> DEFINE P(f, k) == f \in [0..k -> S] /\ f[0] = b /\ \A i \in 1..k : f[i] = t[<<i, f[i - 1]>>]
           T == {k \in Nat : k <= n => \E f : P(f, k)}
<1>0. t \in [(1..n) \X S -> S]
  BY DEF Steps
<1>1. 0 \in T
  <2>1. P([i \in 0..0 |-> b], 0)
    OBVIOUS
  <2>2. QED
    BY <2>1
<1>2. ASSUME NEW k \in Nat, k \in T PROVE k + 1 \in T
  <2> SUFFICES ASSUME k + 1 <= n PROVE \E f : P(f, k + 1)
    OBVIOUS
  <2>1. PICK f : P(f, k)
    BY <1>2
  <2> DEFINE g == [i \in 0..(k + 1) |-> IF i = k + 1 THEN t[<<k + 1, f[k]>>] ELSE f[i]]
  <2>2. f \in [0..k -> S] /\ f[0] = b /\ \A i \in 1..k : f[i] = t[<<i, f[i - 1]>>]
    BY <2>1
  <2>3. f[k] \in S /\ k + 1 \in 1..n
    BY <2>2
  <2>4. t[<<k + 1, f[k]>>] \in S
    BY <1>0, <2>3
  <2>5. /\ g[k + 1] = t[<<k + 1, f[k]>>] /\ \A i \in 0..k : g[i] = f[i]
    OBVIOUS
  <2>6. g \in [0..(k + 1) -> S]
    BY <2>2, <2>4
  <2> HIDE DEF g
  <2>7. ASSUME NEW i \in 1..(k + 1) PROVE g[i] = t[<<i, g[i - 1]>>]
    <3>1. CASE i = k + 1
      <4>1. i - 1 = k /\ k \in 0..k
        BY <3>1
      <4>2. g[i - 1] = f[k]
        BY <2>5, <4>1
      <4>3. QED
        BY <2>5, <3>1, <4>2
    <3>2. CASE i \in 1..k
      <4>1. i \in 0..k /\ i - 1 \in 0..k
        BY <3>2
      <4>2. QED
        BY <2>2, <2>5, <3>2, <4>1
    <3>3. QED
      BY <3>1, <3>2
  <2>8. g[0] = b
    BY <2>2, <2>5
  <2>9. QED
    BY <2>6, <2>7, <2>8
<1> HIDE DEF T
<1>3. n \in T /\ n <= n
  BY <1>1, <1>2, NumberInduction
<1> HIDE DEF P
<1>4. \E f : P(f, n)
  BY <1>3 DEF T
<1>5. QED
  BY <1>4 DEF P, Recursive

\* A sequence is what comes before its last member, and that.
LEMMA FrontAndLast ==
    ASSUME NEW X, NEW s \in Seq(X), s # <<>>
    PROVE  Front(s) \in Seq(X) /\ Last(s) \in X /\ s = Append(Front(s), Last(s))
<1>1. PICK t \in Seq(X), x \in X : s = Append(t, x)
  BY SequenceEmptyOrAppend
<1>2. Len(s) = Len(t) + 1 /\ Len(t) \in Nat /\ s[Len(s)] = x /\ \A i \in 1..Len(t) : s[i] = t[i]
  BY <1>1, AppendProperties, LenProperties
<1>3. Last(s) = x
  BY <1>2 DEF Last
<1>4. Front(s) = t
  <2>1. Front(s) = SubSeq(s, 1, Len(t))
    BY <1>2 DEF Front
  <2>2. SubSeq(s, 1, Len(t)) = t
    <3>1. SubSeq(s, 1, Len(t)) = [i \in 1..Len(t) |-> s[i]]
      BY <1>2
    <3>2. t = [i \in 1..Len(t) |-> t[i]]
      BY LenProperties
    <3>3. QED
      BY <1>2, <3>1, <3>2
  <2>3. QED
    BY <2>1, <2>2
<1>5. QED
  BY <1>1, <1>3, <1>4

\* A prefix grows by one member.
LEMMA PrefixAppend ==
    ASSUME NEW X, NEW s \in Seq(X), NEW n \in Nat, n + 1 <= Len(s)
    PROVE  /\ SubSeq(s, 1, n) \in Seq(X) /\ s[n + 1] \in X
           /\ SubSeq(s, 1, n + 1) = Append(SubSeq(s, 1, n), s[n + 1])
  OBVIOUS

\* What is added to the last message is heard after it.
LEMMA GrowLast ==
    ASSUME NEW G \in Listener, NEW h \in Seq(Msg), h # <<>>, NEW ps \in Seq(Part)
    PROVE  LET m == Last(h)
               d == Append(Front(h), Message(m.role, m.parts \o ps))
           IN  m \in Msg /\ d \in Seq(Msg) /\ Hear(G, d) = Hear(G, h) \o FlatMap(ps, G[m.role])
<1> DEFINE m == Last(h)
           w == Message(m.role, m.parts \o ps)
           t == Front(h)
<1>1. t \in Seq(Msg) /\ m \in Msg /\ h = Append(t, m)
  BY FrontAndLast
<1> HIDE DEF m, t
<1>2. m.role \in Roles /\ m.parts \in Seq(Part) /\ G[m.role] \in Gives(Part, Entry)
  BY <1>1 DEF Msg, Listener
<1>3. m.parts \o ps \in Seq(Part)
  BY <1>2, ConcatProperties
<1>4. w \in Msg /\ w.role = m.role /\ w.parts = m.parts \o ps
  BY <1>2, <1>3, MessageIs
<1> HIDE DEF w
<1>5. Append(t, w) \in Seq(Msg)
  BY <1>1, <1>4, AppendProperties
<1>6. Hear(G, Append(t, w)) = Hear(G, t) \o FlatMap(m.parts \o ps, G[m.role])
  <2>1. Hear(G, Append(t, w)) = Hear(G, t) \o FlatMap(w.parts, G[w.role])
    BY <1>1, <1>4, HearMessage
  <2>2. QED
    BY <1>4, <2>1
<1>7. Hear(G, h) = Hear(G, t) \o FlatMap(m.parts, G[m.role])
  BY <1>1, HearMessage
<1>8. FlatMap(m.parts \o ps, G[m.role]) = FlatMap(m.parts, G[m.role]) \o FlatMap(ps, G[m.role])
  BY <1>2, HearPart
<1>9. /\ Hear(G, t) \in Seq(Entry) /\ FlatMap(m.parts, G[m.role]) \in Seq(Entry)
      /\ FlatMap(ps, G[m.role]) \in Seq(Entry)
  BY <1>1, <1>2, HearMessage, HearPart
<1>10. Hear(G, Append(t, w)) = Hear(G, h) \o FlatMap(ps, G[m.role])
  <2> DEFINE x == Hear(G, t)
             y == FlatMap(m.parts, G[m.role])
             z == FlatMap(ps, G[m.role])
  <2>1. (x \o y) \o z = x \o (y \o z)
    BY <1>9, Splice, SMTT(30)
  <2>2. Hear(G, Append(t, w)) = x \o (y \o z)
    BY <1>6, <1>8
  <2>3. Hear(G, h) = x \o y
    BY <1>7
  <2> HIDE DEF x, y
  <2>4. QED
    BY <2>1, <2>2, <2>3
<1>11. QED
  BY <1>1, <1>5, <1>10 DEF m, t, w

\* A history that grows with what is heard of each x, over all of s.
Grown(chat, G, k, s) ==
    /\ chat[0] = <<>>
    /\ \A n \in 1..Len(s) : chat[n - 1] \in Seq(Msg) =>
          chat[n] \in Seq(Msg) /\ Hear(G, chat[n]) = Hear(G, chat[n - 1]) \o k[s[n]]

\* What a conversion hears that takes one member after the other.
LEMMA GrownHeard ==
    ASSUME NEW X, NEW G \in Listener, NEW k \in Gives(X, Entry), NEW s \in Seq(X), NEW chat,
           Grown(chat, G, k, s)
    PROVE  chat[Len(s)] \in Seq(Msg) /\ Hear(G, chat[Len(s)]) = FlatMap(s, k)
<1> DEFINE T == {n \in Nat : n <= Len(s) =>
                    chat[n] \in Seq(Msg) /\ Hear(G, chat[n]) = FlatMap(SubSeq(s, 1, n), k)}
<1>0. Len(s) \in Nat
  BY LenProperties
<1>1. 0 \in T
  <2>1. SubSeq(s, 1, 0) = <<>>
    OBVIOUS
  <2>2. QED
    BY <2>1, FlatMapEmpty, HearMessage, EmptySeq DEF Grown
<1>2. ASSUME NEW n \in Nat, n \in T PROVE n + 1 \in T
  <2> SUFFICES ASSUME n + 1 <= Len(s)
               PROVE  chat[n + 1] \in Seq(Msg) /\ Hear(G, chat[n + 1]) = FlatMap(SubSeq(s, 1, n + 1), k)
    OBVIOUS
  <2>1. chat[n] \in Seq(Msg) /\ Hear(G, chat[n]) = FlatMap(SubSeq(s, 1, n), k)
    BY <1>0, <1>2
  <2>2. n + 1 \in 1..Len(s) /\ (n + 1) - 1 = n
    BY <1>0
  <2>3. chat[n + 1] \in Seq(Msg) /\ Hear(G, chat[n + 1]) = Hear(G, chat[n]) \o k[s[n + 1]]
    BY <2>1, <2>2 DEF Grown
  <2>4. FlatMap(Append(SubSeq(s, 1, n), s[n + 1]), k) = FlatMap(SubSeq(s, 1, n), k) \o k[s[n + 1]]
    <3>1. SubSeq(s, 1, n) \in Seq(X) /\ s[n + 1] \in X
      BY PrefixAppend
    <3>2. QED
      BY <3>1, FlatMapAppend
  <2>5. QED
    BY <2>1, <2>3, <2>4, PrefixAppend
<1> HIDE DEF T
<1>3. Len(s) \in T
  BY <1>0, <1>1, <1>2, NumberInduction
<1>4. chat[Len(s)] \in Seq(Msg) /\ Hear(G, chat[Len(s)]) = FlatMap(SubSeq(s, 1, Len(s)), k)
  BY <1>0, <1>3 DEF T
<1>5. SubSeq(s, 1, Len(s)) = s
  OBVIOUS
<1>6. QED
  BY <1>4, <1>5

-----------------------------------------------------------------------------
(* Responses' to Chat.                                                      *)

\* An item more is heard after the others, wherever it is put.
LEMMA AddItemHeard ==
    ASSUME NEW K \in Filters, NEW g \in EntryMap, NEW chat \in Seq(Msg),
           NEW m \in Accepted(<<"responses", "chat">>)
    PROVE  LET G == Listening(K, Same, g) IN
           /\ AddItem(chat, m) \in Seq(Msg)
           /\ Hear(G, AddItem(chat, m)) = Hear(G, chat) \o FlatMap(m.parts, G[m.role])
<1> DEFINE G  == Listening(K, Same, g)
           ps == m.parts
<1>1. /\ ps \in Seq(Part) /\ m.role \in {"system", "user", "assistant", "item"}
      /\ \A n \in DOMAIN ps : ps[n] \in Part /\ SoundPart("responses", m.role, ps[n])
      /\ m.role \in Roles
  BY AcceptedAre DEF Speakers, Roles
<1>2. /\ G \in Listener /\ \A r \in Roles : G[r] \in Gives(Part, Entry)
      /\ \A r \in Roles : \A p \in Part : G[r][p] = Hears(K, g, r, p)
  BY SameHears, Zenon
<1>3. {"assistant", "item", "tool", "user"} \subseteq Roles
  BY DEF Roles
<1>4. ASSUME m.role # "item"
      PROVE  /\ AddItem(chat, m) \in Seq(Msg)
             /\ Hear(G, AddItem(chat, m)) = Hear(G, chat) \o FlatMap(ps, G[m.role])
  <2> DEFINE w == Message(m.role, Words(ps) \o Calls(ps))
  <2>1. Words(ps) \in Seq(Part) /\ Calls(ps) \in Seq(Part)
    BY <1>1, SelectedType
  <2>2. Words(ps) \o Calls(ps) \in Seq(Part)
    BY <2>1, ConcatProperties
  <2>3. w \in Msg /\ w.role = m.role /\ w.parts = Words(ps) \o Calls(ps)
    BY <1>1, <2>2, MessageIs
  <2>4. AddItem(chat, m) = Append(chat, w)
    BY <1>4 DEF AddItem
  <2> HIDE DEF w, ps
  <2>5. Hear(G, Append(chat, w)) = Hear(G, chat) \o FlatMap(Words(ps) \o Calls(ps), G[m.role])
    BY <1>2, <2>3, HearMessage
  <2>6. FlatMap(Words(ps) \o Calls(ps), G[m.role])
        = FlatMap(Words(ps), G[m.role]) \o FlatMap(Calls(ps), G[m.role])
    BY <1>1, <1>2, <2>1, HearPart
  <2>7. FlatMap(Words(ps), G[m.role]) \o FlatMap(Calls(ps), G[m.role]) = FlatMap(ps, G[m.role])
    <3>1. \A n \in DOMAIN ps :
               /\ ps[n].kind \in {"text", "image", "thought", "call"}
               /\ ps[n].kind = "call" => m.role # "user" /\ Same[ps[n]].kind = "call"
               /\ ps[n].kind # "call" => Same[ps[n]] = ps[n]
      BY <1>1, <1>4 DEF SoundPart, Same
    <3>2. Same \in PartMap /\ m.role \in {"system", "user", "assistant"} /\ Calls(ps) = FlatMap(ps, CallsBy(Same))
      BY <1>1, <1>4, MapTypes, CallsBySame
    <3>3. FlatMap(Words(ps), Listening(K, Same, g)[m.role])
             \o FlatMap(FlatMap(ps, CallsBy(Same)), Listening(K, Same, g)[m.role])
          = FlatMap(ps, Listening(K, Same, g)[m.role])
      BY <1>1, <3>1, <3>2, WordsThenCalls
    <3>4. QED
      BY <3>2, <3>3
  <2>8. Append(chat, w) \in Seq(Msg)
    BY <2>3, AppendProperties
  <2>9. QED
    BY <2>4, <2>5, <2>6, <2>7, <2>8
<1>5. ASSUME m.role = "item"
      PROVE  /\ AddItem(chat, m) \in Seq(Msg)
             /\ Hear(G, AddItem(chat, m)) = Hear(G, chat) \o FlatMap(ps, G["item"])
  <2>1. PICK p \in Part : ps = <<p>>
    BY <1>5 DEF Accepted, Sound
  <2>2. ps[1] = p /\ p.kind \in {"thought", "call", "result"}
    <3>1. 1 \in DOMAIN ps /\ ps[1] = p
      BY <2>1
    <3>2. SoundPart("responses", "item", ps[1])
      BY <1>1, <1>5, <3>1
    <3>3. QED
      BY <3>1, <3>2 DEF SoundPart
  <2>3. FlatMap(ps, G["item"]) = Hears(K, g, "item", p)
    <3>1. FlatMap(<<p>>, G["item"]) = G["item"][p]
      BY <1>2, <1>3, HearPart
    <3>2. QED
      BY <1>2, <1>3, <2>1, <3>1
  <2>4. ASSUME NEW r \in {"assistant", "tool"}, p.kind # "thought"
        PROVE  FlatMap(ps, G[r]) = FlatMap(ps, G["item"])
    <3>1. FlatMap(<<p>>, G[r]) = G[r][p]
      BY <1>2, <1>3, HearPart
    <3>2. G[r][p] = Hears(K, g, r, p)
      BY <1>2, <1>3
    <3>3. Hears(K, g, r, p) = Hears(K, g, "item", p)
      BY <2>2, <2>4, CallHeard
    <3>4. QED
      BY <2>1, <2>3, <3>1, <3>2, <3>3
  <2>5. ASSUME NEW r \in Roles, NEW qs \in Seq(Part)
        PROVE  /\ Append(chat, Message(r, qs)) \in Seq(Msg)
               /\ Hear(G, Append(chat, Message(r, qs))) = Hear(G, chat) \o FlatMap(qs, G[r])
    <3> DEFINE w == Message(r, qs)
    <3>1. w \in Msg /\ w.role = r /\ w.parts = qs
      BY MessageIs
    <3> HIDE DEF w
    <3>2. Hear(G, Append(chat, w)) = Hear(G, chat) \o FlatMap(w.parts, G[w.role])
      BY <1>2, <3>1, HearMessage
    <3>3. Append(chat, w) \in Seq(Msg)
      BY <3>1, AppendProperties
    <3>4. QED
      BY <3>1, <3>2, <3>3 DEF w
  <2>6. CASE p.kind = "thought"
    <3>1. AddItem(chat, m) = Append(chat, Message("user", <<>>))
      BY <1>5, <2>2, <2>6 DEF AddItem
    <3>2. <<>> \in Seq(Part) /\ FlatMap(<<>>, G["user"]) = <<>>
      BY <1>2, <1>3, HearPart, EmptySeq
    <3>3. Hears(K, g, "item", p) = <<>>
      BY <2>6, ThoughtUnheard
    <3>4. QED
      BY <1>3, <2>3, <2>5, <3>1, <3>2, <3>3
  <2>7. CASE p.kind = "result"
    <3>1. AddItem(chat, m) = Append(chat, Message("tool", ps))
      BY <1>5, <2>2, <2>7 DEF AddItem
    <3>2. QED
      BY <1>1, <1>3, <2>4, <2>5, <2>7, <3>1
  <2>8. CASE p.kind = "call" /\ chat # <<>> /\ Last(chat).role = "assistant"
    <3>1. AddItem(chat, m) = Append(Front(chat), Message("assistant", Last(chat).parts \o ps))
      BY <1>5, <2>2, <2>8 DEF AddItem
    <3> DEFINE d == Append(Front(chat), Message(Last(chat).role, Last(chat).parts \o ps))
    <3>2. d \in Seq(Msg) /\ Hear(G, d) = Hear(G, chat) \o FlatMap(ps, G[Last(chat).role])
      BY <1>1, <1>2, <2>8, GrowLast
    <3>3. AddItem(chat, m) = d
      BY <2>8, <3>1
    <3> HIDE DEF d
    <3>4. QED
      BY <2>4, <2>8, <3>2, <3>3
  <2>9. CASE p.kind = "call" /\ ~(chat # <<>> /\ Last(chat).role = "assistant")
    <3>1. AddItem(chat, m) = Append(chat, Message("assistant", ps))
      BY <1>5, <2>2, <2>9 DEF AddItem
    <3>2. QED
      BY <1>1, <1>3, <2>4, <2>5, <2>9, <3>1
  <2>10. QED
    BY <2>2, <2>6, <2>7, <2>8, <2>9
<1>6. QED
  BY <1>4, <1>5

\* Regrouped takes one item after the other.
LEMMA RegroupedIs ==
    ASSUME NEW h \in Seq(Accepted(<<"responses", "chat">>))
    PROVE  \E chat : /\ chat[0] = <<>> /\ \A n \in 1..Len(h) : chat[n] = AddItem(chat[n - 1], h[n])
                     /\ Regrouped(h) = chat[Len(h)]
<1> DEFINE t == [x \in (1..Len(h)) \X Seq(Msg) |-> AddItem(x[2], h[x[1]])]
           P(chat) == chat = [n \in 0..Len(h) |-> IF n = 0 THEN <<>> ELSE AddItem(chat[n - 1], h[n])]
<1>1. Len(h) \in Nat /\ \A n \in 1..Len(h) : h[n] \in Accepted(<<"responses", "chat">>)
  BY LenProperties, ElementOfSeq
<1>2. t \in Steps(Seq(Msg), Len(h))
  <2>1. \A n \in 1..Len(h), chat \in Seq(Msg) : AddItem(chat, h[n]) \in Seq(Msg)
    <3>1. NotWords \in Filters /\ SameEntry \in EntryMap
      BY MapTypes DEF Filters
    <3>2. QED
      BY <1>1, <3>1, AddItemHeard
  <2>2. QED
    BY <2>1 DEF Steps
<1>3. \A n \in 1..Len(h), chat \in Seq(Msg) : t[<<n, chat>>] = AddItem(chat, h[n])
  OBVIOUS
<1> HIDE DEF t
<1>4. <<>> \in Seq(Msg)
  BY EmptySeq
<1>5. PICK f : Recursive(f, Seq(Msg), <<>>, Len(h), t)
  BY <1>1, <1>2, <1>4, RecursionExists
<1>6. P(f)
  <2>0. f \in [0..Len(h) -> Seq(Msg)] /\ f[0] = <<>> /\ \A n \in 1..Len(h) : f[n] = t[<<n, f[n - 1]>>]
    BY <1>5 DEF Recursive
  <2>1. ASSUME NEW n \in 0..Len(h), n # 0 PROVE f[n] = AddItem(f[n - 1], h[n])
    <3>1. n \in 1..Len(h) /\ n - 1 \in 0..Len(h)
      BY <1>1, <2>1
    <3>2. f[n - 1] \in Seq(Msg)
      BY <2>0, <3>1
    <3>3. QED
      BY <1>3, <2>0, <3>1, <3>2
  <2>2. \A n \in 0..Len(h) : f[n] = IF n = 0 THEN <<>> ELSE AddItem(f[n - 1], h[n])
    BY <2>0, <2>1
  <2>3. QED
    BY <2>0, <2>2
<1> DEFINE chat == CHOOSE c : P(c)
<1>7. P(chat)
  BY <1>6
<1>8. Regrouped(h) = chat[Len(h)]
  BY Zenon DEF Regrouped
<1> HIDE DEF chat
<1>9. chat[0] = <<>> /\ \A n \in 1..Len(h) : chat[n] = AddItem(chat[n - 1], h[n])
  <2>1. \A n \in 0..Len(h) : chat[n] = IF n = 0 THEN <<>> ELSE AddItem(chat[n - 1], h[n])
    BY <1>7
  <2>2. 0 \in 0..Len(h) /\ \A n \in 1..Len(h) : n \in 0..Len(h) /\ n # 0
    BY <1>1
  <2>3. QED
    BY <2>1, <2>2
<1>10. QED
  BY <1>8, <1>9

\* ResponsesToChat loses nothing, and keeps the order.
LEMMA RegroupedHeard ==
    ASSUME NEW K \in Filters, NEW g \in EntryMap, NEW h \in Seq(Accepted(<<"responses", "chat">>))
    PROVE  HearsAlike(<<"responses", "chat">>, K, g, Regrouped(h), h)
<1> DEFINE G == Listening(K, Same, g)
<1>1. G \in Listener
  BY SameHears
<1>2. PICK chat : /\ chat[0] = <<>> /\ \A n \in 1..Len(h) : chat[n] = AddItem(chat[n - 1], h[n])
                  /\ Regrouped(h) = chat[Len(h)]
  BY RegroupedIs
<1>3. \A n \in 1..Len(h) : h[n] \in Accepted(<<"responses", "chat">>) /\ h[n] \in Msg
  BY ElementOfSeq, AcceptedAre
<1>4. h \in Seq(Msg)
  BY AcceptedAre, SeqMonotonic
<1>5. \A c \in Seq(Msg), m \in Accepted(<<"responses", "chat">>) :
         AddItem(c, m) \in Seq(Msg) /\ Hear(G, AddItem(c, m)) = Hear(G, c) \o FlatMap(m.parts, G[m.role])
  BY AddItemHeard
<1> HIDE DEF G
<1>6. Ear(G) \in Gives(Msg, Entry) /\ \A m \in Msg : Ear(G)[m] = FlatMap(m.parts, G[m.role])
  BY <1>1, EarIs
<1>7. Grown(chat, G, Ear(G), h)
  BY <1>2, <1>3, <1>5, <1>6 DEF Grown
<1>8. chat[Len(h)] \in Seq(Msg) /\ Hear(G, chat[Len(h)]) = FlatMap(h, Ear(G))
  BY <1>1, <1>4, <1>6, <1>7, GrownHeard
<1>9. QED
  BY <1>2, <1>8, RewriteIs DEF HearsAlike, Hear, G

-----------------------------------------------------------------------------
(* Anthropic's to Chat.                                                     *)

\* A block more is heard after the others, wherever it is put.
LEMMA AddBlockHeard ==
    ASSUME NEW K \in Filters, NEW g \in EntryMap, NEW chat \in Seq(Msg),
           NEW p \in Part, p.kind \in {"text", "result"}
    PROVE  LET G == Listening(K, Same, g) IN
           AddBlock(chat, p) \in Seq(Msg) /\ Hear(G, AddBlock(chat, p)) = Hear(G, chat) \o G["user"][p]
<1> DEFINE G == Listening(K, Same, g)
<1>1. /\ G \in Listener /\ \A r \in Roles : G[r] \in Gives(Part, Entry)
      /\ \A r \in Roles : \A q \in Part : G[r][q] = Hears(K, g, r, q)
  BY SameHears, Zenon
<1>2. {"tool", "user"} \subseteq Roles /\ <<p>> \in Seq(Part)
  BY DEF Roles
<1>3. ASSUME NEW r \in {"tool", "user"}
      PROVE  /\ Append(chat, Message(r, <<p>>)) \in Seq(Msg)
             /\ Hear(G, Append(chat, Message(r, <<p>>))) = Hear(G, chat) \o G[r][p]
  <2> DEFINE w == Message(r, <<p>>)
  <2>1. w \in Msg /\ w.role = r /\ w.parts = <<p>>
    BY <1>2, MessageIs
  <2> HIDE DEF w
  <2>2. Hear(G, Append(chat, w)) = Hear(G, chat) \o FlatMap(w.parts, G[w.role])
    BY <1>1, <2>1, HearMessage
  <2>3. FlatMap(<<p>>, G[r]) = G[r][p]
    BY <1>1, <1>2, HearPart
  <2>4. Append(chat, w) \in Seq(Msg)
    BY <2>1, AppendProperties
  <2>5. QED
    BY <2>1, <2>2, <2>3, <2>4 DEF w
<1>4. CASE p.kind = "result"
  <2>1. AddBlock(chat, p) = Append(chat, Message("tool", <<p>>))
    BY <1>4 DEF AddBlock
  <2>2. G["tool"][p] = G["user"][p]
    BY <1>1, <1>2, <1>4, CallHeard
  <2>3. QED
    BY <1>3, <2>1, <2>2
<1>5. CASE p.kind = "text" /\ chat # <<>> /\ Last(chat).role = "user"
  <2>1. AddBlock(chat, p) = Append(Front(chat), Message("user", Append(Last(chat).parts, p)))
    BY <1>5 DEF AddBlock
  <2> DEFINE d == Append(Front(chat), Message(Last(chat).role, Last(chat).parts \o <<p>>))
  <2>2. /\ Last(chat) \in Msg
        /\ d \in Seq(Msg) /\ Hear(G, d) = Hear(G, chat) \o FlatMap(<<p>>, G[Last(chat).role])
    BY <1>1, <1>2, <1>5, GrowLast
  <2>3. Append(Last(chat).parts, p) = Last(chat).parts \o <<p>>
    <3>1. Last(chat).parts \in Seq(Part)
      BY <2>2 DEF Msg
    <3>2. QED
      BY <3>1, AppendIsConcat
  <2>4. AddBlock(chat, p) = d
    BY <1>5, <2>1, <2>3
  <2> HIDE DEF d
  <2>5. FlatMap(<<p>>, G["user"]) = G["user"][p]
    BY <1>1, <1>2, HearPart
  <2>6. QED
    BY <1>5, <2>2, <2>4, <2>5
<1>6. CASE p.kind = "text" /\ ~(chat # <<>> /\ Last(chat).role = "user")
  <2>1. AddBlock(chat, p) = Append(chat, Message("user", <<p>>))
    BY <1>6 DEF AddBlock
  <2>2. QED
    BY <1>3, <2>1
<1>7. QED
  BY <1>4, <1>5, <1>6

\* The words and results of a user.
Blocked == {p \in Part : p.kind \in {"text", "result"}}

\* Turn takes one block after the other.
LEMMA TurnIs ==
    ASSUME NEW ps \in Seq(Blocked)
    PROVE  \E chat : /\ chat[0] = <<>> /\ \A n \in 1..Len(ps) : chat[n] = AddBlock(chat[n - 1], ps[n])
                     /\ Turn(ps) = chat[Len(ps)]
<1> DEFINE t == [x \in (1..Len(ps)) \X Seq(Msg) |-> AddBlock(x[2], ps[x[1]])]
           P(chat) == chat = [n \in 0..Len(ps) |-> IF n = 0 THEN <<>> ELSE AddBlock(chat[n - 1], ps[n])]
<1>1. Len(ps) \in Nat /\ \A n \in 1..Len(ps) : ps[n] \in Part /\ ps[n].kind \in {"text", "result"}
  <2>1. \A n \in 1..Len(ps) : ps[n] \in Blocked
    BY ElementOfSeq
  <2>2. QED
    BY <2>1, LenProperties DEF Blocked
<1>2. t \in Steps(Seq(Msg), Len(ps))
  <2>1. \A n \in 1..Len(ps), chat \in Seq(Msg) : AddBlock(chat, ps[n]) \in Seq(Msg)
    <3>1. NotWords \in Filters /\ SameEntry \in EntryMap
      BY MapTypes DEF Filters
    <3>2. QED
      BY <1>1, <3>1, AddBlockHeard
  <2>2. QED
    BY <2>1 DEF Steps
<1>3. \A n \in 1..Len(ps), chat \in Seq(Msg) : t[<<n, chat>>] = AddBlock(chat, ps[n])
  OBVIOUS
<1> HIDE DEF t
<1>4. <<>> \in Seq(Msg)
  BY EmptySeq
<1>5. PICK f : Recursive(f, Seq(Msg), <<>>, Len(ps), t)
  BY <1>1, <1>2, <1>4, RecursionExists
<1>6. P(f)
  <2>0. f \in [0..Len(ps) -> Seq(Msg)] /\ f[0] = <<>> /\ \A n \in 1..Len(ps) : f[n] = t[<<n, f[n - 1]>>]
    BY <1>5 DEF Recursive
  <2>1. ASSUME NEW n \in 0..Len(ps), n # 0 PROVE f[n] = AddBlock(f[n - 1], ps[n])
    <3>1. n \in 1..Len(ps) /\ n - 1 \in 0..Len(ps)
      BY <1>1, <2>1
    <3>2. f[n - 1] \in Seq(Msg)
      BY <2>0, <3>1
    <3>3. QED
      BY <1>3, <2>0, <3>1, <3>2
  <2>2. \A n \in 0..Len(ps) : f[n] = IF n = 0 THEN <<>> ELSE AddBlock(f[n - 1], ps[n])
    BY <2>0, <2>1
  <2>3. QED
    BY <2>0, <2>2
<1> DEFINE chat == CHOOSE c : P(c)
<1>7. P(chat)
  BY <1>6
<1>8. Turn(ps) = chat[Len(ps)]
  BY Zenon DEF Turn
<1> HIDE DEF chat
<1>9. chat[0] = <<>> /\ \A n \in 1..Len(ps) : chat[n] = AddBlock(chat[n - 1], ps[n])
  <2>1. \A n \in 0..Len(ps) : chat[n] = IF n = 0 THEN <<>> ELSE AddBlock(chat[n - 1], ps[n])
    BY <1>7
  <2>2. 0 \in 0..Len(ps) /\ \A n \in 1..Len(ps) : n \in 0..Len(ps) /\ n # 0
    BY <1>1
  <2>3. QED
    BY <2>1, <2>2
<1>10. QED
  BY <1>8, <1>9

\* A user's turn loses nothing, and keeps the order.
LEMMA TurnHeard ==
    ASSUME NEW K \in Filters, NEW g \in EntryMap, NEW ps \in Seq(Blocked)
    PROVE  LET G == Listening(K, Same, g) IN
           Turn(ps) \in Seq(Msg) /\ Hear(G, Turn(ps)) = FlatMap(ps, G["user"])
<1> DEFINE G == Listening(K, Same, g)
<1>1. G \in Listener /\ G["user"] \in Gives(Part, Entry)
  BY SameHears DEF Roles
<1>2. PICK chat : /\ chat[0] = <<>> /\ \A n \in 1..Len(ps) : chat[n] = AddBlock(chat[n - 1], ps[n])
                  /\ Turn(ps) = chat[Len(ps)]
  BY TurnIs
<1>3. \A n \in 1..Len(ps) : ps[n] \in Part /\ ps[n].kind \in {"text", "result"}
  <2>1. \A n \in 1..Len(ps) : ps[n] \in Blocked
    BY ElementOfSeq
  <2>2. QED
    BY <2>1 DEF Blocked
<1>4. ps \in Seq(Part)
  BY SeqMonotonic DEF Blocked
<1>5. \A c \in Seq(Msg), p \in Part : p.kind \in {"text", "result"} =>
         AddBlock(c, p) \in Seq(Msg) /\ Hear(G, AddBlock(c, p)) = Hear(G, c) \o G["user"][p]
  BY AddBlockHeard
<1> HIDE DEF G
<1> DEFINE k == G["user"]
<1>6. k \in Gives(Part, Entry) /\ Grown(chat, G, k, ps)
  BY <1>1, <1>2, <1>3, <1>5, ZenonT(40) DEF Grown
<1> HIDE DEF k
<1>7. chat[Len(ps)] \in Seq(Msg) /\ Hear(G, chat[Len(ps)]) = FlatMap(ps, k)
  BY <1>1, <1>4, <1>6, GrownHeard
<1>8. QED
  BY <1>2, <1>7 DEF k, G

\* A call that is written by json.Marshal.
Marshals == Rewrite(<<"messages", "chat">>)

\* Calls with their input marshaled.
LEMMA CallsMarshaled ==
    ASSUME NEW ps \in Seq(Part)
    PROVE  /\ Each(Calls(ps), LAMBDA p : <<Marshaled(p)>>) = FlatMap(ps, CallsBy(Marshals))
           /\ FlatMap(ps, CallsBy(Marshals)) \in Seq(Part)
<1> DEFINE d == [p \in Part |-> <<Marshaled(p)>>]
<1>1. d \in Gives(Part, Part) /\ \A p \in Part : d[p] = <<Marshaled(p)>>
  BY MarshaledType DEF Gives
<1>2. Marshals \in PartMap /\ \A p \in Part : Marshals[p] = Marshaled(p)
  BY MapTypes, RewriteIs DEF Marshals
<1>3. Calls(ps) \in Seq(Part)
  BY SelectedType
<1>4. Each(Calls(ps), LAMBDA p : <<Marshaled(p)>>) = FlatMap(Calls(ps), d)
  <2>1. \A n \in DOMAIN Calls(ps) : Calls(ps)[n] \in Part
    BY <1>3, MembersIn
  <2>2. [n \in DOMAIN Calls(ps) |-> <<Marshaled(Calls(ps)[n])>>] = [n \in DOMAIN Calls(ps) |-> d[Calls(ps)[n]]]
    BY <2>1
  <2>3. QED
    BY <2>2, Zenon DEF Each, FlatMap
<1> HIDE DEF d
<1>5. FlatMap(FlatMap(ps, Pick({"call"})), d) = FlatMap(ps, CallsBy(Marshals))
  <2>1. \A n \in DOMAIN ps : ps[n] \in Part
    BY MembersIn
  <2>2. ASSUME NEW p \in Part PROVE FlatMap(Pick({"call"})[p], d) = CallsBy(Marshals)[p]
    <3>1. CASE p.kind = "call"
      <4>1. Pick({"call"})[p] = <<p>> /\ CallsBy(Marshals)[p] = <<Marshaled(p)>>
        BY <1>2, <3>1, PickIs, CallsByIs
      <4>2. FlatMap(<<p>>, d) = d[p]
        BY <1>1, FlatMapOne
      <4>3. QED
        BY <1>1, <4>1, <4>2
    <3>2. CASE p.kind # "call"
      <4>1. Pick({"call"})[p] = <<>> /\ CallsBy(Marshals)[p] = <<>>
        BY <1>2, <3>2, PickIs, CallsByIs
      <4>2. QED
        BY <4>1, FlatMapEmpty
    <3>3. QED
      BY <3>1, <3>2
  <2>3. \A n \in DOMAIN ps : FlatMap(Pick({"call"})[ps[n]], d) = CallsBy(Marshals)[ps[n]]
    BY <2>1, <2>2
  <2>4. Pick({"call"}) \in Gives(Part, Part)
    BY PickIs
  <2>5. QED
    BY <1>1, <2>3, <2>4, FlatMapVia
<1>6. CallsBy(Marshals) \in Gives(Part, Part)
  BY <1>2, CallsByIs
<1>7. QED
  BY <1>4, <1>5, <1>6, CallsAre, FlatMapType

\* AnthropicToOpenAI loses nothing, and keeps the order.
LEMMA TurnsHeard ==
    ASSUME NEW K \in Filters, NEW g \in EntryMap, NEW h \in Seq(Accepted(<<"messages", "chat">>))
    PROVE  HearsAlike(<<"messages", "chat">>, K, g, Turns(h), h)
<1> DEFINE X == Accepted(<<"messages", "chat">>)
           G == Listening(K, Same, g)
           H == Listening(K, Marshals, g)
           c == [m \in X |-> IF m.role # "assistant" THEN Turn(m.parts)
                             ELSE SaidBy("assistant", Words(m.parts) \o FlatMap(m.parts, CallsBy(Marshals)))]
<1>1. /\ X \in SUBSET Msg
      /\ \A m \in X : m.parts \in Seq(Part) /\ m.role \in {"user", "assistant"}
      /\ \A m \in X : \A n \in DOMAIN m.parts :
            m.parts[n] \in Part /\ SoundPart("messages", m.role, m.parts[n])
  BY AcceptedAre DEF Speakers
<1>2. /\ \A m \in X : m.role # "assistant" => c[m] = Turn(m.parts)
      /\ \A m \in X : m.role = "assistant" =>
            c[m] = SaidBy("assistant", Words(m.parts) \o FlatMap(m.parts, CallsBy(Marshals)))
      /\ DOMAIN c = X /\ c = [m \in X |-> c[m]]
  OBVIOUS
<1>3. Turns(h) = FlatMap(h, c)
  <2>1. \A n \in DOMAIN h : h[n] \in X
    BY MembersIn
  <2>2. \A m \in X : Each(Calls(m.parts), LAMBDA p : <<Marshaled(p)>>) = FlatMap(m.parts, CallsBy(Marshals))
    BY <1>1, CallsMarshaled
  <2>3. [n \in DOMAIN h |-> IF h[n].role # "assistant" THEN Turn(h[n].parts)
            ELSE SaidBy("assistant", Words(h[n].parts) \o Each(Calls(h[n].parts), LAMBDA p : <<Marshaled(p)>>))]
        = [n \in DOMAIN h |-> c[h[n]]]
    BY <2>1, <2>2, Zenon
  <2>4. QED
    BY <2>3, Zenon DEF Turns, Each, FlatMap
<1>4. /\ G \in Listener /\ \A r \in Roles : G[r] \in Gives(Part, Entry)
      /\ \A r \in Roles : \A p \in Part : G[r][p] = Hears(K, g, r, p)
  BY SameHears, Zenon
<1>5. Marshals \in PartMap /\ \A p \in Part : Marshals[p] = Marshaled(p)
  BY MapTypes, RewriteIs DEF Marshals
<1>6. H \in Listener /\ \A r \in Roles : \A p \in Part : H[r][p] = Hears(K, g, r, Marshaled(p))
  <2>1. Listening(K, Marshals, g) \in Listener
        /\ \A r \in Roles : \A p \in Part : Listening(K, Marshals, g)[r][p] = Hears(K, g, r, Marshals[p])
    BY <1>5, ListeningIs
  <2>2. QED
    BY <1>5, <2>1
<1>7. ASSUME NEW m \in X, m.role # "assistant"
      PROVE  c[m] \in Seq(Msg) /\ Hear(G, c[m]) = FlatMap(m.parts, H[m.role])
  <2>1. m.role = "user" /\ "user" \in Roles
    BY <1>1, <1>7 DEF Roles
  <2>2. \A n \in DOMAIN m.parts : m.parts[n] \in Blocked
    <3>1. \A n \in DOMAIN m.parts : ~RefusedPart(<<"messages", "chat">>, m, m.parts[n])
      BY DEF Accepted
    <3>2. \A n \in DOMAIN m.parts : m.parts[n].kind # "image"
      BY <3>1 DEF RefusedPart
    <3>3. QED
      BY <1>1, <2>1, <3>2 DEF SoundPart, Blocked
  <2>3. m.parts \in Seq(Blocked)
    <3>1. m.parts \in Seq(Part)
      BY <1>1
    <3>2. QED
      BY <2>2, <3>1, LenProperties, IsASeq
  <2>4. Turn(m.parts) \in Seq(Msg) /\ Hear(G, Turn(m.parts)) = FlatMap(m.parts, G["user"])
    BY <2>3, TurnHeard
  <2> HIDE DEF c, G, H
  <2>5. \A n \in DOMAIN m.parts : G["user"][m.parts[n]] = H["user"][m.parts[n]]
    <3>1. \A p \in Blocked : p \in Part /\ Marshaled(p) = p
      BY DEF Blocked, Marshaled
    <3>2. \A p \in Blocked : G["user"][p] = H["user"][p]
      BY <1>4, <1>6, <2>1, <3>1
    <3>3. QED
      BY <2>2, <3>2
  <2>6. FlatMap(m.parts, G["user"]) = FlatMap(m.parts, H["user"])
    BY <2>5, FlatMapSame
  <2>7. QED
    BY <1>2, <1>7, <2>1, <2>4, <2>6
<1>8. ASSUME NEW m \in X, m.role = "assistant"
      PROVE  c[m] \in Seq(Msg) /\ Hear(G, c[m]) = FlatMap(m.parts, H[m.role])
  <2>1. /\ "assistant" \in Roles /\ m.parts \in Seq(Part) /\ Words(m.parts) \in Seq(Part)
        /\ FlatMap(m.parts, CallsBy(Marshals)) \in Seq(Part)
    BY <1>1, SelectedType, CallsMarshaled DEF Roles
  <2>2. \A n \in DOMAIN m.parts :
               /\ m.parts[n].kind \in {"text", "image", "thought", "call"}
               /\ m.parts[n].kind = "call" => "assistant" # "user" /\ Marshals[m.parts[n]].kind = "call"
               /\ m.parts[n].kind # "call" => Marshals[m.parts[n]] = m.parts[n]
    BY <1>1, <1>5, <1>8, MarshaledType DEF SoundPart
  <2>3. FlatMap(Words(m.parts), Listening(K, Same, g)["assistant"])
           \o FlatMap(FlatMap(m.parts, CallsBy(Marshals)), Listening(K, Same, g)["assistant"])
        = FlatMap(m.parts, Listening(K, Marshals, g)["assistant"])
    BY <1>5, <2>1, <2>2, WordsThenCalls
  <2> DEFINE qs == Words(m.parts) \o FlatMap(m.parts, CallsBy(Marshals))
  <2>4. qs \in Seq(Part)
    BY <2>1, ConcatProperties
  <2>5. SaidBy("assistant", qs) \in Seq(Msg) /\ Hear(G, SaidBy("assistant", qs)) = FlatMap(qs, G["assistant"])
    BY <1>4, <2>1, <2>4, SaidHeard
  <2>6. FlatMap(qs, G["assistant"])
        = FlatMap(Words(m.parts), G["assistant"]) \o FlatMap(FlatMap(m.parts, CallsBy(Marshals)), G["assistant"])
    BY <1>4, <2>1, HearPart
  <2>7. c[m] = SaidBy("assistant", qs)
    BY <1>2, <1>8
  <2> HIDE DEF c, qs
  <2>8. QED
    BY <1>8, <2>3, <2>5, <2>6, <2>7 DEF G, H
<1> HIDE DEF X, G, H, c
<1>9. c \in Gives(X, Msg)
  BY <1>2, <1>7, <1>8, Zenon DEF Gives
<1>10. \A m \in X : Hear(G, c[m]) = FlatMap(m.parts, H[m.role])
  BY <1>7, <1>8
<1>11. FlatMap(h, c) \in Seq(Msg) /\ Hear(G, FlatMap(h, c)) = Hear(H, h)
  BY <1>1, <1>4, <1>6, <1>9, <1>10, ConversionHeard DEF X
<1>12. QED
  BY <1>3, <1>11 DEF HearsAlike, G, H, Marshals

-----------------------------------------------------------------------------
(* What is told, as what a listener hears.                                  *)

\* What is heard of what another heard.
LEMMA HeardThrough ==
    ASSUME NEW k \in Gives(Entry, Entry), NEW G \in Listener, NEW H \in Listener,
           \A r \in Roles : \A p \in Part : FlatMap(G[r][p], k) = H[r][p], NEW h \in Seq(Msg)
    PROVE  FlatMap(Hear(G, h), k) = Hear(H, h)
<1>1. /\ Ear(G) \in Gives(Msg, Entry) /\ \A m \in Msg : Ear(G)[m] = FlatMap(m.parts, G[m.role])
      /\ \A m \in Msg : Ear(H)[m] = FlatMap(m.parts, H[m.role])
  BY EarIs
<1>2. ASSUME NEW m \in Msg PROVE FlatMap(FlatMap(m.parts, G[m.role]), k) = FlatMap(m.parts, H[m.role])
  <2>1. m.role \in Roles /\ m.parts \in Seq(Part) /\ G[m.role] \in Gives(Part, Entry)
    BY DEF Msg, Listener
  <2>2. \A n \in DOMAIN m.parts : m.parts[n] \in Part
    BY <2>1, MembersIn
  <2>3. \A n \in DOMAIN m.parts : FlatMap(G[m.role][m.parts[n]], k) = H[m.role][m.parts[n]]
    BY <2>1, <2>2
  <2>4. QED
    BY <2>1, <2>3, FlatMapVia
<1>3. \A n \in DOMAIN h : h[n] \in Msg
  BY MembersIn
<1>4. \A n \in DOMAIN h : FlatMap(Ear(G)[h[n]], k) = Ear(H)[h[n]]
  BY <1>1, <1>2, <1>3
<1>5. QED
  BY <1>1, <1>4, FlatMapVia DEF Hear

\* Who hears all.
Witness == Listening(Entry, Same, SameEntry)

\* The witness hears all but thoughts, as it happened.
LEMMA WitnessIs ==
    /\ Witness \in Listener
    /\ \A r \in Roles : Witness[r] \in Gives(Part, Entry)
    /\ \A r \in Roles : \A p \in Part : /\ p.kind = "thought" => Witness[r][p] = <<>>
                                        /\ p.kind # "thought" => Witness[r][p] = <<Heard(r, p)>>
<1>1. SameEntry \in EntryMap
  BY MapTypes
<1>2. /\ Witness \in Listener /\ \A r \in Roles : Witness[r] \in Gives(Part, Entry)
      /\ \A r \in Roles : \A p \in Part : Witness[r][p] = Hears(Entry, SameEntry, r, p)
  BY <1>1, SameHears DEF Witness
<1>3. ASSUME NEW r \in Roles, NEW p \in Part, p.kind # "thought"
      PROVE  Hears(Entry, SameEntry, r, p) = <<Heard(r, p)>>
  BY <1>3, HeardType DEF Hears, SameEntry
<1>4. ASSUME NEW r \in Roles, NEW p \in Part, p.kind = "thought"
      PROVE  Hears(Entry, SameEntry, r, p) = <<>>
  BY <1>4, ThoughtUnheard
<1>5. QED
  BY <1>2, <1>3, <1>4

\* Told is what the witness hears.
LEMMA ToldIs == ASSUME NEW h \in Seq(Msg) PROVE Told(h) = Hear(Witness, h)
<1>1. \A n \in DOMAIN h : h[n] \in Msg
  BY MembersIn
<1>2. \A m \in Msg : Ear(Witness)[m] = FlatMap(m.parts, Witness[m.role])
  BY WitnessIs, EarIs
<1>3. ASSUME NEW m \in Msg
      PROVE  Each(m.parts, LAMBDA p : IF p.kind = "thought" THEN <<>> ELSE <<Heard(m.role, p)>>)
             = FlatMap(m.parts, Witness[m.role])
  <2>1. m.role \in Roles /\ m.parts \in Seq(Part)
    BY DEF Msg
  <2>2. \A n \in DOMAIN m.parts : m.parts[n] \in Part
    BY <2>1, MembersIn
  <2>3. [n \in DOMAIN m.parts |-> IF m.parts[n].kind = "thought" THEN <<>> ELSE <<Heard(m.role, m.parts[n])>>]
        = [n \in DOMAIN m.parts |-> Witness[m.role][m.parts[n]]]
    BY <2>1, <2>2, WitnessIs, Zenon
  <2>4. QED
    BY <2>3, Zenon DEF Each, FlatMap
<1>4. [n \in DOMAIN h |-> Each(h[n].parts,
          LAMBDA p : IF p.kind = "thought" THEN <<>> ELSE <<Heard(h[n].role, p)>>)]
      = [n \in DOMAIN h |-> Ear(Witness)[h[n]]]
  BY <1>1, <1>2, <1>3, Zenon
<1>5. QED
  BY <1>4, Zenon DEF Told, Each, FlatMap, Hear

\* The entries in K, rewritten by g.
Keeping(K, g) == [t \in Entry |-> IF t \in K THEN <<g[t]>> ELSE <<>>]

\* What is kept of entries, one at a time.
LEMMA KeepingIs ==
    ASSUME NEW K, NEW g \in EntryMap
    PROVE  /\ Keeping(K, g) \in Gives(Entry, Entry)
           /\ \A t \in Entry : t \in K => Keeping(K, g)[t] = <<g[t]>>
           /\ \A t \in Entry : t \notin K => Keeping(K, g)[t] = <<>>
<1>1. \A t \in Entry : g[t] \in Entry
  BY DEF EntryMap
<1>2. QED
  BY <1>1 DEF Keeping, Gives

\* What is kept of what the witness hears is what a listener hears.
LEMMA KeptHeard ==
    ASSUME NEW K, NEW g \in EntryMap, NEW h \in Seq(Msg)
    PROVE  FlatMap(Hear(Witness, h), Keeping(K, g)) = Hear(Listening(K, Same, g), h)
<1>1. /\ Listening(K, Same, g) \in Listener
      /\ \A r \in Roles : \A p \in Part : Listening(K, Same, g)[r][p] = Hears(K, g, r, p)
  BY SameHears
<1>2. ASSUME NEW r \in Roles, NEW p \in Part
      PROVE  FlatMap(Witness[r][p], Keeping(K, g)) = Hears(K, g, r, p)
  <2>1. CASE p.kind = "thought"
    <3>1. Witness[r][p] = <<>> /\ Hears(K, g, r, p) = <<>>
      BY <2>1, WitnessIs, ThoughtUnheard
    <3>2. QED
      BY <3>1, FlatMapEmpty
  <2>2. CASE p.kind # "thought"
    <3>1. Witness[r][p] = <<Heard(r, p)>> /\ Heard(r, p) \in Entry
      BY <2>2, WitnessIs, HeardType
    <3>2. FlatMap(<<Heard(r, p)>>, Keeping(K, g)) = Keeping(K, g)[Heard(r, p)]
      BY <3>1, KeepingIs, FlatMapOne
    <3>3. Keeping(K, g)[Heard(r, p)] = Hears(K, g, r, p)
      BY <2>2, <3>1, KeepingIs, Zenon DEF Hears
    <3>4. QED
      BY <3>1, <3>2, <3>3
  <2>3. QED
    BY <2>1, <2>2
<1>3. \A r \in Roles : \A p \in Part : FlatMap(Witness[r][p], Keeping(K, g)) = Listening(K, Same, g)[r][p]
  BY <1>1, <1>2
<1>4. Keeping(K, g) \in Gives(Entry, Entry)
  BY KeepingIs
<1>5. QED
  BY <1>1, <1>3, <1>4, WitnessIs, HeardThrough

\* The filters of the properties keep entries one at a time.
LEMMA FiltersAre ==
    ASSUME NEW told \in Seq(Entry)
    PROVE  /\ ButWords(told) = FlatMap(told, Keeping(NotWords, SameEntry))
           /\ ButCalls(told) = FlatMap(told, Keeping(NotCalls, SameEntry))
           /\ System(told) = FlatMap(told, Keeping(Instructions, SameEntry))
<1>1. \A n \in DOMAIN told : told[n] \in Entry
  BY MembersIn
<1>2. \A K : \A n \in DOMAIN told :
         Keeping(K, SameEntry)[told[n]] = IF told[n] \in K THEN <<told[n]>> ELSE <<>>
  BY <1>1, Zenon DEF Keeping, SameEntry
<1>3. ButWords(told) = FlatMap(told, Keeping(NotWords, SameEntry))
  <2>1. [n \in DOMAIN told |-> IF told[n].by \notin {"assistant", "system"} THEN <<told[n]>> ELSE <<>>]
        = [n \in DOMAIN told |-> Keeping(NotWords, SameEntry)[told[n]]]
    <3>1. \A n \in DOMAIN told : told[n] \in NotWords <=> told[n].by \notin {"assistant", "system"}
      BY <1>1 DEF NotWords
    <3>2. QED
      BY <1>2, <3>1, Zenon
  <2>2. QED
    BY <2>1, Zenon DEF ButWords, Those, Each, FlatMap
<1>4. ButCalls(told) = FlatMap(told, Keeping(NotCalls, SameEntry))
  <2>1. [n \in DOMAIN told |->
            IF told[n].by # "system" /\ told[n].part.kind # "call"
               /\ ~(told[n].by = "assistant" /\ told[n].part.of < 0) THEN <<told[n]>> ELSE <<>>]
        = [n \in DOMAIN told |-> Keeping(NotCalls, SameEntry)[told[n]]]
    <3>1. \A n \in DOMAIN told : told[n] \in NotCalls <=>
             told[n].by # "system" /\ told[n].part.kind # "call"
               /\ ~(told[n].by = "assistant" /\ told[n].part.of < 0)
      BY <1>1, Zenon DEF NotCalls
    <3>2. QED
      BY <1>2, <3>1, Zenon
  <2>2. QED
    BY <2>1, Zenon DEF ButCalls, Those, Each, FlatMap
<1>5. System(told) = FlatMap(told, Keeping(Instructions, SameEntry))
  <2>1. [n \in DOMAIN told |-> IF told[n].by = "system" THEN <<told[n]>> ELSE <<>>]
        = [n \in DOMAIN told |-> Keeping(Instructions, SameEntry)[told[n]]]
    <3>1. \A n \in DOMAIN told : told[n] \in Instructions <=> told[n].by = "system"
      BY <1>1 DEF Instructions
    <3>2. QED
      BY <1>2, <3>1, Zenon
  <2>2. QED
    BY <2>1, Zenon DEF System, Those, Each, FlatMap
<1>6. QED
  BY <1>3, <1>4, <1>5

\* The filters of the properties hear what a listener hears.
LEMMA FilteredHeard ==
    ASSUME NEW h \in Seq(Msg)
    PROVE  /\ ButWords(Told(h)) = Hear(Listening(NotWords, Same, SameEntry), h)
           /\ ButCalls(Told(h)) = Hear(Listening(NotCalls, Same, SameEntry), h)
           /\ System(Told(h)) = Hear(Listening(Instructions, Same, SameEntry), h)
<1>1. Told(h) = Hear(Witness, h) /\ Hear(Witness, h) \in Seq(Entry)
  BY ToldIs, WitnessIs, HearMessage
<1>2. \A K : FlatMap(Hear(Witness, h), Keeping(K, SameEntry)) = Hear(Listening(K, Same, SameEntry), h)
  BY KeptHeard, MapTypes
<1>3. QED
  BY <1>1, <1>2, FiltersAre

\* The history rewritten, in the properties, is heard as such.
LEMMA RewrittenHeard ==
    ASSUME pair \in Pairs, NEW K, NEW g \in EntryMap, NEW h \in Seq(Msg)
    PROVE  HearsAlike(pair, K, g, Rewritten(h), h)
<1> DEFINE F == Rewrite(pair)
           G == Listening(K, Same, g)
           H == Listening(K, F, g)
           d == [p \in Part |-> <<F[p]>>]
           c == [m \in Msg |-> <<Message(m.role, FlatMap(m.parts, d))>>]
<1>1. /\ F \in PartMap
      /\ \A p \in Part : F[p] = IF pair[2] = "messages" THEN Printed(p)
                                ELSE IF pair[1] = "messages" THEN Marshaled(p) ELSE p
  BY MapTypes DEF Rewrite
<1> HIDE DEF F
<1>2. /\ G \in Listener /\ \A r \in Roles : G[r] \in Gives(Part, Entry)
      /\ \A r \in Roles : \A p \in Part : G[r][p] = Hears(K, g, r, p)
  BY SameHears, Zenon
<1>3. H \in Listener /\ \A r \in Roles : \A p \in Part : H[r][p] = Hears(K, g, r, F[p])
  <2>1. Listening(K, F, g) \in Listener
        /\ \A r \in Roles : \A p \in Part : Listening(K, F, g)[r][p] = Hears(K, g, r, F[p])
    BY <1>1, ListeningIs
  <2>2. QED
    BY <2>1
<1>4. \A p \in Part : F[p] \in Part
  BY <1>1 DEF PartMap
<1>5. d \in Gives(Part, Part) /\ \A p \in Part : d[p] = <<F[p]>>
  BY <1>4 DEF Gives
<1>6. \A m \in Msg : m.role \in Roles /\ m.parts \in Seq(Part) /\ c[m] = <<Message(m.role, FlatMap(m.parts, d))>>
  BY DEF Msg
<1>7. Rewritten(h) = FlatMap(h, c)
  <2>1. \A n \in DOMAIN h : h[n] \in Msg
    BY MembersIn
  <2>2. ASSUME NEW m \in Msg
        PROVE  Each(m.parts, LAMBDA p :
                  <<IF pair[2] = "messages" THEN Printed(p)
                    ELSE IF pair[1] = "messages" THEN Marshaled(p) ELSE p>>) = FlatMap(m.parts, d)
    <3>1. \A n \in DOMAIN m.parts : m.parts[n] \in Part
      BY <1>6, MembersIn
    <3>2. [n \in DOMAIN m.parts |->
              <<IF pair[2] = "messages" THEN Printed(m.parts[n])
                ELSE IF pair[1] = "messages" THEN Marshaled(m.parts[n]) ELSE m.parts[n]>>]
          = [n \in DOMAIN m.parts |-> d[m.parts[n]]]
      BY <1>1, <1>5, <3>1, Zenon
    <3>3. QED
      BY <3>2, Zenon DEF Each, FlatMap
  <2>3. [n \in DOMAIN h |-> <<Message(h[n].role, Each(h[n].parts, LAMBDA p :
                  <<IF pair[2] = "messages" THEN Printed(p)
                    ELSE IF pair[1] = "messages" THEN Marshaled(p) ELSE p>>))>>]
        = [n \in DOMAIN h |-> c[h[n]]]
    BY <2>1, <2>2, Zenon
  <2>4. QED
    BY <2>3, Zenon DEF Rewritten, Each, FlatMap
<1>8. DOMAIN c = Msg /\ c = [m \in Msg |-> c[m]]
  OBVIOUS
<1> HIDE DEF G, H, d, c
<1>9. ASSUME NEW m \in Msg
      PROVE  c[m] \in Seq(Msg) /\ Hear(G, c[m]) = FlatMap(m.parts, H[m.role])
  <2> DEFINE w == Message(m.role, FlatMap(m.parts, d))
  <2>1. FlatMap(m.parts, d) \in Seq(Part)
    BY <1>5, <1>6, FlatMapType
  <2>2. w \in Msg /\ w.role = m.role /\ w.parts = FlatMap(m.parts, d)
    BY <1>6, <2>1, MessageIs
  <2>3. c[m] = <<w>>
    BY <1>6
  <2> HIDE DEF w
  <2>4. Hear(G, <<w>>) = FlatMap(w.parts, G[w.role])
    BY <1>2, <2>2, HearMessage
  <2>5. FlatMap(FlatMap(m.parts, d), G[m.role]) = FlatMap(m.parts, H[m.role])
    <3>1. G[m.role] \in Gives(Part, Entry) /\ \A n \in DOMAIN m.parts : m.parts[n] \in Part
      BY <1>2, <1>6, MembersIn
    <3>2. ASSUME NEW p \in Part PROVE FlatMap(d[p], G[m.role]) = H[m.role][p]
      <4>1. FlatMap(<<F[p]>>, G[m.role]) = G[m.role][F[p]]
        BY <1>4, <3>1, HearPart
      <4>2. G[m.role][F[p]] = Hears(K, g, m.role, F[p]) /\ H[m.role][p] = Hears(K, g, m.role, F[p])
        BY <1>2, <1>3, <1>4, <1>6
      <4>3. QED
        BY <1>5, <4>1, <4>2
    <3>3. \A n \in DOMAIN m.parts : FlatMap(d[m.parts[n]], G[m.role]) = H[m.role][m.parts[n]]
      BY <3>1, <3>2
    <3>4. QED
      BY <1>5, <1>6, <3>1, <3>3, FlatMapVia
  <2>6. QED
    BY <2>2, <2>3, <2>4, <2>5
<1>10. c \in Gives(Msg, Msg)
  BY <1>8, <1>9, Zenon DEF Gives
<1>11. FlatMap(h, c) \in Seq(Msg) /\ Hear(G, FlatMap(h, c)) = Hear(H, h)
  BY <1>2, <1>3, <1>9, <1>10, ConversionHeard
<1>12. QED
  BY <1>7, <1>11 DEF HearsAlike, G, H, F

-----------------------------------------------------------------------------
(* Instructions.                                                            *)

Texts == {p \in Part : p.kind = "text"}

\* Without instructions none are heard.
LEMMA UninstructedUnheard ==
    ASSUME NEW g \in EntryMap, NEW d \in Seq(Uninstructed)
    PROVE  d \in Seq(Msg) /\ Hear(Listening(Instructions, Same, g), d) = <<>>
<1> DEFINE G == Listening(Instructions, Same, g)
<1>1. /\ G \in Listener /\ \A r \in Roles : \A p \in Part : G[r][p] = Hears(Instructions, g, r, p)
  BY SameHears, Zenon
<1>2. d \in Seq(Msg) /\ \A n \in DOMAIN d : d[n] \in Uninstructed
  <2>1. Uninstructed \subseteq Msg
    BY DEF Uninstructed
  <2>2. QED
    BY <2>1, SeqMonotonic, MembersIn
<1>3. \A r \in Roles : \A p \in Part : r # "system" => Hears(Instructions, g, r, p) = <<>>
  <2> SUFFICES ASSUME NEW r \in Roles, NEW p \in Part, r # "system" PROVE Hears(Instructions, g, r, p) = <<>>
    OBVIOUS
  <2>1. Heard(r, p).by # "system"
    BY DEF Heard
  <2>2. Heard(r, p) \notin Instructions
    BY <2>1 DEF Instructions
  <2>3. QED
    BY <2>2, Zenon DEF Hears
<1> HIDE DEF G
<1>4. ASSUME NEW m \in Uninstructed PROVE Ear(G)[m] = <<>>
  <2>1. m \in Msg /\ m.role \in Roles /\ m.role # "system" /\ m.parts \in Seq(Part)
    BY DEF Uninstructed, Msg
  <2>2. \A n \in DOMAIN m.parts : m.parts[n] \in Part
    BY <2>1, MembersIn
  <2>3. \A n \in DOMAIN m.parts : G[m.role][m.parts[n]] = <<>>
    BY <1>1, <1>3, <2>1, <2>2
  <2>4. FlatMap(m.parts, G[m.role]) = <<>>
    BY <2>1, <2>3, FlatMapNothing
  <2>5. QED
    BY <1>1, <2>1, <2>4, EarIs
<1>5. FlatMap(d, Ear(G)) = <<>>
  BY <1>2, <1>4, FlatMapNothing
<1>6. QED
  BY <1>2, <1>5 DEF Hear, G

\* What is said by the system is heard of its words.
LEMMA TextsHeard ==
    ASSUME NEW K, NEW f \in PartMap, NEW ps \in Seq(Part),
           \A n \in DOMAIN ps : ps[n].kind = "text" /\ f[ps[n]] = ps[n]
    PROVE  /\ K = Instructions =>
                FlatMap(ps, Listening(K, f, SameEntry)["system"]) = FlatMap(ps, Witness["system"])
           /\ \A g \in EntryMap : K \in {NotWords, NotCalls} =>
                FlatMap(ps, Listening(K, f, g)["system"]) = <<>>
<1>1. "system" \in Roles /\ \A n \in DOMAIN ps : ps[n] \in Part
  BY MembersIn DEF Roles
<1>2. ASSUME K = Instructions
      PROVE  FlatMap(ps, Listening(K, f, SameEntry)["system"]) = FlatMap(ps, Witness["system"])
  <2>1. \A p \in Part : Listening(K, f, SameEntry)["system"][p] = Hears(K, SameEntry, "system", f[p])
    BY <1>1, MapTypes, ListeningIs
  <2>2. \A p \in Part : p.kind = "text" => Hears(K, SameEntry, "system", p) = <<Heard("system", p)>>
    <3> SUFFICES ASSUME NEW p \in Part, p.kind = "text"
                 PROVE  Hears(K, SameEntry, "system", p) = <<Heard("system", p)>>
      OBVIOUS
    <3>1. Heard("system", p) \in Entry /\ Heard("system", p).by = "system"
      BY <1>1, HeardType DEF Heard
    <3>2. Heard("system", p) \in K
      BY <1>2, <3>1 DEF Instructions
    <3>3. SameEntry[Heard("system", p)] = Heard("system", p)
      BY <3>1 DEF SameEntry
    <3>4. QED
      BY <3>2, <3>3 DEF Hears
  <2>3. \A n \in DOMAIN ps : Listening(K, f, SameEntry)["system"][ps[n]] = Witness["system"][ps[n]]
    BY <1>1, <2>1, <2>2, WitnessIs
  <2>4. QED
    BY <2>3, FlatMapSame
<1>3. ASSUME NEW g \in EntryMap, K \in {NotWords, NotCalls}
      PROVE  FlatMap(ps, Listening(K, f, g)["system"]) = <<>>
  <2>1. \A p \in Part : Listening(K, f, g)["system"][p] = Hears(K, g, "system", f[p])
    BY <1>1, ListeningIs
  <2>2. \A p : p.kind = "text" => Hears(K, g, "system", p) = <<>>
    BY <1>3, SystemUnheard
  <2>3. \A n \in DOMAIN ps : Listening(K, f, g)["system"][ps[n]] = <<>>
    BY <1>1, <2>1, <2>2
  <2>4. QED
    BY <2>3, FlatMapNothing
<1>4. QED
  BY <1>2, <1>3

\* The instructions of a Chat client, joined, are its history's.
LEMMA InstructionsJoined ==
    ASSUME NEW pr \in Pairs, pr[1] = "chat", NEW h \in Seq(Accepted(pr))
    PROVE  LET said == Joined(WithRole(h, {"system"})) IN
           /\ said \in Seq(Part)
           /\ FlatMap(said, Witness["system"]) = Hear(Listening(Instructions, Rewrite(pr), SameEntry), h)
<1> DEFINE X == Accepted(pr)
           H == Listening(Instructions, Rewrite(pr), SameEntry)
           e == [m \in Msg |-> IF m.role \in {"system"} THEN <<m>> ELSE <<>>]
           d == [m \in Msg |-> m.parts]
           k == [m \in Msg |-> IF m.role = "system" THEN m.parts ELSE <<>>]
           said == Joined(WithRole(h, {"system"}))
<1>1. /\ h \in Seq(Msg) /\ \A n \in DOMAIN h : h[n] \in X /\ h[n] \in Msg
      /\ \A m \in X : \A n \in DOMAIN m.parts : m.parts[n] \in Part /\ SoundPart(pr[1], m.role, m.parts[n])
  BY AcceptedAre, SeqMonotonic, MembersIn
<1>2. /\ e \in Gives(Msg, Msg) /\ d \in Gives(Msg, Part) /\ k \in Gives(Msg, Part)
      /\ \A m \in Msg : m.role \in Roles /\ m.parts \in Seq(Part)
  <2>1. \A m \in Msg : m.role \in Roles /\ m.parts \in Seq(Part) /\ <<m>> \in Seq(Msg)
    BY DEF Msg
  <2>2. QED
    BY <2>1, EmptySeq DEF Gives
<1>3. WithRole(h, {"system"}) = FlatMap(h, e)
  BY <1>1, Zenon DEF WithRole, Those, Each, FlatMap
<1>4. /\ \A m \in Msg : m.role = "system" => e[m] = <<m>> /\ k[m] = m.parts
      /\ \A m \in Msg : m.role # "system" => e[m] = <<>> /\ k[m] = <<>>
      /\ \A m \in Msg : d[m] = m.parts
  OBVIOUS
<1>5. WithRole(h, {"system"}) \in Seq(Msg)
  BY <1>1, <1>2, <1>3, FlatMapType
<1>6. said = FlatMap(WithRole(h, {"system"}), d)
  <2>1. \A n \in DOMAIN WithRole(h, {"system"}) : WithRole(h, {"system"})[n] \in Msg
    BY <1>5, MembersIn
  <2>2. [n \in DOMAIN WithRole(h, {"system"}) |-> WithRole(h, {"system"})[n].parts]
        = [n \in DOMAIN WithRole(h, {"system"}) |-> d[WithRole(h, {"system"})[n]]]
    BY <1>4, <2>1
  <2>3. QED
    BY <2>2, Zenon DEF Joined, Each, FlatMap
<1> HIDE DEF X, H, e, d, k, said
<1>7. said = FlatMap(h, k) /\ said \in Seq(Part)
  <2>1. \A m \in Msg : FlatMap(<<m>>, d) = d[m]
    BY <1>2, FlatMapOne
  <2>2. \A m \in Msg : FlatMap(e[m], d) = k[m]
    <3> SUFFICES ASSUME NEW m \in Msg PROVE FlatMap(e[m], d) = k[m]
      OBVIOUS
    <3>1. CASE m.role = "system"
      BY <1>4, <2>1, <3>1
    <3>2. CASE m.role # "system"
      BY <1>4, <3>2, FlatMapEmpty
    <3>3. QED
      BY <3>1, <3>2
  <2>3. \A n \in DOMAIN h : FlatMap(e[h[n]], d) = k[h[n]]
    BY <1>1, <2>2
  <2>4. FlatMap(FlatMap(h, e), d) = FlatMap(h, k)
    BY <1>1, <1>2, <2>3, FlatMapVia
  <2>5. FlatMap(h, k) \in Seq(Part)
    BY <1>1, <1>2, FlatMapType
  <2>6. QED
    BY <1>3, <1>6, <2>4, <2>5
<1>8. Rewrite(pr) \in PartMap /\ \A p \in Part : p.kind = "text" => Rewrite(pr)[p] = p
  BY MapTypes DEF Rewrite, Printed, Marshaled
<1>9. /\ H \in Listener
      /\ \A r \in Roles : \A p \in Part : H[r][p] = Hears(Instructions, SameEntry, r, Rewrite(pr)[p])
  <2>1. LET G == Listening(Instructions, Rewrite(pr), SameEntry) IN
        /\ G \in Listener
        /\ \A r \in Roles : \A p \in Part : G[r][p] = Hears(Instructions, SameEntry, r, Rewrite(pr)[p])
    BY <1>8, MapTypes, ListeningIs, ZenonT(40)
  <2>2. QED
    BY <2>1 DEF H
<1>10. ASSUME NEW m \in X, m \in Msg PROVE FlatMap(k[m], Witness["system"]) = Ear(H)[m]
  <2>1. Ear(H)[m] = FlatMap(m.parts, H[m.role])
    BY <1>9, <1>10, EarIs
  <2>2. \A n \in DOMAIN m.parts : m.parts[n] \in Part /\ SoundPart(pr[1], m.role, m.parts[n])
    BY <1>1
  <2>3. CASE m.role = "system"
    <3>1. \A n \in DOMAIN m.parts : m.parts[n].kind = "text" /\ Rewrite(pr)[m.parts[n]] = m.parts[n]
      BY <1>8, <2>2, <2>3 DEF SoundPart
    <3>2. FlatMap(m.parts, Listening(Instructions, Rewrite(pr), SameEntry)["system"])
          = FlatMap(m.parts, Witness["system"])
      BY <1>2, <1>8, <1>10, <3>1, TextsHeard
    <3>3. QED
      BY <1>4, <1>10, <2>1, <2>3, <3>2 DEF H
  <2>4. CASE m.role # "system"
    <3>1. \A p \in Part : Hears(Instructions, SameEntry, m.role, p) = <<>>
      <4> SUFFICES ASSUME NEW p \in Part PROVE Hears(Instructions, SameEntry, m.role, p) = <<>>
        OBVIOUS
      <4>1. Heard(m.role, p).by # "system"
        BY <2>4 DEF Heard
      <4>2. Heard(m.role, p) \notin Instructions
        BY <4>1 DEF Instructions
      <4>3. QED
        BY <4>2, Zenon DEF Hears
    <3>2. \A p \in Part : Rewrite(pr)[p] \in Part
      BY <1>8 DEF PartMap
    <3>3. \A n \in DOMAIN m.parts : H[m.role][m.parts[n]] = <<>>
      BY <1>2, <1>9, <1>10, <2>2, <3>1, <3>2
    <3>4. FlatMap(m.parts, H[m.role]) = <<>>
      BY <1>2, <1>10, <3>3, FlatMapNothing
    <3>5. QED
      BY <1>4, <1>10, <2>1, <2>4, <3>4, FlatMapEmpty
  <2>5. QED
    BY <2>3, <2>4
<1>11. FlatMap(FlatMap(h, k), Witness["system"]) = FlatMap(h, Ear(H))
  <2>1. Witness["system"] \in Gives(Part, Entry)
    BY WitnessIs DEF Roles
  <2>2. \A n \in DOMAIN h : FlatMap(k[h[n]], Witness["system"]) = Ear(H)[h[n]]
    BY <1>1, <1>10
  <2>3. QED
    BY <1>1, <1>2, <2>1, <2>2, FlatMapVia
<1>12. QED
  BY <1>7, <1>11 DEF Hear, H, said

-----------------------------------------------------------------------------
(* Requests.                                                                *)

\* A request whose instructions are words and whose history no conversion refuses.
Sendable(pr) == {r \in [system : Seq(Texts), history : Seq(Accepted(pr))] :
                    pr[1] = "chat" => r.system = <<>>}

\* A request that is not refused.
LEMMA SendableIs ==
    ASSUME NEW pr, NEW r \in Sendable(pr)
    PROVE  /\ r.system \in Seq(Part) /\ \A n \in DOMAIN r.system : r.system[n].kind = "text"
           /\ r.history \in Seq(Accepted(pr)) /\ r.history \in Seq(Msg)
           /\ pr[1] = "chat" => r.system = <<>>
<1>1. r.system \in Seq(Texts) /\ r.history \in Seq(Accepted(pr)) /\ (pr[1] = "chat" => r.system = <<>>)
  BY DEF Sendable
<1>2. Texts \subseteq Part /\ Accepted(pr) \subseteq Msg
  BY AcceptedAre DEF Texts
<1>3. \A n \in DOMAIN r.system : r.system[n] \in Texts
  BY <1>1, MembersIn
<1>4. QED
  BY <1>1, <1>2, <1>3, SeqMonotonic DEF Texts

\* What the instructions are heard as at the beginning of a history.
LEMMA SystemHeard ==
    ASSUME NEW pr, NEW r \in Sendable(pr)
    PROVE  /\ SaidBy("system", r.system) \in Seq(Msg)
           /\ \A K \in {NotWords, NotCalls} : \A g \in EntryMap :
                 Hear(Listening(K, Same, g), SaidBy("system", r.system)) = <<>>
           /\ Hear(Listening(Instructions, Same, SameEntry), SaidBy("system", r.system))
              = Hear(Witness, SaidBy("system", r.system))
<1>1. /\ r.system \in Seq(Part) /\ "system" \in Roles
      /\ \A n \in DOMAIN r.system : r.system[n].kind = "text" /\ Same[r.system[n]] = r.system[n]
  <2>1. r.system \in Seq(Part) /\ \A n \in DOMAIN r.system : r.system[n].kind = "text"
    BY SendableIs
  <2>2. \A n \in DOMAIN r.system : r.system[n] \in Part
    BY <2>1, MembersIn
  <2>3. QED
    BY <2>1, <2>2 DEF Same, Roles
<1>2. \A G \in Listener : /\ SaidBy("system", r.system) \in Seq(Msg)
                          /\ Hear(G, SaidBy("system", r.system)) = FlatMap(r.system, G["system"])
  BY <1>1, SaidHeard
<1>3. ASSUME NEW K \in {NotWords, NotCalls}, NEW g \in EntryMap
      PROVE  Hear(Listening(K, Same, g), SaidBy("system", r.system)) = <<>>
  <2>1. FlatMap(r.system, Listening(K, Same, g)["system"]) = <<>>
    BY <1>1, MapTypes, TextsHeard
  <2>2. Listening(K, Same, g) \in Listener
    BY SameHears
  <2>3. QED
    BY <1>2, <2>1, <2>2
<1>4. FlatMap(r.system, Listening(Instructions, Same, SameEntry)["system"])
      = FlatMap(r.system, Witness["system"])
  BY <1>1, MapTypes, TextsHeard
<1>5. Listening(Instructions, Same, SameEntry) \in Listener /\ Witness \in Listener
  BY MapTypes, SameHears, WitnessIs
<1>6. QED
  BY <1>2, <1>3, <1>4, <1>5

\* The messages a conversion makes, without the instructions it puts before them.
Body(pr, h) == IF pr[1] = "chat" THEN IF pr[2] = "responses" THEN Items(h) ELSE Blocks(h)
               ELSE IF pr[1] = "responses" THEN Regrouped(h) ELSE Turns(h)

\* The messages of a request: each conversion loses nothing.
LEMMA BodyHeard ==
    ASSUME NEW pr \in Pairs, NEW r \in Sendable(pr), NEW g \in EntryMap
    PROVE  /\ \A K \in {NotWords, NotCalls} : HearsAlike(pr, K, g, Body(pr, r.history), r.history)
           /\ pr[1] # "chat" => HearsAlike(pr, Instructions, g, Body(pr, r.history), r.history)
           /\ pr[1] = "chat" => Body(pr, r.history) \in Seq(Uninstructed)
<1>1. r.history \in Seq(Accepted(pr))
  BY SendableIs
<1>2. {NotWords, NotCalls, Instructions} \subseteq Filters
  BY DEF Filters
<1>3. CASE pr = <<"chat", "responses">>
  <2>1. Body(pr, r.history) = Items(r.history) /\ pr[1] = "chat"
    BY <1>3 DEF Body
  <2>2. QED
    BY <1>1, <1>3, <2>1, ItemsHeard
<1>4. CASE pr = <<"chat", "messages">>
  <2>1. Body(pr, r.history) = Blocks(r.history) /\ pr[1] = "chat"
    BY <1>4 DEF Body
  <2>2. QED
    BY <1>1, <1>4, <2>1, BlocksHeard
<1>5. CASE pr = <<"responses", "chat">>
  <2>1. Body(pr, r.history) = Regrouped(r.history) /\ pr[1] # "chat"
    BY <1>5 DEF Body
  <2>2. QED
    BY <1>1, <1>2, <1>5, <2>1, RegroupedHeard
<1>6. CASE pr = <<"messages", "chat">>
  <2>1. Body(pr, r.history) = Turns(r.history) /\ pr[1] # "chat"
    BY <1>6 DEF Body
  <2>2. QED
    BY <1>1, <1>2, <1>6, <2>1, TurnsHeard
<1>7. QED
  BY <1>3, <1>4, <1>5, <1>6 DEF Pairs

\* A converted request is heard as the request, but for instructions.
LEMMA ConvertedHeard ==
    ASSUME NEW pr \in Pairs, NEW r \in Sendable(pr),
           NEW K \in {NotWords, NotCalls}, NEW g \in EntryMap
    PROVE  HearsAlike(pr, K, g, Converted(pr, r).history, r.history)
<1>1. HearsAlike(pr, K, g, Body(pr, r.history), r.history)
  BY BodyHeard
<1>2. CASE pr[1] = "chat"
  <2>1. Converted(pr, r).history = Body(pr, r.history)
    BY <1>2 DEF Converted, Body
  <2>2. QED
    BY <1>1, <2>1
<1>3. CASE pr[1] # "chat"
  <2> DEFINE s == SaidBy("system", r.system)
             b == Body(pr, r.history)
             G == Listening(K, Same, g)
  <2>1. Converted(pr, r).history = s \o b
    BY <1>3 DEF Converted, Body
  <2>2. s \in Seq(Msg) /\ Hear(G, s) = <<>>
    BY SystemHeard
  <2>3. b \in Seq(Msg) /\ Hear(G, b) = Hear(Listening(K, Rewrite(pr), g), r.history)
    BY <1>1 DEF HearsAlike
  <2>4. G \in Listener
    BY SameHears
  <2> HIDE DEF s, b, G
  <2>5. Hear(G, s \o b) = Hear(G, s) \o Hear(G, b) /\ Hear(G, b) \in Seq(Entry)
    BY <2>2, <2>3, <2>4, HearMessage
  <2>6. Hear(G, s \o b) = Hear(G, b)
    BY <2>2, <2>5, Splice
  <2>7. s \o b \in Seq(Msg)
    BY <2>2, <2>3, ConcatProperties
  <2>8. QED
    BY <2>1, <2>3, <2>6, <2>7 DEF HearsAlike, G
<1>4. QED
  BY <1>2, <1>3

\* The instructions of a converted request are those of the request.
LEMMA ConvertedInstructions ==
    ASSUME NEW pr \in Pairs, NEW r \in Sendable(pr)
    PROVE  Hear(Witness, SaidBy("system", r.system))
              \o Hear(Listening(Instructions, Rewrite(pr), SameEntry), r.history)
           = Hear(Witness, SaidBy("system", Converted(pr, r).system))
              \o Hear(Listening(Instructions, Same, SameEntry), Converted(pr, r).history)
           /\ SaidBy("system", Converted(pr, r).system) \in Seq(Msg)
<1> DEFINE G == Listening(Instructions, Same, SameEntry)
           H == Listening(Instructions, Rewrite(pr), SameEntry)
           b == Body(pr, r.history)
<1>1. /\ SameEntry \in EntryMap /\ Rewrite(pr) \in PartMap /\ "system" \in Roles
      /\ G \in Listener /\ H \in Listener /\ Witness \in Listener
  <2>1. SameEntry \in EntryMap /\ Rewrite(pr) \in PartMap /\ Same \in PartMap
    BY MapTypes
  <2>2. QED
    BY <2>1, WitnessIs, ListeningIs DEF Roles
<1>2. r.history \in Seq(Msg) /\ r.history \in Seq(Accepted(pr)) /\ r.system \in Seq(Part)
  BY SendableIs
<1>3. Hear(H, r.history) \in Seq(Entry) /\ Hear(Witness, <<>>) = <<>>
  BY <1>1, <1>2, HearMessage
<1>4. SaidBy("system", <<>>) = <<>> /\ <<>> \in Seq(Msg)
  BY EmptySeq DEF SaidBy
<1>5. CASE pr[1] = "chat"
  <2> DEFINE said == Joined(WithRole(r.history, {"system"}))
  <2>1. Converted(pr, r).system = said /\ Converted(pr, r).history = b
    BY <1>5 DEF Converted, Body
  <2>2. said \in Seq(Part) /\ FlatMap(said, Witness["system"]) = Hear(H, r.history)
    BY <1>2, <1>5, InstructionsJoined
  <2>3. r.system = <<>>
    BY <1>5, SendableIs
  <2>4. Hear(G, b) = <<>>
    BY <1>1, <1>5, BodyHeard, UninstructedUnheard
  <2> HIDE DEF said, b, G, H
  <2>5. SaidBy("system", said) \in Seq(Msg) /\ Hear(Witness, SaidBy("system", said)) = Hear(H, r.history)
    BY <1>1, <2>2, SaidHeard
  <2>6. <<>> \o Hear(H, r.history) = Hear(H, r.history) \o <<>>
    BY <1>3, Splice
  <2>7. QED
    BY <1>3, <1>4, <2>1, <2>3, <2>4, <2>5, <2>6 DEF G, H
<1>6. CASE pr[1] # "chat"
  <2> DEFINE s == SaidBy("system", r.system)
  <2>1. Converted(pr, r).system = <<>> /\ Converted(pr, r).history = s \o b
    BY <1>6 DEF Converted, Body
  <2>2. s \in Seq(Msg) /\ Hear(G, s) = Hear(Witness, s)
    BY SystemHeard
  <2>3. b \in Seq(Msg) /\ Hear(G, b) = Hear(H, r.history)
    BY <1>1, <1>6, BodyHeard DEF HearsAlike
  <2> HIDE DEF s, b, G, H
  <2>4. Hear(G, s \o b) = Hear(Witness, s) \o Hear(H, r.history)
    <3>1. Hear(G, s \o b) = Hear(G, s) \o Hear(G, b)
      BY <1>1, <2>2, <2>3, HearMessage
    <3>2. QED
      BY <2>2, <2>3, <3>1
  <2>5. Hear(Witness, s) \in Seq(Entry)
    BY <1>1, <2>2, HearMessage
  <2>6. Hear(G, s \o b) \in Seq(Entry)
    BY <1>3, <2>4, <2>5, Splice
  <2>7. <<>> \o Hear(G, s \o b) = Hear(G, s \o b)
    BY <2>6, Splice
  <2>8. QED
    BY <1>3, <1>4, <2>1, <2>4, <2>7 DEF G, H, s
<1>7. QED
  BY <1>5, <1>6

\* The members of what is given by those there are.
LEMMA FlatMapOn ==
    ASSUME NEW X, NEW Y, NEW g, NEW s \in Seq(X), \A x \in X : g[x] \in Seq(Y)
    PROVE  FlatMap(s, g) \in Seq(Y)
<1> DEFINE h == [x \in X |-> g[x]]
<1>1. h \in Gives(X, Y) /\ \A x \in X : h[x] = g[x]
  BY DEF Gives
<1> HIDE DEF h
<1>2. \A n \in DOMAIN s : g[s[n]] = h[s[n]]
  BY <1>1, MembersIn
<1>3. FlatMap(s, g) = FlatMap(s, h)
  BY <1>2, FlatMapSame
<1>4. QED
  BY <1>1, <1>3, FlatMapType

-----------------------------------------------------------------------------
(* What an assistant says.                                                  *)

Speech == {p \in Part : p.kind \in {"text", "thought", "call"} /\ (p.kind = "thought" => p.of < 0)}

\* What is picked from what an assistant says is such, too.
LEMMA SpeechIs ==
    ASSUME NEW ps \in Seq(Speech)
    PROVE  /\ ps \in Seq(Part)
           /\ \A n \in DOMAIN ps : ps[n] \in Speech /\ ps[n] \in Part
           /\ Words(ps) \in Seq(Speech) /\ Calls(ps) \in Seq(Speech) /\ Thoughts(ps) \in Seq(Speech)
           /\ FlatMap(ps, CallsBy(Marshals)) \in Seq(Speech)
           /\ \A n \in DOMAIN Words(ps) : Words(ps)[n].kind # "thought"
           /\ \A n \in DOMAIN Calls(ps) : Calls(ps)[n].kind = "call"
           /\ \A n \in DOMAIN Thoughts(ps) : Thoughts(ps)[n].kind = "thought"
<1>1. Speech \subseteq Part
  BY DEF Speech
<1>2. ps \in Seq(Part) /\ \A n \in DOMAIN ps : ps[n] \in Speech /\ ps[n] \in Part
  BY <1>1, SeqMonotonic, MembersIn
<1>3. ASSUME NEW ks
      PROVE  /\ FlatMap(ps, Pick(ks)) \in Seq(Speech)
             /\ \A n \in DOMAIN FlatMap(ps, Pick(ks)) : FlatMap(ps, Pick(ks))[n].kind \in ks
  <2> DEFINE X == {p \in Speech : p.kind \in ks}
  <2>1. \A p \in Speech : Pick(ks)[p] \in Seq(X)
    <3> SUFFICES ASSUME NEW p \in Speech PROVE Pick(ks)[p] \in Seq(X)
      OBVIOUS
    <3>1. CASE p.kind \in ks
      <4>1. Pick(ks)[p] = <<p>> /\ p \in X
        BY <1>1, <3>1, PickIs
      <4>2. QED
        BY <4>1
    <3>2. CASE p.kind \notin ks
      <4>1. Pick(ks)[p] = <<>>
        BY <1>1, <3>2, PickIs
      <4>2. QED
        BY <4>1, EmptySeq
    <3>3. QED
      BY <3>1, <3>2
  <2>2. X \subseteq Speech /\ \A p \in X : p.kind \in ks
    OBVIOUS
  <2> HIDE DEF X
  <2>3. FlatMap(ps, Pick(ks)) \in Seq(X)
    BY <2>1, FlatMapOn
  <2>4. FlatMap(ps, Pick(ks)) \in Seq(Speech)
    BY <2>2, <2>3, SeqMonotonic
  <2>5. \A n \in DOMAIN FlatMap(ps, Pick(ks)) : FlatMap(ps, Pick(ks))[n] \in X
    BY <2>3, MembersIn
  <2>6. QED
    BY <2>2, <2>4, <2>5
<1>4. FlatMap(ps, CallsBy(Marshals)) \in Seq(Speech)
  <2>1. Marshals \in PartMap /\ \A p \in Part : Marshals[p] = Marshaled(p)
    BY MapTypes, RewriteIs DEF Marshals
  <2>2. \A p \in Speech : CallsBy(Marshals)[p] \in Seq(Speech)
    <3> SUFFICES ASSUME NEW p \in Speech PROVE CallsBy(Marshals)[p] \in Seq(Speech)
      OBVIOUS
    <3>1. p \in Part
      BY <1>1
    <3>2. CASE p.kind = "call"
      <4>1. CallsBy(Marshals)[p] = <<Marshaled(p)>>
        BY <2>1, <3>1, <3>2, CallsByIs
      <4>2. Marshaled(p) \in Speech
        BY <3>1, <3>2, MarshaledType DEF Speech
      <4>3. QED
        BY <4>1, <4>2
    <3>3. CASE p.kind # "call"
      <4>1. CallsBy(Marshals)[p] = <<>>
        BY <2>1, <3>1, <3>3, CallsByIs
      <4>2. QED
        BY <4>1, EmptySeq
    <3>4. QED
      BY <3>2, <3>3
  <2>3. QED
    BY <2>2, FlatMapOn
<1>5. \A ks : /\ FlatMap(ps, Pick(ks)) \in Seq(Speech)
              /\ \A n \in DOMAIN FlatMap(ps, Pick(ks)) : FlatMap(ps, Pick(ks))[n].kind \in ks
  BY <1>3
<1>6. /\ Words(ps) = FlatMap(ps, Pick({"text", "image"})) /\ Calls(ps) = FlatMap(ps, Pick({"call"}))
      /\ Thoughts(ps) = FlatMap(ps, Pick({"thought"}))
  BY <1>2, WordsAre, CallsAre, ThoughtsAre
<1>7. /\ Words(ps) \in Seq(Speech) /\ \A n \in DOMAIN Words(ps) : Words(ps)[n].kind \in {"text", "image"}
  BY <1>5, <1>6
<1>8. /\ Calls(ps) \in Seq(Speech) /\ \A n \in DOMAIN Calls(ps) : Calls(ps)[n].kind \in {"call"}
  BY <1>5, <1>6
<1>9. /\ Thoughts(ps) \in Seq(Speech) /\ \A n \in DOMAIN Thoughts(ps) : Thoughts(ps)[n].kind \in {"thought"}
  BY <1>5, <1>6
<1>10. QED
  BY <1>2, <1>4, <1>7, <1>8, <1>9

\* Marshaling a part twice is marshaling it once.
LEMMA PlainHeard ==
    ASSUME NEW K \in {NotWords, NotCalls}, NEW r \in Roles, NEW p \in Part
    PROVE  Hears(K, PlainEntry, r, Marshaled(p)) = Hears(K, PlainEntry, r, p)
<1>1. CASE p.kind # "call"
  BY <1>1 DEF Marshaled
<1>2. CASE p.kind = "call"
  <2> DEFINE q == Marshaled(p)
  <2>1. q \in Part /\ q.kind = "call" /\ Marshaled(q) = q
    <3>1. p \in [kind : {"call"}, id : Ids, args : {"json", "null", "broken", "missing"}]
      BY <1>2 DEF Part, Kinds
    <3>2. CASE p.args = "missing"
      <4>1. q = [p EXCEPT !.args = "null"]
        BY <1>2, <3>2 DEF Marshaled
      <4>2. q.args = "null"
        BY <3>1, <4>1
      <4>3. Marshaled(q) = q
        BY <4>2 DEF Marshaled
      <4>4. QED
        BY <1>2, <4>3, MarshaledType
    <3>3. CASE p.args # "missing"
      <4>1. q = p
        BY <3>3 DEF Marshaled
      <4>2. QED
        BY <1>2, <4>1
    <3>4. QED
      BY <3>2, <3>3
  <2> HIDE DEF q
  <2>2. /\ Heard(r, p) = [by |-> "tools", part |-> p] /\ Heard(r, q) = [by |-> "tools", part |-> q]
        /\ Heard(r, p) \in Entry /\ Heard(r, q) \in Entry
    BY <1>2, <2>1, HeardType DEF Heard
  <2>3. PlainEntry[Heard(r, p)] = [by |-> "tools", part |-> q]
    BY <2>2 DEF PlainEntry, q
  <2>4. PlainEntry[Heard(r, q)] = [by |-> "tools", part |-> q]
    BY <2>1, <2>2 DEF PlainEntry
  <2>5. Heard(r, p) \in K <=> Heard(r, q) \in K
    <3>1. CASE K = NotWords
      BY <2>2, <3>1 DEF NotWords
    <3>2. CASE K = NotCalls
      <4>1. Heard(r, p).part.kind = "call" /\ Heard(r, q).part.kind = "call"
        BY <1>2, <2>1, <2>2
      <4>2. QED
        BY <3>2, <4>1 DEF NotCalls
    <3>3. QED
      BY <3>1, <3>2
  <2>6. QED
    BY <1>2, <2>1, <2>3, <2>4, <2>5, Zenon DEF Hears, q
<1>3. QED
  BY <1>1, <1>2

\* An assistant's message, or an item of its answer.
Uttered(protocol) == {m \in Sound(protocol) : m.parts \in Seq(Speech)}

\* A message of what an assistant says is sound.
LEMMA UtteredIs ==
    /\ \A protocol : Uttered(protocol) \subseteq Msg
    /\ \A protocol : \A ps \in Seq(Speech) : Message("assistant", ps) \in Uttered(protocol)
    /\ \A p \in Speech : p.kind # "text" => Message("item", <<p>>) \in Uttered("responses")
<1>1. \A protocol : Uttered(protocol) \subseteq Msg
  BY DEF Uttered, Sound
<1>2. ASSUME NEW protocol, NEW ps \in Seq(Speech) PROVE Message("assistant", ps) \in Uttered(protocol)
  <2> DEFINE m == Message("assistant", ps)
  <2>1. ps \in Seq(Part) /\ \A n \in DOMAIN ps : ps[n] \in Speech
    BY SpeechIs
  <2>2. m \in Msg /\ m.role = "assistant" /\ m.parts = ps
    BY <2>1, MessageIs DEF Roles
  <2> HIDE DEF m
  <2>3. m.role \in Speakers(protocol)
    BY <2>2 DEF Speakers
  <2>4. \A n \in DOMAIN m.parts : SoundPart(protocol, m.role, m.parts[n])
    BY <2>1, <2>2 DEF SoundPart, Speech
  <2>5. m \in Uttered(protocol)
    BY <2>2, <2>3, <2>4 DEF Uttered, Sound
  <2>6. QED
    BY <2>5 DEF m
<1>3. ASSUME NEW p \in Speech, p.kind # "text" PROVE Message("item", <<p>>) \in Uttered("responses")
  <2> DEFINE m == Message("item", <<p>>)
  <2>1. p \in Part /\ <<p>> \in Seq(Part) /\ <<p>> \in Seq(Speech) /\ "item" \in Roles
    BY DEF Speech, Roles
  <2>2. m \in Msg /\ m.role = "item" /\ m.parts = <<p>>
    BY <2>1, MessageIs
  <2> HIDE DEF m
  <2>3. m.role \in Speakers("responses")
    BY <2>2 DEF Speakers
  <2>4. \A n \in DOMAIN m.parts : SoundPart("responses", m.role, m.parts[n])
    <3>1. SoundPart("responses", "item", p)
      BY <1>3 DEF SoundPart, Speech
    <3>2. \A n \in DOMAIN <<p>> : <<p>>[n] = p
      OBVIOUS
    <3>3. QED
      BY <2>2, <3>1, <3>2
  <2>5. m \in Uttered("responses")
    BY <2>1, <2>2, <2>3, <2>4 DEF Uttered, Sound
  <2>6. QED
    BY <2>5 DEF m
<1>4. QED
  BY <1>1, <1>2, <1>3

\* As one message.
LEMMA SaidUttered ==
    ASSUME NEW protocol, NEW ps \in Seq(Speech)
    PROVE  SaidBy("assistant", ps) \in Seq(Uttered(protocol))
<1>1. Message("assistant", ps) \in Uttered(protocol)
  BY UtteredIs
<1>2. QED
  BY <1>1, EmptySeq DEF SaidBy

\* As items.
LEMMA AloneUttered ==
    ASSUME NEW ps \in Seq(Speech), \A n \in DOMAIN ps : ps[n].kind # "text"
    PROVE  Alone(ps) \in Seq(Uttered("responses"))
<1> DEFINE c == [p \in Part |-> <<Message("item", <<p>>)>>]
           X == {p \in Speech : p.kind # "text"}
<1>1. \A n \in DOMAIN ps : ps[n] \in X /\ ps[n] \in Part
  BY SpeechIs DEF Speech
<1>2. Alone(ps) = FlatMap(ps, c)
  <2>1. [n \in DOMAIN ps |-> <<Message("item", <<ps[n]>>)>>] = [n \in DOMAIN ps |-> c[ps[n]]]
    BY <1>1
  <2>2. QED
    BY <2>1, Zenon DEF Alone, Each, FlatMap
<1>3. ps \in Seq(X)
  BY <1>1, LenProperties, IsASeq
<1>4. \A p \in X : c[p] \in Seq(Uttered("responses"))
  <2>1. \A p \in X : p \in Part /\ Message("item", <<p>>) \in Uttered("responses")
    BY UtteredIs DEF Speech
  <2>2. \A p \in X : c[p] = <<Message("item", <<p>>)>>
    BY <2>1
  <2>3. \A S, w : w \in S => <<w>> \in Seq(S)
    OBVIOUS
  <2> HIDE DEF c, X
  <2>4. QED
    BY <2>1, <2>2, <2>3
<1> HIDE DEF c, X
<1>5. QED
  BY <1>2, <1>3, <1>4, FlatMapOn

\* Whether its calls are marshaled is not heard in what an assistant says plainly.
LEMMA UtteredHeard ==
    ASSUME NEW pr \in Pairs, NEW K \in {NotWords, NotCalls}, NEW protocol, NEW h \in Seq(Uttered(protocol))
    PROVE  Hear(Listening(K, Rewrite(pr), PlainEntry), h) = Hear(Listening(K, Same, PlainEntry), h)
<1> DEFINE F == Rewrite(pr)
           G == Listening(K, Same, PlainEntry)
           H == Listening(K, F, PlainEntry)
<1>1. F \in PartMap /\ PlainEntry \in EntryMap
  BY MapTypes
<1>2. ASSUME NEW p \in Speech PROVE F[p] \in {p, Marshaled(p)}
  BY DEF Rewrite, Printed, Speech
<1> HIDE DEF F
<1>3. /\ G \in Listener /\ \A r \in Roles : \A p \in Part : G[r][p] = Hears(K, PlainEntry, r, p)
  BY <1>1, SameHears, Zenon
<1>4. H \in Listener /\ \A r \in Roles : \A p \in Part : H[r][p] = Hears(K, PlainEntry, r, F[p])
  <2>1. Listening(K, F, PlainEntry) \in Listener
        /\ \A r \in Roles : \A p \in Part : Listening(K, F, PlainEntry)[r][p] = Hears(K, PlainEntry, r, F[p])
    BY <1>1, ListeningIs
  <2>2. QED
    BY <2>1
<1> HIDE DEF G, H
<1>5. \A r \in Roles : \A p \in Speech : H[r][p] = G[r][p]
  <2>1. \A p \in Speech : p \in Part
    BY DEF Speech
  <2>2. \A r \in Roles : \A p \in Speech : Hears(K, PlainEntry, r, F[p]) = Hears(K, PlainEntry, r, p)
    BY <1>2, <2>1, PlainHeard
  <2>3. QED
    BY <1>3, <1>4, <2>1, <2>2
<1>6. ASSUME NEW m \in Uttered(protocol) PROVE Ear(H)[m] = Ear(G)[m]
  <2>1. m \in Msg /\ m.role \in Roles /\ m.parts \in Seq(Speech)
    BY DEF Uttered, Sound, Msg
  <2>2. \A n \in DOMAIN m.parts : m.parts[n] \in Speech
    BY <2>1, MembersIn
  <2>3. FlatMap(m.parts, H[m.role]) = FlatMap(m.parts, G[m.role])
    BY <1>5, <2>1, <2>2, FlatMapSame
  <2>4. QED
    BY <1>3, <1>4, <2>1, <2>3, EarIs
<1>7. \A n \in DOMAIN h : Ear(H)[h[n]] = Ear(G)[h[n]]
  BY <1>6, MembersIn
<1>8. QED
  BY <1>7, FlatMapSame DEF Hear, G, H, F

-----------------------------------------------------------------------------
(* The forms of an answer.                                                  *)

\* What an assistant's words and calls are heard as, with the calls written by F.
LEMMA SpeechHeard ==
    ASSUME NEW K \in {NotWords, NotCalls}, NEW F \in {Same, Marshals}, NEW q \in {"assistant", "item"},
           NEW ps \in Seq(Speech)
    PROVE  LET G == Listening(K, Same, PlainEntry) IN
           FlatMap(Words(ps), G["assistant"]) \o FlatMap(FlatMap(ps, CallsBy(F)), G[q])
           = FlatMap(ps, G["assistant"])
<1> DEFINE G == Listening(K, Same, PlainEntry)
           H == Listening(K, F, PlainEntry)
<1>1. /\ F \in PartMap /\ PlainEntry \in EntryMap /\ {"assistant", "item"} \subseteq Roles
      /\ \A p \in Part : F[p] \in {p, Marshaled(p)}
  <2>1. Same \in PartMap /\ Marshals \in PartMap /\ PlainEntry \in EntryMap
        /\ \A p \in Part : Same[p] = p /\ Marshals[p] = Marshaled(p)
    BY MapTypes, RewriteIs DEF Marshals, Same
  <2>2. QED
    BY <2>1 DEF Roles
<1>2. ps \in Seq(Part) /\ \A n \in DOMAIN ps : ps[n] \in Speech /\ ps[n] \in Part
  BY SpeechIs
<1>3. \A n \in DOMAIN ps :
         /\ ps[n].kind \in {"text", "image", "thought", "call"}
         /\ ps[n].kind = "call" => "assistant" # "user" /\ F[ps[n]].kind = "call"
         /\ ps[n].kind # "call" => F[ps[n]] = ps[n]
  <2> SUFFICES ASSUME NEW n \in DOMAIN ps
               PROVE  /\ ps[n].kind \in {"text", "image", "thought", "call"}
                      /\ ps[n].kind = "call" => F[ps[n]].kind = "call"
                      /\ ps[n].kind # "call" => F[ps[n]] = ps[n]
    OBVIOUS
  <2>1. ps[n].kind \in {"text", "thought", "call"} /\ ps[n] \in Part
    BY <1>2 DEF Speech
  <2>2. Marshaled(ps[n]).kind = ps[n].kind /\ (ps[n].kind # "call" => Marshaled(ps[n]) = ps[n])
    BY <2>1, MarshaledType
  <2>3. QED
    BY <1>1, <2>1, <2>2
<1>4. FlatMap(Words(ps), Listening(K, Same, PlainEntry)["assistant"])
         \o FlatMap(FlatMap(ps, CallsBy(F)), Listening(K, Same, PlainEntry)[q])
      = FlatMap(ps, Listening(K, F, PlainEntry)["assistant"])
  <2>1. K \in Filters /\ "assistant" \in {"system", "user", "assistant"} /\ q \in Roles
    BY <1>1 DEF Filters
  <2>2. QED
    BY <1>1, <1>2, <1>3, <2>1, WordsThenCalls
<1>5. \A p \in Part : Listening(K, F, PlainEntry)["assistant"][p] = Hears(K, PlainEntry, "assistant", F[p])
  <2>1. \A r \in Roles : \A p \in Part : Listening(K, F, PlainEntry)[r][p] = Hears(K, PlainEntry, r, F[p])
    BY <1>1, ListeningIs, ZenonT(40)
  <2>2. QED
    BY <1>1, <2>1
<1>6. \A p \in Part : Listening(K, Same, PlainEntry)["assistant"][p] = Hears(K, PlainEntry, "assistant", p)
  BY <1>1, SameHears
<1>7. \A p \in Part : Hears(K, PlainEntry, "assistant", F[p]) = Hears(K, PlainEntry, "assistant", p)
  BY <1>1, PlainHeard
<1>8. \A n \in DOMAIN ps : Listening(K, F, PlainEntry)["assistant"][ps[n]]
                           = Listening(K, Same, PlainEntry)["assistant"][ps[n]]
  BY <1>2, <1>5, <1>6, <1>7
<1>9. FlatMap(ps, Listening(K, F, PlainEntry)["assistant"])
      = FlatMap(ps, Listening(K, Same, PlainEntry)["assistant"])
  BY <1>8, FlatMapSame
<1>10. QED
  BY <1>4, <1>9

\* In any form, an assistant's parts are heard as they are.
LEMMA FormHeard ==
    ASSUME NEW K \in {NotWords, NotCalls}, NEW protocol \in {"chat", "messages", "responses"},
           NEW ps \in Seq(Speech)
    PROVE  LET G == Listening(K, Same, PlainEntry) IN
           /\ Form(protocol, ps) \in Seq(Uttered(protocol))
           /\ Form(protocol, ps) \in Seq(Msg)
           /\ Hear(G, Form(protocol, ps)) = FlatMap(ps, G["assistant"])
<1> DEFINE G == Listening(K, Same, PlainEntry)
           o(p) == Message(IF p.kind = "text" THEN "assistant" ELSE "item", <<p>>)
           c == [p \in Part |-> <<o(p)>>]
<1>1. /\ {"assistant", "item"} \subseteq Roles /\ PlainEntry \in EntryMap
      /\ G \in Listener /\ \A r \in Roles : G[r] \in Gives(Part, Entry)
      /\ \A r \in Roles : \A p \in Part : G[r][p] = Hears(K, PlainEntry, r, p)
  <2>1. {"assistant", "item"} \subseteq Roles /\ PlainEntry \in EntryMap
    BY MapTypes DEF Roles
  <2>2. QED
    BY <2>1, SameHears, Zenon
<1>2. /\ ps \in Seq(Part) /\ \A n \in DOMAIN ps : ps[n] \in Speech /\ ps[n] \in Part
      /\ Words(ps) \in Seq(Speech) /\ Calls(ps) \in Seq(Speech) /\ Thoughts(ps) \in Seq(Speech)
  BY SpeechIs
<1>3. \A d \in Seq(Uttered(protocol)) : d \in Seq(Msg)
  BY UtteredIs, SeqMonotonic
<1> HIDE DEF G
<1>4. CASE protocol = "messages"
  <2>1. Form(protocol, ps) = SaidBy("assistant", ps)
    BY <1>4 DEF Form
  <2>2. SaidBy("assistant", ps) \in Seq(Uttered(protocol))
    BY SaidUttered
  <2>3. Hear(G, SaidBy("assistant", ps)) = FlatMap(ps, G["assistant"])
    BY <1>1, <1>2, SaidHeard
  <2>4. QED
    BY <1>3, <2>1, <2>2, <2>3 DEF G
<1>5. CASE protocol = "chat"
  <2> DEFINE t == Thoughts(ps)
             w == Words(ps)
             d == Calls(ps)
             a == G["assistant"]
  <2>1. Form(protocol, ps) = SaidBy("assistant", t \o w \o d)
    BY <1>5 DEF Form
  <2>2. /\ t \in Seq(Speech) /\ w \in Seq(Speech) /\ d \in Seq(Speech)
        /\ t \in Seq(Part) /\ w \in Seq(Part) /\ d \in Seq(Part)
    BY <1>2, SpeechIs
  <2>3. FlatMap(t, a) = <<>>
    <3>1. t = FlatMap(ps, Pick({"thought"}))
      BY <1>2, ThoughtsAre
    <3> DEFINE z == [p \in Part |-> <<>>]
    <3>2. \A n \in DOMAIN ps : z[ps[n]] = IF ps[n].kind \in {"thought"} THEN a[ps[n]] ELSE <<>>
      BY <1>1, <1>2, ThoughtUnheard
    <3>3. \A n \in DOMAIN ps : z[ps[n]] = <<>>
      BY <1>2
    <3> HIDE DEF z, t
    <3>4. a \in Gives(Part, Entry)
      BY <1>1
    <3> HIDE DEF a
    <3>5. FlatMap(FlatMap(ps, Pick({"thought"})), a) = FlatMap(ps, z)
      BY <1>2, <3>2, <3>4, PickedHeard, SMTT(30)
    <3>6. QED
      BY <1>2, <3>1, <3>3, <3>5, FlatMapNothing
  <2>4. FlatMap(w, a) \o FlatMap(d, a) = FlatMap(ps, a)
    <3>1. d = FlatMap(ps, CallsBy(Same))
      BY <1>2, CallsBySame
    <3>2. QED
      BY <3>1, SpeechHeard DEF G
  <2>5. a \in Gives(Part, Entry)
    BY <1>1
  <2> HIDE DEF t, w, d, a
  <2>6. t \o w \in Seq(Speech) /\ t \o w \in Seq(Part) /\ t \o w \o d \in Seq(Speech) /\ t \o w \o d \in Seq(Part)
    BY <2>2, ConcatProperties
  <2>7. /\ FlatMap(t \o w \o d, a) = FlatMap(t \o w, a) \o FlatMap(d, a)
        /\ FlatMap(t \o w, a) = FlatMap(t, a) \o FlatMap(w, a) /\ FlatMap(w, a) \in Seq(Entry)
    BY <2>2, <2>5, <2>6, HearPart
  <2>8. FlatMap(t \o w \o d, a) = FlatMap(ps, a)
    BY <2>3, <2>4, <2>7, Splice
  <2>9. SaidBy("assistant", t \o w \o d) \in Seq(Uttered(protocol))
    BY <2>6, SaidUttered
  <2>10. Hear(G, SaidBy("assistant", t \o w \o d)) = FlatMap(t \o w \o d, G["assistant"])
    BY <1>1, <2>6, SaidHeard
  <2>11. QED
    BY <1>3, <2>1, <2>8, <2>9, <2>10 DEF a, G
<1>6. CASE protocol = "responses"
  <2>1. Form(protocol, ps) = FlatMap(ps, c)
    <3>1. [n \in DOMAIN ps |-> <<Message(IF ps[n].kind = "text" THEN "assistant" ELSE "item", <<ps[n]>>)>>]
          = [n \in DOMAIN ps |-> c[ps[n]]]
      BY <1>2
    <3>2. Form(protocol, ps) = Each(ps, LAMBDA p :
                <<Message(IF p.kind = "text" THEN "assistant" ELSE "item", <<p>>)>>)
      BY <1>6, Zenon DEF Form
    <3>3. QED
      BY <3>1, <3>2, Zenon DEF Each, FlatMap
  <2>2. \A p \in Part : c[p] = <<o(p)>>
    OBVIOUS
  <2>3. ASSUME NEW p \in Speech
        PROVE  /\ o(p) \in Uttered(protocol) /\ o(p) \in Msg /\ p \in Part /\ <<p>> \in Seq(Part)
               /\ o(p).parts = <<p>> /\ o(p).role = IF p.kind = "text" THEN "assistant" ELSE "item"
    <3>1. p \in Part /\ <<p>> \in Seq(Part) /\ <<p>> \in Seq(Speech)
      BY DEF Speech
    <3>2. o(p) \in Uttered(protocol)
      <4>1. CASE p.kind = "text"
        BY <3>1, <4>1, UtteredIs
      <4>2. CASE p.kind # "text"
        BY <1>6, <3>1, <4>2, UtteredIs
      <4>3. QED
        BY <4>1, <4>2
    <3>3. QED
      BY <1>1, <3>1, <3>2, MessageIs
  <2> HIDE DEF o, c
  <2>4. \A p \in Speech : c[p] \in Seq(Uttered(protocol)) /\ c[p] \in Seq(Msg)
    <3>1. \A S, w : w \in S => <<w>> \in Seq(S)
      OBVIOUS
    <3>2. QED
      BY <2>2, <2>3, <3>1
  <2>5. FlatMap(ps, c) \in Seq(Uttered(protocol))
    BY <2>4, FlatMapOn
  <2>6. ASSUME NEW p \in Speech PROVE FlatMap(c[p], Ear(G)) = G["assistant"][p]
    <3>1. o(p) \in Msg /\ o(p).parts = <<p>> /\ p \in Part /\ c[p] = <<o(p)>>
          /\ o(p).role = IF p.kind = "text" THEN "assistant" ELSE "item"
      BY <2>2, <2>3
    <3>2. Hear(G, <<o(p)>>) = FlatMap(o(p).parts, G[o(p).role])
      BY <1>1, <3>1, HearMessage
    <3>3. \A r \in {"assistant", "item"} : FlatMap(<<p>>, G[r]) = G[r][p]
      BY <1>1, <3>1, HearPart
    <3>4. G["item"][p] = G["assistant"][p] \/ p.kind = "text"
      <4>1. CASE p.kind = "thought"
        BY <1>1, <3>1, <4>1, ThoughtUnheard
      <4>2. CASE p.kind = "call"
        BY <1>1, <3>1, <4>2, CallHeard
      <4>3. QED
        BY <4>1, <4>2 DEF Speech
    <3>5. QED
      BY <3>1, <3>2, <3>3, <3>4 DEF Hear
  <2>7. FlatMap(FlatMap(ps, c), Ear(G)) = FlatMap(ps, G["assistant"])
    <3> DEFINE e == [p \in Speech |-> c[p]]
    <3>1. e \in Gives(Speech, Msg) /\ \A p \in Speech : e[p] = c[p]
      BY <2>4 DEF Gives
    <3> HIDE DEF e
    <3>2. FlatMap(ps, c) = FlatMap(ps, e)
      BY <1>2, <3>1, FlatMapSame
    <3>3. \A n \in DOMAIN ps : FlatMap(e[ps[n]], Ear(G)) = G["assistant"][ps[n]]
      BY <1>2, <2>6, <3>1
    <3>4. Ear(G) \in Gives(Msg, Entry)
      BY <1>1, EarIs
    <3>5. FlatMap(FlatMap(ps, e), Ear(G)) = FlatMap(ps, G["assistant"])
      BY <3>1, <3>3, <3>4, FlatMapVia
    <3>6. QED
      BY <3>2, <3>5
  <2>8. QED
    BY <1>3, <2>1, <2>5, <2>7 DEF Hear, G
<1>7. QED
  BY <1>4, <1>5, <1>6

-----------------------------------------------------------------------------
(* Converted answers.                                                       *)

\* The words and calls of an assistant, the calls written by F.
LEMMA WordsAndCalls ==
    ASSUME NEW K \in {NotWords, NotCalls}, NEW F \in {Same, Marshals}, NEW ps \in Seq(Speech)
    PROVE  LET G == Listening(K, Same, PlainEntry)
               qs == Words(ps) \o FlatMap(ps, CallsBy(F))
           IN  qs \in Seq(Speech) /\ FlatMap(qs, G["assistant"]) = FlatMap(ps, G["assistant"])
<1> DEFINE a == Listening(K, Same, PlainEntry)["assistant"]
           d == FlatMap(ps, CallsBy(F))
<1>1. ps \in Seq(Part) /\ Words(ps) \in Seq(Speech) /\ d \in Seq(Speech)
  <2>1. /\ ps \in Seq(Part) /\ Words(ps) \in Seq(Speech) /\ Calls(ps) \in Seq(Speech)
        /\ FlatMap(ps, CallsBy(Marshals)) \in Seq(Speech)
    BY SpeechIs
  <2>2. FlatMap(ps, CallsBy(Same)) = Calls(ps)
    BY <2>1, CallsBySame
  <2>3. CASE F = Same
    BY <2>1, <2>2, <2>3
  <2>4. CASE F = Marshals
    BY <2>1, <2>4
  <2>5. QED
    BY <2>1, <2>3, <2>4
<1>2. Words(ps) \in Seq(Part) /\ d \in Seq(Part) /\ Words(ps) \o d \in Seq(Speech)
  BY <1>1, SpeechIs, ConcatProperties
<1>3. FlatMap(Words(ps), a) \o FlatMap(d, a) = FlatMap(ps, a)
  BY SpeechHeard
<1>4. a \in Gives(Part, Entry)
  BY MapTypes, SameHears DEF Roles
<1> HIDE DEF a, d
<1>5. FlatMap(Words(ps) \o d, a) = FlatMap(Words(ps), a) \o FlatMap(d, a)
  BY <1>2, <1>4, HearPart
<1>6. QED
  BY <1>2, <1>3, <1>5 DEF a, d

\* What was thought is said, but not heard.
LEMMA SpokenIs ==
    ASSUME NEW p \in Part
    PROVE  /\ Spoken(p) \in Part /\ (p.kind # "thought" => Spoken(p) = p)
           /\ p \in Speech => Spoken(p) \in Speech
           /\ \A K \in {NotWords, NotCalls} : \A g : p \in Speech /\ p.kind = "thought" =>
                 Hears(K, g, "assistant", Spoken(p)) = <<>>
<1>1. CASE p.kind # "thought"
  BY <1>1 DEF Spoken
<1>2. CASE p.kind = "thought"
  <2> DEFINE q == Spoken(p)
  <2>1. p \in [kind : Kinds, of : Int]
    BY <1>2 DEF Part
  <2>2. q = [p EXCEPT !.kind = "text"]
    BY <1>2 DEF Spoken
  <2>3. q \in [kind : Kinds, of : Int] /\ q.kind = "text" /\ q.of = p.of
    BY <2>1, <2>2 DEF Kinds
  <2> HIDE DEF q
  <2>4. q \in Part
    BY <2>3 DEF Part
  <2>5. ASSUME p \in Speech, NEW K \in {NotWords, NotCalls}, NEW g
        PROVE  q \in Speech /\ Hears(K, g, "assistant", q) = <<>>
    <3>1. q \in Speech /\ q.of < 0
      BY <1>2, <2>3, <2>4, <2>5 DEF Speech
    <3>2. Heard("assistant", q) = [by |-> "assistant", part |-> q]
      BY <2>3 DEF Heard
    <3>3. Heard("assistant", q) \notin K
      <4>1. CASE K = NotWords
        BY <3>2, <4>1 DEF NotWords
      <4>2. CASE K = NotCalls
        <5>1. Heard("assistant", q).by = "assistant" /\ Heard("assistant", q).part.of < 0
          BY <3>1, <3>2
        <5>2. QED
          BY <4>2, <5>1 DEF NotCalls
      <4>3. QED
        BY <4>1, <4>2
    <3>4. QED
      BY <3>1, <3>3, Zenon DEF Hears
  <2>6. QED
    BY <1>2, <2>4, <2>5 DEF q
<1>3. QED
  BY <1>1, <1>2

\* Thoughts that became words are the only words more.
LEMMA SpokenHeard ==
    ASSUME NEW K \in {NotWords, NotCalls}, NEW ps \in Seq(Speech)
    PROVE  LET a == Listening(K, Same, PlainEntry)["assistant"]
               s == Each(Thoughts(ps) \o Words(ps), LAMBDA p : <<Spoken(p)>>)
           IN  s \in Seq(Speech) /\ FlatMap(s, a) = FlatMap(Words(ps), a)
<1> DEFINE a == Listening(K, Same, PlainEntry)["assistant"]
           t == Thoughts(ps)
           w == Words(ps)
           c == [p \in Part |-> <<Spoken(p)>>]
           z == [p \in Part |-> <<>>]
<1>1. /\ t \in Seq(Speech) /\ \A n \in DOMAIN t : t[n].kind = "thought"
      /\ w \in Seq(Speech) /\ \A n \in DOMAIN w : w[n].kind # "thought"
  BY SpeechIs
<1>2. a \in Gives(Part, Entry) /\ \A p \in Part : a[p] = Hears(K, PlainEntry, "assistant", p)
  BY MapTypes, SameHears DEF Roles
<1>3. c \in Gives(Part, Part) /\ \A p \in Part : c[p] = <<Spoken(p)>> /\ z[p] = <<>>
  BY SpokenIs DEF Gives
<1> HIDE DEF a, t, w
<1>4. t \o w \in Seq(Speech)
  BY <1>1, ConcatProperties
<1>5. /\ \A n \in DOMAIN t : t[n] \in Speech /\ t[n] \in Part
      /\ \A n \in DOMAIN w : w[n] \in Speech /\ w[n] \in Part
      /\ t \in Seq(Part) /\ w \in Seq(Part) /\ t \o w \in Seq(Part)
  BY <1>1, <1>4, SpeechIs
<1>6. Each(t \o w, LAMBDA p : <<Spoken(p)>>) = FlatMap(t \o w, c)
  <2>1. \A n \in DOMAIN (t \o w) : (t \o w)[n] \in Part
    BY <1>5, MembersIn
  <2>2. [n \in DOMAIN (t \o w) |-> <<Spoken((t \o w)[n])>>] = [n \in DOMAIN (t \o w) |-> c[(t \o w)[n]]]
    BY <2>1
  <2>3. QED
    BY <2>2, Zenon DEF Each, FlatMap
<1> HIDE DEF c, z
<1>7. FlatMap(t \o w, c) \in Seq(Speech)
  <2>1. \A p \in Speech : c[p] = <<Spoken(p)>> /\ Spoken(p) \in Speech
    BY <1>3, SpokenIs DEF Speech
  <2>2. \A S, x : x \in S => <<x>> \in Seq(S)
    OBVIOUS
  <2>3. \A p \in Speech : c[p] \in Seq(Speech)
    BY <2>1, <2>2, Zenon
  <2>4. QED
    BY <1>4, <2>3, FlatMapOn
<1>8. \A p \in Part : FlatMap(c[p], a) = a[Spoken(p)]
  <2>1. \A p \in Part : Spoken(p) \in Part
    BY SpokenIs
  <2>2. \A p \in Part : FlatMap(<<p>>, a) = a[p]
    BY <1>2, HearPart
  <2>3. QED
    BY <1>3, <2>1, <2>2
<1>9. FlatMap(FlatMap(t, c), a) = <<>>
  <2>1. ASSUME NEW n \in DOMAIN t PROVE FlatMap(c[t[n]], a) = z[t[n]] /\ z[t[n]] = <<>>
    <3>1. Spoken(t[n]) \in Part /\ Hears(K, PlainEntry, "assistant", Spoken(t[n])) = <<>>
      BY <1>1, <1>5, SpokenIs
    <3>2. QED
      BY <1>2, <1>3, <1>5, <1>8, <3>1
  <2>2. FlatMap(FlatMap(t, c), a) = FlatMap(t, z)
    BY <1>2, <1>3, <1>5, <2>1, FlatMapVia
  <2>3. QED
    BY <1>5, <2>1, <2>2, FlatMapNothing
<1>10. FlatMap(FlatMap(w, c), a) = FlatMap(w, a)
  <2>1. \A n \in DOMAIN w : FlatMap(c[w[n]], a) = a[w[n]]
    BY <1>1, <1>5, <1>8, SpokenIs
  <2>2. QED
    BY <1>2, <1>3, <1>5, <2>1, FlatMapVia
<1>11. /\ FlatMap(t, c) \in Seq(Part) /\ FlatMap(w, c) \in Seq(Part)
       /\ FlatMap(t \o w, c) = FlatMap(t, c) \o FlatMap(w, c)
  BY <1>3, <1>5, FlatMapType, FlatMapConcat
<1>12. FlatMap(FlatMap(t, c) \o FlatMap(w, c), a) = FlatMap(FlatMap(t, c), a) \o FlatMap(FlatMap(w, c), a)
  BY <1>2, <1>11, HearPart
<1>13. FlatMap(w, a) \in Seq(Entry)
  BY <1>2, <1>5, HearPart
<1>14. FlatMap(FlatMap(t \o w, c), a) = FlatMap(w, a)
  BY <1>9, <1>10, <1>11, <1>12, <1>13, Splice
<1>15. QED
  BY <1>6, <1>7, <1>14 DEF a, t, w

\* A converted answer is heard as the supplier gave it.
LEMMA AnswerHeard ==
    ASSUME NEW pr \in Pairs, NEW K \in {NotWords, NotCalls}, NEW ps \in Seq(Speech)
    PROVE  /\ ConvertedAnswer(pr, ps) \in Seq(Uttered(pr[1])) /\ ConvertedAnswer(pr, ps) \in Seq(Msg)
           /\ Form(pr[2], ps) \in Seq(Msg)
           /\ Hear(Listening(K, Rewrite(pr), PlainEntry), ConvertedAnswer(pr, ps))
              = Hear(Listening(K, Same, PlainEntry), Form(pr[2], ps))
<1> DEFINE G == Listening(K, Same, PlainEntry)
           d == ConvertedAnswer(pr, ps)
<1>1. pr[1] \in {"chat", "messages", "responses"} /\ pr[2] \in {"chat", "messages", "responses"}
  BY DEF Pairs
<1>2. Form(pr[2], ps) \in Seq(Msg) /\ Hear(G, Form(pr[2], ps)) = FlatMap(ps, G["assistant"])
  BY <1>1, FormHeard
<1>3. /\ ps \in Seq(Part) /\ Calls(ps) \in Seq(Speech) /\ Calls(ps) \in Seq(Part)
      /\ \A n \in DOMAIN Calls(ps) : Calls(ps)[n].kind = "call"
      /\ FlatMap(ps, CallsBy(Same)) = Calls(ps)
  BY SpeechIs, CallsBySame
<1>4. G \in Listener /\ {"assistant", "item"} \subseteq Roles
  BY MapTypes, SameHears DEF Roles
<1>5. d \in Seq(Uttered(pr[1])) /\ Hear(G, d) = FlatMap(ps, G["assistant"])
  <2>1. CASE pr[1] = "messages"
    <3> DEFINE qs == Words(ps) \o Calls(ps)
    <3>1. d = Form("messages", qs)
      BY <2>1 DEF ConvertedAnswer, ToMessages
    <3>2. qs \in Seq(Speech) /\ FlatMap(qs, G["assistant"]) = FlatMap(ps, G["assistant"])
      <4>1. LET rs == Words(ps) \o FlatMap(ps, CallsBy(Same)) IN
            rs \in Seq(Speech) /\ FlatMap(rs, G["assistant"]) = FlatMap(ps, G["assistant"])
        BY WordsAndCalls
      <4>2. QED
        BY <1>3, <4>1
    <3> HIDE DEF qs
    <3>3. Form("messages", qs) \in Seq(Uttered("messages"))
          /\ Hear(G, Form("messages", qs)) = FlatMap(qs, G["assistant"])
      BY <3>2, FormHeard
    <3>4. QED
      BY <2>1, <3>1, <3>2, <3>3
  <2>2. CASE pr[1] = "chat"
    <3> DEFINE qs == Words(ps) \o FlatMap(ps, CallsBy(Marshals))
    <3>1. d = Form("chat", qs)
      <4>1. Each(Calls(ps), LAMBDA p : <<Marshaled(p)>>) = FlatMap(ps, CallsBy(Marshals))
        BY <1>3, CallsMarshaled
      <4>2. d = ToChat(ps)
        BY <2>2 DEF ConvertedAnswer
      <4>3. QED
        BY <4>1, <4>2, Zenon DEF ToChat
    <3>2. qs \in Seq(Speech) /\ FlatMap(qs, G["assistant"]) = FlatMap(ps, G["assistant"])
      BY WordsAndCalls
    <3> HIDE DEF qs
    <3>3. Form("chat", qs) \in Seq(Uttered("chat"))
          /\ Hear(G, Form("chat", qs)) = FlatMap(qs, G["assistant"])
      BY <3>2, FormHeard
    <3>4. QED
      BY <2>2, <3>1, <3>2, <3>3
  <2>3. CASE pr[1] = "responses"
    <3> DEFINE s == Each(Thoughts(ps) \o Words(ps), LAMBDA p : <<Spoken(p)>>)
               x == SaidBy("assistant", s)
               y == Alone(Calls(ps))
    <3>1. d = x \o y
      <4>1. d = ToResponses(ps)
        BY <2>3 DEF ConvertedAnswer
      <4>2. QED
        BY <4>1, Zenon DEF ToResponses
    <3>2. s \in Seq(Speech) /\ FlatMap(s, G["assistant"]) = FlatMap(Words(ps), G["assistant"])
      BY SpokenHeard
    <3> HIDE DEF s
    <3>3. x \in Seq(Uttered("responses")) /\ y \in Seq(Uttered("responses"))
      BY <1>3, <3>2, SaidUttered, AloneUttered
    <3>4. Hear(G, x) = FlatMap(s, G["assistant"]) /\ Hear(G, y) = FlatMap(Calls(ps), G["item"])
      BY <1>3, <1>4, <3>2, SpeechIs, SaidHeard, AloneHeard
    <3>5. FlatMap(Words(ps), G["assistant"]) \o FlatMap(Calls(ps), G["item"]) = FlatMap(ps, G["assistant"])
      BY <1>3, SpeechHeard
    <3> HIDE DEF x, y, d, G
    <3>6. x \o y \in Seq(Uttered("responses")) /\ x \in Seq(Msg) /\ y \in Seq(Msg)
      BY <3>3, UtteredIs, SeqMonotonic, ConcatProperties
    <3>7. Hear(G, x \o y) = Hear(G, x) \o Hear(G, y)
      BY <1>4, <3>6, HearMessage
    <3>8. QED
      BY <2>3, <3>1, <3>2, <3>4, <3>5, <3>6, <3>7
  <2>4. QED
    BY <1>1, <2>1, <2>2, <2>3
<1>6. Hear(Listening(K, Rewrite(pr), PlainEntry), d) = Hear(G, d)
  BY <1>5, UtteredHeard
<1>7. d \in Seq(Msg)
  BY <1>5, UtteredIs, SeqMonotonic
<1> HIDE DEF G, d
<1>8. QED
  BY <1>2, <1>5, <1>6, <1>7 DEF G, d

-----------------------------------------------------------------------------
(* The states of a conversation.                                            *)

\* The parts of a history.
LEMMA JoinedType == ASSUME NEW h \in Seq(Msg) PROVE Joined(h) \in Seq(Part)
<1> DEFINE c == [m \in Msg |-> m.parts]
<1>1. c \in Gives(Msg, Part) /\ \A m \in Msg : c[m] = m.parts
  BY DEF Gives, Msg
<1> HIDE DEF c
<1>2. \A n \in DOMAIN h : h[n] \in Msg
  BY MembersIn
<1>3. [n \in DOMAIN h |-> h[n].parts] = [n \in DOMAIN h |-> c[h[n]]]
  BY <1>1, <1>2
<1>4. Joined(h) = FlatMap(h, c)
  BY <1>3, Zenon DEF Joined, Each, FlatMap
<1>5. QED
  BY <1>1, <1>4, FlatMapType

\* Sound messages are messages.
LEMMA SoundAre == \A protocol : Sound(protocol) \subseteq Msg
  BY DEF Sound

\* The number of what is said next.
LEMMA NumberIs == ASSUME history \in Seq(Msg) PROVE Number \in Nat \ {0}
<1>1. Len(Joined(history)) \in Nat
  BY JoinedType, LenProperties
<1>2. QED
  BY <1>1 DEF Number

\* The parts a user or an assistant adds.
LEMMA MadeIs ==
    ASSUME NEW n \in Nat \ {0}
    PROVE  /\ Text(n) \in Part /\ Text(n).kind = "text" /\ Image(n) \in Part /\ Image(n).kind = "image"
           /\ \A sort \in Sort : Made(sort, n) \in Speech
<1>1. Text(n) \in Part /\ Text(n).kind = "text" /\ Image(n) \in Part /\ Image(n).kind = "image"
  BY DEF Text, Image, Part, Kinds
<1>2. Text(n) \in Speech
  BY <1>1 DEF Speech
<1>3. Thought(n) \in Speech
  BY DEF Thought, Speech, Part, Kinds
<1>4. \A id \in Ids : \A args \in {"json", "null", "broken", "missing"} : Call(id, args) \in Speech
  BY DEF Call, Speech, Part
<1>5. n \in Ids /\ Blank \in Ids
  BY DEF Ids
<1>6. ASSUME NEW sort \in Sort PROVE Made(sort, n) \in Speech
  <2>1. CASE sort = "text"
    BY <1>2, <2>1 DEF Made
  <2>2. CASE sort = "thought"
    BY <1>3, <2>2 DEF Made
  <2>3. CASE sort = "blank"
    BY <1>4, <1>5, <2>3 DEF Made
  <2>4. CASE sort \in {"json", "null", "broken", "missing"}
    BY <1>4, <1>5, <2>4 DEF Made
  <2>5. QED
    BY <2>1, <2>2, <2>3, <2>4 DEF Sort
<1>7. QED
  BY <1>1, <1>6

\* An answer is what an assistant says.
LEMMA AnswersAre ==
    ASSUME history \in Seq(Msg), NEW protocol, NEW parts \in Answers(protocol)
    PROVE  parts \in Seq(Speech)
<1> DEFINE sorts == IF protocol = "messages" THEN Sort \ {"broken"} ELSE Sort
<1>1. PICK s \in SeqOf(sorts, MaxAnswer) : parts = [n \in DOMAIN s |-> Made(s[n], Number + n - 1)]
  BY DEF Answers
<1>2. sorts \subseteq Sort
  OBVIOUS
<1> HIDE DEF sorts
<1>3. MaxAnswer \in Nat
  BY HistoryAssumption
<1>4. PICK m \in 0..MaxAnswer : s \in [1..m -> sorts]
  BY DEF SeqOf
<1>5. m \in Nat /\ DOMAIN s = 1..m /\ \A n \in 1..m : s[n] \in Sort
  BY <1>2, <1>3, <1>4
<1>6. \A n \in 1..m : Number + n - 1 \in Nat \ {0}
  BY <1>5, NumberIs
<1>7. \A n \in 1..m : Made(s[n], Number + n - 1) \in Speech
  BY <1>5, <1>6, MadeIs
<1>8. parts = [n \in 1..m |-> Made(s[n], Number + n - 1)]
  BY <1>1, <1>5
<1>9. QED
  BY <1>5, <1>7, <1>8

\* A sound history that is not refused is accepted.
LEMMA AcceptedHistory ==
    ASSUME NEW pr, NEW h \in Seq(Sound(pr[1])), ~RefusedHistory(pr, h)
    PROVE  h \in Seq(Accepted(pr))
<1>1. \A n \in DOMAIN h : h[n] \in Sound(pr[1])
  BY MembersIn
<1>2. \A n \in DOMAIN h : \A k \in DOMAIN h[n].parts : ~RefusedPart(pr, h[n], h[n].parts[k])
  BY DEF RefusedHistory
<1>3. \A n \in DOMAIN h : h[n] \in Accepted(pr)
  BY <1>1, <1>2 DEF Accepted
<1>4. Len(h) \in Nat /\ DOMAIN h = 1..Len(h) /\ h = [n \in 1..Len(h) |-> h[n]]
  BY LenProperties
<1>5. QED
  BY <1>3, <1>4

-----------------------------------------------------------------------------
(* What a turn makes of the history: it is sound, and heard after it.       *)

Longer(h, e) ==
    /\ e \in Seq(Sound(pair[1]))
    /\ \A G \in Listener : \E u \in Seq(Entry) : Hear(G, e) = Hear(G, h) \o u

\* A sound history is a history.
LEMMA SoundSeq == \A protocol : \A h \in Seq(Sound(protocol)) : h \in Seq(Msg)
  BY SoundAre, SeqMonotonic

\* Sound messages more.
LEMMA ConcatLonger ==
    ASSUME NEW h \in Seq(Sound(pair[1])), NEW e \in Seq(Sound(pair[1]))
    PROVE  Longer(h, h \o e)
<1>1. h \o e \in Seq(Sound(pair[1]))
  BY ConcatProperties
<1>2. h \in Seq(Msg) /\ e \in Seq(Msg)
  BY SoundSeq
<1>3. \A G \in Listener : Hear(G, e) \in Seq(Entry) /\ Hear(G, h \o e) = Hear(G, h) \o Hear(G, e)
  BY <1>2, HearMessage
<1>4. QED
  BY <1>1, <1>3, Zenon DEF Longer

\* A sound part more, in a message of its own or the last one.
LEMMA AddsLonger ==
    ASSUME history \in Seq(Sound(pair[1])), NEW role \in Roles, NEW part \in Part,
           Message(role, <<part>>) \in Sound(pair[1]), Adds(role, part)
    PROVE  Longer(history, history')
<1> DEFINE m == Last(history)
           d == Append(Front(history), Message(role, Append(m.parts, part)))
<1>1. history' = Append(history, Message(role, <<part>>))
      \/ (pair[1] = "messages" /\ history # <<>> /\ m.role = role /\ history' = d)
  BY DEF Adds
<1>2. CASE history' = Append(history, Message(role, <<part>>))
  <2> DEFINE w == Message(role, <<part>>)
  <2>1. w \in Sound(pair[1])
    OBVIOUS
  <2> HIDE DEF w
  <2>2. <<w>> \in Seq(Sound(pair[1])) /\ Append(history, w) = history \o <<w>>
    BY <2>1, AppendIsConcat
  <2>3. QED
    BY <1>2, <2>2, ConcatLonger DEF w
<1>3. CASE pair[1] = "messages" /\ history # <<>> /\ m.role = role /\ history' = d
  <2>1. history \in Seq(Msg) /\ Front(history) \in Seq(Sound(pair[1])) /\ m \in Sound(pair[1]) /\ m \in Msg
    BY <1>3, FrontAndLast, SoundSeq, SoundAre
  <2>2. m.parts \in Seq(Part) /\ Len(m.parts) \in Nat /\ DOMAIN m.parts = 1..Len(m.parts)
    BY <2>1, LenProperties DEF Msg
  <2> DEFINE ps == Append(m.parts, part)
  <2>3. /\ ps \in Seq(Part) /\ DOMAIN ps = 1..(Len(m.parts) + 1)
        /\ ps[Len(m.parts) + 1] = part /\ \A n \in 1..Len(m.parts) : ps[n] = m.parts[n]
    BY <2>2, AppendProperties, LenProperties
  <2>4. \A n \in DOMAIN ps : n \in DOMAIN m.parts \/ ps[n] = part
    BY <2>2, <2>3
  <2>5. \A n \in DOMAIN m.parts : SoundPart(pair[1], role, ps[n])
    BY <1>3, <2>1, <2>2, <2>3 DEF Sound
  <2>6. SoundPart(pair[1], role, part) /\ role \in Speakers(pair[1])
    <3>1. Message(role, <<part>>).parts[1] = part /\ 1 \in DOMAIN Message(role, <<part>>).parts
          /\ Message(role, <<part>>).role = role
      BY DEF Message
    <3>2. QED
      BY <3>1 DEF Sound
  <2>7. role # "item"
    BY <1>3, <2>6 DEF Speakers
  <2> HIDE DEF ps
  <2>8. Message(role, ps) \in Msg /\ Message(role, ps).role = role /\ Message(role, ps).parts = ps
    BY <2>3, MessageIs
  <2>9. Message(role, ps) \in Sound(pair[1])
    BY <2>4, <2>5, <2>6, <2>7, <2>8 DEF Sound
  <2>10. d \in Seq(Sound(pair[1]))
    BY <2>1, <2>9, AppendProperties DEF ps
  <2>11. <<part>> \in Seq(Part) /\ ps = m.parts \o <<part>>
    BY <2>2, AppendIsConcat DEF ps
  <2>12. ASSUME NEW G \in Listener PROVE \E u \in Seq(Entry) : Hear(G, d) = Hear(G, history) \o u
    <3>1. Hear(G, d) = Hear(G, history) \o FlatMap(<<part>>, G[role])
      BY <1>3, <2>1, <2>11, GrowLast, ZenonT(40) DEF ps
    <3>2. G[role] \in Gives(Part, Entry)
      BY DEF Listener
    <3>3. FlatMap(<<part>>, G[role]) \in Seq(Entry)
      BY <2>11, <3>2, HearPart
    <3>4. QED
      BY <3>1, <3>3
  <2>13. QED
    BY <1>3, <2>10, <2>12, Zenon DEF Longer
<1>4. QED
  BY <1>1, <1>2, <1>3

-----------------------------------------------------------------------------
(* What each turn adds.                                                     *)

\* What a client adds is sound.
LEMMA UserLonger ==
    ASSUME pair \in Pairs, history \in Seq(Sound(pair[1])), UserSays \/ Instructs \/ Returns
    PROVE  Longer(history, history')
<1>1. history \in Seq(Msg) /\ Number \in Nat \ {0}
  BY SoundSeq, NumberIs
<1>2. /\ \A r \in Roles : \A p \in Part :
            Message(r, <<p>>) \in Msg /\ Message(r, <<p>>).role = r /\ Message(r, <<p>>).parts = <<p>>
  <2>1. \A p \in Part : <<p>> \in Seq(Part)
    OBVIOUS
  <2>2. QED
    BY <2>1, MessageIs
<1>3. ASSUME NEW r \in Roles, NEW p \in Part, r \in Speakers(pair[1]), SoundPart(pair[1], r, p)
      PROVE  Message(r, <<p>>) \in Sound(pair[1])
  <2>1. \A n \in DOMAIN <<p>> : <<p>>[n] = p
    OBVIOUS
  <2>2. QED
    BY <1>2, <1>3, <2>1 DEF Sound
<1>4. CASE UserSays
  <2>1. PICK word \in {Text(Number), Image(Number)} : Adds("user", word)
    BY <1>4 DEF UserSays
  <2>2. word \in Part /\ word.kind \in {"text", "image"}
    BY <1>1, MadeIs
  <2>3. "user" \in Roles /\ "user" \in Speakers(pair[1]) /\ SoundPart(pair[1], "user", word)
    BY <2>2 DEF Roles, Speakers, SoundPart
  <2>4. QED
    BY <1>3, <2>1, <2>2, <2>3, AddsLonger
<1>5. CASE Instructs
  <2>1. Text(Number) \in Part /\ Text(Number).kind = "text"
    BY <1>1, MadeIs
  <2>2. pair[1] # "messages" /\ Adds("system", Text(Number))
    BY <1>5 DEF Instructs
  <2>3. "system" \in Roles /\ "system" \in Speakers(pair[1]) /\ SoundPart(pair[1], "system", Text(Number))
    BY <2>1, <2>2 DEF Roles, Speakers, SoundPart
  <2>4. QED
    BY <1>3, <2>1, <2>2, <2>3, AddsLonger
<1>6. CASE Returns
  <2> DEFINE role == CASE pair[1] = "chat"      -> "tool"
                       [] pair[1] = "responses" -> "item"
                       [] pair[1] = "messages"  -> "user"
  <2>1. PICK n \in DOMAIN Joined(history) :
           /\ Joined(history)[n].kind = "call"
           /\ \E id \in {Joined(history)[n].id, Blank} : Adds(role, Result(id))
    BY <1>6 DEF Returns
  <2>2. PICK id \in {Joined(history)[n].id, Blank} : Adds(role, Result(id))
    BY <2>1
  <2>3. Joined(history)[n] \in Part
    BY <1>1, JoinedType, MembersIn
  <2>4. id \in Ids
    BY <2>1, <2>3 DEF Part, Ids, Kinds
  <2>5. Result(id) \in Part /\ Result(id).kind = "result"
    BY <2>4 DEF Result, Part
  <2>6. role \in Roles /\ role \in Speakers(pair[1]) /\ SoundPart(pair[1], role, Result(id))
    <3>1. pair[1] \in {"chat", "responses", "messages"}
      BY DEF Pairs
    <3>2. CASE pair[1] = "chat"
      BY <2>5, <3>2 DEF Roles, Speakers, SoundPart
    <3>3. CASE pair[1] = "responses"
      BY <2>5, <3>3 DEF Roles, Speakers, SoundPart
    <3>4. CASE pair[1] = "messages"
      BY <2>5, <3>4 DEF Roles, Speakers, SoundPart
    <3>5. QED
      BY <3>1, <3>2, <3>3, <3>4
  <2> HIDE DEF role
  <2>7. QED
    BY <1>3, <2>2, <2>5, <2>6, AddsLonger
<1>7. QED
  BY <1>4, <1>5, <1>6

\* What an assistant utters is sound.
LEMMA UtteredSound ==
    ASSUME NEW protocol, NEW e \in Seq(Uttered(protocol))
    PROVE  e \in Seq(Sound(protocol))
<1>1. Uttered(protocol) \subseteq Sound(protocol)
  BY DEF Uttered
<1>2. QED
  BY <1>1, SeqMonotonic

\* What an answer of another supplier adds is sound.
LEMMA OthersLonger ==
    ASSUME pair \in Pairs, history \in Seq(Sound(pair[1])), OtherAnswers
    PROVE  Longer(history, history')
<1>1. pair[1] \in {"chat", "messages", "responses"} /\ history \in Seq(Msg)
  BY SoundSeq DEF Pairs
<1>2. PICK parts \in Answers(pair[1]) :
         \/ history' = history \o Form(pair[1], parts)
         \/ history' = history \o SaidBy("assistant", parts)
  BY DEF OtherAnswers
<1>3. parts \in Seq(Speech)
  BY <1>1, AnswersAre
<1>4. NotWords \in {NotWords, NotCalls}
  OBVIOUS
<1>5. Form(pair[1], parts) \in Seq(Uttered(pair[1])) /\ SaidBy("assistant", parts) \in Seq(Uttered(pair[1]))
  BY <1>1, <1>3, <1>4, FormHeard, SaidUttered
<1>6. Form(pair[1], parts) \in Seq(Sound(pair[1])) /\ SaidBy("assistant", parts) \in Seq(Sound(pair[1]))
  BY <1>5, UtteredSound
<1>7. QED
  BY <1>2, <1>6, ConcatLonger

-----------------------------------------------------------------------------
(* The invariant: the history is sound, and what was sent is what it is     *)
(* converted to, and not refused.                                           *)

HistoryType ==
    /\ pair \in Pairs
    /\ system \in {<<>>, <<Text(0)>>} /\ (pair[1] = "chat" => system = <<>>)
    /\ history \in Seq(Sound(pair[1]))
    /\ phase \in {"client", "supplier", "refused"}

SentRight ==
    phase = "supplier" =>
        /\ ~RefusedHistory(pair, history) /\ ~RefusedPolicy(pair, sent.asked)
        /\ sent.request = Converted(pair, [system |-> system, history |-> history])
        /\ sent.policy = ConvertedPolicy(pair, sent.asked)

HistoryInv == HistoryType /\ SentRight

\* While the supplier has it, a request is one that is not refused, converted.
LEMMA SentIs ==
    ASSUME HistoryInv, phase = "supplier"
    PROVE  LET r == [system |-> system, history |-> history] IN
           /\ r \in Sendable(pair) /\ r.system = system /\ r.history = history
           /\ sent.request = Converted(pair, r)
<1>1. history \in Seq(Accepted(pair))
  BY AcceptedHistory DEF HistoryInv, HistoryType, SentRight
<1>2. system \in Seq(Texts)
  <2>1. Text(0) \in Texts
    BY DEF Text, Texts, Part, Kinds
  <2>2. <<>> \in Seq(Texts) /\ <<Text(0)>> \in Seq(Texts)
    BY <2>1
  <2>3. QED
    BY <2>2 DEF HistoryInv, HistoryType
<1>3. QED
  BY <1>1, <1>2 DEF Sendable, HistoryInv, HistoryType, SentRight

\* What the client has after an answer.
LEMMA AnswerSound ==
    ASSUME HistoryInv, Answer
    PROVE  history' \in Seq(Sound(pair[1]))
<1>1. pair \in Pairs /\ history \in Seq(Sound(pair[1])) /\ history \in Seq(Msg)
  BY SoundSeq DEF HistoryInv, HistoryType
<1>2. PICK parts \in Answers(pair[2]) :
         IF RefusedAnswer(pair, parts) THEN history' = history
         ELSE history' = history \o ConvertedAnswer(pair, parts)
  BY DEF Answer
<1>3. parts \in Seq(Speech) /\ NotWords \in {NotWords, NotCalls}
  BY <1>1, AnswersAre
<1>4. ConvertedAnswer(pair, parts) \in Seq(Uttered(pair[1]))
  BY <1>1, <1>3, AnswerHeard
<1>5. ConvertedAnswer(pair, parts) \in Seq(Sound(pair[1]))
  BY <1>4, UtteredSound
<1>6. QED
  BY <1>1, <1>2, <1>5, ConcatProperties

(* The invariant of a conversation with functions is inductive, for any     *)
(* number of parts, answers and odd parts: the client's history is sound    *)
(* for its protocol through answers of other suppliers and converted ones,  *)
(* and what is sent of it is its conversion (translator.Plan).              *)
LEMMA HistoryInvariance == HistorySpec => []HistoryInv
<1>1. ASSUME HistoryInit PROVE HistoryInv
  <2>1. pair \in Pairs /\ system \in {<<>>, <<Text(0)>>} /\ (pair[1] = "chat" => system = <<>>)
    BY <1>1 DEF HistoryInit
  <2>2. history = <<>> /\ phase = "client"
    BY <1>1 DEF HistoryInit
  <2>3. history \in Seq(Sound(pair[1]))
    BY <2>2, EmptySeq
  <2>4. QED
    BY <2>1, <2>2, <2>3 DEF HistoryInv, HistoryType, SentRight
<1>2. ASSUME HistoryInv, [HistoryNext]_historyVars PROVE HistoryInv'
  <2>1. /\ pair \in Pairs /\ history \in Seq(Sound(pair[1]))
        /\ system \in {<<>>, <<Text(0)>>} /\ (pair[1] = "chat" => system = <<>>)
    BY <1>2 DEF HistoryInv, HistoryType
  <2>2. CASE UserSays \/ Instructs \/ Returns \/ OtherAnswers
    <3>1. history' \in Seq(Sound(pair[1]))
      BY <2>1, <2>2, UserLonger, OthersLonger DEF Longer
    <3>2. pair' = pair /\ system' = system /\ phase' = "client"
      BY <2>2 DEF UserSays, Instructs, Returns, OtherAnswers, Adds
    <3>3. QED
      BY <2>1, <3>1, <3>2 DEF HistoryInv, HistoryType, SentRight
  <2>3. CASE Send
    <3>1. pair' = pair /\ system' = system /\ history' = history
      BY <2>3 DEF Send
    <3>2. PICK asked :
             IF RefusedHistory(pair, history) \/ RefusedPolicy(pair, asked)
             THEN phase' = "refused" /\ sent' = [asked |-> asked]
             ELSE /\ phase' = "supplier"
                  /\ sent' = [asked |-> asked, policy |-> ConvertedPolicy(pair, asked),
                              request |-> Converted(pair, [system |-> system, history |-> history])]
      BY <2>3 DEF Send
    <3>3. HistoryType'
      BY <2>1, <3>1, <3>2 DEF HistoryType
    <3>4. SentRight'
      BY <3>1, <3>2 DEF SentRight
    <3>5. QED
      BY <3>3, <3>4 DEF HistoryInv
  <2>4. CASE Answer
    <3>1. history' \in Seq(Sound(pair[1]))
      BY <1>2, <2>4, AnswerSound
    <3>2. pair' = pair /\ system' = system /\ phase' = "client"
      BY <2>4 DEF Answer
    <3>3. QED
      BY <2>1, <3>1, <3>2 DEF HistoryInv, HistoryType, SentRight
  <2>5. CASE UNCHANGED historyVars
    BY <1>2, <2>5 DEF historyVars, HistoryInv, HistoryType, SentRight
  <2>6. QED
    BY <1>2, <2>2, <2>3, <2>4, <2>5 DEF HistoryNext
<1>3. QED
  BY <1>1, <1>2, PTL DEF HistorySpec

-----------------------------------------------------------------------------
(* What is sent, and what is refused.                                       *)

\* Words and calls that are picked are of those there were.
LEMMA PickedFrom ==
    ASSUME NEW X, X \subseteq Speech, NEW ps \in Seq(X)
    PROVE  /\ Words(ps) \in Seq({p \in X : p.kind = "text"})
           /\ Calls(ps) \in Seq({p \in X : p.kind = "call"})
           /\ Thoughts(ps) \in Seq(X)
<1>1. Speech \subseteq Part /\ \A p \in X : p.kind \in {"text", "thought", "call"}
  BY DEF Speech
<1>2. ps \in Seq(Part)
  BY <1>1, SeqMonotonic
<1>3. ASSUME NEW ks, NEW Y, \A p \in X : p.kind \in ks => p \in Y
      PROVE  FlatMap(ps, Pick(ks)) \in Seq(Y)
  <2>1. ASSUME NEW p \in X PROVE Pick(ks)[p] \in Seq(Y)
    <3>1. CASE p.kind \in ks
      <4>1. Pick(ks)[p] = <<p>> /\ p \in Y
        BY <1>1, <1>3, <3>1, PickIs
      <4>2. QED
        BY <4>1
    <3>2. CASE p.kind \notin ks
      <4>1. Pick(ks)[p] = <<>>
        BY <1>1, <3>2, PickIs
      <4>2. QED
        BY <4>1, EmptySeq
    <3>3. QED
      BY <3>1, <3>2
  <2>2. QED
    BY <2>1, FlatMapOn
<1>4. FlatMap(ps, Pick({"text", "image"})) \in Seq({p \in X : p.kind = "text"})
  BY <1>1, <1>3
<1>5. FlatMap(ps, Pick({"call"})) \in Seq({p \in X : p.kind = "call"})
  BY <1>3
<1>6. FlatMap(ps, Pick({"thought"})) \in Seq(X)
  BY <1>3
<1>7. QED
  BY <1>2, <1>4, <1>5, <1>6, WordsAre, CallsAre, ThoughtsAre

\* Anthropic's answers have no arguments that are no JSON.
LEMMA AnswersWhole ==
    ASSUME NEW parts \in Answers("messages")
    PROVE  \A n \in DOMAIN parts : parts[n].kind = "call" => parts[n].args # "broken"
<1>1. PICK s \in SeqOf(Sort \ {"broken"}, MaxAnswer) :
         parts = [n \in DOMAIN s |-> Made(s[n], Number + n - 1)]
  BY DEF Answers
<1>2. PICK m \in 0..MaxAnswer : s \in [1..m -> Sort \ {"broken"}]
  BY HistoryAssumption DEF SeqOf
<1>3. ASSUME NEW sort \in Sort \ {"broken"}, NEW k, Made(sort, k).kind = "call"
      PROVE  Made(sort, k).args # "broken"
  <2>1. CASE sort = "text"
    BY <1>3, <2>1 DEF Made, Text
  <2>2. CASE sort = "thought"
    BY <1>3, <2>2 DEF Made, Thought
  <2>3. CASE sort = "blank"
    BY <2>3 DEF Made, Call
  <2>4. CASE sort \in {"json", "null", "missing"}
    BY <2>4 DEF Made, Call
  <2>5. QED
    BY <2>1, <2>2, <2>3, <2>4 DEF Sort
<1>4. QED
  BY <1>1, <1>2, <1>3

\* The parts a client of Chat or of Anthropic can send back, but for arguments
\* that no conversion of an answer looks at.
Answerable(pr) ==
    {p \in Speech :
        /\ p.kind = "call" => /\ p.id # Blank
                              /\ pr[1] = "chat" => p.args # "missing"
                              /\ pr[2] = "messages" => p.args # "broken"
        /\ pr[1] = "messages" => p.kind # "thought"}

\* The forms in which an assistant's parts are one message.
LEMMA FormIs ==
    ASSUME NEW protocol \in {"chat", "messages"}, NEW ps \in Seq(Speech)
    PROVE  /\ protocol = "messages" => Form(protocol, ps) = SaidBy("assistant", ps)
           /\ protocol = "chat" =>
                 Form(protocol, ps) = SaidBy("assistant", Thoughts(ps) \o Words(ps) \o Calls(ps))
<1>1. ASSUME protocol = "messages" PROVE Form(protocol, ps) = SaidBy("assistant", ps)
  BY <1>1, Zenon DEF Form
<1>2. ASSUME protocol = "chat"
      PROVE  Form(protocol, ps) = SaidBy("assistant", Thoughts(ps) \o Words(ps) \o Calls(ps))
  BY <1>2, Zenon DEF Form
<1>3. QED
  BY <1>1, <1>2

\* An answer that is not refused is a message of such parts.
LEMMA AnswerIsAnswerable ==
    ASSUME NEW pr \in Pairs, pr[1] # "responses", NEW parts \in Answers(pr[2]),
           parts \in Seq(Speech), ~RefusedAnswer(pr, parts)
    PROVE  \E zs \in Seq(Answerable(pr)) : ConvertedAnswer(pr, parts) = SaidBy("assistant", zs)
<1> DEFINE good == {p \in Speech :
                      p.kind = "call" => p.id # Blank /\ (pr[2] = "messages" => p.args # "broken")}
<1>1. pr \in {<<"chat", "responses">>, <<"chat", "messages">>, <<"messages", "chat">>}
  BY DEF Pairs
<1>2. \A n \in DOMAIN parts : parts[n] \in good
  <2> SUFFICES ASSUME NEW n \in DOMAIN parts, parts[n].kind = "call"
               PROVE  parts[n].id # Blank /\ (pr[2] = "messages" => parts[n].args # "broken")
    BY SpeechIs
  <2>1. parts[n].id # Blank
    <3>1. CASE pr = <<"chat", "responses">>
      BY <3>1 DEF RefusedAnswer
    <3>2. CASE pr = <<"chat", "messages">>
      BY <3>2 DEF RefusedAnswer
    <3>3. CASE pr = <<"messages", "chat">>
      BY <3>3 DEF RefusedAnswer, Malformed
    <3>4. QED
      BY <1>1, <3>1, <3>2, <3>3
  <2>2. pr[2] = "messages" => parts[n].args # "broken"
    BY AnswersWhole
  <2>3. QED
    BY <2>1, <2>2
<1>3. parts \in Seq(good) /\ good \subseteq Speech
  BY <1>2, LenProperties, IsASeq
<1>4. parts \in Seq(Part)
  BY SpeechIs
<1>5. Words(parts) \in Seq({p \in good : p.kind = "text"}) /\ Calls(parts) \in Seq({p \in good : p.kind = "call"})
  BY <1>3, PickedFrom
<1>6. CASE pr[1] = "messages"
  <2>1. {p \in good : p.kind = "text"} \subseteq Answerable(pr) /\ {p \in good : p.kind = "call"} \subseteq Answerable(pr)
    BY <1>1, <1>6 DEF Answerable
  <2> HIDE DEF good
  <2>2. Words(parts) \in Seq(Answerable(pr)) /\ Calls(parts) \in Seq(Answerable(pr))
    BY <1>5, <2>1, SeqMonotonic
  <2>3. Words(parts) \o Calls(parts) \in Seq(Answerable(pr))
    BY <2>2, ConcatProperties
  <2>4. ConvertedAnswer(pr, parts) = SaidBy("assistant", Words(parts) \o Calls(parts))
    <3> DEFINE qs == Words(parts) \o Calls(parts)
    <3>1. ConvertedAnswer(pr, parts) = Form("messages", qs)
      BY <1>6 DEF ConvertedAnswer, ToMessages
    <3>2. qs \in Seq(Speech)
      BY SpeechIs, ConcatProperties
    <3> HIDE DEF qs
    <3>3. Form("messages", qs) = SaidBy("assistant", qs)
      BY <3>2, FormIs
    <3>4. QED
      BY <3>1, <3>3 DEF qs
  <2>5. QED
    BY <2>3, <2>4
<1>7. CASE pr[1] = "chat"
  <2> DEFINE marshaled == FlatMap(parts, CallsBy(Marshals))
             qs == Words(parts) \o marshaled
  <2>1. Marshals \in PartMap /\ \A p \in Part : Marshals[p] = Marshaled(p)
    BY MapTypes, RewriteIs DEF Marshals
  <2>2. ASSUME NEW p \in good PROVE CallsBy(Marshals)[p] \in Seq(Answerable(pr))
    <3>1. p \in Part
      BY DEF Speech
    <3>2. CASE p.kind = "call"
      <4>1. CallsBy(Marshals)[p] = <<Marshaled(p)>>
        BY <2>1, <3>1, <3>2, CallsByIs
      <4>2. p \in [kind : {"call"}, id : Ids, args : {"json", "null", "broken", "missing"}]
        BY <3>1, <3>2 DEF Part, Kinds
      <4>3. /\ Marshaled(p).id = p.id /\ Marshaled(p).args # "missing"
            /\ Marshaled(p).args = p.args \/ Marshaled(p).args = "null"
        BY <3>2, <4>2 DEF Marshaled
      <4>4. Marshaled(p) \in Speech /\ Marshaled(p).kind = "call"
        BY <3>1, <3>2, MarshaledType DEF Speech
      <4>5. Marshaled(p) \in Answerable(pr)
        BY <1>7, <3>2, <4>3, <4>4 DEF Answerable
      <4>6. QED
        BY <4>1, <4>5
    <3>3. CASE p.kind # "call"
      <4>1. CallsBy(Marshals)[p] = <<>>
        BY <2>1, <3>1, <3>3, CallsByIs
      <4>2. QED
        BY <4>1, EmptySeq
    <3>4. QED
      BY <3>2, <3>3
  <2>3. {p \in good : p.kind = "text"} \subseteq Answerable(pr) /\ Answerable(pr) \subseteq Speech
    BY <1>7 DEF Answerable
  <2> HIDE DEF good
  <2>4. marshaled \in Seq(Answerable(pr))
    BY <1>3, <2>2, FlatMapOn
  <2>5. Words(parts) \in Seq(Answerable(pr))
    BY <1>5, <2>3, SeqMonotonic
  <2>6. qs \in Seq(Answerable(pr))
    BY <2>4, <2>5, ConcatProperties
  <2>7. ConvertedAnswer(pr, parts) = Form("chat", qs)
    <3> USE DEF marshaled
    <3>1. Each(Calls(parts), LAMBDA p : <<Marshaled(p)>>) = marshaled
      BY <1>4, CallsMarshaled, Zenon
    <3>2. ConvertedAnswer(pr, parts) = ToChat(parts)
      BY <1>7 DEF ConvertedAnswer
    <3>3. QED
      BY <3>1, <3>2, Zenon DEF ToChat
  <2> HIDE DEF qs
  <2>8. Words(qs) \in Seq({p \in Answerable(pr) : p.kind = "text"})
        /\ Calls(qs) \in Seq({p \in Answerable(pr) : p.kind = "call"}) /\ Thoughts(qs) \in Seq(Answerable(pr))
    BY <2>3, <2>6, PickedFrom
  <2>9. Words(qs) \in Seq(Answerable(pr)) /\ Calls(qs) \in Seq(Answerable(pr))
    <3>1. \A kind : {p \in Answerable(pr) : p.kind = kind} \subseteq Answerable(pr)
      OBVIOUS
    <3>2. QED
      BY <2>8, <3>1, SeqMonotonic
  <2>10. Thoughts(qs) \o Words(qs) \o Calls(qs) \in Seq(Answerable(pr))
    BY <2>8, <2>9, ConcatProperties
  <2>11. Form("chat", qs) = SaidBy("assistant", Thoughts(qs) \o Words(qs) \o Calls(qs))
    <3>1. qs \in Seq(Speech)
      BY <2>3, <2>6, SeqMonotonic
    <3>2. QED
      BY <3>1, FormIs
  <2>12. QED
    BY <2>7, <2>10, <2>11
<1>8. QED
  BY <1>1, <1>6, <1>7

\* Of what such an answer adds, only what is not looked at can be refused.
LEMMA AnswerSendable ==
    ASSUME pair \in Pairs, NEW parts \in Answers(pair[2]), parts \in Seq(Speech),
           ~RefusedAnswer(pair, parts),
           NEW n \in DOMAIN ConvertedAnswer(pair, parts),
           NEW k \in DOMAIN ConvertedAnswer(pair, parts)[n].parts,
           RefusedPart(pair, ConvertedAnswer(pair, parts)[n], ConvertedAnswer(pair, parts)[n].parts[k])
    PROVE  Unchecked(ConvertedAnswer(pair, parts)[n].parts[k])
<1> DEFINE m == ConvertedAnswer(pair, parts)[n]
           p == m.parts[k]
<1>1. pair \in {<<"responses", "chat">>, <<"chat", "responses">>, <<"chat", "messages">>, <<"messages", "chat">>}
  BY DEF Pairs
<1>2. p \in Speech
  <2>1. ConvertedAnswer(pair, parts) \in Seq(Uttered(pair[1]))
    <3>1. NotWords \in {NotWords, NotCalls}
      OBVIOUS
    <3>2. QED
      BY <3>1, AnswerHeard
  <2>2. m \in Uttered(pair[1])
    BY <2>1, MembersIn
  <2>3. m.parts \in Seq(Speech)
    BY <2>2 DEF Uttered
  <2>4. QED
    BY <2>3, MembersIn
<1>3. RefusedPart(pair, m, p)
  OBVIOUS
<1>4. CASE pair[1] = "responses"
  <2> HIDE DEF m, p
  <2>1. p.kind = "call"
    BY <1>2, <1>3, <1>4 DEF RefusedPart, Malformed, Speech
  <2>2. pair = <<"responses", "chat">>
    BY <1>1, <1>4
  <2>3. QED
    BY <2>1, <2>2 DEF Unchecked, p, m
<1>5. CASE pair[1] # "responses"
  <2>1. PICK zs \in Seq(Answerable(pair)) : ConvertedAnswer(pair, parts) = SaidBy("assistant", zs)
    BY <1>5, AnswerIsAnswerable
  <2>2. m = Message("assistant", zs)
    <3>1. zs # <<>>
      BY <2>1 DEF SaidBy
    <3>2. ConvertedAnswer(pair, parts) = <<Message("assistant", zs)>>
      BY <2>1, <3>1 DEF SaidBy
    <3>3. QED
      BY <3>2
  <2>3. m.role = "assistant" /\ m.parts = zs
    BY <2>2 DEF Message
  <2>4. p \in Answerable(pair)
    BY <2>1, <2>3, MembersIn
  <2> HIDE DEF m, p
  <2>5. p.kind \in {"text", "thought", "call"}
    BY <1>2 DEF Speech
  <2>6. p.kind = "call" /\ pair = <<"chat", "responses">> /\ p.args = "broken"
    <3>1. p \in Part /\ (p.kind = "call" => p.args \in {"json", "null", "broken", "missing"})
      BY <1>2 DEF Speech, Part, Kinds
    <3>2. CASE pair[1] = "chat"
      <4>1. Malformed(p)
        BY <1>3, <3>2 DEF RefusedPart
      <4>2. p.kind = "call" /\ p.id # Blank /\ p.args # "missing" /\ (pair[2] = "messages" => p.args # "broken")
        BY <2>4, <2>5, <3>2, <4>1 DEF Malformed, Answerable
      <4>3. QED
        BY <1>1, <3>2, <4>1, <4>2 DEF Malformed
    <3>3. CASE pair[1] = "messages"
      <4>1. \/ p.kind \in {"image", "thought"}
            \/ p.kind = "call" /\ (m.role # "assistant" \/ p.id = Blank)
            \/ p.kind = "result" /\ (m.role # "user" \/ p.id = Blank)
        BY <1>3, <3>3 DEF RefusedPart
      <4>2. p.kind # "thought" /\ (p.kind = "call" => p.id # Blank)
        BY <2>4, <3>3 DEF Answerable
      <4>3. QED
        BY <2>3, <2>5, <4>1, <4>2
    <3>4. QED
      BY <1>1, <1>5, <3>2, <3>3
  <2>7. QED
    BY <2>6 DEF Unchecked, p, m
<1>6. QED
  BY <1>4, <1>5

(* Whatever a supplier answers, a history of any length that was sent to it *)
(* and has the converted answer is not one the next request is refused for, *)
(* but for the calls two of the four conversions do not check: the checks   *)
(* of an answer and of a request agree on calls (AnthropicToOpenAIResponse- *)
(* WithError, OpenAIToAnthropicResponse and TransformRequest).              *)
THEOREM AnswersCanBeSent == HistorySpec => AnswersSendable
<1>1. HistoryInv /\ [HistoryNext]_historyVars =>
        [phase = "supplier" =>
            \A n \in DOMAIN history' : \A k \in DOMAIN history'[n].parts :
                RefusedPart(pair, history'[n], history'[n].parts[k])
                    => Unchecked(history'[n].parts[k])]_historyVars
  <2> SUFFICES ASSUME HistoryInv, HistoryNext, phase = "supplier",
                      NEW n \in DOMAIN history', NEW k \in DOMAIN history'[n].parts,
                      RefusedPart(pair, history'[n], history'[n].parts[k])
               PROVE  Unchecked(history'[n].parts[k])
    OBVIOUS
  <2>1. Answer
    BY DEF HistoryNext, UserSays, Instructs, Returns, OtherAnswers, Adds, Send
  <2>2. pair \in Pairs /\ history \in Seq(Msg) /\ ~RefusedHistory(pair, history)
    BY SoundSeq DEF HistoryInv, HistoryType, SentRight
  <2>3. PICK parts \in Answers(pair[2]) :
           IF RefusedAnswer(pair, parts) THEN history' = history
           ELSE history' = history \o ConvertedAnswer(pair, parts)
    BY <2>1 DEF Answer
  <2>4. parts \in Seq(Speech)
    BY <2>2, AnswersAre
  <2> DEFINE a == ConvertedAnswer(pair, parts)
  <2>5. \A i \in DOMAIN history : \A j \in DOMAIN history[i].parts :
           ~RefusedPart(pair, history[i], history[i].parts[j])
    BY <2>2 DEF RefusedHistory
  <2>6. history' = history \o a /\ ~RefusedAnswer(pair, parts)
    BY <2>3, <2>5
  <2>7. a \in Seq(Msg)
    <3>1. NotWords \in {NotWords, NotCalls}
      OBVIOUS
    <3>2. QED
      BY <2>2, <2>4, <3>1, AnswerHeard
  <2> HIDE DEF a
  <2>8. \/ n \in DOMAIN history /\ history'[n] = history[n]
        \/ \E i \in DOMAIN a : history'[n] = a[i]
    <3>1. /\ Len(history) \in Nat /\ DOMAIN history = 1..Len(history)
          /\ Len(a) \in Nat /\ DOMAIN a = 1..Len(a) /\ DOMAIN history' = 1..(Len(history) + Len(a))
          /\ \A i \in 1..(Len(history) + Len(a)) :
                history'[i] = IF i <= Len(history) THEN history[i] ELSE a[i - Len(history)]
      BY <2>2, <2>6, <2>7, LenProperties, ConcatProperties
    <3>2. CASE n <= Len(history)
      BY <3>1, <3>2
    <3>3. CASE ~(n <= Len(history))
      <4>1. n - Len(history) \in DOMAIN a /\ history'[n] = a[n - Len(history)]
        BY <3>1, <3>3
      <4>2. QED
        BY <4>1
    <3>4. QED
      BY <3>2, <3>3
  <2>9. PICK i \in DOMAIN a : history'[n] = a[i]
    BY <2>5, <2>8
  <2>10. QED
    BY <2>2, <2>4, <2>6, <2>9, AnswerSendable DEF a
<1>2. QED
  BY <1>1, HistoryInvariance, PTL DEF HistorySpec, AnswersSendable

\* What a converted policy has of the policy.
LEMMA PolicyKept ==
    ASSUME NEW pr, NEW asked, ~RefusedPolicy(pr, asked)
    PROVE  LET policy == ConvertedPolicy(pr, asked) IN
           /\ policy.parallel = asked.parallel
           /\ policy.tools = asked.tools \/ asked.tools = "builtin"
           /\ \/ policy.choice = asked.choice
              \/ {policy.choice, asked.choice} = {"absent", "auto"}
              \/ policy.choice = "one" /\ asked.choice = "named"
              \/ asked.tools = "none"
  BY DEF ConvertedPolicy

(* Each of the four conversions sends each word, image, call and result of  *)
(* a history of any length once and in order, the instructions in theirs,   *)
(* and the same choice of tools (TransformRequest).                         *)
THEOREM NothingIsLost == HistorySpec => []NothingLost
<1> SUFFICES HistoryInv => NothingLost
  BY HistoryInvariance, PTL
<1> SUFFICES ASSUME HistoryInv, phase = "supplier" PROVE NothingLost
  BY DEF NothingLost
<1> DEFINE r == [system |-> system, history |-> history]
           c == Converted(pair, r)
           w == Rewritten(history)
<1>1. r \in Sendable(pair) /\ r.system = system /\ r.history = history /\ sent.request = c
  BY SentIs
<1>2. pair \in Pairs /\ history \in Seq(Msg) /\ SameEntry \in EntryMap
  BY SoundSeq, MapTypes DEF HistoryInv, HistoryType
<1> HIDE DEF r, c, w
<1>3. \A K : HearsAlike(pair, K, SameEntry, w, history)
  BY <1>2, RewrittenHeard DEF w
<1>4. w \in Seq(Msg) /\ \A K : Hear(Listening(K, Same, SameEntry), w)
                              = Hear(Listening(K, Rewrite(pair), SameEntry), history)
  BY <1>3 DEF HearsAlike
<1>5. \A K \in {NotWords, NotCalls} : HearsAlike(pair, K, SameEntry, c.history, history)
  BY <1>1, <1>2, ConvertedHeard DEF c
<1>6. c.history \in Seq(Msg)
      /\ Hear(Listening(NotWords, Same, SameEntry), c.history) = Hear(Listening(NotWords, Same, SameEntry), w)
      /\ Hear(Listening(NotCalls, Same, SameEntry), c.history) = Hear(Listening(NotCalls, Same, SameEntry), w)
  BY <1>4, <1>5 DEF HearsAlike
<1>7. ButWords(Told(c.history)) = ButWords(Told(w)) /\ ButCalls(Told(c.history)) = ButCalls(Told(w))
  BY <1>4, <1>6, FilteredHeard
<1>8. Told(SaidBy("system", system)) \o System(Told(w))
      = Told(SaidBy("system", c.system)) \o System(Told(c.history))
  <2>1. SaidBy("system", r.system) \in Seq(Msg)
    BY <1>1, SystemHeard
  <2>2. Hear(Witness, SaidBy("system", r.system))
           \o Hear(Listening(Instructions, Rewrite(pair), SameEntry), r.history)
        = Hear(Witness, SaidBy("system", c.system))
           \o Hear(Listening(Instructions, Same, SameEntry), c.history)
        /\ SaidBy("system", c.system) \in Seq(Msg)
    BY <1>1, <1>2, ConvertedInstructions DEF c
  <2>3. /\ Told(SaidBy("system", r.system)) = Hear(Witness, SaidBy("system", r.system))
        /\ Told(SaidBy("system", c.system)) = Hear(Witness, SaidBy("system", c.system))
    BY <2>1, <2>2, ToldIs
  <2>4. /\ System(Told(w)) = Hear(Listening(Instructions, Rewrite(pair), SameEntry), history)
        /\ System(Told(c.history)) = Hear(Listening(Instructions, Same, SameEntry), c.history)
    BY <1>4, <1>6, FilteredHeard
  <2>5. QED
    BY <1>1, <2>2, <2>3, <2>4
<1>9. LET policy == sent.policy
          asked  == sent.asked
      IN  /\ policy.parallel = asked.parallel
          /\ policy.tools = asked.tools \/ asked.tools = "builtin"
          /\ \/ policy.choice = asked.choice
             \/ {policy.choice, asked.choice} = {"absent", "auto"}
             \/ policy.choice = "one" /\ asked.choice = "named"
             \/ asked.tools = "none"
  <2>1. sent.policy = ConvertedPolicy(pair, sent.asked) /\ ~RefusedPolicy(pair, sent.asked)
    BY DEF HistoryInv, SentRight
  <2>2. QED
    BY <2>1, PolicyKept
<1>10. QED
  BY <1>1, <1>7, <1>8, <1>9 DEF NothingLost, w

-----------------------------------------------------------------------------
(* What the supplier hears.                                                 *)

\* A sequence is a prefix of what it is continued to.
LEMMA PrefixOfConcat ==
    ASSUME NEW X, NEW s \in Seq(X), NEW u \in Seq(X)
    PROVE  IsPrefix(s, s \o u)
<1>1. Len(s) \in Nat /\ Len(u) \in Nat /\ Len(s \o u) = Len(s) + Len(u)
  BY ConcatProperties, LenProperties
<1>2. SubSeq(s \o u, 1, Len(s)) = SubSeq(s, 1, Len(s))
  BY <1>1
<1>3. QED
  BY <1>1, <1>2 DEF IsPrefix

\* What is plain and filtered is what a listener hears for whom it is plain.
LEMMA PlainFiltered ==
    ASSUME NEW told \in Seq(Entry), NEW K \in {NotWords, NotCalls}
    PROVE  FlatMap(FlatMap(told, Keeping(Entry, PlainEntry)), Keeping(K, SameEntry))
           = FlatMap(told, Keeping(K, PlainEntry))
<1>1. PlainEntry \in EntryMap /\ SameEntry \in EntryMap
  BY MapTypes
<1>2. Keeping(Entry, PlainEntry) \in Gives(Entry, Entry) /\ Keeping(K, SameEntry) \in Gives(Entry, Entry)
  BY <1>1, KeepingIs
<1>3. ASSUME NEW t \in Entry
      PROVE  FlatMap(Keeping(Entry, PlainEntry)[t], Keeping(K, SameEntry)) = Keeping(K, PlainEntry)[t]
  <2> DEFINE e == PlainEntry[t]
  <2>1. e \in Entry /\ e.by = t.by /\ e.part = Marshaled(t.part) /\ t.part \in Part
    <3>1. e = [t EXCEPT !.part = Marshaled(t.part)]
      BY DEF PlainEntry
    <3>2. t.part \in Part /\ Marshaled(t.part) \in Part
      BY MarshaledType DEF Entry
    <3>3. QED
      BY <3>1, <3>2 DEF Entry
  <2>2. e.part.kind = t.part.kind /\ (t.part.kind # "call" => e.part = t.part)
    BY <2>1, MarshaledType
  <2>3. SameEntry[e] = e
    BY <2>1 DEF SameEntry
  <2> HIDE DEF e
  <2>4. e \in K <=> t \in K
    <3>1. CASE K = NotWords
      BY <2>1, <3>1 DEF NotWords
    <3>2. CASE K = NotCalls
      BY <2>1, <2>2, <3>2 DEF NotCalls
    <3>3. QED
      BY <3>1, <3>2
  <2>5. Keeping(Entry, PlainEntry)[t] = <<e>>
    BY <1>1, KeepingIs DEF e
  <2>6. FlatMap(<<e>>, Keeping(K, SameEntry)) = Keeping(K, SameEntry)[e]
    BY <1>2, <2>1, FlatMapOne
  <2>7. CASE t \in K
    <3>1. Keeping(K, SameEntry)[e] = <<SameEntry[e]>> /\ Keeping(K, PlainEntry)[t] = <<e>>
      BY <1>1, <2>1, <2>4, <2>7, KeepingIs DEF e
    <3>2. QED
      BY <2>3, <2>5, <2>6, <3>1
  <2>8. CASE t \notin K
    <3>1. Keeping(K, SameEntry)[e] = <<>> /\ Keeping(K, PlainEntry)[t] = <<>>
      BY <1>1, <2>1, <2>4, <2>8, KeepingIs
    <3>2. QED
      BY <2>5, <2>6, <3>1
  <2>9. QED
    BY <2>7, <2>8
<1>4. \A n \in DOMAIN told : told[n] \in Entry
  BY MembersIn
<1>5. \A n \in DOMAIN told : FlatMap(Keeping(Entry, PlainEntry)[told[n]], Keeping(K, SameEntry))
                             = Keeping(K, PlainEntry)[told[n]]
  BY <1>3, <1>4
<1>6. QED
  BY <1>2, <1>5, FlatMapVia

\* HearsItself makes entries plain before it filters them.
Plainly(told) == Each(told, LAMBDA t : <<[t EXCEPT !.part = Marshaled(@)]>>)

\* What HearsItself compares is what listeners hear.
LEMMA PlainlyHeard ==
    ASSUME NEW d \in Seq(Msg)
    PROVE  /\ ButWords(Plainly(Told(d))) = Hear(Listening(NotWords, Same, PlainEntry), d)
           /\ ButCalls(Plainly(Told(d))) = Hear(Listening(NotCalls, Same, PlainEntry), d)
<1> DEFINE told == Hear(Witness, d)
           c == Keeping(Entry, PlainEntry)
<1>1. told \in Seq(Entry) /\ Told(d) = told
  BY WitnessIs, HearMessage, ToldIs
<1>2. PlainEntry \in EntryMap
  BY MapTypes
<1>3. c \in Gives(Entry, Entry) /\ \A t \in Entry : c[t] = <<PlainEntry[t]>>
  BY <1>2, KeepingIs
<1>4. \A t \in Entry : c[t] = <<[t EXCEPT !.part = Marshaled(@)]>>
  BY <1>3 DEF PlainEntry
<1> HIDE DEF told, c
<1>5. Plainly(told) = FlatMap(told, c)
  <2>1. \A n \in DOMAIN told : told[n] \in Entry
    BY <1>1, MembersIn
  <2>2. [n \in DOMAIN told |-> <<[told[n] EXCEPT !.part = Marshaled(@)]>>] = [n \in DOMAIN told |-> c[told[n]]]
    BY <1>4, <2>1
  <2>3. QED
    BY <2>2, Zenon DEF Plainly, Each, FlatMap
<1>6. FlatMap(told, c) \in Seq(Entry)
  BY <1>1, <1>3, FlatMapType
<1>7. /\ ButWords(FlatMap(told, c)) = FlatMap(FlatMap(told, c), Keeping(NotWords, SameEntry))
      /\ ButCalls(FlatMap(told, c)) = FlatMap(FlatMap(told, c), Keeping(NotCalls, SameEntry))
  BY <1>6, FiltersAre
<1>8. ASSUME NEW K \in {NotWords, NotCalls}
      PROVE  FlatMap(FlatMap(told, c), Keeping(K, SameEntry)) = Hear(Listening(K, Same, PlainEntry), d)
  <2>1. FlatMap(FlatMap(told, c), Keeping(K, SameEntry)) = FlatMap(told, Keeping(K, PlainEntry))
    BY <1>1, PlainFiltered DEF c
  <2>2. FlatMap(Hear(Witness, d), Keeping(K, PlainEntry)) = Hear(Listening(K, Same, PlainEntry), d)
    BY <1>2, KeptHeard
  <2>3. QED
    BY <2>1, <2>2 DEF told
<1>9. QED
  BY <1>1, <1>5, <1>7, <1>8

-----------------------------------------------------------------------------
(* What the supplier knows is the beginning of what the client has.         *)

Follows(K, h, d) ==
    \E u \in Seq(Entry) :
        Hear(Listening(K, Rewrite(pair), PlainEntry), h) = Hear(Listening(K, Same, PlainEntry), d) \o u

KnownHeard ==
    \E d \in Seq(Msg) : known = Told(d) /\ Follows(NotWords, history, d) /\ Follows(NotCalls, history, d)

\* The listeners of the invariant.
LEMMA PlainListeners ==
    ASSUME NEW K
    PROVE  Listening(K, Rewrite(pair), PlainEntry) \in Listener /\ Listening(K, Same, PlainEntry) \in Listener
  BY MapTypes, ListeningIs

\* What is added to the history comes after what the supplier knows.
LEMMA LongerFollows ==
    ASSUME NEW K, NEW d \in Seq(Msg), NEW h, NEW e, Longer(h, e), Follows(K, h, d)
    PROVE  Follows(K, e, d)
<1> DEFINE G == Listening(K, Rewrite(pair), PlainEntry)
           H == Listening(K, Same, PlainEntry)
<1>1. G \in Listener /\ H \in Listener
  BY PlainListeners
<1>2. PICK u \in Seq(Entry) : Hear(G, h) = Hear(H, d) \o u
  BY DEF Follows
<1> HIDE DEF G, H
<1>3. PICK v \in Seq(Entry) : Hear(G, e) = Hear(G, h) \o v
  BY <1>1, Zenon DEF Longer
<1>4. Hear(H, d) \in Seq(Entry)
  BY <1>1, HearMessage
<1>5. u \o v \in Seq(Entry) /\ (Hear(H, d) \o u) \o v = Hear(H, d) \o (u \o v)
  BY <1>4, Splice
<1>6. Hear(G, e) = Hear(H, d) \o (u \o v)
  BY <1>2, <1>3, <1>5
<1>7. QED
  BY <1>5, <1>6, Zenon DEF Follows, G, H

\* What was sent is what the history is converted to.
LEMMA SentHeard ==
    ASSUME HistoryInv, phase = "supplier", NEW K \in {NotWords, NotCalls}
    PROVE  /\ sent.request.history \in Seq(Msg)
           /\ Hear(Listening(K, Same, PlainEntry), sent.request.history)
              = Hear(Listening(K, Rewrite(pair), PlainEntry), history)
<1> DEFINE r == [system |-> system, history |-> history]
<1>1. r \in Sendable(pair) /\ r.history = history /\ sent.request = Converted(pair, r)
  BY SentIs
<1>2. pair \in Pairs /\ PlainEntry \in EntryMap
  BY MapTypes DEF HistoryInv, HistoryType
<1> HIDE DEF r
<1>3. HearsAlike(pair, K, PlainEntry, Converted(pair, r).history, r.history)
  BY <1>1, <1>2, ConvertedHeard
<1>4. QED
  BY <1>1, <1>3 DEF HearsAlike

\* After an answer the history is what the supplier knows.
LEMMA AnswerFollows ==
    ASSUME HistoryInv, Answer
    PROVE  \E d \in Seq(Msg) :
              known' = Told(d) /\ Follows(NotWords, history', d) /\ Follows(NotCalls, history', d)
<1>1. pair \in Pairs /\ phase = "supplier" /\ history \in Seq(Msg)
  BY SoundSeq DEF HistoryInv, HistoryType, Answer
<1>2. PICK parts \in Answers(pair[2]) :
         IF RefusedAnswer(pair, parts)
         THEN history' = history /\ known' = Told(sent.request.history)
         ELSE /\ history' = history \o ConvertedAnswer(pair, parts)
              /\ known' = Told(sent.request.history \o Form(pair[2], parts))
  BY DEF Answer
<1>3. parts \in Seq(Speech)
  BY <1>1, AnswersAre
<1> DEFINE c == sent.request.history
           a == ConvertedAnswer(pair, parts)
           f == Form(pair[2], parts)
           G(K) == Listening(K, Rewrite(pair), PlainEntry)
           H(K) == Listening(K, Same, PlainEntry)
<1>4. c \in Seq(Msg) /\ \A K \in {NotWords, NotCalls} : Hear(H(K), c) = Hear(G(K), history)
  BY <1>1, SentHeard
<1>5. \A K \in {NotWords, NotCalls} :
         a \in Seq(Msg) /\ f \in Seq(Msg) /\ Hear(G(K), a) = Hear(H(K), f)
  BY <1>1, <1>3, AnswerHeard
<1>6. \A K : G(K) \in Listener /\ H(K) \in Listener
  BY PlainListeners
<1>7. <<>> \in Seq(Entry)
  BY EmptySeq
<1>8. CASE RefusedAnswer(pair, parts)
  <2>1. history' = history /\ known' = Told(c)
    BY <1>2, <1>8
  <2>2. ASSUME NEW K \in {NotWords, NotCalls} PROVE Follows(K, history, c)
    <3> HIDE DEF c, G, H
    <3>1. Hear(H(K), c) \in Seq(Entry)
      BY <1>4, <1>6, HearMessage
    <3>2. Hear(G(K), history) = Hear(H(K), c) \o <<>>
      BY <1>4, <3>1, Splice
    <3>3. QED
      BY <1>7, <3>2, Zenon DEF Follows, G, H
  <2>3. QED
    BY <1>4, <2>1, <2>2
<1>9. CASE ~RefusedAnswer(pair, parts)
  <2>1. history' = history \o a /\ known' = Told(c \o f)
    BY <1>2, <1>9
  <2> HIDE DEF a, f, c
  <2>2. c \o f \in Seq(Msg)
    BY <1>4, <1>5, ConcatProperties
  <2>3. ASSUME NEW K \in {NotWords, NotCalls} PROVE Follows(K, history \o a, c \o f)
    <3> HIDE DEF G, H
    <3>1. Hear(G(K), history \o a) = Hear(G(K), history) \o Hear(G(K), a)
      BY <1>1, <1>5, <1>6, HearMessage
    <3>2. Hear(H(K), c \o f) = Hear(H(K), c) \o Hear(H(K), f)
      BY <1>4, <1>5, <1>6, HearMessage
    <3>3. Hear(G(K), history \o a) = Hear(H(K), c \o f)
      BY <1>4, <1>5, <3>1, <3>2
    <3>4. Hear(H(K), c \o f) \in Seq(Entry)
      BY <1>6, <2>2, HearMessage
    <3>5. Hear(G(K), history \o a) = Hear(H(K), c \o f) \o <<>>
      BY <3>3, <3>4, Splice
    <3>6. QED
      BY <1>7, <3>5, Zenon DEF Follows, G, H
  <2>4. Follows(NotWords, history \o a, c \o f) /\ Follows(NotCalls, history \o a, c \o f)
    BY <2>3
  <2>5. QED
    BY <2>1, <2>2, <2>4, Zenon
<1>10. QED
  BY <1>8, <1>9

\* The supplier knows a beginning of the history, whatever is added to it.
LEMMA KnownHeardHolds == HistorySpec => []KnownHeard
<1>1. ASSUME HistoryInit PROVE KnownHeard
  <2>1. history = <<>> /\ known = <<>> /\ <<>> \in Seq(Msg) /\ <<>> \in Seq(Entry)
    BY <1>1, EmptySeq DEF HistoryInit
  <2>2. Told(<<>>) = <<>>
    BY <2>1, ToldIs, WitnessIs, HearMessage
  <2>3. ASSUME NEW K PROVE Follows(K, <<>>, <<>>)
    <3> DEFINE G == Listening(K, Rewrite(pair), PlainEntry)
               H == Listening(K, Same, PlainEntry)
    <3>1. G \in Listener /\ H \in Listener
      BY PlainListeners
    <3> HIDE DEF G, H
    <3>2. Hear(G, <<>>) = <<>> /\ Hear(H, <<>>) = <<>>
      BY <3>1, HearMessage
    <3>3. Hear(G, <<>>) = Hear(H, <<>>) \o <<>>
      BY <2>1, <3>2, Splice
    <3>4. QED
      BY <2>1, <3>3, Zenon DEF Follows, G, H
  <2>4. QED
    BY <2>1, <2>2, <2>3 DEF KnownHeard
<1>2. ASSUME HistoryInv, KnownHeard, [HistoryNext]_historyVars PROVE KnownHeard'
  <2>1. PICK d \in Seq(Msg) : known = Told(d) /\ Follows(NotWords, history, d) /\ Follows(NotCalls, history, d)
    BY <1>2 DEF KnownHeard
  <2>2. pair \in Pairs /\ history \in Seq(Sound(pair[1]))
    BY <1>2 DEF HistoryInv, HistoryType
  <2>3. CASE UserSays \/ Instructs \/ Returns \/ OtherAnswers
    <3>1. Longer(history, history')
      BY <2>2, <2>3, UserLonger, OthersLonger
    <3>2. Follows(NotWords, history', d) /\ Follows(NotCalls, history', d)
      BY <2>1, <3>1, LongerFollows
    <3>3. known' = known /\ pair' = pair
      BY <2>3 DEF UserSays, Instructs, Returns, OtherAnswers, Adds
    <3>4. QED
      BY <2>1, <3>2, <3>3 DEF KnownHeard, Follows
  <2>4. CASE Send
    BY <2>1, <2>4 DEF Send, KnownHeard, Follows
  <2>5. CASE Answer
    <3>1. PICK e \in Seq(Msg) :
             known' = Told(e) /\ Follows(NotWords, history', e) /\ Follows(NotCalls, history', e)
      BY <1>2, <2>5, AnswerFollows
    <3>2. pair' = pair
      BY <2>5 DEF Answer
    <3>3. QED
      BY <3>1, <3>2 DEF KnownHeard, Follows
  <2>6. CASE UNCHANGED historyVars
    BY <2>1, <2>6 DEF historyVars, KnownHeard, Follows
  <2>7. QED
    BY <1>2, <2>3, <2>4, <2>5, <2>6 DEF HistoryNext
<1>3. QED
  BY <1>1, <1>2, HistoryInvariance, PTL DEF HistorySpec

(* Through the conversion of its answer, the client's history and the       *)
(* conversion of the next request a supplier is sent what it was sent and   *)
(* said before, and then what is new, for conversations of any length       *)
(* (TransformResponse and TransformRequest together).                       *)
THEOREM SupplierHearsItself == HistorySpec => []HearsItself
<1> SUFFICES HistoryInv /\ KnownHeard => HearsItself
  BY HistoryInvariance, KnownHeardHolds, PTL
<1> SUFFICES ASSUME HistoryInv, KnownHeard, phase = "supplier" PROVE HearsItself
  BY DEF HearsItself
<1> DEFINE c == sent.request.history
           G(K) == Listening(K, Rewrite(pair), PlainEntry)
           H(K) == Listening(K, Same, PlainEntry)
<1>1. PICK d \in Seq(Msg) : known = Told(d) /\ Follows(NotWords, history, d) /\ Follows(NotCalls, history, d)
  BY DEF KnownHeard
<1>2. c \in Seq(Msg) /\ \A K \in {NotWords, NotCalls} : Hear(H(K), c) = Hear(G(K), history)
  BY SentHeard
<1>3. ASSUME NEW K \in {NotWords, NotCalls}, Follows(K, history, d)
      PROVE  IsPrefix(Hear(H(K), d), Hear(H(K), c))
  <2>1. PICK u \in Seq(Entry) : Hear(G(K), history) = Hear(H(K), d) \o u
    BY <1>3, Zenon DEF Follows
  <2>2. Hear(H(K), d) \in Seq(Entry)
    BY PlainListeners, HearMessage
  <2>3. Hear(H(K), c) = Hear(H(K), d) \o u
    BY <1>2, <2>1
  <2>4. QED
    BY <2>2, <2>3, PrefixOfConcat
<1>4. IsPrefix(Hear(H(NotWords), d), Hear(H(NotWords), c)) /\ IsPrefix(Hear(H(NotCalls), d), Hear(H(NotCalls), c))
  BY <1>1, <1>3
<1>5. /\ ButWords(Plainly(Told(d))) = Hear(H(NotWords), d) /\ ButCalls(Plainly(Told(d))) = Hear(H(NotCalls), d)
      /\ ButWords(Plainly(Told(c))) = Hear(H(NotWords), c) /\ ButCalls(Plainly(Told(c))) = Hear(H(NotCalls), c)
  BY <1>2, PlainlyHeard
<1>6. /\ IsPrefix(ButWords(Plainly(known)), ButWords(Plainly(Told(c))))
      /\ IsPrefix(ButCalls(Plainly(known)), ButCalls(Plainly(Told(c))))
  BY <1>1, <1>4, <1>5
<1>7. QED
  BY <1>6, Zenon DEF HearsItself, Plainly
=============================================================================
