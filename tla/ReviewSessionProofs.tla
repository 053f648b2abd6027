------------------------ MODULE ReviewSessionProofs ------------------------
(***************************************************************************)
(* Proofs about review sessions, for every deck, schedule and bound.       *)
(***************************************************************************)
EXTENDS ReviewSession, FiniteSetTheorems, SequenceTheorems, TLAPS

-----------------------------------------------------------------------------
(* The queue a session starts with.                                        *)

\* Decks are finite, so the numbers of due and of new cards are numbers.
LEMMA CardCounts ==
  ASSUME NEW S, S \subseteq Cards
  PROVE  Cardinality(S) \in Nat
<1>1. IsFiniteSet(Cards)
  BY FS_Interval, SrsAssumption DEF Cards
<1>2. QED
  BY <1>1, FS_Subset, FS_CardinalityType

\* buildReviewQueue: the queue names cards, each once, and every due one.
LEMMA ReviewQueueLists ==
  ASSUME NEW q \in ReviewQueues, srs \in [Cards -> Entry]
  PROVE  /\ q \in Seq(Cards)
         /\ \A i, j \in DOMAIN q : q[i] = q[j] => i = j
         /\ \A c \in DueCards(srs, now) : \E i \in DOMAIN q : q[i] = c
<1> DEFINE D == DueCards(srs, now)
           F == NewCards(srs)
           m == Cardinality(D)
           n == Least(NewPer, Cardinality(F))
<1>1. D \subseteq Cards /\ F \subseteq Cards /\ D \cap F = {}
  BY DEF DueCards, NewCards
<1>2. m \in Nat /\ n \in Nat
  BY <1>1, CardCounts, ReviewAssumption DEF Least
<1>3. PICK d \in [1..m -> D], f \in Draws(F, n) : DueQueue(d) /\ q = d \o f
  BY DEF ReviewQueues
<1>4. f \in [1..n -> F] /\ \A i, j \in 1..n : f[i] = f[j] => i = j
  BY <1>3 DEF Draws
<1>5. \A i, j \in 1..m : i < j => Before(d[i], d[j])
  BY <1>3 DEF DueQueue
<1>6. \A c \in D : \E i \in 1..m : d[i] = c
  BY <1>3 DEF DueQueue
<1> HIDE DEF D, F, m, n
<1>7. d \in Seq(Cards) /\ f \in Seq(Cards) /\ Len(d) = m /\ Len(f) = n
  BY <1>1, <1>2, <1>3, <1>4
<1>8. /\ q \in Seq(Cards) /\ Len(q) = m + n
      /\ \A i \in 1..m : q[i] = d[i]
      /\ \A i \in m + 1 .. m + n : q[i] = f[i - m]
  <2>1. /\ d \o f \in Seq(Cards) /\ Len(d \o f) = m + n
        /\ \A i \in 1..m + n : (d \o f)[i] = IF i <= m THEN d[i] ELSE f[i - m]
    BY <1>7, ConcatProperties
  <2>2. QED
    BY <1>2, <1>3, <2>1
<1>9. \A i, j \in 1..m : d[i] = d[j] => i = j
  <2> SUFFICES ASSUME NEW i \in 1..m, NEW j \in 1..m, i < j, d[i] = d[j] PROVE FALSE
    BY <1>2
  <2>1. d[i] \in Cards
    BY <1>1, <1>3
  <2>2. srs[d[i]].due \in Nat
    BY <2>1 DEF Entry
  <2>3. Before(d[i], d[i])
    BY <1>5
  <2>4. QED
    BY <2>1, <2>2, <2>3, SrsAssumption DEF Before, Cards
<1>10. \A i, j \in DOMAIN q : q[i] = q[j] => i = j
  <2> SUFFICES ASSUME NEW i \in 1..m + n, NEW j \in 1..m + n, q[i] = q[j]
               PROVE  i = j
    BY <1>2, <1>8
  <2>1. CASE i \in 1..m /\ j \in 1..m
    BY <1>8, <1>9, <2>1
  <2>2. CASE i \in m + 1 .. m + n /\ j \in m + 1 .. m + n
    <3>1. i - m \in 1..n /\ j - m \in 1..n /\ f[i - m] = f[j - m]
      BY <1>2, <1>8, <2>2
    <3>2. i - m = j - m
      BY <3>1, <1>4
    <3>3. QED
      BY <1>2, <3>2
  <2>3. CASE i \in 1..m /\ j \in m + 1 .. m + n
    <3>1. q[i] \in D /\ q[j] = f[j - m] /\ j - m \in 1..n
      BY <1>2, <1>3, <1>8, <2>3
    <3>2. QED
      BY <1>1, <1>4, <3>1
  <2>4. CASE j \in 1..m /\ i \in m + 1 .. m + n
    <3>1. q[j] \in D /\ q[i] = f[i - m] /\ i - m \in 1..n
      BY <1>2, <1>3, <1>8, <2>4
    <3>2. QED
      BY <1>1, <1>4, <3>1
  <2>5. QED
    BY <1>2, <2>1, <2>2, <2>3, <2>4
<1>11. ASSUME NEW c \in D PROVE \E i \in DOMAIN q : q[i] = c
  <2>1. PICK i \in 1..m : d[i] = c
    BY <1>6
  <2>2. i \in DOMAIN q /\ q[i] = c
    BY <1>2, <1>8, <2>1
  <2>3. QED
    BY <2>2
<1>12. QED
  BY <1>8, <1>10, <1>11 DEF D

-----------------------------------------------------------------------------
(* The inductive invariant.                                                *)

\* Every grade of the session is on record: the schedule has counted it, and
\* if it is still the card's last one and was not a miss, the card has left
\* box 0.
GradesOnRecord ==
  \A i \in DOMAIN hist :
    LET e == srs[session.queue[i]]
    IN  /\ hist[i].reps <= e.reps
        /\ hist[i].reps = e.reps /\ hist[i].q # "again" => e.box > 0

\* A card asked again is graded later, so its number of grades is higher.
LaterCountsHigher ==
  \A i, j \in DOMAIN hist :
    i < j /\ session.queue[i] = session.queue[j] => hist[i].reps < hist[j].reps

\* A card that was due when the session began, and was not graded since, is
\* still waiting in the queue.
OverdueWaits ==
  Active => \A c \in Cards :
    Seen(srs[c]) /\ srs[c].due <= started => \E i \in Pending : session.queue[i] = c

ReviewInv ==
  /\ TypeOK
  /\ started <= now
  /\ CountersAgree
  /\ PendingOnce
  /\ MissedReturns
  /\ GradesOnRecord
  /\ LaterCountsHigher
  /\ OverdueWaits

LEMMA NoSessionType ==
  /\ NoSession.queue = <<>> /\ NoSession.pos = 0 /\ NoSession.graded = 0
  /\ NoSession.res \in Tally
  /\ \A q \in Qualities : NoSession.res[q] = 0
  /\ NoSession \in [queue: Seq(Cards), pos: Nat, shown: BOOLEAN, graded: Nat, res: Tally]
BY DEF NoSession, Tally

\* Without a session the invariant says nothing but the types.
LEMMA NoSessionInv ==
  ASSUME TypeOK, session = NoSession, hist = <<>>, started <= now
  PROVE  ReviewInv
<1>1. session.queue = <<>> /\ session.pos = 0 /\ DOMAIN hist = {} /\ Len(hist) = 0
  BY NoSessionType
<1>2. CountersAgree
  BY <1>1, NoSessionType DEF CountersAgree, Qualities
<1>3. PendingOnce
  BY <1>1 DEF PendingOnce, Pending
<1>4. MissedReturns /\ GradesOnRecord /\ LaterCountsHigher
  BY <1>1 DEF MissedReturns, GradesOnRecord, LaterCountsHigher
<1>5. OverdueWaits
  BY <1>1 DEF OverdueWaits, Active
<1>6. QED
  BY <1>2, <1>3, <1>4, <1>5 DEF ReviewInv

\* The history has one record per card passed, and the queue that many cards.
LEMMA HistoryShape ==
  ASSUME TypeOK, CountersAgree
  PROVE  /\ session.pos \in Nat /\ Len(session.queue) \in Nat
         /\ DOMAIN hist = 1..session.pos
         /\ DOMAIN session.queue = 1..Len(session.queue)
         /\ \A i \in 1..Len(session.queue) : session.queue[i] \in Cards
         /\ \A i \in DOMAIN hist : /\ i \in 1..Len(session.queue)
                                  /\ hist[i].reps \in Nat /\ hist[i].q \in Qualities
<1>1. /\ session.queue \in Seq(Cards) /\ session.pos \in Nat
      /\ hist \in Seq([q: Qualities, reps: Nat])
  BY DEF TypeOK
<1>2. session.pos <= Len(session.queue) /\ Len(hist) = session.pos
  BY DEF CountersAgree
<1>3. DOMAIN hist = 1..session.pos /\ Len(session.queue) \in Nat
  BY <1>1, <1>2
<1>4. \A i \in DOMAIN hist : hist[i] \in [q: Qualities, reps: Nat]
  BY <1>1, <1>2, <1>3, ElementOfSeq
<1>5. QED
  BY <1>1, <1>2, <1>3, <1>4

LEMMA ReviewInit == Init => ReviewInv
<1> SUFFICES ASSUME Init PROVE ReviewInv
  OBVIOUS
<1>1. TypeOK
  BY NoSessionType, ReviewAssumption DEF Init, TypeOK
<1>2. QED
  BY <1>1, NoSessionInv, ReviewAssumption DEF Init

-----------------------------------------------------------------------------
(* One lemma per action that changes the session or the schedule.          *)

LEMMA StartKeepsInv == ReviewInv /\ StartReview => ReviewInv'
<1> SUFFICES ASSUME ReviewInv, StartReview PROVE ReviewInv'
  OBVIOUS
<1> USE DEF ReviewInv
<1>1. PICK q \in ReviewQueues : q # <<>> /\ session' = [NoSession EXCEPT !.queue = q]
  BY DEF StartReview
<1>2. /\ q \in Seq(Cards)
      /\ \A i, j \in DOMAIN q : q[i] = q[j] => i = j
      /\ \A c \in DueCards(srs, now) : \E i \in DOMAIN q : q[i] = c
  BY ReviewQueueLists DEF TypeOK
<1>3. /\ session'.queue = q /\ session'.pos = 0 /\ session'.graded = 0
      /\ session'.res = NoSession.res /\ hist' = <<>> /\ started' = now
      /\ UNCHANGED <<srs, now, mode>>
  BY <1>1 DEF StartReview, NoSession
<1>4. TypeOK'
  <2>1. session' = [queue |-> q, pos |-> 0, shown |-> FALSE, graded |-> 0,
                    res |-> NoSession.res]
    BY <1>1 DEF NoSession
  <2>2. session' \in [queue: Seq(Cards), pos: Nat, shown: BOOLEAN, graded: Nat, res: Tally]
    BY <1>2, <2>1, NoSessionType
  <2>3. QED
    BY <1>3, <2>2 DEF TypeOK
<1>5. CountersAgree'
  BY <1>2, <1>3, NoSessionType DEF CountersAgree, Qualities
<1>6. PendingOnce'
  BY <1>2, <1>3 DEF PendingOnce, Pending
<1>7. (MissedReturns /\ GradesOnRecord /\ LaterCountsHigher)'
  BY <1>3 DEF MissedReturns, GradesOnRecord, LaterCountsHigher
<1>8. OverdueWaits'
  BY <1>2, <1>3 DEF OverdueWaits, Pending, DueCards
<1>9. QED
  BY <1>3, <1>4, <1>5, <1>6, <1>7, <1>8 DEF TypeOK

LEMMA RevealKeepsInv == ReviewInv /\ Reveal => ReviewInv'
<1> SUFFICES ASSUME ReviewInv, Reveal PROVE ReviewInv'
  OBVIOUS
<1> USE DEF ReviewInv
<1>1. /\ session'.queue = session.queue /\ session'.pos = session.pos
      /\ session'.graded = session.graded /\ session'.res = session.res
      /\ UNCHANGED <<srs, now, mode, started, hist>>
  BY DEF Reveal, TypeOK
<1>2. TypeOK'
  BY DEF Reveal, TypeOK
<1>3. QED
  BY <1>1, <1>2 DEF CountersAgree, PendingOnce, Pending, MissedReturns, GradesOnRecord,
                    LaterCountsHigher, OverdueWaits, Active

\* Any grade of any entry yields an entry; it is in box 0 exactly after a
\* miss, and due strictly later than now.
LEMMA GradedEntry ==
  ASSUME NEW e \in Entry, NEW q \in Qualities, NEW t \in Nat
  PROVE  /\ Graded(e, q, t) \in Entry
         /\ Graded(e, q, t).box = 0 <=> q = "again"
         /\ Graded(e, q, t).reps = e.reps + 1
         /\ Graded(e, q, t).due > t
<1> DEFINE b == NextBox(e.box, q)
           d == Delay(b, q)
<1>1. e.box \in 0..MaxBox /\ e.reps \in Nat /\ e.lapses \in Nat
  BY DEF Entry
<1>2. q \in {"again", "hard", "good", "easy"}
  BY DEF Qualities
<1>3. /\ q = "again" => b = 0
      /\ q = "hard" => b = Greatest(1, e.box)
      /\ q = "good" => b = Least(MaxBox, e.box + 1)
      /\ q = "easy" => b = Least(MaxBox, e.box + 2)
  BY Zenon DEF NextBox
<1>4. /\ q = "again" => d = AgainDelay
      /\ q = "hard" => d = BoxDays[b] * 6 * Tenth
      /\ q = "good" => d = BoxDays[b] * 10 * Tenth
      /\ q = "easy" => d = BoxDays[b] * 13 * Tenth
  BY Zenon DEF Delay
<1>5. Graded(e, q, t) = [box |-> b, due |-> t + d, reps |-> e.reps + 1,
           lapses |-> IF q = "again" THEN e.lapses + 1 ELSE e.lapses,
           last |-> t]
  BY DEF Graded
<1> HIDE DEF b, d
<1>6. b \in 0..MaxBox /\ (b = 0 <=> q = "again")
  BY <1>1, <1>2, <1>3 DEF MaxBox, Least, Greatest
<1>7. b # 0 => BoxDays[b] \in {1, 3, 7, 16, 35, 90}
  <2>1. b \in {0, 1, 2, 3, 4, 5, 6}
    BY <1>6 DEF MaxBox
  <2>2. QED
    BY <2>1 DEF BoxDays, MaxBox
<1>8. Tenth \in Nat /\ Tenth > 0 /\ AgainDelay \in Nat /\ AgainDelay > 0
  BY SrsAssumption
<1>9. d \in Nat /\ d > 0
  <2>1. CASE q = "again"
    BY <1>4, <1>8, <2>1
  <2>2. ASSUME q # "again", NEW n \in {6, 10, 13}
        PROVE  BoxDays[b] * n * Tenth \in Nat /\ BoxDays[b] * n * Tenth > 0
    BY <1>6, <1>7, <1>8, <2>2
  <2>3. QED
    BY <1>2, <1>4, <2>1, <2>2
<1>10. QED
  BY <1>1, <1>5, <1>6, <1>9 DEF Entry

\* Grading a card that is not in a review, or the current one of it, raises
\* its count and makes it due after now.
LEMMA GradeOutcome ==
  ASSUME TypeOK, NEW c \in Cards, NEW g \in Qualities,
         srs' = [srs EXCEPT ![c] = Graded(@, g, now)]
  PROVE  /\ srs' \in [Cards -> Entry]
         /\ \A d \in Cards : d # c => srs'[d] = srs[d]
         /\ srs'[c].reps = srs[c].reps + 1
         /\ srs'[c].box = 0 <=> g = "again"
         /\ srs'[c].box \in Nat
         /\ srs'[c].due > now
<1>1. srs \in [Cards -> Entry] /\ srs[c] \in Entry /\ now \in Nat
  BY DEF TypeOK
<1>2. srs'[c] = Graded(srs[c], g, now) /\ \A d \in Cards : d # c => srs'[d] = srs[d]
  BY <1>1
<1>3. /\ Graded(srs[c], g, now) \in Entry
      /\ Graded(srs[c], g, now).box = 0 <=> g = "again"
      /\ Graded(srs[c], g, now).reps = srs[c].reps + 1
      /\ Graded(srs[c], g, now).due > now
  BY <1>1, GradedEntry
<1>4. srs' \in [Cards -> Entry]
  BY <1>1, <1>3
<1>5. Graded(srs[c], g, now).box \in Nat
  BY <1>3 DEF Entry, MaxBox
<1>6. QED
  BY <1>2, <1>3, <1>4, <1>5

LEMMA ExternalKeepsInv ==
  ASSUME ReviewInv, NEW c \in Cards, NEW g \in Qualities, ExternalGrade(c, g)
  PROVE  ReviewInv'
<1> USE DEF ReviewInv
<1>1. UNCHANGED <<now, mode, session, started, hist>>
  BY DEF ExternalGrade
<1>2. /\ srs' \in [Cards -> Entry]
      /\ \A d \in Cards : d # c => srs'[d] = srs[d]
      /\ srs'[c].reps = srs[c].reps + 1
      /\ srs'[c].due > now
  BY GradeOutcome DEF ExternalGrade
<1>3. TypeOK'
  BY <1>1, <1>2 DEF TypeOK
<1>4. (CountersAgree /\ PendingOnce /\ MissedReturns /\ LaterCountsHigher)'
  BY <1>1 DEF CountersAgree, PendingOnce, Pending, MissedReturns, LaterCountsHigher
<1>5. GradesOnRecord'
  <2> SUFFICES ASSUME NEW i \in DOMAIN hist
               PROVE  LET e == srs'[session.queue[i]]
                      IN  /\ hist[i].reps <= e.reps
                          /\ hist[i].reps = e.reps /\ hist[i].q # "again" => e.box > 0
    BY <1>1 DEF GradesOnRecord
  <2>1. i \in 1..Len(session.queue) /\ session.queue[i] \in Cards /\ hist[i].reps \in Nat
    BY HistoryShape
  <2>2. srs[session.queue[i]].reps \in Nat
    BY <2>1 DEF TypeOK, Entry
  <2>3. QED
    BY <1>2, <2>1, <2>2 DEF GradesOnRecord
<1>6. OverdueWaits'
  <2> SUFFICES ASSUME Active, NEW d \in Cards, Seen(srs'[d]), srs'[d].due <= started
               PROVE  \E i \in Pending : session.queue[i] = d
    BY <1>1 DEF OverdueWaits, Active, Pending
  <2>1. srs'[d].due \in Nat /\ started \in Nat /\ now \in Nat
    BY <1>2 DEF TypeOK, Entry
  <2>2. d # c
    BY <1>2, <2>1
  <2>3. QED
    BY <1>2, <2>2 DEF OverdueWaits
<1>7. QED
  BY <1>1, <1>3, <1>4, <1>5, <1>6

\* One more grade of any of the four kinds adds one to their sum.
Total(r) == r["again"] + r["hard"] + r["good"] + r["easy"]

LEMMA TallyGrows ==
  ASSUME NEW r \in Tally, NEW g \in Qualities
  PROVE  Total([r EXCEPT ![g] = @ + 1]) = Total(r) + 1
<1> DEFINE r2 == [r EXCEPT ![g] = @ + 1]
<1>1. \A k \in Qualities : r[k] \in Nat /\ r2[k] = IF k = g THEN r[k] + 1 ELSE r[k]
  BY DEF Tally
<1>2. /\ r["again"] \in Nat /\ r["hard"] \in Nat /\ r["good"] \in Nat /\ r["easy"] \in Nat
      /\ r2["again"] = IF "again" = g THEN r["again"] + 1 ELSE r["again"]
      /\ r2["hard"] = IF "hard" = g THEN r["hard"] + 1 ELSE r["hard"]
      /\ r2["good"] = IF "good" = g THEN r["good"] + 1 ELSE r["good"]
      /\ r2["easy"] = IF "easy" = g THEN r["easy"] + 1 ELSE r["easy"]
  BY <1>1 DEF Qualities
<1> HIDE DEF r2
<1>3. Total(r2) = Total(r) + 1
  BY <1>2 DEF Qualities, Total
<1>4. QED
  BY <1>3 DEF r2

\* rvGradeAdvance.  The card asked moves from the pending part to the part
\* passed; a missed one also joins the end.
LEMMA GradeKeepsInv ==
  ASSUME ReviewInv, NEW g \in Qualities, Grade(g)
  PROVE  ReviewInv'
<1> USE DEF ReviewInv
<1> DEFINE q == session.queue
           p == session.pos
           c == q[p + 1]
           n == Len(q)
           q2 == session'.queue
           n2 == Len(q2)
           h == [q |-> g, reps |-> srs[c].reps + 1]
<1>1. /\ p \in Nat /\ n \in Nat /\ p < n /\ p + 1 \in 1..n
      /\ DOMAIN hist = 1..p /\ DOMAIN q = 1..n
      /\ \A i \in 1..n : q[i] \in Cards
      /\ \A i \in 1..p : i \in 1..n /\ hist[i].reps \in Nat /\ hist[i].q \in Qualities
  BY HistoryShape DEF Grade, Requeued, Done
<1>2. c \in Cards /\ srs[c] \in Entry /\ srs[c].reps \in Nat
  BY <1>1 DEF TypeOK, Entry
<1>3. /\ srs' = [srs EXCEPT ![c] = Graded(@, g, now)]
      /\ q2 = (IF g = "again" THEN Append(q, c) ELSE q)
      /\ session'.pos = p + 1 /\ session'.graded = session.graded + 1
      /\ session'.res = [session.res EXCEPT ![g] = @ + 1]
      /\ session'.shown = FALSE
      /\ hist' = Append(hist, h)
      /\ UNCHANGED <<now, mode, started>>
  BY DEF Grade, Requeued, Current
<1>4. /\ srs' \in [Cards -> Entry]
      /\ \A d \in Cards : d # c => srs'[d] = srs[d]
      /\ srs'[c].reps = srs[c].reps + 1
      /\ srs'[c].box = 0 <=> g = "again"
      /\ srs'[c].box \in Nat
      /\ srs'[c].due > now
  BY <1>2, <1>3, GradeOutcome
<1>5. /\ q2 \in Seq(Cards) /\ n2 \in Nat
      /\ n2 = (IF g = "again" THEN n + 1 ELSE n)
      /\ \A i \in 1..n : q2[i] = q[i]
      /\ g = "again" => q2[n + 1] = c
  <2>1. q \in Seq(Cards)
    BY DEF TypeOK
  <2>2. QED
    BY <1>1, <1>2, <1>3, <2>1, AppendProperties, SMTT(30)
<1>6. /\ DOMAIN hist' = 1..p + 1 /\ Len(hist') = p + 1
      /\ hist' \in Seq([q: Qualities, reps: Nat])
      /\ \A i \in 1..p : hist'[i] = hist[i]
      /\ hist'[p + 1] = h
  <2>1. hist \in Seq([q: Qualities, reps: Nat]) /\ Len(hist) = p
    BY DEF TypeOK, CountersAgree
  <2>2. h \in [q: Qualities, reps: Nat]
    BY <1>2
  <2>3. hist' = Append(hist, h)
    BY <1>3
  <2>4. /\ hist' \in Seq([q: Qualities, reps: Nat]) /\ Len(hist') = p + 1
        /\ \A i \in 1..p : hist'[i] = hist[i]
        /\ hist'[p + 1] = h
    BY <2>1, <2>2, <2>3, AppendProperties, SMTT(30)
  <2>5. QED
    BY <2>4
<1>7. session.res \in Tally /\ session'.res \in Tally /\ session.graded \in Nat
  BY <1>3, SMTT(30) DEF TypeOK, Tally
<1> DEFINE r2 == session'.res
           k2 == session.graded + 1
<1>7a. session' = [queue |-> q2, pos |-> p + 1, shown |-> FALSE, graded |-> k2, res |-> r2]
  BY <1>3 DEF Grade, Requeued
<1>7b. r2 \in Tally /\ k2 \in Nat
  BY <1>7
<1> HIDE DEF r2, k2
<1> HIDE DEF h, q2, n2, q, n, c, p
<1>8. TypeOK'
  <2>1. session' \in [queue: Seq(Cards), pos: Nat, shown: BOOLEAN, graded: Nat, res: Tally]
    BY <1>1, <1>5, <1>7a, <1>7b
  <2>2. QED
    BY <1>3, <1>4, <1>6, <2>1 DEF TypeOK
<1>9. CountersAgree'
  <2>1. \A k \in Qualities : session.res[k] \in Nat
    BY <1>7 DEF Tally
  <2>2. session'.res["again"] + session'.res["hard"] + session'.res["good"]
          + session'.res["easy"] = p + 1
    <3>1. Total(session'.res) = Total(session.res) + 1
      BY <1>3, <1>7, TallyGrows
    <3>2. QED
      BY <3>1 DEF CountersAgree, Total, p
  <2>3. session'.pos <= Len(session'.queue)
    BY <1>1, <1>3, <1>5 DEF q2, n2
  <2>4. session'.graded = session'.pos
    BY <1>3 DEF CountersAgree, p
  <2>5. QED
    BY <1>3, <1>6, <2>2, <2>3, <2>4 DEF CountersAgree
<1>10. \A i \in p + 2 .. n : q[i] # c
  BY <1>1 DEF PendingOnce, Pending, p, n, c, q
<1>11. PendingOnce'
  <2> SUFFICES ASSUME NEW i \in p + 2 .. n2, NEW j \in p + 2 .. n2, q2[i] = q2[j]
               PROVE  i = j
    BY <1>1, <1>3, SMTT(30) DEF PendingOnce, Pending, q2, n2
  <2>1. i \in p + 2 .. n \/ (i = n + 1 /\ g = "again")
    BY <1>1, <1>5
  <2>2. j \in p + 2 .. n \/ (j = n + 1 /\ g = "again")
    BY <1>1, <1>5
  <2>3. \A k \in p + 2 .. n : k \in 1..n /\ q2[k] = q[k] /\ q[k] # c
    BY <1>1, <1>5, <1>10
  <2>4. CASE i \in p + 2 .. n /\ j \in p + 2 .. n
    <3>1. q[i] = q[j] /\ i \in p + 1 .. n /\ j \in p + 1 .. n
      BY <1>1, <2>3, <2>4
    <3>2. QED
      BY <3>1 DEF PendingOnce, Pending, p, n, q
  <2>5. QED
    BY <1>5, <2>1, <2>2, <2>3, <2>4
<1>12. MissedReturns'
  <2> SUFFICES ASSUME NEW i \in 1..p + 1, hist'[i].q = "again"
               PROVE  \E j \in i + 1 .. n2 : q2[j] = q2[i]
    BY <1>6 DEF MissedReturns, q2, n2
  <2>1. CASE i \in 1..p
    <3>1. PICK j \in i + 1 .. n : q[j] = q[i]
      BY <1>1, <1>6, <2>1 DEF MissedReturns, q, n
    <3>2. j \in i + 1 .. n2 /\ q2[j] = q2[i]
      BY <1>1, <1>5, <2>1, <3>1
    <3>3. QED
      BY <3>2
  <2>2. CASE i = p + 1
    <3>1. g = "again"
      BY <1>6, <2>2 DEF h
    <3>2. n + 1 \in i + 1 .. n2 /\ q2[n + 1] = q2[i]
      BY <1>1, <1>5, <2>2, <3>1 DEF c
    <3>3. QED
      BY <3>2
  <2>3. QED
    BY <1>1, <2>1, <2>2
<1>13. GradesOnRecord'
  <2> SUFFICES ASSUME NEW i \in 1..p + 1
               PROVE  LET e == srs'[q2[i]]
                      IN  /\ hist'[i].reps <= e.reps
                          /\ hist'[i].reps = e.reps /\ hist'[i].q # "again" => e.box > 0
    BY <1>6 DEF GradesOnRecord, q2
  <2>1. CASE i \in 1..p
    <3>1. q2[i] = q[i] /\ hist'[i] = hist[i] /\ q[i] \in Cards /\ hist[i].reps \in Nat
      BY <1>1, <1>5, <1>6, <2>1
    <3>2. /\ hist[i].reps <= srs[q[i]].reps
          /\ hist[i].reps = srs[q[i]].reps /\ hist[i].q # "again" => srs[q[i]].box > 0
      BY <1>1, <2>1 DEF GradesOnRecord, q
    <3>3. QED
      BY <1>2, <1>4, <3>1, <3>2
  <2>2. CASE i = p + 1
    <3>1. q2[i] = c /\ hist'[i] = h
      BY <1>1, <1>5, <1>6, <2>2 DEF c
    <3>2. QED
      BY <1>2, <1>4, <3>1 DEF h
  <2>3. QED
    BY <1>1, <2>1, <2>2
<1>14. LaterCountsHigher'
  <2> SUFFICES ASSUME NEW i \in 1..p + 1, NEW j \in 1..p + 1, i < j, q2[i] = q2[j]
               PROVE  hist'[i].reps < hist'[j].reps
    BY <1>6 DEF LaterCountsHigher, q2
  <2>1. i \in 1..p /\ q2[i] = q[i] /\ hist'[i] = hist[i] /\ hist[i].reps \in Nat
    BY <1>1, <1>5, <1>6, SMTT(30)
  <2>2. CASE j \in 1..p
    <3>1. q[i] = q[j] /\ hist'[j] = hist[j]
      BY <1>1, <1>5, <1>6, <2>1, <2>2
    <3>2. QED
      BY <1>1, <2>1, <2>2, <3>1 DEF LaterCountsHigher, q
  <2>3. CASE j = p + 1
    <3>1. q[i] = c /\ hist'[j] = h
      BY <1>1, <1>5, <1>6, <2>1, <2>3 DEF c
    <3>2. hist[i].reps <= srs[c].reps
      BY <1>1, <2>1, <3>1 DEF GradesOnRecord, q
    <3>3. QED
      BY <1>2, <2>1, <3>1, <3>2 DEF h
  <2>4. QED
    BY <1>1, <2>2, <2>3
<1>15. OverdueWaits'
  <2> SUFFICES ASSUME NEW d \in Cards, Seen(srs'[d]), srs'[d].due <= started
               PROVE  \E i \in p + 2 .. n2 : q2[i] = d
    <3>1. Pending' = p + 2 .. n2
      BY <1>1, <1>3 DEF Pending, q2, n2
    <3>2. QED
      BY <1>3, <3>1 DEF OverdueWaits, q2
  <2>1. started <= now /\ started \in Nat /\ now \in Nat /\ srs'[d].due \in Nat
    BY <1>4 DEF TypeOK, Entry
  <2>2. d # c
    BY <1>4, <2>1
  <2>3. PICK i \in p + 1 .. n : q[i] = d
    <3>1. Active
      BY <1>1 DEF Active, q, n
    <3>2. QED
      BY <1>4, <2>2, <3>1 DEF OverdueWaits, Pending, p, n, q
  <2>4. i # p + 1
    BY <2>2, <2>3 DEF c
  <2>5. i \in p + 2 .. n2 /\ q2[i] = d
    BY <1>1, <1>5, <2>3, <2>4
  <2>6. QED
    BY <2>5
<1>16. QED
  BY <1>3, <1>8, <1>9, <1>11, <1>12, <1>13, <1>14, <1>15

LEMMA ReviewStep == ReviewInv /\ [Next]_vars => ReviewInv'
<1> SUFFICES ASSUME ReviewInv, [Next]_vars PROVE ReviewInv'
  OBVIOUS
<1>1. ASSUME UNCHANGED <<srs, session, started, hist>>, now' \in Nat, now <= now',
             mode' \in {"review", "other"}
      PROVE  ReviewInv'
  BY <1>1 DEF ReviewInv, TypeOK, CountersAgree, PendingOnce, Pending, MissedReturns,
              GradesOnRecord, LaterCountsHigher, OverdueWaits, Active
<1>2. ASSUME session' = NoSession, hist' = <<>>, mode' \in {"review", "other"},
             UNCHANGED <<srs, now, started>>
      PROVE  ReviewInv'
  <2>1. TypeOK' /\ started' <= now'
    BY <1>2, NoSessionType DEF ReviewInv, TypeOK
  <2>2. /\ session'.queue = <<>> /\ session'.pos = 0 /\ DOMAIN hist' = {} /\ Len(hist') = 0
        /\ session'.graded = 0 /\ \A q \in Qualities : session'.res[q] = 0
    BY <1>2, NoSessionType
  <2>3. QED
    BY <2>1, <2>2 DEF ReviewInv, CountersAgree, Qualities, PendingOnce, Pending, MissedReturns,
                      GradesOnRecord, LaterCountsHigher, OverdueWaits, Active
<1>3. CASE UNCHANGED vars
  BY <1>1, <1>3 DEF vars, ReviewInv, TypeOK
<1>4. CASE StartReview
  BY <1>4, StartKeepsInv
<1>5. CASE Reveal
  BY <1>5, RevealKeepsInv
<1>6. CASE Back
  BY <1>2, <1>6 DEF Back, ReviewInv, TypeOK
<1>7. CASE SetMode
  BY <1>1, <1>7 DEF SetMode, ReviewInv, TypeOK
<1>8. CASE Reload
  BY <1>2, <1>8 DEF Reload
<1>9. CASE Tick
  BY <1>1, <1>9, ReviewAssumption DEF Tick, ReviewInv, TypeOK
<1>10. ASSUME NEW g \in Qualities, Grade(g) PROVE ReviewInv'
  BY <1>10, GradeKeepsInv
<1>11. ASSUME NEW c \in Cards, NEW g \in {"again", "good"}, ExternalGrade(c, g)
       PROVE  ReviewInv'
  BY <1>11, ExternalKeepsInv DEF Qualities
<1>12. QED
  BY <1>3, <1>4, <1>5, <1>6, <1>7, <1>8, <1>9, <1>10, <1>11 DEF Next

-----------------------------------------------------------------------------
(* The theorems.                                                           *)

\* The inductive invariant holds in every reachable state.
THEOREM ReviewInvariant == Spec => []ReviewInv
<1>1. QED
  BY ReviewInit, ReviewStep, PTL DEF Spec

\* Type correctness of review sessions.
THEOREM ReviewTypeCorrect == Spec => []TypeOK
<1>1. ReviewInv => TypeOK
  BY DEF ReviewInv
<1>2. QED
  BY <1>1, ReviewInvariant, PTL

\* The counters agree, no card waits twice, and every missed card is asked
\* again (rvGradeAdvance), in every session on every deck.
THEOREM ReviewQueueSound == Spec => []QueueSound
<1>1. ReviewInv => QueueSound
  BY DEF ReviewInv, QueueSound
<1>2. QED
  BY <1>1, ReviewInvariant, PTL

\* A finished session has put every card it graded last out of box 0.
THEOREM ReviewEndsRecalled == Spec => []DoneMeansRecalled
<1>1. ReviewInv => DoneMeansRecalled
  <2> SUFFICES ASSUME ReviewInv, Done, NEW i \in DOMAIN hist,
                      srs[session.queue[i]].reps = hist[i].reps
               PROVE  srs[session.queue[i]].box > 0
    BY DEF DoneMeansRecalled
  <2> USE DEF ReviewInv
  <2>1. /\ session.pos \in Nat /\ Len(session.queue) \in Nat
        /\ DOMAIN hist = 1..session.pos
        /\ \A k \in DOMAIN hist : k \in 1..Len(session.queue) /\ hist[k].reps \in Nat
    BY HistoryShape
  <2>2. session.pos = Len(session.queue)
    BY <2>1 DEF Done, CountersAgree
  <2>3. hist[i].q # "again"
    <3> SUFFICES ASSUME hist[i].q = "again" PROVE FALSE
      OBVIOUS
    <3>1. PICK j \in i + 1 .. Len(session.queue) : session.queue[j] = session.queue[i]
      BY DEF MissedReturns
    <3>2. j \in DOMAIN hist /\ i < j
      BY <2>1, <2>2
    <3>3. hist[i].reps < hist[j].reps
      BY <3>1, <3>2 DEF LaterCountsHigher
    <3>4. hist[j].reps <= srs[session.queue[i]].reps
      BY <3>1, <3>2 DEF GradesOnRecord
    <3>5. QED
      BY <2>1, <3>2, <3>3, <3>4
  <2>4. QED
    BY <2>3 DEF GradesOnRecord
<1>2. QED
  BY <1>1, ReviewInvariant, PTL

\* A finished session has graded every card that was due when it began.
THEOREM ReviewEndsCaughtUp == Spec => []DoneMeansCaughtUp
<1>1. ReviewInv => DoneMeansCaughtUp
  <2> SUFFICES ASSUME ReviewInv, Done, NEW c \in Cards, Seen(srs[c])
               PROVE  srs[c].due > started
    BY DEF DoneMeansCaughtUp
  <2>1. session.pos \in Nat /\ Len(session.queue) \in Nat
    BY HistoryShape DEF ReviewInv
  <2>2. Pending = {}
    BY <2>1 DEF Done, Pending
  <2>3. ~(srs[c].due <= started)
    BY <2>2 DEF ReviewInv, OverdueWaits, Done
  <2>4. srs[c].due \in Nat /\ started \in Nat
    BY DEF ReviewInv, TypeOK, Entry
  <2>5. QED
    BY <2>3, <2>4
<1>2. QED
  BY <1>1, ReviewInvariant, PTL

\* While two cards are pending, the next one asked is not the one graded.
THEOREM ReviewNeverBackToBack == Spec => NeverBackToBack
<1> DEFINE Step == session'.pos = session.pos + 1 /\ session.pos + 1 < Len(session.queue)
                     => session'.queue[session'.pos + 1] # Current
<1>1. ReviewInv /\ [Next]_vars => [Step]_vars
  <2> SUFFICES ASSUME ReviewInv, Next,
                      session'.pos = session.pos + 1,
                      session.pos + 1 < Len(session.queue)
               PROVE  session'.queue[session'.pos + 1] # Current
    BY DEF vars
  <2>1. /\ session.pos \in Nat /\ Len(session.queue) \in Nat
        /\ \A i \in 1..Len(session.queue) : session.queue[i] \in Cards
    BY HistoryShape DEF ReviewInv
  <2>2. session'.pos # session.pos /\ session'.pos # 0
    BY <2>1
  <2>3. PICK g \in Qualities : Grade(g)
    <3>1. ~StartReview /\ ~Back /\ ~Reload
      BY <2>2, NoSessionType DEF StartReview, Back, Reload, NoSession
    <3>2. ~Reveal
      BY <2>2 DEF Reveal, ReviewInv, TypeOK
    <3>3. session' # session
      BY <2>2
    <3>4. ~SetMode /\ ~Tick /\ \A c \in Cards, g \in Qualities : ~ExternalGrade(c, g)
      BY <3>3 DEF SetMode, Tick, ExternalGrade
    <3>5. QED
      BY <3>1, <3>2, <3>4 DEF Next, Qualities
  <2>4. session'.queue \in {session.queue, Append(session.queue, Current)}
    BY <2>3 DEF Grade, Requeued
  <2>5. session.pos + 2 \in 1..Len(session.queue) /\ session.pos + 1 \in 1..Len(session.queue)
    BY <2>1
  <2>6. session'.queue[session.pos + 2] = session.queue[session.pos + 2]
    <3>1. session.queue \in Seq(Cards) /\ Current \in Cards
      BY <2>1, <2>5 DEF ReviewInv, TypeOK, Current
    <3>2. QED
      BY <2>4, <2>5, <3>1, AppendProperties
  <2>7. session.queue[session.pos + 2] # session.queue[session.pos + 1]
    <3>1. session.pos + 1 \in Pending /\ session.pos + 2 \in Pending
      BY <2>1 DEF Pending
    <3>2. session.pos + 1 # session.pos + 2
      BY <2>1
    <3>3. QED
      BY <3>1, <3>2 DEF ReviewInv, PendingOnce
  <2>8. QED
    BY <2>1, <2>6, <2>7 DEF Current
<1>2. QED
  BY <1>1, ReviewInvariant, PTL DEF Spec, NeverBackToBack
=============================================================================
