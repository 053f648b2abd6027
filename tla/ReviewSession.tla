--------------------------- MODULE ReviewSession ---------------------------
(***************************************************************************)
(* Review mode: the due queue, the session that walks it card by card, and *)
(* the schedule its grades change.  A session is parked, not ended, when   *)
(* the learner switches mode; Velocity grades the same schedule meanwhile. *)
(***************************************************************************)
EXTENDS Srs, Sequences, FiniteSets

CONSTANTS
  NewPer,                   \* SRS_NEW_PER, the new cards a session takes in
  InitialSchedules,         \* the schedules a page may load
  Start, Horizon, Jumps,    \* bounds: the clock starts at Start and jumps on
  MaxReps, MaxAgain         \* bounds: grades per card, misses per session

ASSUME ReviewAssumption ==
  /\ NewPer \in Nat
  /\ Start \in Nat
  /\ Jumps \subseteq Nat
  /\ InitialSchedules \subseteq [Cards -> Entry]

VARIABLES
  srs,                      \* the schedule (_srs)
  now,
  mode,                     \* "review", or "other" for any other mode
  session,                  \* reviewState; NoSession is null
  started,                  \* history: when the session's queue was built
  hist                      \* history: the session's grades, in order

vars == <<srs, now, mode, session, started, hist>>

Tally == [Qualities -> Nat]
NoSession == [queue |-> <<>>, pos |-> 0, shown |-> FALSE, graded |-> 0,
              res |-> [q \in Qualities |-> 0]]

Active == session.queue # <<>>
Done == Active /\ session.pos >= Len(session.queue)
Current == session.queue[session.pos + 1]
Pending == session.pos + 1 .. Len(session.queue)

-----------------------------------------------------------------------------
(* buildReviewQueue: the due cards, earliest first and in deck order when  *)
(* due together, then up to NewPer new cards in the order shuffle left.    *)

Before(c, d) == srs[c].due < srs[d].due \/ (srs[c].due = srs[d].due /\ c < d)

DueQueue(q) ==
  /\ {q[i] : i \in DOMAIN q} = DueCards(srs, now)
  /\ \A i, j \in DOMAIN q : i < j => Before(q[i], q[j])

\* Sequences of n different members of S.
Draws(S, n) == {q \in [1..n -> S] : \A i, j \in 1..n : q[i] = q[j] => i = j}

\* A slip: the limit on new cards taken for a limit on the session.
ReviewQueuesCutShort ==
  LET due == {q \in [1..Cardinality(DueCards(srs, now)) -> DueCards(srs, now)] : DueQueue(q)}
  IN  {SubSeq(q, 1, Least(NewPer, Len(q))) : q \in due}

ReviewQueues ==
  LET due   == {q \in [1..Cardinality(DueCards(srs, now)) -> DueCards(srs, now)] : DueQueue(q)}
      fresh == Draws(NewCards(srs), Least(NewPer, Cardinality(NewCards(srs))))
  IN  {p[1] \o p[2] : p \in due \X fresh}

-----------------------------------------------------------------------------
Init ==
  /\ srs \in InitialSchedules
  /\ now = Start
  /\ mode \in {"review", "other"}
  /\ session = NoSession
  /\ started = Start
  /\ hist = <<>>

\* #rvStart, drawn when there is a card to ask.
StartReview ==
  /\ mode = "review" /\ ~Active
  /\ \E q \in ReviewQueues :
       /\ q # <<>>
       /\ session' = [NoSession EXCEPT !.queue = q]
  /\ started' = now
  /\ hist' = <<>>
  /\ UNCHANGED <<srs, now, mode>>

\* The flash card, #rvReveal or the space bar.
Reveal ==
  /\ mode = "review" /\ Active /\ ~Done
  /\ ~session.shown
  /\ session' = [session EXCEPT !.shown = TRUE]
  /\ UNCHANGED <<srs, now, mode, started, hist>>

\* Slips in what a miss does to the queue: it is dropped; it comes back once
\* only; it is put right behind the card just graded.
RequeuedNever(g) == session.queue
RequeuedOnce(g) ==
  IF g = "again" /\ \A i \in 1..session.pos : session.queue[i] # Current
  THEN Append(session.queue, Current) ELSE session.queue
RequeuedNext(g) ==
  IF g = "again"
  THEN SubSeq(session.queue, 1, session.pos + 1) \o <<Current>>
         \o SubSeq(session.queue, session.pos + 2, Len(session.queue))
  ELSE session.queue

\* The queue after the current card's grade: a miss is asked again at the end.
Requeued(g) == IF g = "again" THEN Append(session.queue, Current) ELSE session.queue

\* rvGradeAdvance, from a grade button or keys 1-4.
Grade(g) ==
  /\ mode = "review" /\ Active /\ ~Done
  /\ session.shown
  /\ srs[Current].reps < MaxReps
  /\ g = "again" => session.res["again"] < MaxAgain
  /\ srs' = [srs EXCEPT ![Current] = Graded(@, g, now)]
  /\ session' = [queue  |-> Requeued(g),
                 pos    |-> session.pos + 1,
                 shown  |-> FALSE,
                 graded |-> session.graded + 1,
                 res    |-> [session.res EXCEPT ![g] = @ + 1]]
  /\ hist' = Append(hist, [q |-> g, reps |-> srs[Current].reps + 1])
  /\ UNCHANGED <<now, mode, started>>

\* #rvBack on the "Session complete" card.
Back ==
  /\ mode = "review" /\ Done
  /\ session' = NoSession
  /\ hist' = <<>>
  /\ UNCHANGED <<srs, now, mode, started>>

\* setMode: reviewState outlives it.
SetMode ==
  /\ mode' \in {"review", "other"} \ {mode}
  /\ UNCHANGED <<srs, now, session, started, hist>>

\* Velocity grades a card while the session is parked (veloAnswer).
ExternalGrade(c, g) ==
  /\ mode = "other"
  /\ srs[c].reps < MaxReps
  /\ srs' = [srs EXCEPT ![c] = Graded(@, g, now)]
  /\ UNCHANGED <<now, mode, session, started, hist>>

\* The page is reloaded: the session is gone, the schedule was saved.
Reload ==
  /\ session' = NoSession
  /\ hist' = <<>>
  /\ mode' = "other"
  /\ UNCHANGED <<srs, now, started>>

Tick ==
  /\ now' \in {now + d : d \in Jumps}
  /\ now' <= Horizon
  /\ UNCHANGED <<srs, mode, session, started, hist>>

Next ==
  \/ StartReview \/ Reveal \/ Back \/ SetMode \/ Reload \/ Tick
  \/ \E g \in Qualities : Grade(g)
  \/ \E c \in Cards, g \in {"again", "good"} : ExternalGrade(c, g)

Spec == Init /\ [][Next]_vars

-----------------------------------------------------------------------------
TypeOK ==
  /\ srs \in [Cards -> Entry]
  /\ now \in Nat
  /\ mode \in {"review", "other"}
  /\ session \in [queue: Seq(Cards), pos: Nat, shown: BOOLEAN, graded: Nat, res: Tally]
  /\ started \in Nat
  /\ hist \in Seq([q: Qualities, reps: Nat])

\* The counters of the score bar and of the last screen agree: every card
\* passed was graded once, under one of the four grades (rvGradeAdvance).
CountersAgree ==
  /\ session.pos <= Len(session.queue)
  /\ session.graded = session.pos
  /\ session.res["again"] + session.res["hard"] + session.res["good"]
       + session.res["easy"] = session.pos
  /\ Len(hist) = session.pos

\* The queue grows while it is walked (rvGradeAdvance pushes a missed card),
\* yet no card waits in it twice.
PendingOnce ==
  \A i, j \in Pending : session.queue[i] = session.queue[j] => i = j

\* A card missed at position i is asked again in the same session.
MissedReturns ==
  \A i \in DOMAIN hist : hist[i].q = "again" =>
    \E j \in i + 1 .. Len(session.queue) : session.queue[j] = session.queue[i]

\* The session's bookkeeping: however cards are missed, and whatever happens
\* while the session is parked, its counters agree, no card waits twice, and
\* a missed card comes back.
QueueSound == CountersAgree /\ PendingOnce /\ MissedReturns

\* "Session complete" means learnt: a card whose last grade was given in this
\* session (nothing else graded it since) has left box 0, however often it
\* was missed on the way and whatever Velocity did in between.
DoneMeansRecalled ==
  Done => \A i \in DOMAIN hist :
            LET e == srs[session.queue[i]]
            IN  e.reps = hist[i].reps => e.box > 0

\* "Session complete" means caught up: every card in the schedule that was
\* due when the session began (buildReviewQueue) has been graded since.
DoneMeansCaughtUp ==
  Done => \A c \in Cards : Seen(srs[c]) => srs[c].due > started

\* A missed card goes behind every other pending one: while two are pending
\* the next card asked is never the one just graded.
NeverBackToBack ==
  [][session'.pos = session.pos + 1 /\ session.pos + 1 < Len(session.queue)
       => session'.queue[session'.pos + 1] # Current]_vars
=============================================================================
