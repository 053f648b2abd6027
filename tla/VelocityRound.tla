--------------------------- MODULE VelocityRound ---------------------------
(***************************************************************************)
(* The Velocity game: rounds of questions drawn from a queue of cards,     *)
(* three hearts, a question timer, and the feedback, death and victory     *)
(* callbacks that setTimeout fires later.  The callbacks are never         *)
(* cancelled and act on the global `velo`, whichever game and whichever    *)
(* screen it is by then; the tabs and "End game" stay clickable meanwhile. *)
(***************************************************************************)
EXTENDS Integers, Sequences

CONSTANTS
  Cards, NoCard,            \* NoCard: a glossary round that matches no card
  Queues,                   \* the queues veloBuildQueue may return
  Gap,                      \* 6, how far back a missed card is put
  Hearts,                   \* VELO_HEARTS
  LastDest, LegLength,      \* destinations 0..LastDest, answers to reach each
  Patience,                 \* TRUE in it: players who touch nothing in feedback
  MaxGames, MaxPending,     \* bounds: games played, callbacks of a kind
                            \* outstanding, and
  MaxAnswers                \* answers per game, for either kind of player

ASSUME VelocityAssumption ==
  /\ NoCard \notin Cards
  /\ Queues \subseteq Seq(Cards) \ {<<>>}
  /\ Gap \in Nat \ {0} /\ Hearts \in Nat \ {0} /\ LastDest \in Nat \ {0}
  /\ LegLength \in [0..LastDest -> Nat \ {0}]
  /\ Patience \subseteq BOOLEAN

Least(a, b) == IF a <= b THEN a ELSE b
Greatest(a, b) == IF a <= b THEN b ELSE a

VARIABLES
  mode,                     \* "velocity", or "other" for any other mode
  view,                     \* what #view shows
  velo,                     \* the game; NoGame is null
  timer,                    \* veloTimer is set
  fx,                       \* veloFx is set
  pending,                  \* outstanding callbacks, how many of each
  reached,                  \* reachedIdx of the scope's stored progress
  games,                    \* history: games started,
  threw,                    \* and an answer has thrown
  patient                   \* the player touches nothing during feedback

vars == <<mode, view, velo, timer, fx, pending, reached, games, threw, patient>>

Callbacks == [what: {"advance", "miss", "recover"}, gloss: BOOLEAN]
               \cup [what: {"death", "crash", "landed"}, gloss: {FALSE}]

Question == [card: Cards \cup {NoCard}, kind: {"none", "mc", "recall", "gloss"}, skip: BOOLEAN]
NoQuestion == [card |-> NoCard, kind |-> "none", skip |-> FALSE]

NoGame == [queue |-> <<>>, pos |-> 0, zen |-> FALSE, hearts |-> 0, leg |-> 0, legCost |-> 0,
           target |-> 0, answered |-> 0, q |-> NoQuestion, lastGloss |-> FALSE,
           locked |-> FALSE, over |-> FALSE, won |-> FALSE, missed |-> {}, banks |-> 0]

Playing == velo # NoGame
OutOfLives(w) == ~w.zen /\ w.hearts <= 0
Outstanding == {cb \in Callbacks : pending[cb] > 0}

\* The player may act on the page.
Free == patient => Outstanding = {}

-----------------------------------------------------------------------------
(* renderVelocity, with the game as it stands in w.                        *)

\* veloGlossQuestion is tried by chance, never twice in a row and not before
\* two answers; otherwise the card's question is kept if it was the last one
\* asked, or made anew (veloQuestion).
NextQuestions(w) ==
  LET c == w.queue[w.pos + 1]
      gloss == {q \in Question : q.kind = "gloss" /\ ~q.skip}
      fresh == {q \in Question : q.card = c /\ q.kind \in {"mc", "recall"} /\ ~q.skip}
  IN  (IF ~w.lastGloss /\ w.answered >= 2 THEN gloss ELSE {})
        \cup (IF w.q.card = c /\ w.q.kind # "gloss" THEN {w.q} ELSE fresh)

DrawLanding(w) ==
  /\ w = NoGame
  /\ velo' = w /\ view' = "landing" /\ timer' = FALSE /\ fx' = FALSE

\* A slip: the summary leaves the round's timer running.
DrawDoneTimerOn(w) ==
  velo' = w /\ view' = "done" /\ timer' = timer /\ fx' = FALSE

\* renderVeloDone
DrawDone(w) ==
  velo' = w /\ view' = "done" /\ timer' = FALSE /\ fx' = FALSE

DrawRound(w) ==
  /\ w # NoGame /\ ~w.over /\ w.pos < Len(w.queue)
  /\ \E q \in NextQuestions(w) :
       velo' = [w EXCEPT !.q = q, !.lastGloss = (q.kind = "gloss"), !.locked = FALSE]
  /\ view' = "round" /\ timer' = ~w.zen /\ fx' = TRUE

Render(w) ==
  \/ DrawLanding(w)
  \/ w # NoGame /\ (w.over \/ w.pos >= Len(w.queue)) /\ DrawDone(w)
  \/ DrawRound(w)

-----------------------------------------------------------------------------
Init ==
  /\ mode = "velocity" /\ view = "landing"
  /\ velo = NoGame
  /\ timer = FALSE /\ fx = FALSE
  /\ pending = [cb \in Callbacks |-> 0]
  /\ reached \in -1..LastDest
  /\ games = 0 /\ threw = FALSE
  /\ patient \in Patience

\* veloNextTargetIdx
NextTarget == Least(LastDest, Greatest(1, reached + 1))

\* #veloStart
Start(queue, zen) ==
  /\ view = "landing" /\ ~Playing /\ Free
  /\ games < MaxGames
  /\ Render([NoGame EXCEPT !.queue = queue, !.zen = zen, !.hearts = Hearts,
                           !.target = NextTarget,
                           !.legCost = Least(LegLength[NextTarget], Len(queue))])
  /\ games' = games + 1
  /\ UNCHANGED <<mode, pending, reached, threw, patient>>

\* A slip: a timeout is treated like a card that was passed.
OutcomeTimeoutPasses(w, said) ==
  LET q == w.q
      at == Least(Len(w.queue), w.pos + Gap)
  IN  IF said = "right" /\ ~q.skip
      THEN [w EXCEPT !.leg = @ + 1, !.missed = @ \ {q.card}]
      ELSE [w EXCEPT !.hearts = IF w.zen THEN @ ELSE @ - 1,
                     !.q.skip = @ \/ said = "skip",
                     !.missed = IF q.card = NoCard THEN @ ELSE @ \cup {q.card},
                     !.queue = IF q.card = NoCard \/ said = "time" THEN @
                               ELSE SubSeq(@, 1, at) \o <<q.card>> \o SubSeq(@, at + 1, Len(@))]

\* What veloAnswer does to the game before the callback it schedules: a right
\* answer to a question that was not skipped earns a leg; anything else costs
\* a heart and puts the question's card Gap places back.
Outcome(w, said) ==
  LET q == w.q
      at == Least(Len(w.queue), w.pos + Gap)
  IN  IF said = "right" /\ ~q.skip
      THEN [w EXCEPT !.leg = @ + 1, !.missed = @ \ {q.card}]
      ELSE [w EXCEPT !.hearts = IF w.zen THEN @ ELSE @ - 1,
                     !.q.skip = @ \/ said = "skip",
                     !.missed = IF q.card = NoCard THEN @ ELSE @ \cup {q.card},
                     !.queue = IF q.card = NoCard THEN @
                               ELSE SubSeq(@, 1, at) \o <<q.card>> \o SubSeq(@, at + 1, Len(@))]

\* A slip: the lives are counted before the heart is taken.
FeedbackBeforeHeart(w, said) ==
  IF said = "right" /\ ~w.q.skip THEN "advance"
  ELSE IF OutOfLives(w) THEN "death" ELSE "miss"

\* The callback veloAnswer schedules for that outcome.
Feedback(w, said) ==
  IF said = "right" /\ ~w.q.skip THEN "advance"
  ELSE IF OutOfLives(Outcome(w, said)) THEN "death" ELSE "miss"

Schedule(what) ==
  LET cb == [what |-> what, gloss |-> velo.q.kind = "gloss" /\ what # "death"]
  IN  /\ pending[cb] < MaxPending
      /\ pending' = [pending EXCEPT ![cb] = @ + 1]

\* The player's answer can be heard: a tile, the form or the skip button.
Hears(said) ==
  CASE said = "skip" -> Free /\ velo.q.kind \in {"recall", "gloss"}
    [] said = "time" -> timer /\ mode = "velocity"
    [] OTHER -> Free

\* veloAnswer, up to the callback it leaves behind.
Answer(said) ==
  /\ view = "round" /\ Playing /\ ~velo.locked
  /\ Hears(said)
  /\ velo.answered < MaxAnswers[patient]
  /\ LET w == [velo EXCEPT !.locked = TRUE, !.answered = @ + 1] IN
       \/ /\ velo' = Outcome(w, said) /\ Schedule(Feedback(velo, said))
          /\ UNCHANGED threw
       \/ /\ threw' = TRUE
          /\ velo' \in {w, Outcome(w, said)} /\ Schedule("recover")
  /\ timer' = FALSE
  /\ UNCHANGED <<mode, view, fx, reached, games, patient>>

\* The interval finds another mode and stops itself.
TimerStops ==
  /\ timer /\ mode # "velocity"
  /\ timer' = FALSE
  /\ UNCHANGED <<mode, view, velo, fx, pending, reached, games, threw, patient>>

-----------------------------------------------------------------------------
(* The callbacks.  One that dereferences a null `velo` throws and is lost. *)

Consume(cb) == pending[cb] > 0 /\ pending' = [pending EXCEPT ![cb] = @ - 1]
Lost == UNCHANGED <<mode, view, velo, timer, fx, reached, games, threw, patient>>

\* The card is passed, unless the round was a glossary interstitial.
Passed(gloss) == IF gloss THEN velo ELSE [velo EXCEPT !.pos = @ + 1]

\* A slip: a game can be won again when it is resumed after its victory.
WinsAgain(w) == ~w.over /\ (w.leg >= w.legCost \/ w.pos >= Len(w.queue))

\* The round is won once: when the leg or the queue is through.
Wins(w) == ~w.over /\ ~w.won /\ (w.leg >= w.legCost \/ w.pos >= Len(w.queue))

\* After a right answer.  On a win, veloReachWaypoint banks the target and the
\* victory sequence, if there is a canvas for it, leads to the summary later.
Advance(gloss) ==
  LET cb == [what |-> "advance", gloss |-> gloss]
      w == Passed(gloss)
      winner == [w EXCEPT !.won = TRUE, !.banks = @ + 1]
      landed == [what |-> "landed", gloss |-> FALSE]
  IN  /\ pending[cb] > 0
      /\ \/ ~Playing /\ Consume(cb) /\ Lost
         \/ /\ Playing /\ Wins(w)
            /\ reached' = Greatest(reached, w.target)
            /\ \/ /\ fx
                  /\ pending' = [pending EXCEPT ![cb] = @ - 1, ![landed] = @ + 1]
                  /\ velo' = winner /\ UNCHANGED <<view, timer, fx>>
               \/ ~fx /\ Consume(cb) /\ DrawDone(winner)
            /\ UNCHANGED <<mode, games, threw, patient>>
         \/ /\ Playing /\ ~Wins(w)
            /\ Consume(cb) /\ Render(w)
            /\ UNCHANGED <<mode, reached, games, threw, patient>>

Miss(gloss) ==
  /\ Consume([what |-> "miss", gloss |-> gloss])
  /\ \/ ~Playing /\ ~gloss /\ Lost
     \/ /\ Playing \/ gloss
        /\ Render(Passed(gloss))
        /\ UNCHANGED <<mode, reached, games, threw, patient>>

\* A slip: the error is swallowed and nothing else is done.
RecoverNothing(gloss) ==
  Consume([what |-> "recover", gloss |-> gloss]) /\ Lost

\* The catch block's callback.
Recover(gloss) ==
  /\ Consume([what |-> "recover", gloss |-> gloss])
  /\ \/ ~(Playing /\ mode = "velocity") /\ Lost
     \/ /\ Playing /\ mode = "velocity"
        /\ Render(Passed(gloss))
        /\ UNCHANGED <<mode, reached, games, threw, patient>>

\* veloDeathSequence: the animation runs if there is a canvas, and ends in
\* `finish` (Crash); without one `finish` runs at once.
Death ==
  LET cb == [what |-> "death", gloss |-> FALSE]
      crash == [what |-> "crash", gloss |-> FALSE]
  IN  /\ pending[cb] > 0
      /\ \/ ~Playing /\ Consume(cb) /\ Lost
         \/ /\ Playing /\ fx
            /\ pending' = [pending EXCEPT ![cb] = @ - 1, ![crash] = @ + 1]
            /\ Lost
         \/ /\ Playing /\ ~fx
            /\ Consume(cb) /\ Render([velo EXCEPT !.over = TRUE])
            /\ UNCHANGED <<mode, reached, games, threw, patient>>

\* A slip: the end of the animation is ignored when another mode is shown.
CrashIfWatched ==
  /\ Consume([what |-> "crash", gloss |-> FALSE])
  /\ \/ ~(Playing /\ mode = "velocity") /\ Lost
     \/ /\ Playing /\ mode = "velocity"
        /\ Render([velo EXCEPT !.over = TRUE])
        /\ UNCHANGED <<mode, reached, games, threw, patient>>

\* `finish`: the round is over, whatever mode is shown by now.
Crash ==
  /\ Consume([what |-> "crash", gloss |-> FALSE])
  /\ \/ ~Playing /\ Lost
     \/ /\ Playing
        /\ Render([velo EXCEPT !.over = TRUE])
        /\ UNCHANGED <<mode, reached, games, threw, patient>>

\* `finish` of veloVictorySequence: the summary, with the game left open.
Landed ==
  /\ Consume([what |-> "landed", gloss |-> FALSE])
  /\ \/ ~Playing /\ Lost
     \/ Playing /\ DrawDone(velo) /\ UNCHANGED <<mode, reached, games, threw, patient>>

Fire ==
  \/ \E gloss \in BOOLEAN : Advance(gloss) \/ Miss(gloss) \/ Recover(gloss)
  \/ Death \/ Crash \/ Landed

-----------------------------------------------------------------------------
(* The rest of the page.                                                   *)

\* #veloQuit, "End game".
Quit ==
  /\ view = "round" /\ Playing /\ Free
  /\ Render([velo EXCEPT !.over = TRUE])
  /\ UNCHANGED <<mode, pending, reached, games, threw, patient>>

\* #veloAgain on the summary.
Again ==
  /\ view = "done" /\ Free
  /\ Render(NoGame)
  /\ UNCHANGED <<mode, pending, reached, games, threw, patient>>

\* setMode to another mode, from a tab or from #veloReview, which drops the
\* game.  The round's timer and callbacks stay.
Leave ==
  /\ Free
  /\ velo' \in {velo} \cup (IF view = "done" THEN {NoGame} ELSE {})
  /\ mode' = "other" /\ view' = "other"
  /\ UNCHANGED <<timer, fx, pending, reached, games, threw, patient>>

\* The Velocity tab, from another mode or from Velocity itself.
VelocityTab ==
  /\ Free
  /\ mode' = "velocity"
  /\ Render(velo)
  /\ UNCHANGED <<pending, reached, games, threw, patient>>

Next ==
  \/ \E queue \in Queues, zen \in BOOLEAN : Start(queue, zen)
  \/ \E said \in {"right", "wrong", "skip", "time"} : Answer(said)
  \/ TimerStops
  \/ Fire
  \/ Quit \/ Again \/ Leave \/ VelocityTab

Spec == Init /\ [][Next]_vars

\* setTimeout fires every callback in the end.
Fairness ==
  /\ \A gloss \in BOOLEAN : WF_vars(Advance(gloss)) /\ WF_vars(Miss(gloss)) /\ WF_vars(Recover(gloss))
  /\ WF_vars(Death) /\ WF_vars(Crash) /\ WF_vars(Landed)

FairSpec == Spec /\ Fairness

-----------------------------------------------------------------------------
Game == [queue: Seq(Cards), pos: Nat, zen: BOOLEAN, hearts: Int, leg: Nat, legCost: Nat,
         target: 0..LastDest, answered: Nat, q: Question, lastGloss: BOOLEAN, locked: BOOLEAN,
         over: BOOLEAN, won: BOOLEAN, missed: SUBSET Cards, banks: Nat]

TypeOK ==
  /\ mode \in {"velocity", "other"}
  /\ view \in {"landing", "round", "done", "other"}
  /\ velo \in Game /\ (Playing => velo.target >= 1)
  /\ timer \in BOOLEAN /\ fx \in BOOLEAN
  /\ pending \in [Callbacks -> Nat]
  /\ reached \in -1..LastDest
  /\ games \in Nat /\ threw \in BOOLEAN /\ patient \in BOOLEAN

\* The interval that calls veloAnswer(-1) runs only for a question that is
\* open: a game is on, with lives, and the question is not answered.  It never
\* takes a heart from a zen round or from a finished one.
TimerOnlyOnOpenQuestion ==
  timer => Playing /\ ~velo.zen /\ ~velo.locked /\ ~velo.over

\* However the callbacks, the tabs and the games overlap, one game banks its
\* waypoint at most once (_wonFx).
BankedOncePerGame == velo.banks <= 1

\* A round without lives is over or has its end under way: some death or
\* crash callback is still to come.
OutOfLivesIsEnding ==
  Playing /\ OutOfLives(velo) =>
    velo.over \/ \E cb \in Outstanding : cb.what \in {"death", "crash"}

\* A round is sound whatever overlaps: of its types, with its timer on an open
\* question only, and, unless an answer threw, with an end to come when it is out
\* of lives.
RoundSound == TypeOK /\ TimerOnlyOnOpenQuestion /\ (~threw => OutOfLivesIsEnding)

\* For a patient player a card whose last answer was a miss is still ahead in
\* the queue when the next question is shown, as long as no answer has thrown.
MissedStillQueued ==
  patient /\ ~threw /\ ~velo.locked => \A c \in velo.missed :
    \E j \in velo.pos + 1 .. Len(velo.queue) : velo.queue[j] = c

\* veloVictorySequence is "played on a genuine round CLEAR (queue exhausted,
\* lives remaining)": for a patient player, and as long as no answer has thrown,
\* a waypoint is banked for answers, not for elapsed questions, and by a ship
\* with lives.  (A tab pressed during
\* the death sequence reopens the question, and the right answer then banks
\* it.)
WaypointEarned ==
  [][patient /\ ~threw /\ velo'.banks > velo.banks
       => ~OutOfLives(velo) /\ velo'.leg >= velo'.legCost]_vars

\* "never hard-lock: recover and advance": a locked question in Velocity does
\* not stay, even when veloAnswer throws.
NeverHardLocked ==
  (mode = "velocity" /\ view = "round" /\ velo.locked)
    ~> ~(mode = "velocity" /\ view = "round" /\ velo.locked)

\* "timeout guarantees we reach the summary": once its death is under way, a
\* round is over in the end, whichever mode is shown and whatever is pressed.
DeathReachesSummary ==
  (Playing /\ \E cb \in Outstanding : cb.what \in {"death", "crash"})
    ~> (~Playing \/ velo.over)
=============================================================================
