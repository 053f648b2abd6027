------------------------ MODULE VelocityRoundProofs ------------------------
(***************************************************************************)
(* Proofs about the Velocity game: for any queue, number of hearts and     *)
(* legs, and any number of games, answers and outstanding callbacks.       *)
(***************************************************************************)
EXTENDS VelocityRound, SequenceTheorems, TLAPS

\* What a game is, whoever plays it: of its types, with something to ask, and
\* banked when it is won and only then.
GameSound(w) ==
  /\ w \in Game
  /\ w.banks = IF w.won THEN 1 ELSE 0
  /\ w # NoGame => w.queue # <<>> /\ w.target >= 1
  /\ w.q.kind = "none" => w.q.card = NoCard

\* A question was drawn for it.
Asked(w) ==
  w # NoGame => w.q.kind = "gloss" \/ (w.q.kind # "none" /\ w.q.card \in Cards)

\* The card on turn is the one asked.
OnTurn(w) ==
  w.pos < Len(w.queue) /\ (w.q.kind = "gloss" \/ w.queue[w.pos + 1] = w.q.card)

\* Another mode hides the round and leaves its timer running; the summary and
\* the landing page do not.
TimerOnScreen == timer => view \in {"round", "other"}

VelocityInv ==
  /\ TypeOK
  /\ TimerOnlyOnOpenQuestion
  /\ TimerOnScreen
  /\ GameSound(velo) /\ Asked(velo)

-----------------------------------------------------------------------------
(* Helpers.                                                                *)

LEMMA QueueMeansPlaying ==
  ASSUME NEW w, w.queue # <<>>
  PROVE  w # NoGame
BY DEF NoGame

LEMMA NoGameSound == GameSound(NoGame) /\ Asked(NoGame)
<1>1. NoGame \in Game
  BY VelocityAssumption DEF NoGame, Game, NoQuestion, Question
<1>2. QED
  BY <1>1 DEF GameSound, Asked, NoGame, NoQuestion

\* A card put into a queue: what is before it stays, what is behind it moves.
Inserted(s, at, c) == SubSeq(s, 1, at) \o <<c>> \o SubSeq(s, at + 1, Len(s))

LEMMA InsertedCard ==
  ASSUME NEW s \in Seq(Cards), NEW c \in Cards, NEW at \in 0..Len(s)
  PROVE  /\ Inserted(s, at, c) \in Seq(Cards)
         /\ Len(Inserted(s, at, c)) = Len(s) + 1
         /\ \A i \in 1..at : Inserted(s, at, c)[i] = s[i]
         /\ Inserted(s, at, c)[at + 1] = c
         /\ \A i \in at + 1 .. Len(s) : Inserted(s, at, c)[i + 1] = s[i]
<1> DEFINE front == SubSeq(s, 1, at)
           back == SubSeq(s, at + 1, Len(s))
<1>1. front \in Seq(Cards) /\ Len(front) = at /\ \A i \in 1..at : front[i] = s[i]
  BY SubSeqProperties
<1>2. back \in Seq(Cards) /\ Len(back) = Len(s) - at
      /\ \A i \in 1 .. Len(s) - at : back[i] = s[at + i]
  BY SubSeqProperties
<1> HIDE DEF front, back
<1> DEFINE mid == front \o <<c>>
<1>3. mid \in Seq(Cards) /\ Len(mid) = at + 1 /\ mid[at + 1] = c
      /\ \A i \in 1..at : mid[i] = s[i]
  BY <1>1
<1> HIDE DEF mid
<1>4. mid \o back \in Seq(Cards) /\ Len(mid \o back) = Len(s) + 1
      /\ (\A i \in 1 .. at + 1 : (mid \o back)[i] = mid[i])
      /\ \A i \in at + 1 .. Len(s) : (mid \o back)[i + 1] = s[i]
  <2>1. mid \o back \in Seq(Cards) /\ Len(mid \o back) = Len(s) + 1
    BY <1>2, <1>3
  <2>2. ASSUME NEW i \in 1 .. at + 1 PROVE (mid \o back)[i] = mid[i]
    BY <1>2, <1>3, SMTT(30)
  <2>3. ASSUME NEW i \in at + 1 .. Len(s) PROVE (mid \o back)[i + 1] = s[i]
    <3>1. i - at \in 1 .. Len(s) - at /\ i + 1 = (at + 1) + (i - at)
      OBVIOUS
    <3>2. (mid \o back)[(at + 1) + (i - at)] = back[i - at]
      BY <1>2, <1>3, <3>1, SMTT(30)
    <3>3. at + (i - at) = i
      OBVIOUS
    <3>4. QED
      BY <1>2, <3>1, <3>2, <3>3
  <2>4. QED
    BY <2>1, <2>2, <2>3
<1>5. Inserted(s, at, c) = mid \o back
  BY DEF Inserted, mid, front, back
<1>6. QED
  BY <1>3, <1>4, <1>5

-----------------------------------------------------------------------------
(* Drawing.                                                                *)

\* What drawing leaves alone: all but the question and its lock.
SameGame(v, w) ==
  /\ v.queue = w.queue /\ v.pos = w.pos /\ v.zen = w.zen /\ v.hearts = w.hearts
  /\ v.leg = w.leg /\ v.legCost = w.legCost /\ v.target = w.target
  /\ v.over = w.over /\ v.won = w.won /\ v.missed = w.missed /\ v.banks = w.banks

\* renderVelocity, whatever game it finds: the timer it leaves is that of an
\* open question, and a question is opened only if it is the one on turn.
LEMMA RenderDraws ==
  ASSUME NEW w, GameSound(w), Asked(w) \/ (~w.over /\ w.pos < Len(w.queue)), Render(w)
  PROVE  /\ GameSound(velo') /\ Asked(velo') /\ SameGame(velo', w)
         /\ velo' = NoGame <=> w = NoGame
         /\ \/ velo' = w /\ (w = NoGame \/ w.over \/ w.pos >= Len(w.queue))
            \/ ~w.over /\ ~velo'.locked /\ OnTurn(velo')
         /\ view' \in {"landing", "round", "done"} /\ timer' \in BOOLEAN /\ fx' \in BOOLEAN
         /\ TimerOnlyOnOpenQuestion' /\ TimerOnScreen'
<1>1. CASE DrawLanding(w)
  BY <1>1, NoGameSound DEF DrawLanding, SameGame, TimerOnlyOnOpenQuestion, TimerOnScreen
<1>2. CASE w # NoGame /\ (w.over \/ w.pos >= Len(w.queue)) /\ DrawDone(w)
  <2>1. Asked(w)
    BY <1>2 DEF GameSound, Game
  <2>2. QED
    BY <1>2, <2>1 DEF DrawDone, SameGame, TimerOnlyOnOpenQuestion, TimerOnScreen
<1>3. CASE DrawRound(w)
  <2>1. PICK q \in NextQuestions(w) :
          velo' = [w EXCEPT !.q = q, !.lastGloss = (q.kind = "gloss"), !.locked = FALSE]
    BY <1>3 DEF DrawRound
  <2>2. w \in Game /\ w.queue # <<>> /\ w.target >= 1 /\ w.pos < Len(w.queue) /\ ~w.over
    BY <1>3 DEF DrawRound, GameSound
  <2>3. w.queue[w.pos + 1] \in Cards
    BY <2>2 DEF Game
  <2>4. /\ q \in Question
        /\ q.kind = "gloss" \/ (q.kind # "none" /\ q.card = w.queue[w.pos + 1])
    <3>1. w.q \in Question /\ (w.q.kind = "none" => w.q.card \notin Cards)
      BY <2>2, VelocityAssumption DEF Game, GameSound
    <3>2. QED
      BY <2>1, <2>3, <3>1 DEF NextQuestions
  <2>5. velo' \in Game /\ SameGame(velo', w) /\ velo'.q = q /\ ~velo'.locked
    BY <2>1, <2>2, <2>4 DEF Game, SameGame
  <2>6. velo' # NoGame /\ w # NoGame
    BY <2>2, <2>5, QueueMeansPlaying DEF SameGame
  <2>7. GameSound(velo') /\ Asked(velo') /\ OnTurn(velo')
    BY <2>2, <2>3, <2>4, <2>5, <2>6 DEF GameSound, Asked, OnTurn, SameGame
  <2>8. TimerOnlyOnOpenQuestion' /\ TimerOnScreen'
    BY <1>3, <2>2, <2>5, <2>6 DEF DrawRound, TimerOnlyOnOpenQuestion, TimerOnScreen, Playing, SameGame
  <2>9. view' = "round" /\ timer' \in BOOLEAN /\ fx' \in BOOLEAN
    BY <1>3, <2>2 DEF DrawRound, Game
  <2>10. QED
    BY <2>2, <2>5, <2>6, <2>7, <2>8, <2>9
<1>4. QED
  BY <1>1, <1>2, <1>3 DEF Render

-----------------------------------------------------------------------------
(* What a game becomes.                                                    *)

\* The part of the game no callback touches before the next drawing.
SameRound(v, w) ==
  /\ v.zen = w.zen /\ v.legCost = w.legCost /\ v.target = w.target
  /\ v.over = w.over /\ v.locked = w.locked
  /\ v.q.kind = w.q.kind /\ v.q.card = w.q.card

\* The two outcomes: a leg is earned, or a heart may be lost and the card of
\* the question comes back.
LegEarned(o, w) ==
  /\ o.leg = w.leg + 1 /\ o.queue = w.queue /\ o.hearts = w.hearts
  /\ o.missed = w.missed \ {w.q.card}

CardReturns(o, w) ==
  /\ o.leg = w.leg /\ o.hearts = IF w.zen THEN w.hearts ELSE w.hearts - 1
  /\ \/ w.q.card = NoCard /\ o.queue = w.queue /\ o.missed = w.missed
     \/ /\ w.q.card \in Cards
        /\ o.queue = Inserted(w.queue, Least(Len(w.queue), w.pos + Gap), w.q.card)
        /\ o.missed = w.missed \cup {w.q.card}

LEMMA OutcomeOfAnswer ==
  ASSUME NEW w, GameSound(w), Asked(w), w # NoGame, NEW said \in {"right", "wrong", "skip", "time"},
         NEW o, o = Outcome(w, said)
  PROVE  /\ GameSound(o) /\ Asked(o) /\ o # NoGame
         /\ SameRound(o, w) /\ o.pos = w.pos /\ o.banks = w.banks
         /\ IF said = "right" /\ ~w.q.skip THEN LegEarned(o, w) ELSE CardReturns(o, w)
<1> DEFINE at == Least(Len(w.queue), w.pos + Gap)
<1>1. w \in Game /\ w.queue \in Seq(Cards) /\ w.queue # <<>> /\ w.q \in Question /\ w.missed \subseteq Cards
  BY DEF GameSound, Game
<1>2. at \in 0..Len(w.queue)
  BY <1>1, VelocityAssumption, SMTT(30) DEF Least, Game
<1> HIDE DEF at
<1>3. CASE said = "right" /\ ~w.q.skip
  <2> DEFINE missed == w.missed \ {w.q.card}
             leg == w.leg + 1
  <2>1. o = [w EXCEPT !.leg = leg, !.missed = missed]
    BY <1>1, <1>3 DEF Outcome, Game
  <2>2. o \in Game
    <3>1. missed \in SUBSET Cards /\ leg \in Nat
      BY <1>1 DEF Game
    <3> HIDE DEF missed, leg
    <3>2. QED
      BY <1>1, <2>1, <3>1 DEF Game
  <2>3. /\ o.leg = w.leg + 1 /\ o.queue = w.queue /\ o.hearts = w.hearts /\ o.pos = w.pos
        /\ o.missed = w.missed \ {w.q.card} /\ o.q = w.q /\ o.banks = w.banks /\ o.won = w.won
        /\ SameRound(o, w)
    BY <1>1, <2>1 DEF Game, SameRound
  <2>4. QED
    BY <1>1, <1>3, <2>2, <2>3, QueueMeansPlaying DEF GameSound, Asked, SameRound, LegEarned
<1>4. CASE ~(said = "right" /\ ~w.q.skip)
  <2> DEFINE queue == IF w.q.card = NoCard THEN w.queue ELSE Inserted(w.queue, at, w.q.card)
             missed == IF w.q.card = NoCard THEN w.missed ELSE w.missed \cup {w.q.card}
             hearts == IF w.zen THEN w.hearts ELSE w.hearts - 1
             skip == w.q.skip \/ said = "skip"
  <2>1. o = [w EXCEPT !.hearts = hearts, !.q = [w.q EXCEPT !.skip = skip], !.missed = missed,
                      !.queue = queue]
    BY <1>1, <1>4 DEF Outcome, Inserted, at, Game
  <2>2. w.q.card \in Cards \/ w.q.card = NoCard
    BY <1>1 DEF Question
  <2>3. queue \in Seq(Cards) /\ queue # <<>>
    <3>1. CASE w.q.card = NoCard
      BY <1>1, <3>1
    <3>2. CASE w.q.card \in Cards /\ w.q.card # NoCard
      <4> DEFINE long == Inserted(w.queue, at, w.q.card)
      <4>1. long \in Seq(Cards) /\ Len(long) = Len(w.queue) + 1
        BY <1>1, <1>2, <3>2, InsertedCard, ZenonT(30)
      <4>2. queue = long
        BY <3>2
      <4> HIDE DEF long, queue
      <4>3. Len(w.queue) \in Nat
        BY <1>1
      <4>4. QED
        BY <4>1, <4>2, <4>3
    <3>3. QED
      BY <2>2, <3>1, <3>2
  <2>4. missed \subseteq Cards /\ hearts \in Int /\ skip \in BOOLEAN
    BY <1>1, <2>2 DEF Game, Question
  <2>5. [w.q EXCEPT !.skip = skip] \in Question /\ [w.q EXCEPT !.skip = skip].kind = w.q.kind
        /\ [w.q EXCEPT !.skip = skip].card = w.q.card
    BY <1>1, <2>4 DEF Question
  <2>6. w.q.card = NoCard => queue = w.queue /\ missed = w.missed
    OBVIOUS
  <2>7. w.q.card \in Cards => /\ queue = Inserted(w.queue, at, w.q.card)
                              /\ missed = w.missed \cup {w.q.card}
    BY VelocityAssumption
  <2> HIDE DEF queue, missed, hearts, skip
  <2>8. o \in Game
    BY <1>1, <2>1, <2>3, <2>4, <2>5, ZenonT(30) DEF Game
  <2>9. /\ o.leg = w.leg /\ o.hearts = hearts /\ o.queue = queue /\ o.pos = w.pos /\ o.missed = missed
        /\ o.q.kind = w.q.kind /\ o.q.card = w.q.card /\ o.banks = w.banks /\ o.won = w.won
        /\ SameRound(o, w)
    BY <1>1, <2>1, <2>5 DEF Game, SameRound
  <2>10. GameSound(o) /\ Asked(o) /\ o # NoGame
    BY <2>3, <2>8, <2>9, QueueMeansPlaying DEF GameSound, Asked, SameRound
  <2>11. CardReturns(o, w)
    BY <2>2, <2>6, <2>7, <2>9 DEF at, hearts, CardReturns
  <2>12. QED
    BY <1>4, <2>9, <2>10, <2>11
<1>5. QED
  BY <1>3, <1>4

\* A card that is passed, a round that is over, and one that is won.
LEMMA PassedSound ==
  ASSUME GameSound(velo), Asked(velo), Playing, NEW gloss \in BOOLEAN
  PROVE  /\ GameSound(Passed(gloss)) /\ Asked(Passed(gloss)) /\ Passed(gloss) # NoGame
         /\ SameGame(Passed(gloss), [velo EXCEPT !.pos = IF gloss THEN @ ELSE @ + 1])
         /\ Passed(gloss).locked = velo.locked /\ Passed(gloss).q = velo.q
<1>1. velo \in Game /\ velo.queue # <<>>
  BY DEF GameSound, Playing
<1>2. Passed(gloss) \in Game /\ Passed(gloss).queue = velo.queue
  <2>1. CASE gloss
    BY <1>1, <2>1 DEF Passed
  <2>2. CASE ~gloss
    <3> DEFINE pos == velo.pos + 1
    <3>1. pos \in Nat
      BY <1>1 DEF Game
    <3>2. Passed(gloss) = [velo EXCEPT !.pos = pos]
      BY <2>2 DEF Passed
    <3> HIDE DEF pos
    <3>3. QED
      BY <1>1, <3>1, <3>2 DEF Game
  <2>3. QED
    BY <2>1, <2>2
<1>3. Passed(gloss) # NoGame
  BY <1>1, <1>2, QueueMeansPlaying
<1>4. QED
  BY <1>1, <1>2, <1>3 DEF Passed, Game, GameSound, Asked, SameGame, Playing

LEMMA OverSound ==
  ASSUME GameSound(velo), Asked(velo), Playing, NEW w, w = [velo EXCEPT !.over = TRUE]
  PROVE  /\ GameSound(w) /\ Asked(w) /\ w # NoGame /\ w.over
         /\ w.banks = velo.banks /\ w.queue = velo.queue /\ w.pos = velo.pos /\ w.q = velo.q
         /\ w.leg = velo.leg /\ w.legCost = velo.legCost /\ w.missed = velo.missed
         /\ w.locked = velo.locked
<1>1. velo \in Game /\ velo.queue # <<>>
  BY DEF GameSound, Playing
<1>2. w \in Game /\ w.queue = velo.queue
  BY <1>1 DEF Game
<1>3. w # NoGame
  BY <1>1, <1>2, QueueMeansPlaying
<1>4. QED
  BY <1>1, <1>2, <1>3 DEF Game, GameSound, Asked, Playing

-----------------------------------------------------------------------------
(* Every step keeps the invariant.                                         *)

\* What a drawing step leaves besides the drawing.
Around ==
  /\ mode \in {"velocity", "other"}
  /\ pending \in [Callbacks -> Nat]
  /\ reached \in -1..LastDest
  /\ games \in Nat /\ threw \in BOOLEAN /\ patient \in BOOLEAN

LEMMA DrawingStep ==
  ASSUME Around', NEW w, GameSound(w), Asked(w) \/ (~w.over /\ w.pos < Len(w.queue)), Render(w)
  PROVE  VelocityInv'
<1>1. /\ GameSound(velo') /\ Asked(velo')
      /\ view' \in {"landing", "round", "done"} /\ timer' \in BOOLEAN /\ fx' \in BOOLEAN
      /\ TimerOnlyOnOpenQuestion' /\ TimerOnScreen'
  BY RenderDraws
<1>2. QED
  BY <1>1 DEF VelocityInv, TypeOK, Around, GameSound, Asked, Playing

LEMMA Consumed ==
  ASSUME pending \in [Callbacks -> Nat], NEW cb \in Callbacks, Consume(cb)
  PROVE  pending' \in [Callbacks -> Nat]
BY DEF Consume

\* The game a start begins with.
LEMMA StartingGame ==
  ASSUME VelocityInv, NEW queue \in Queues, NEW zen \in BOOLEAN, NEW w,
         w = [NoGame EXCEPT !.queue = queue, !.zen = zen, !.hearts = Hearts, !.target = NextTarget,
                            !.legCost = Least(LegLength[NextTarget], Len(queue))]
  PROVE  GameSound(w) /\ ~w.over /\ w.pos < Len(w.queue) /\ w.banks = 0
<1> DEFINE leg == Least(LegLength[NextTarget], Len(queue))
<1>2. queue \in Seq(Cards) /\ queue # <<>> /\ Len(queue) > 0
  BY VelocityAssumption
<1>3. NextTarget \in 1..LastDest
  BY VelocityAssumption DEF VelocityInv, TypeOK, NextTarget, Least, Greatest
<1>4. leg \in Nat /\ Hearts \in Int
  <2>1. LegLength[NextTarget] \in Nat
    BY <1>3, VelocityAssumption
  <2>2. QED
    BY <1>2, <2>1, VelocityAssumption DEF Least
<1> HIDE DEF leg
<1>5. w = [NoGame EXCEPT !.queue = queue, !.zen = zen, !.hearts = Hearts, !.target = NextTarget,
                         !.legCost = leg]
  BY DEF leg
<1>6. w \in Game
  <2>1. NoGame \in Game
    BY NoGameSound DEF GameSound
  <2>2. NextTarget \in 0..LastDest
    BY <1>3, VelocityAssumption
  <2>3. QED
    BY <1>2, <1>4, <1>5, <2>1, <2>2 DEF Game
<1>7. /\ w.queue = queue /\ w.target >= 1 /\ ~w.over /\ w.pos = 0 /\ w.banks = 0 /\ ~w.won
      /\ w.q = NoQuestion
  BY <1>3, <1>5 DEF NoGame
<1>8. QED
  BY <1>2, <1>6, <1>7 DEF GameSound, NoQuestion

LEMMA StartStep ==
  ASSUME VelocityInv, NEW queue \in Queues, NEW zen \in BOOLEAN, Start(queue, zen)
  PROVE  VelocityInv'
<1> DEFINE w == [NoGame EXCEPT !.queue = queue, !.zen = zen, !.hearts = Hearts, !.target = NextTarget,
                               !.legCost = Least(LegLength[NextTarget], Len(queue))]
<1>1. Render(w)
  BY DEF Start
<1>2. GameSound(w) /\ ~w.over /\ w.pos < Len(w.queue)
  BY StartingGame
<1>3. Around'
  BY DEF Start, VelocityInv, TypeOK, Around
<1> HIDE DEF w
<1>4. QED
  BY <1>1, <1>2, <1>3, DrawingStep

LEMMA AnswerStep ==
  ASSUME VelocityInv, NEW said \in {"right", "wrong", "skip", "time"}, Answer(said)
  PROVE  VelocityInv'
<1> DEFINE answered == velo.answered + 1
           w == [velo EXCEPT !.locked = TRUE, !.answered = answered]
<1>1. velo \in Game /\ velo.queue # <<>> /\ velo # NoGame /\ answered \in Nat
  BY DEF VelocityInv, GameSound, Answer, Playing, Game
<1>4. velo' = w \/ velo' = Outcome(w, said)
  BY <1>1 DEF Answer, Game
<1> HIDE DEF answered
<1>2. w \in Game /\ w.queue = velo.queue /\ w.target = velo.target /\ w.banks = velo.banks
      /\ w.won = velo.won /\ w.q = velo.q
  BY <1>1 DEF Game
<1>3. GameSound(w) /\ Asked(w) /\ w # NoGame
  BY <1>1, <1>2, QueueMeansPlaying DEF VelocityInv, GameSound, Asked
<1> HIDE DEF w
<1>5. GameSound(velo') /\ Asked(velo') /\ velo' # NoGame
  BY <1>3, <1>4, OutcomeOfAnswer
<1>6. pending' \in [Callbacks -> Nat]
  BY DEF Answer, Schedule, VelocityInv, TypeOK
<1>7. QED
  BY <1>5, <1>6 DEF Answer, VelocityInv, TypeOK, TimerOnlyOnOpenQuestion, TimerOnScreen,
                    GameSound, Playing

\* A callback that finds no game changes nothing but itself.
LEMMA LostStep ==
  ASSUME VelocityInv, pending' \in [Callbacks -> Nat], Lost
  PROVE  VelocityInv'
BY DEF Lost, VelocityInv, TypeOK, TimerOnlyOnOpenQuestion, TimerOnScreen, GameSound, Asked, Playing

\* A victory is banked once: the game that wins was not won before.
LEMMA AdvanceStep ==
  ASSUME VelocityInv, NEW gloss \in BOOLEAN, Advance(gloss)
  PROVE  VelocityInv'
<1> DEFINE cb == [what |-> "advance", gloss |-> gloss]
           w == Passed(gloss)
           winner == [w EXCEPT !.won = TRUE, !.banks = @ + 1]
           landed == [what |-> "landed", gloss |-> FALSE]
<1>1. cb \in Callbacks /\ landed \in Callbacks /\ cb # landed /\ pending \in [Callbacks -> Nat]
  BY DEF Callbacks, VelocityInv, TypeOK
<1>2. CASE ~Playing /\ Consume(cb) /\ Lost
  BY <1>1, <1>2, Consumed, LostStep
<1>3. CASE Playing
  <2>1. GameSound(w) /\ Asked(w) /\ w # NoGame /\ SameGame(w, [velo EXCEPT !.pos = IF gloss THEN @ ELSE @ + 1])
        /\ w.locked = velo.locked /\ w.q = velo.q
    BY <1>3, PassedSound DEF VelocityInv
  <2>2. CASE Wins(w) /\ reached' = Greatest(reached, w.target) /\ UNCHANGED <<mode, games, threw, patient>>
             /\ \/ /\ fx
                   /\ pending' = [pending EXCEPT ![cb] = @ - 1, ![landed] = @ + 1]
                   /\ velo' = winner /\ UNCHANGED <<view, timer, fx>>
                \/ ~fx /\ Consume(cb) /\ DrawDone(winner)
    <3>1. w \in Game /\ w.queue # <<>> /\ ~w.won /\ w.banks = 0 /\ w.target \in 0..LastDest
      BY <2>1, <2>2 DEF GameSound, Wins, Game
    <3> HIDE DEF w
    <3>2. winner \in Game /\ winner.banks = 1 /\ winner.won /\ winner.queue = w.queue
          /\ winner.target = w.target /\ winner.q = w.q /\ winner.zen = w.zen
          /\ winner.locked = w.locked /\ winner.over = w.over
      <4>1. winner = [w EXCEPT !.won = TRUE, !.banks = 1]
        BY <3>1 DEF Game
      <4> HIDE DEF winner
      <4>2. QED
        BY <3>1, <4>1 DEF Game
    <3>3. GameSound(winner) /\ Asked(winner) /\ winner # NoGame
      BY <2>1, <3>1, <3>2, QueueMeansPlaying DEF GameSound, Asked
    <3>4. reached' \in -1..LastDest
      BY <2>2, <3>1, VelocityAssumption DEF VelocityInv, TypeOK, Greatest
    <3>5. pending' \in [Callbacks -> Nat]
      <4>1. pending[cb] > 0
        BY DEF Advance
      <4> HIDE DEF cb, landed
      <4>2. QED
        BY <1>1, <2>2, <4>1, Consumed
    <3>6. velo.zen = w.zen /\ velo.over = w.over
      BY <1>3, <2>1 DEF SameGame, VelocityInv, GameSound, Game
    <3> HIDE DEF winner, cb, landed
    <3>7. velo' = winner /\ (UNCHANGED <<view, timer, fx>> \/ DrawDone(winner))
      BY <2>2 DEF DrawDone
    <3>8. TimerOnlyOnOpenQuestion' /\ TimerOnScreen'
      BY <2>1, <3>2, <3>3, <3>6, <3>7
         DEF DrawDone, VelocityInv, TimerOnlyOnOpenQuestion, TimerOnScreen, Playing
    <3>9. view' \in {"landing", "round", "done", "other"} /\ timer' \in BOOLEAN /\ fx' \in BOOLEAN
      BY <3>7 DEF DrawDone, VelocityInv, TypeOK
    <3>10. QED
      BY <2>2, <3>3, <3>4, <3>5, <3>7, <3>8, <3>9 DEF VelocityInv, TypeOK, GameSound, Playing
  <2>3. CASE Consume(cb) /\ Render(w) /\ UNCHANGED <<mode, reached, games, threw, patient>>
    <3>1. Around'
      BY <1>1, <2>3, Consumed DEF Around, VelocityInv, TypeOK
    <3>2. QED
      BY <2>1, <2>3, <3>1, DrawingStep
  <2>4. QED
    BY <1>3, <2>2, <2>3 DEF Advance
<1>4. QED
  BY <1>2, <1>3 DEF Advance

LEMMA MissStep ==
  ASSUME VelocityInv, NEW gloss \in BOOLEAN, Miss(gloss)
  PROVE  VelocityInv'
<1> DEFINE cb == [what |-> "miss", gloss |-> gloss]
<1>1. cb \in Callbacks /\ pending \in [Callbacks -> Nat] /\ Consume(cb)
  BY DEF Callbacks, VelocityInv, TypeOK, Miss
<1>2. pending' \in [Callbacks -> Nat]
  BY <1>1, Consumed
<1>3. CASE Lost
  BY <1>2, <1>3, LostStep
<1>4. CASE (Playing \/ gloss) /\ Render(Passed(gloss)) /\ UNCHANGED <<mode, reached, games, threw, patient>>
  <2>1. GameSound(Passed(gloss)) /\ Asked(Passed(gloss))
    <3>1. CASE Playing
      BY <3>1, PassedSound DEF VelocityInv
    <3>2. CASE ~Playing
      BY <1>4, <3>2 DEF Passed, VelocityInv
    <3>3. QED
      BY <3>1, <3>2
  <2>2. Around'
    BY <1>2, <1>4 DEF Around, VelocityInv, TypeOK
  <2>3. QED
    BY <1>4, <2>1, <2>2, DrawingStep
<1>5. QED
  BY <1>3, <1>4 DEF Miss

LEMMA RecoverStep ==
  ASSUME VelocityInv, NEW gloss \in BOOLEAN, Recover(gloss)
  PROVE  VelocityInv'
<1> DEFINE cb == [what |-> "recover", gloss |-> gloss]
<1>1. cb \in Callbacks /\ pending \in [Callbacks -> Nat] /\ Consume(cb)
  BY DEF Callbacks, VelocityInv, TypeOK, Recover
<1>2. pending' \in [Callbacks -> Nat]
  BY <1>1, Consumed
<1>3. CASE Lost
  BY <1>2, <1>3, LostStep
<1>4. CASE Playing /\ Render(Passed(gloss)) /\ UNCHANGED <<mode, reached, games, threw, patient>>
  <2>1. GameSound(Passed(gloss)) /\ Asked(Passed(gloss))
    BY <1>4, PassedSound DEF VelocityInv
  <2>2. Around'
    BY <1>2, <1>4 DEF Around, VelocityInv, TypeOK
  <2>3. QED
    BY <1>4, <2>1, <2>2, DrawingStep
<1>5. QED
  BY <1>3, <1>4 DEF Recover

\* Drawing the summary of a round that ends now.
LEMMA EndingStep ==
  ASSUME VelocityInv, Playing, Around', Render([velo EXCEPT !.over = TRUE])
  PROVE  VelocityInv'
<1> DEFINE w == [velo EXCEPT !.over = TRUE]
<1>1. GameSound(w) /\ Asked(w) /\ Render(w)
  BY OverSound DEF VelocityInv
<1> HIDE DEF w
<1>2. QED
  BY <1>1, DrawingStep

LEMMA DeathStep ==
  ASSUME VelocityInv, Death
  PROVE  VelocityInv'
<1> DEFINE cb == [what |-> "death", gloss |-> FALSE]
           crash == [what |-> "crash", gloss |-> FALSE]
<1>1. cb \in Callbacks /\ crash \in Callbacks /\ cb # crash /\ pending \in [Callbacks -> Nat]
  BY DEF Callbacks, VelocityInv, TypeOK
<1>2. CASE Consume(cb) /\ Lost
  BY <1>1, <1>2, Consumed, LostStep
<1>3. CASE pending' = [pending EXCEPT ![cb] = @ - 1, ![crash] = @ + 1] /\ Lost
  <2>1. pending[cb] > 0
    BY DEF Death
  <2> HIDE DEF cb, crash
  <2>2. pending' \in [Callbacks -> Nat]
    BY <1>1, <1>3, <2>1
  <2>3. QED
    BY <1>3, <2>2, LostStep
<1>4. CASE Playing /\ Consume(cb) /\ Render([velo EXCEPT !.over = TRUE])
           /\ UNCHANGED <<mode, reached, games, threw, patient>>
  <2>1. Around'
    BY <1>1, <1>4, Consumed DEF Around, VelocityInv, TypeOK
  <2>2. QED
    BY <1>4, <2>1, EndingStep
<1>5. QED
  BY <1>2, <1>3, <1>4 DEF Death

LEMMA CrashStep ==
  ASSUME VelocityInv, Crash
  PROVE  VelocityInv'
<1> DEFINE cb == [what |-> "crash", gloss |-> FALSE]
<1>1. cb \in Callbacks /\ pending \in [Callbacks -> Nat] /\ Consume(cb)
  BY DEF Callbacks, VelocityInv, TypeOK, Crash
<1>2. pending' \in [Callbacks -> Nat]
  BY <1>1, Consumed
<1>3. CASE Lost
  BY <1>2, <1>3, LostStep
<1>4. CASE Playing /\ Render([velo EXCEPT !.over = TRUE]) /\ UNCHANGED <<mode, reached, games, threw, patient>>
  <2>1. Around'
    BY <1>2, <1>4 DEF Around, VelocityInv, TypeOK
  <2>2. QED
    BY <1>4, <2>1, EndingStep
<1>5. QED
  BY <1>3, <1>4 DEF Crash

LEMMA LandedStep ==
  ASSUME VelocityInv, Landed
  PROVE  VelocityInv'
<1> DEFINE cb == [what |-> "landed", gloss |-> FALSE]
<1>1. cb \in Callbacks /\ pending \in [Callbacks -> Nat] /\ Consume(cb)
  BY DEF Callbacks, VelocityInv, TypeOK, Landed
<1>2. pending' \in [Callbacks -> Nat]
  BY <1>1, Consumed
<1>3. CASE Lost
  BY <1>2, <1>3, LostStep
<1>4. CASE DrawDone(velo) /\ UNCHANGED <<mode, reached, games, threw, patient>>
  BY <1>2, <1>4 DEF DrawDone, VelocityInv, TypeOK, TimerOnlyOnOpenQuestion, TimerOnScreen, Playing
<1>5. QED
  BY <1>3, <1>4 DEF Landed

LEMMA PageSteps ==
  ASSUME VelocityInv, TimerStops \/ Quit \/ Again \/ Leave \/ VelocityTab
  PROVE  VelocityInv'
<1>1. CASE TimerStops
  BY <1>1 DEF TimerStops, VelocityInv, TypeOK, TimerOnlyOnOpenQuestion, TimerOnScreen, Playing
<1>2. CASE Quit
  <2>1. Around'
    BY <1>2 DEF Quit, Around, VelocityInv, TypeOK
  <2>2. QED
    BY <1>2, <2>1, EndingStep DEF Quit
<1>3. CASE Again
  <2>1. Around'
    BY <1>3 DEF Again, Around, VelocityInv, TypeOK
  <2>2. QED
    BY <1>3, <2>1, NoGameSound, DrawingStep DEF Again
<1>4. CASE Leave
  <2>1. velo' = velo \/ (velo' = NoGame /\ ~timer)
    BY <1>4 DEF Leave, VelocityInv, TimerOnScreen
  <2>2. GameSound(velo') /\ Asked(velo')
    BY <2>1, NoGameSound DEF VelocityInv
  <2>3. TimerOnlyOnOpenQuestion' /\ TimerOnScreen'
    BY <1>4, <2>1 DEF Leave, VelocityInv, TimerOnlyOnOpenQuestion, TimerOnScreen, Playing
  <2>4. QED
    BY <1>4, <2>2, <2>3 DEF Leave, VelocityInv, TypeOK, GameSound, Playing
<1>5. CASE VelocityTab
  <2>1. Around'
    BY <1>5 DEF VelocityTab, Around, VelocityInv, TypeOK
  <2>2. QED
    BY <1>5, <2>1, DrawingStep DEF VelocityTab, VelocityInv
<1>6. QED
  BY <1>1, <1>2, <1>3, <1>4, <1>5

LEMMA FireStep ==
  ASSUME VelocityInv, Fire
  PROVE  VelocityInv'
BY AdvanceStep, MissStep, RecoverStep, DeathStep, CrashStep, LandedStep DEF Fire

LEMMA VelocityInitial == Init => VelocityInv
<1> SUFFICES ASSUME Init PROVE VelocityInv
  OBVIOUS
<1>1. velo = NoGame /\ GameSound(velo) /\ Asked(velo)
  BY NoGameSound DEF Init
<1>2. pending \in [Callbacks -> Nat] /\ patient \in BOOLEAN
  BY VelocityAssumption DEF Init
<1>3. QED
  BY <1>1, <1>2 DEF Init, VelocityInv, TypeOK, TimerOnlyOnOpenQuestion, TimerOnScreen, GameSound, Playing

LEMMA VelocityStep == VelocityInv /\ [Next]_vars => VelocityInv'
<1> SUFFICES ASSUME VelocityInv, [Next]_vars
             PROVE  VelocityInv'
  OBVIOUS
<1>1. CASE UNCHANGED vars
  BY <1>1 DEF vars, VelocityInv, TypeOK, TimerOnlyOnOpenQuestion, TimerOnScreen, GameSound, Asked, Playing
<1>2. QED
  BY <1>1, StartStep, AnswerStep, FireStep, PageSteps DEF Next

\* The invariant of every game, whether veloAnswer threw or not.
THEOREM VelocityInvariant == Spec => []VelocityInv
BY VelocityInitial, VelocityStep, PTL DEF Spec

\* The game and what surrounds it keep their types, under every order of
\* callbacks, tabs and games.
THEOREM VelocityTypeCorrect == Spec => []TypeOK
<1>1. VelocityInv => TypeOK
  BY DEF VelocityInv
<1>2. QED
  BY <1>1, VelocityInvariant, PTL

\* veloTimer never outlives its question: the interval cannot take a heart in
\* a zen round, in a finished one or from a question that is answered.
THEOREM VelocityTimerOnOpenQuestion == Spec => []TimerOnlyOnOpenQuestion
<1>1. VelocityInv => TimerOnlyOnOpenQuestion
  BY DEF VelocityInv
<1>2. QED
  BY <1>1, VelocityInvariant, PTL

\* _wonFx: a game banks its waypoint once, however many callbacks find it won.
THEOREM VelocityBanksOnce == Spec => []BankedOncePerGame
<1>1. VelocityInv => BankedOncePerGame
  BY DEF VelocityInv, GameSound, BankedOncePerGame
<1>2. QED
  BY <1>1, VelocityInvariant, PTL

-----------------------------------------------------------------------------
(* Lives, legs and misses, until veloAnswer throws.  The callback          *)
(* of its catch block passes the card whatever was answered, and so does   *)
(* not keep these accounts.                                                *)

EndsSoon == \E cb \in Outstanding : cb.what \in {"death", "crash"}

NoRecovery == \A cb \in Outstanding : cb.what # "recover"

\* A callback that will pass the card on turn is outstanding.
Passing == \E cb \in Outstanding : cb.what \in {"advance", "miss"} /\ ~cb.gloss

\* Where the game will be then.
PassedSoon == velo.pos + IF Passing THEN 1 ELSE 0

\* A patient player has one callback outstanding at most, for an answered
\* question without a timer, and it knows what kind of question that is.
OneAtATime ==
  /\ \A cb \in Outstanding : pending[cb] = 1 /\ \A d \in Outstanding : d = cb
  /\ Outstanding # {} => Playing /\ velo.locked /\ ~timer
  /\ \A cb \in Outstanding : cb.what \in {"advance", "miss"} => cb.gloss = (velo.q.kind = "gloss")

\* Every card passed up to k has either earned a leg or come back.
LegKeepsUp(w, k) == w.leg + Len(w.queue) >= w.legCost + k

\* Every missed card is behind k.
MissedAhead(w, k) == \A c \in w.missed : \E j \in k + 1 .. Len(w.queue) : w.queue[j] = c

Accounts(w, k) == LegKeepsUp(w, k) /\ MissedAhead(w, k)

PatientSound ==
  patient =>
    /\ OneAtATime
    /\ Playing /\ ~velo.locked => OnTurn(velo)
    /\ Playing => Accounts(velo, PassedSoon)

FaultlessInv ==
  /\ VelocityInv
  /\ NoRecovery
  /\ OutOfLivesIsEnding
  /\ PatientSound

-----------------------------------------------------------------------------
(* Helpers.                                                                *)

LEMMA OutstandingIs == \A cb : cb \in Outstanding <=> cb \in Callbacks /\ pending[cb] > 0
BY DEF Outstanding

LEMMA FiredLeaves ==
  ASSUME VelocityInv, NEW cb \in Callbacks, Consume(cb)
  PROVE  /\ cb \in Outstanding /\ Outstanding' \subseteq Outstanding
         /\ \A d \in Outstanding : d # cb => d \in Outstanding'
         /\ NoRecovery => NoRecovery'
         /\ EndsSoon /\ cb.what \notin {"death", "crash"} => EndsSoon'
         /\ patient /\ PatientSound => /\ Outstanding = {cb} /\ Outstanding' = {}
                                       /\ Playing /\ velo.locked /\ ~timer
<1>1. /\ pending \in [Callbacks -> Nat] /\ pending[cb] > 0
      /\ pending' = [pending EXCEPT ![cb] = pending[cb] - 1]
  BY DEF VelocityInv, TypeOK, Consume
<1>2. cb \in Outstanding /\ Outstanding' \subseteq Outstanding
      /\ \A d \in Outstanding : d # cb => d \in Outstanding'
  BY <1>1 DEF Outstanding
<1>3. patient /\ PatientSound => /\ Outstanding = {cb} /\ Outstanding' = {}
                                 /\ Playing /\ velo.locked /\ ~timer
  <2> SUFFICES ASSUME patient, PatientSound
               PROVE  Outstanding = {cb} /\ Outstanding' = {} /\ Playing /\ velo.locked /\ ~timer
    OBVIOUS
  <2>1. pending[cb] = 1 /\ Outstanding = {cb} /\ Playing /\ velo.locked /\ ~timer
    BY <1>2 DEF PatientSound, OneAtATime
  <2>2. pending'[cb] = 0
    BY <1>1, <2>1
  <2>3. QED
    BY <1>2, <2>1, <2>2 DEF Outstanding
<1>4. QED
  BY <1>2, <1>3 DEF NoRecovery, EndsSoon

LEMMA FollowedBy ==
  ASSUME VelocityInv, NEW cb \in Callbacks, NEW next \in Callbacks, cb # next,
         pending[cb] > 0, pending' = [pending EXCEPT ![cb] = @ - 1, ![next] = @ + 1]
  PROVE  /\ cb \in Outstanding /\ next \in Outstanding'
         /\ Outstanding' \subseteq Outstanding \cup {next}
         /\ \A d \in Outstanding : d # cb => d \in Outstanding'
         /\ patient /\ PatientSound => /\ Outstanding = {cb} /\ Outstanding' = {next} /\ pending'[next] = 1
                                       /\ Playing /\ velo.locked /\ ~timer
<1>1. pending \in [Callbacks -> Nat]
  BY DEF VelocityInv, TypeOK
<1>2. /\ pending'[cb] = pending[cb] - 1 /\ pending'[next] = pending[next] + 1
      /\ \A d \in Callbacks : d # cb /\ d # next => pending'[d] = pending[d]
  BY <1>1
<1>3. /\ cb \in Outstanding /\ next \in Outstanding'
      /\ Outstanding' \subseteq Outstanding \cup {next}
      /\ \A d \in Outstanding : d # cb => d \in Outstanding'
  BY <1>1, <1>2 DEF Outstanding
<1>4. ASSUME patient, PatientSound
      PROVE  /\ Outstanding = {cb} /\ Outstanding' = {next} /\ pending'[next] = 1
             /\ Playing /\ velo.locked /\ ~timer
  <2>1. pending[cb] = 1 /\ Outstanding = {cb} /\ Playing /\ velo.locked /\ ~timer
    BY <1>3, <1>4 DEF PatientSound, OneAtATime
  <2>2. pending'[cb] = 0 /\ pending[next] = 0
    BY <1>1, <1>2, <2>1 DEF Outstanding
  <2>3. QED
    BY <1>1, <1>2, <1>3, <2>1, <2>2 DEF Outstanding
<1>5. QED
  BY <1>3, <1>4

\* Drawing when nothing is outstanding.
LEMMA QuietDrawing ==
  ASSUME Outstanding' = {}, NEW w, GameSound(w), Asked(w) \/ (~w.over /\ w.pos < Len(w.queue)), Render(w),
         w # NoGame => Accounts(w, w.pos),
         w # NoGame => w.locked \/ OnTurn(w) \/ (~w.over /\ w.pos < Len(w.queue))
  PROVE  PatientSound'
<1>1. /\ SameGame(velo', w) /\ (velo' = NoGame <=> w = NoGame)
      /\ \/ velo' = w /\ (w = NoGame \/ w.over \/ w.pos >= Len(w.queue))
         \/ ~w.over /\ ~velo'.locked /\ OnTurn(velo')
      /\ GameSound(velo') /\ GameSound(w)
  BY RenderDraws
<1>2. OneAtATime' /\ ~Passing'
  BY DEF OneAtATime, Passing
<1>3. ASSUME w # NoGame
      PROVE  Accounts(velo', velo'.pos) /\ (~velo'.locked => OnTurn(velo'))
  <2>1. Accounts(velo', velo'.pos)
    BY <1>1, <1>3 DEF SameGame, Accounts, LegKeepsUp, MissedAhead
  <2>2. ~velo'.locked => OnTurn(velo')
    BY <1>1, <1>3 DEF GameSound, Game
  <2>3. QED
    BY <2>1, <2>2
<1>4. PassedSoon' = velo'.pos
  BY <1>1, <1>2 DEF PassedSoon, GameSound, Game
<1>5. QED
  BY <1>1, <1>2, <1>3, <1>4 DEF PatientSound, Playing

\* One more answer, or one more card, makes up for the card that is passed.
LEMMA OneMakesUp ==
  ASSUME NEW leg \in Nat, NEW len \in Nat, NEW cost \in Nat, NEW pos \in Nat, NEW k \in Nat,
         k <= pos + 1, leg + len >= cost + pos
  PROVE  (leg + 1) + len >= cost + k /\ leg + (len + 1) >= cost + k
OBVIOUS

\* An answer to the question on turn: the card earns a leg, or comes back
\* behind the place the game will be at.
LEMMA OutcomeKeepsAccounts ==
  ASSUME NEW w, GameSound(w), Asked(w), w # NoGame, OnTurn(w), Accounts(w, w.pos),
         NEW said \in {"right", "wrong", "skip", "time"}, NEW o, o = Outcome(w, said),
         NEW k \in {w.pos, w.pos + 1}, k = w.pos \/ w.q.kind # "gloss"
  PROVE  Accounts(o, k)
<1>1. /\ w \in Game /\ w.queue \in Seq(Cards) /\ Len(w.queue) \in Nat /\ w.pos \in Nat /\ w.leg \in Nat
      /\ w.legCost \in Nat /\ w.missed \subseteq Cards /\ w.pos < Len(w.queue)
  BY DEF GameSound, Game, OnTurn
<1>2. PICK at \in w.pos + 1 .. Len(w.queue) : at = Least(Len(w.queue), w.pos + Gap)
  <2>1. Least(Len(w.queue), w.pos + Gap) \in w.pos + 1 .. Len(w.queue)
    BY <1>1, VelocityAssumption, SMTT(30) DEF Least
  <2>2. QED
    BY <2>1
<1>3. k = w.pos + 1 => w.q.card = w.queue[w.pos + 1] /\ w.q.card # NoCard
  <2>1. w.queue[w.pos + 1] \in Cards
    BY <1>1
  <2>2. k = w.pos + 1 => w.q.card = w.queue[w.pos + 1]
    BY <1>1 DEF OnTurn
  <2>3. QED
    BY <2>1, <2>2, VelocityAssumption
<1>4. SameRound(o, w)
  BY OutcomeOfAnswer
<1>5. CASE LegEarned(o, w)
  <2> USE DEF LegEarned
  <2>1. LegKeepsUp(o, k)
    <3>1. w.leg + Len(w.queue) >= w.legCost + w.pos
      BY DEF Accounts, LegKeepsUp
    <3>2. o.leg = w.leg + 1 /\ o.queue = w.queue /\ o.legCost = w.legCost
      BY <1>4, <1>5 DEF SameRound
    <3>3. k \in Nat /\ k <= w.pos + 1
      BY <1>1
    <3>4. (w.leg + 1) + Len(w.queue) >= w.legCost + k
      BY <1>1, <3>1, <3>3, OneMakesUp
    <3>5. QED
      BY <3>2, <3>4 DEF LegKeepsUp
  <2>2. ASSUME NEW c \in o.missed
        PROVE  \E j \in k + 1 .. Len(o.queue) : o.queue[j] = c
    <3>1. PICK j \in w.pos + 1 .. Len(w.queue) : w.queue[j] = c
      BY <1>5, <2>2 DEF Accounts, MissedAhead
    <3>2. k = w.pos + 1 => j # w.pos + 1
      BY <1>3, <1>5, <2>2, <3>1
    <3>3. j \in k + 1 .. Len(o.queue)
      BY <1>1, <1>5, <3>2
    <3>4. QED
      BY <1>5, <3>1, <3>3
  <2>3. QED
    BY <2>1, <2>2 DEF Accounts, MissedAhead
<1>6. CASE CardReturns(o, w) /\ w.q.card = NoCard
  <2>1. k = w.pos
    BY <1>3, <1>6
  <2>2. o.leg = w.leg /\ o.queue = w.queue /\ o.missed = w.missed
    BY <1>6, VelocityAssumption DEF CardReturns
  <2>3. QED
    BY <1>4, <2>1, <2>2 DEF Accounts, LegKeepsUp, MissedAhead, SameRound
<1>7. CASE CardReturns(o, w) /\ w.q.card # NoCard
  <2>0. PICK asked \in Cards : asked = w.q.card
    BY <1>7 DEF CardReturns
  <2>1. /\ o.leg = w.leg /\ o.missed = w.missed \cup {w.q.card}
        /\ Len(o.queue) = Len(w.queue) + 1
        /\ o.queue[at + 1] = w.q.card
        /\ \A i \in 1..at : o.queue[i] = w.queue[i]
        /\ \A i \in at + 1 .. Len(w.queue) : o.queue[i + 1] = w.queue[i]
    <3>1. at \in 0..Len(w.queue)
      BY <1>1, <1>2
    <3>2. w.queue \in Seq(Cards) /\ o.queue = Inserted(w.queue, at, asked)
      BY <1>1, <1>2, <1>7, <2>0 DEF CardReturns
    <3> DEFINE long == Inserted(w.queue, at, asked)
    <3>3. Len(long) = Len(w.queue) + 1 /\ long[at + 1] = asked
      BY <3>1, <3>2, InsertedCard, ZenonT(30)
    <3>4. \A i \in 1..at : long[i] = w.queue[i]
      BY <3>1, <3>2, InsertedCard, ZenonT(30)
    <3>5. \A i \in at + 1 .. Len(w.queue) : long[i + 1] = w.queue[i]
      BY <3>1, <3>2, InsertedCard, ZenonT(30)
    <3>6. o.leg = w.leg /\ o.missed = w.missed \cup {w.q.card}
      BY <1>7 DEF CardReturns
    <3>7. o.queue = long
      BY <3>2
    <3> HIDE DEF long
    <3>8. QED
      BY <2>0, <3>3, <3>4, <3>5, <3>6, <3>7
  <2>2. LegKeepsUp(o, k)
    <3>1. w.leg + Len(w.queue) >= w.legCost + w.pos
      BY DEF Accounts, LegKeepsUp
    <3>2. o.leg = w.leg /\ o.legCost = w.legCost /\ Len(o.queue) = Len(w.queue) + 1
      BY <1>4, <2>1 DEF SameRound
    <3>3. k \in Nat /\ k <= w.pos + 1
      BY <1>1
    <3>4. w.leg + (Len(w.queue) + 1) >= w.legCost + k
      BY <1>1, <3>1, <3>3, OneMakesUp
    <3>5. QED
      BY <3>2, <3>4 DEF LegKeepsUp
  <2>3. ASSUME NEW c \in o.missed
        PROVE  \E j \in k + 1 .. Len(o.queue) : o.queue[j] = c
    <3>1. CASE c = w.q.card
      <4>1. at + 1 \in k + 1 .. Len(o.queue)
        BY <1>1, <1>2, <2>1, SMTT(30)
      <4>2. QED
        BY <2>1, <3>1, <4>1
    <3>2. CASE c # w.q.card
      <4>1. PICK j \in w.pos + 1 .. Len(w.queue) : w.queue[j] = c
        BY <2>1, <2>3, <3>2 DEF Accounts, MissedAhead
      <4>2. k = w.pos + 1 => j # w.pos + 1
        BY <1>3, <3>2, <4>1
      <4>3. CASE j <= at
        <5>1. j \in k + 1 .. Len(o.queue) /\ j \in 1..at
          BY <1>1, <1>2, <2>1, <4>2, <4>3, SMTT(30)
        <5>2. QED
          BY <2>1, <4>1, <5>1
      <4>4. CASE j > at
        <5>1. j + 1 \in k + 1 .. Len(o.queue) /\ j \in at + 1 .. Len(w.queue)
          BY <1>1, <1>2, <2>1, <4>2, <4>4, SMTT(30)
        <5>2. QED
          BY <2>1, <4>1, <5>1
      <4>5. QED
        BY <1>2, <4>3, <4>4
    <3>3. QED
      BY <3>1, <3>2
  <2>4. QED
    BY <2>2, <2>3 DEF Accounts, MissedAhead
<1>8. QED
  BY <1>5, <1>6, <1>7, OutcomeOfAnswer

\* Lives after a drawing: those of the game drawn.
LEMMA LivesDrawn ==
  ASSUME NEW w, GameSound(w), Asked(w) \/ (~w.over /\ w.pos < Len(w.queue)), Render(w),
         w # NoGame /\ OutOfLives(w) => w.over \/ EndsSoon'
  PROVE  OutOfLivesIsEnding'
<1>1. SameGame(velo', w) /\ (velo' = NoGame <=> w = NoGame)
  BY RenderDraws
<1>2. Playing' /\ OutOfLives(velo)' => w # NoGame /\ OutOfLives(w) /\ velo'.over = w.over
  BY <1>1 DEF SameGame, OutOfLives, Playing
<1>3. QED
  BY <1>2 DEF OutOfLivesIsEnding, EndsSoon

\* Nothing is outstanding for a patient player who acts, or whose timer does.
LEMMA PatientActs ==
  ASSUME FaultlessInv, patient, Free \/ timer
  PROVE  Outstanding = {} /\ PassedSoon = velo.pos /\ (Playing => Accounts(velo, velo.pos))
<1>1. Outstanding = {}
  BY DEF FaultlessInv, PatientSound, OneAtATime, Free
<1>2. PassedSoon = velo.pos
  BY <1>1 DEF Passing, PassedSoon, FaultlessInv, VelocityInv, GameSound, Game
<1>3. QED
  BY <1>1, <1>2 DEF FaultlessInv, PatientSound

LEMMA StartAccounts ==
  ASSUME FaultlessInv, NEW queue \in Queues, NEW zen \in BOOLEAN, Start(queue, zen)
  PROVE  FaultlessInv'
<1> DEFINE leg == Least(LegLength[NextTarget], Len(queue))
           w == [NoGame EXCEPT !.queue = queue, !.zen = zen, !.hearts = Hearts,
                               !.target = NextTarget, !.legCost = leg]
<1>1. Render(w) /\ pending' = pending /\ patient' = patient
  BY DEF Start
<1>2. queue \in Seq(Cards) /\ queue # <<>> /\ Len(queue) > 0 /\ Len(queue) \in Nat
  BY VelocityAssumption
<1>3. NextTarget \in 1..LastDest
  BY VelocityAssumption DEF FaultlessInv, VelocityInv, TypeOK, NextTarget, Least, Greatest
<1>4. leg \in Nat /\ leg <= Len(queue)
  <2>1. LegLength[NextTarget] \in Nat
    BY <1>3, VelocityAssumption
  <2>2. QED
    BY <1>2, <2>1 DEF Least
<1> HIDE DEF leg
<1>5. w \in Game
  <2>1. NoGame \in Game
    BY NoGameSound DEF GameSound
  <2>2. NextTarget \in 0..LastDest /\ Hearts \in Int
    BY <1>3, VelocityAssumption
  <2>3. QED
    BY <1>2, <1>4, <2>1, <2>2 DEF Game
<1>6. /\ w.queue = queue /\ w.target >= 1 /\ ~w.over /\ w.pos = 0 /\ w.banks = 0 /\ ~w.won
      /\ w.q = NoQuestion /\ w.leg = 0 /\ w.legCost = leg /\ w.missed = {} /\ w.hearts = Hearts
  BY <1>3 DEF NoGame
<1> HIDE DEF w
<1>7. GameSound(w) /\ ~w.over /\ w.pos < Len(w.queue)
  BY <1>2, <1>5, <1>6 DEF GameSound, NoQuestion
<1>8. ~OutOfLives(w) /\ Accounts(w, w.pos)
  BY <1>2, <1>4, <1>6, VelocityAssumption DEF OutOfLives, Accounts, LegKeepsUp, MissedAhead
<1>9. OutOfLivesIsEnding'
  BY <1>1, <1>7, <1>8, LivesDrawn
<1>10. PatientSound'
  <2>1. CASE patient
    <3>1. Outstanding' = {}
      BY <1>1, <2>1, PatientActs DEF Start, Outstanding
    <3>2. QED
      BY <1>1, <1>7, <1>8, <3>1, QuietDrawing
  <2>2. CASE ~patient
    BY <1>1, <2>2 DEF PatientSound
  <2>3. QED
    BY <2>1, <2>2
<1>11. NoRecovery'
  BY <1>1 DEF FaultlessInv, NoRecovery, Outstanding
<1>12. VelocityInv'
  BY StartStep DEF FaultlessInv
<1>13. QED
  BY <1>9, <1>10, <1>11, <1>12 DEF FaultlessInv

\* The lives and the accounts after an answer: the callback it schedules is the
\* one that passes the card, or the death of a ship without a heart.
LEMMA AnswerAccounts ==
  ASSUME FaultlessInv, ~threw', NEW said \in {"right", "wrong", "skip", "time"}, Answer(said)
  PROVE  FaultlessInv'
<1> DEFINE answered == velo.answered + 1
           w == [velo EXCEPT !.locked = TRUE, !.answered = answered]
           what == Feedback(velo, said)
           cb == [what |-> what, gloss |-> velo.q.kind = "gloss" /\ what # "death"]
<1>1. velo \in Game /\ velo.queue # <<>> /\ velo # NoGame /\ answered \in Nat /\ ~velo.locked
      /\ GameSound(velo) /\ Asked(velo) /\ pending \in [Callbacks -> Nat]
  BY SMTT(30) DEF FaultlessInv, VelocityInv, TypeOK, GameSound, Answer, Playing, Game
<1>2. velo' = Outcome(w, said) /\ ~timer' /\ patient' = patient
  BY <1>1 DEF Answer, Game
<1>3. /\ what \in {"advance", "miss", "death"} /\ cb \in Callbacks /\ cb.what = what
      /\ cb.what \in {"advance", "miss"} => cb.gloss = (velo.q.kind = "gloss")
  BY DEF Feedback, Callbacks
<1>4. pending' = [pending EXCEPT ![cb] = pending[cb] + 1]
  BY DEF Answer, Schedule
<1> HIDE DEF answered
<1>5. w \in Game /\ w.queue = velo.queue /\ w.target = velo.target /\ w.banks = velo.banks
      /\ w.won = velo.won /\ w.q = velo.q /\ w.locked /\ w.zen = velo.zen /\ w.hearts = velo.hearts
      /\ w.leg = velo.leg /\ w.legCost = velo.legCost /\ w.pos = velo.pos /\ w.over = velo.over
      /\ w.missed = velo.missed
  BY <1>1 DEF Game
<1> HIDE DEF w
<1>6. GameSound(w) /\ Asked(w) /\ w # NoGame
  BY <1>1, <1>5, QueueMeansPlaying DEF GameSound, Asked
<1>7. /\ GameSound(velo') /\ velo' # NoGame /\ SameRound(velo', w) /\ velo'.pos = w.pos
      /\ IF said = "right" /\ ~w.q.skip THEN LegEarned(velo', w) ELSE CardReturns(velo', w)
  BY <1>2, <1>6, OutcomeOfAnswer
<1>8. Outstanding' = Outstanding \cup {cb}
  <2> HIDE DEF cb
  <2>1. QED
    BY <1>1, <1>3, <1>4 DEF Outstanding
<1>9. NoRecovery'
  BY <1>3, <1>8 DEF FaultlessInv, NoRecovery
<1>10. OutOfLivesIsEnding'
  <2>1. CASE said = "right" /\ ~velo.q.skip
    <3>1. OutOfLives(velo)' => OutOfLives(velo) /\ velo'.over = velo.over
      BY <1>5, <1>7, <2>1 DEF OutOfLives, LegEarned, SameRound
    <3>2. QED
      BY <1>1, <1>8, <3>1 DEF FaultlessInv, OutOfLivesIsEnding, Playing
  <2>2. CASE ~(said = "right" /\ ~velo.q.skip)
    <3>1. PICK o : o = Outcome(velo, said)
      OBVIOUS
    <3>2. CardReturns(o, velo) /\ SameRound(o, velo)
      BY <1>1, <2>2, <3>1, OutcomeOfAnswer
    <3>3. OutOfLives(velo)' => OutOfLives(o)
      BY <1>5, <1>7, <2>2, <3>2 DEF OutOfLives, CardReturns, SameRound
    <3>4. OutOfLives(o) => what = "death"
      BY <2>2, <3>1 DEF Feedback
    <3>5. what = "death" => EndsSoon'
      <4> HIDE DEF what, cb
      <4>1. QED
        BY <1>3, <1>8 DEF EndsSoon
    <3>6. QED
      BY <3>3, <3>4, <3>5 DEF OutOfLivesIsEnding, EndsSoon
  <2>3. QED
    BY <2>1, <2>2
<1>11. PatientSound'
  <2>1. CASE patient
    <3>1. Outstanding = {} /\ Accounts(velo, velo.pos) /\ OnTurn(velo)
      <4>1. Free \/ timer
        BY DEF Answer, Hears
      <4>2. QED
        BY <1>1, <2>1, <4>1, PatientActs DEF FaultlessInv, PatientSound, Playing
    <3>2. Outstanding' = {cb} /\ pending'[cb] = 1
      <4> HIDE DEF cb
      <4>1. pending[cb] = 0
        BY <1>1, <1>3, <3>1 DEF Outstanding
      <4>2. QED
        BY <1>1, <1>3, <1>4, <1>8, <3>1, <4>1
    <3>3. velo'.q.kind = velo.q.kind /\ velo'.locked
      BY <1>5, <1>7 DEF SameRound
    <3>4. OneAtATime'
      <4> HIDE DEF cb
      <4>1. QED
        BY <1>2, <1>3, <1>7, <3>2, <3>3 DEF OneAtATime, Playing
    <3>5. Passing' => velo.q.kind # "gloss"
      <4> HIDE DEF cb
      <4>1. QED
        BY <1>3, <3>2 DEF Passing
    <3>6. OnTurn(w) /\ Accounts(w, w.pos)
      BY <1>5, <3>1 DEF OnTurn, Accounts, LegKeepsUp, MissedAhead
    <3>7. Accounts(velo', PassedSoon')
      <4>1. PassedSoon' = w.pos \/ (PassedSoon' = w.pos + 1 /\ w.q.kind # "gloss")
        BY <1>5, <1>7, <3>5 DEF PassedSoon, Game
      <4>2. QED
        BY <1>2, <1>6, <3>6, <4>1, OutcomeKeepsAccounts
    <3>8. QED
      BY <1>2, <3>3, <3>4, <3>7 DEF PatientSound
  <2>2. CASE ~patient
    BY <1>2, <2>2 DEF PatientSound
  <2>3. QED
    BY <2>1, <2>2
<1>12. VelocityInv'
  BY AnswerStep DEF FaultlessInv
<1>13. QED
  BY <1>9, <1>10, <1>11, <1>12 DEF FaultlessInv

\* When the callback of a patient player's answer fires, the card it passes is
\* the one the accounts have passed already.
LEMMA PassingAccounts ==
  ASSUME FaultlessInv, patient, Playing, NEW cb \in Callbacks, cb.what \in {"advance", "miss"},
         Outstanding = {cb}, NEW w, w = Passed(cb.gloss)
  PROVE  Accounts(w, w.pos)
<1>1. cb.gloss \in BOOLEAN /\ velo \in Game
  BY DEF Callbacks, FaultlessInv, VelocityInv, TypeOK
<1>2. SameGame(w, [velo EXCEPT !.pos = IF cb.gloss THEN @ ELSE @ + 1])
  BY <1>1, PassedSound DEF FaultlessInv, VelocityInv
<1>3. Passing <=> ~cb.gloss
  BY DEF Passing
<1>4. /\ w.pos = PassedSoon /\ w.queue = velo.queue /\ w.leg = velo.leg /\ w.legCost = velo.legCost
      /\ w.missed = velo.missed
  BY <1>1, <1>2, <1>3 DEF SameGame, PassedSoon, Game
<1>5. Accounts(velo, PassedSoon)
  BY DEF FaultlessInv, PatientSound
<1>6. QED
  BY <1>4, <1>5 DEF Accounts, LegKeepsUp, MissedAhead

LEMMA AdvanceAccounts ==
  ASSUME FaultlessInv, NEW gloss \in BOOLEAN, Advance(gloss)
  PROVE  FaultlessInv'
<1> DEFINE cb == [what |-> "advance", gloss |-> gloss]
           w == Passed(gloss)
           winner == [w EXCEPT !.won = TRUE, !.banks = @ + 1]
           landed == [what |-> "landed", gloss |-> FALSE]
<1>1. /\ cb \in Callbacks /\ landed \in Callbacks /\ cb # landed /\ VelocityInv /\ pending[cb] > 0
      /\ cb.what = "advance" /\ landed.what = "landed" /\ cb.gloss = gloss
  BY DEF Callbacks, FaultlessInv, Advance
<1>2. VelocityInv'
  BY AdvanceStep DEF FaultlessInv
<1>3. CASE ~Playing /\ Consume(cb) /\ Lost
  <2>1. ~patient /\ patient' = patient /\ velo' = velo
    BY <1>1, <1>3, FiredLeaves DEF FaultlessInv, Lost
  <2>2. NoRecovery'
    BY <1>1, <1>3, FiredLeaves DEF FaultlessInv
  <2>3. QED
    BY <1>2, <1>3, <2>1, <2>2 DEF FaultlessInv, OutOfLivesIsEnding, PatientSound, Playing
<1>4. CASE Playing
  <2>1. /\ GameSound(w) /\ Asked(w) /\ w # NoGame /\ SameGame(w, [velo EXCEPT !.pos = IF gloss THEN @ ELSE @ + 1])
        /\ w.locked = velo.locked /\ w.q = velo.q
    BY <1>1, <1>4, PassedSound DEF VelocityInv
  <2>2. w.over = velo.over /\ w.zen = velo.zen /\ w.hearts = velo.hearts
    BY <1>1, <2>1 DEF SameGame, VelocityInv, GameSound, Game
  <2>3. Outstanding = {cb} /\ patient => Accounts(w, w.pos)
    <3> HIDE DEF cb
    <3>1. QED
      BY <1>1, <1>4, PassingAccounts
  <2>4. (EndsSoon' \/ ~EndsSoon) /\ NoRecovery'
    <3> HIDE DEF cb, landed
    <3>1. CASE Consume(cb)
      BY <1>1, <3>1, FiredLeaves DEF FaultlessInv
    <3>2. CASE pending' = [pending EXCEPT ![cb] = @ - 1, ![landed] = @ + 1]
      BY <1>1, <3>2, FollowedBy DEF FaultlessInv, NoRecovery, EndsSoon
    <3>3. QED
      BY <1>4, <3>1, <3>2 DEF Advance, cb, landed
  <2>5. OutOfLives(w) => w.over \/ EndsSoon'
    BY <1>4, <2>2, <2>4 DEF OutOfLives, FaultlessInv, OutOfLivesIsEnding, EndsSoon
  <2>6. CASE Consume(cb) /\ Render(w) /\ UNCHANGED <<mode, reached, games, threw, patient>>
    <3> HIDE DEF cb, w
    <3>1. OutOfLivesIsEnding'
      BY <2>1, <2>5, <2>6, LivesDrawn
    <3>2. PatientSound'
      <4>1. CASE patient
        <5>1. Outstanding = {cb} /\ Outstanding' = {} /\ velo.locked
          BY <1>1, <2>6, <4>1, FiredLeaves DEF FaultlessInv
        <5>2. QED
          BY <2>1, <2>3, <2>6, <4>1, <5>1, QuietDrawing
      <4>2. CASE ~patient
        BY <2>6, <4>2 DEF PatientSound
      <4>3. QED
        BY <4>1, <4>2
    <3>3. QED
      BY <1>2, <2>4, <3>1, <3>2 DEF FaultlessInv
  <2>7. CASE /\ Wins(w) /\ patient' = patient /\ velo' = winner
             /\ \/ /\ pending' = [pending EXCEPT ![cb] = @ - 1, ![landed] = @ + 1] /\ timer' = timer
                \/ Consume(cb) /\ ~timer'
    <3> HIDE DEF cb, landed, w
    <3>1. w \in Game
      BY <2>1 DEF GameSound
    <3>2. /\ velo'.pos = w.pos /\ velo'.queue = w.queue /\ velo'.leg = w.leg /\ velo'.legCost = w.legCost
          /\ velo'.missed = w.missed /\ velo'.locked = w.locked /\ velo'.over = w.over
          /\ velo'.zen = w.zen /\ velo'.hearts = w.hearts /\ velo'.q = w.q
      BY <2>7, <3>1 DEF Game
    <3>3. OutOfLivesIsEnding'
      BY <2>5, <3>2 DEF OutOfLivesIsEnding, OutOfLives, EndsSoon
    <3>4. PatientSound'
      <4>1. CASE patient
        <5>1. /\ Outstanding = {cb} /\ velo.locked /\ ~timer
              /\ Outstanding' = {} \/ (Outstanding' = {landed} /\ pending'[landed] = 1)
          BY <1>1, <2>7, <4>1, FiredLeaves, FollowedBy DEF FaultlessInv
        <5>2. Accounts(w, w.pos)
          BY <2>3, <4>1, <5>1
        <5>3. velo' # NoGame
          BY <2>1, <3>1, <3>2, QueueMeansPlaying DEF GameSound
        <5>4. OneAtATime' /\ ~Passing'
          <6>0. ~timer'
            BY <2>7, <5>1
          <6>1. velo'.locked
            BY <2>1, <3>2, <5>1
          <6>2. \A d \in Outstanding' : d = landed /\ pending'[d] = 1
            BY <5>1
          <6>3. \A d \in Outstanding' : d.what \notin {"advance", "miss"}
            BY <1>1, <6>2
          <6>4. QED
            BY <5>3, <6>0, <6>1, <6>2, <6>3 DEF OneAtATime, Passing, Playing
        <5>5. PassedSoon' = w.pos
          BY <3>1, <3>2, <5>4 DEF PassedSoon, Game
        <5>6. Accounts(velo', PassedSoon')
          BY <3>2, <5>2, <5>5 DEF Accounts, LegKeepsUp, MissedAhead
        <5>7. QED
          BY <2>1, <3>2, <5>1, <5>4, <5>6 DEF PatientSound
      <4>2. CASE ~patient
        BY <2>7, <4>2 DEF PatientSound
      <4>3. QED
        BY <4>1, <4>2
    <3>5. QED
      BY <1>2, <2>4, <3>3, <3>4 DEF FaultlessInv
  <2>8. QED
    BY <1>4, <2>6, <2>7 DEF Advance, DrawDone
<1>5. QED
  BY <1>3, <1>4 DEF Advance

LEMMA MissAccounts ==
  ASSUME FaultlessInv, NEW gloss \in BOOLEAN, Miss(gloss)
  PROVE  FaultlessInv'
<1> DEFINE cb == [what |-> "miss", gloss |-> gloss]
           w == Passed(gloss)
<1>1. /\ cb \in Callbacks /\ Consume(cb) /\ VelocityInv
      /\ cb.what = "miss" /\ cb.gloss = gloss
  BY DEF Callbacks, FaultlessInv, Miss
<1>2. VelocityInv'
  BY MissStep DEF FaultlessInv
<1> HIDE DEF cb
<1>3. NoRecovery' /\ (EndsSoon => EndsSoon')
  BY <1>1, FiredLeaves DEF FaultlessInv
<1>4. CASE ~Playing
  <2>1. ~patient /\ patient' = patient
    BY <1>1, <1>4, FiredLeaves DEF FaultlessInv, Miss, Lost
  <2>2. velo' = NoGame
    <3>1. CASE Lost
      BY <1>4, <3>1 DEF Lost, Playing
    <3>2. CASE gloss /\ Render(w)
      <4>1. w = NoGame
        BY <1>4, <3>2 DEF Passed, Playing
      <4>2. QED
        BY <3>2, <4>1, NoGameSound, RenderDraws
    <3>3. QED
      BY <1>4, <3>1, <3>2 DEF Miss
  <2>3. QED
    BY <1>2, <1>3, <2>1, <2>2 DEF FaultlessInv, OutOfLivesIsEnding, PatientSound, Playing
<1>5. CASE Playing
  <2>1. /\ GameSound(w) /\ Asked(w) /\ w # NoGame /\ SameGame(w, [velo EXCEPT !.pos = IF gloss THEN @ ELSE @ + 1])
        /\ w.locked = velo.locked
    BY <1>1, <1>5, PassedSound DEF VelocityInv
  <2>2. w.over = velo.over /\ w.zen = velo.zen /\ w.hearts = velo.hearts
    BY <1>1, <2>1 DEF SameGame, VelocityInv, GameSound, Game
  <2>3. Render(w) /\ patient' = patient
    BY <1>5 DEF Miss
  <2>4. patient => Outstanding = {cb} /\ Outstanding' = {} /\ velo.locked /\ Accounts(w, w.pos)
    BY <1>1, <1>5, FiredLeaves, PassingAccounts DEF FaultlessInv
  <2>5. OutOfLives(w) => w.over \/ EndsSoon'
    BY <1>3, <1>5, <2>2 DEF OutOfLives, FaultlessInv, OutOfLivesIsEnding, EndsSoon
  <2> HIDE DEF w
  <2>6. OutOfLivesIsEnding'
    BY <2>1, <2>3, <2>5, LivesDrawn
  <2>7. patient => PatientSound'
    BY <2>1, <2>3, <2>4, QuietDrawing
  <2>8. QED
    BY <1>2, <1>3, <2>3, <2>6, <2>7 DEF FaultlessInv, PatientSound
<1>6. QED
  BY <1>4, <1>5

\* Drawing the summary of a round that ends now keeps the accounts.
LEMMA EndingAccounts ==
  ASSUME FaultlessInv, Playing, Render([velo EXCEPT !.over = TRUE]),
         patient => Outstanding' = {} /\ Accounts(velo, velo.pos) /\ patient'
  PROVE  OutOfLivesIsEnding' /\ (patient => PatientSound')
<1> DEFINE w == [velo EXCEPT !.over = TRUE]
<1>1. /\ GameSound(w) /\ Asked(w) /\ w # NoGame /\ w.over /\ Render(w)
      /\ w.queue = velo.queue /\ w.pos = velo.pos /\ w.q = velo.q /\ w.leg = velo.leg
      /\ w.legCost = velo.legCost /\ w.missed = velo.missed /\ w.locked = velo.locked
  BY OverSound DEF FaultlessInv, VelocityInv
<1> HIDE DEF w
<1>2. OutOfLivesIsEnding'
  BY <1>1, LivesDrawn
<1>3. ASSUME patient PROVE PatientSound'
  <2>1. Accounts(w, w.pos)
    BY <1>1, <1>3 DEF Accounts, LegKeepsUp, MissedAhead
  <2>2. w.locked \/ OnTurn(w)
    BY <1>1, <1>3 DEF FaultlessInv, PatientSound, OnTurn
  <2>3. QED
    BY <1>1, <1>3, <2>1, <2>2, QuietDrawing
<1>4. QED
  BY <1>2, <1>3

\* Before a death or a crash of a patient player, no card is on its way out.
LEMMA DyingAccounts ==
  ASSUME FaultlessInv, patient, NEW cb \in Callbacks, Outstanding = {cb},
         cb.what \notin {"advance", "miss"}
  PROVE  /\ velo.locked /\ ~timer /\ Playing /\ ~Passing
         /\ PassedSoon = velo.pos /\ Accounts(velo, velo.pos)
<1>1. ~Passing /\ Playing /\ velo.locked /\ ~timer
  BY DEF Passing, FaultlessInv, PatientSound, OneAtATime
<1>2. PassedSoon = velo.pos
  BY <1>1 DEF PassedSoon, FaultlessInv, VelocityInv, GameSound, Game
<1>3. QED
  BY <1>1, <1>2 DEF FaultlessInv, PatientSound

LEMMA DeathAccounts ==
  ASSUME FaultlessInv, Death
  PROVE  FaultlessInv'
<1> DEFINE cb == [what |-> "death", gloss |-> FALSE]
           crash == [what |-> "crash", gloss |-> FALSE]
<1>1. /\ cb \in Callbacks /\ crash \in Callbacks /\ cb # crash /\ VelocityInv /\ pending[cb] > 0
      /\ cb.what = "death" /\ crash.what = "crash"
  BY DEF Callbacks, FaultlessInv, Death
<1>2. VelocityInv'
  BY DeathStep DEF FaultlessInv
<1>3. CASE ~Playing /\ Consume(cb) /\ Lost
  <2> HIDE DEF cb
  <2>1. ~patient /\ patient' = patient /\ velo' = velo /\ NoRecovery'
    BY <1>1, <1>3, FiredLeaves DEF FaultlessInv, Lost
  <2>2. QED
    BY <1>2, <1>3, <2>1 DEF FaultlessInv, OutOfLivesIsEnding, PatientSound, Playing
<1>4. CASE pending' = [pending EXCEPT ![cb] = @ - 1, ![crash] = @ + 1] /\ Lost
  <2> HIDE DEF cb, crash
  <2>1. /\ NoRecovery' /\ EndsSoon'
        /\ patient => Outstanding = {cb} /\ Outstanding' = {crash} /\ pending'[crash] = 1
    BY <1>1, <1>4, FollowedBy DEF FaultlessInv, NoRecovery, EndsSoon
  <2>2. PatientSound'
    <3>1. CASE patient
      <4>1. velo.locked /\ ~timer /\ Playing /\ PassedSoon = velo.pos /\ Accounts(velo, velo.pos)
        BY <1>1, <2>1, <3>1, DyingAccounts
      <4>2. OneAtATime' /\ ~Passing'
        BY <1>1, <1>4, <2>1, <3>1, <4>1 DEF OneAtATime, Passing, Lost, Playing
      <4>3. PassedSoon' = velo.pos /\ velo' = velo
        BY <1>4, <4>2 DEF PassedSoon, Lost, FaultlessInv, VelocityInv, GameSound, Game
      <4>4. QED
        BY <4>1, <4>2, <4>3 DEF PatientSound
    <3>2. CASE ~patient
      BY <1>4, <3>2 DEF PatientSound, Lost
    <3>3. QED
      BY <3>1, <3>2
  <2>3. QED
    BY <1>2, <2>1, <2>2 DEF FaultlessInv, OutOfLivesIsEnding, EndsSoon
<1>5. CASE Playing /\ Consume(cb) /\ Render([velo EXCEPT !.over = TRUE]) /\ patient' = patient
  <2> HIDE DEF cb
  <2>1. NoRecovery' /\ (patient => Outstanding = {cb} /\ Outstanding' = {})
    BY <1>1, <1>5, FiredLeaves DEF FaultlessInv
  <2>2. patient => Accounts(velo, velo.pos)
    BY <1>1, <2>1, DyingAccounts
  <2>3. OutOfLivesIsEnding' /\ (patient => PatientSound')
    BY <1>5, <2>1, <2>2, EndingAccounts
  <2>4. QED
    BY <1>2, <1>5, <2>1, <2>3 DEF FaultlessInv, PatientSound
<1>6. QED
  BY <1>3, <1>4, <1>5 DEF Death

LEMMA CrashAccounts ==
  ASSUME FaultlessInv, Crash
  PROVE  FaultlessInv'
<1> DEFINE cb == [what |-> "crash", gloss |-> FALSE]
<1>1. cb \in Callbacks /\ VelocityInv /\ Consume(cb) /\ cb.what = "crash"
  BY DEF Callbacks, FaultlessInv, Crash
<1>2. VelocityInv'
  BY CrashStep DEF FaultlessInv
<1> HIDE DEF cb
<1>3. NoRecovery' /\ patient' = patient
      /\ (patient => Playing /\ Outstanding' = {} /\ Accounts(velo, velo.pos))
  BY <1>1, FiredLeaves, DyingAccounts DEF FaultlessInv, Crash, Lost
<1>4. CASE ~Playing /\ Lost
  BY <1>2, <1>3, <1>4 DEF FaultlessInv, OutOfLivesIsEnding, PatientSound, Playing, Lost
<1>5. CASE Playing /\ Render([velo EXCEPT !.over = TRUE])
  <2>1. OutOfLivesIsEnding' /\ (patient => PatientSound')
    BY <1>3, <1>5, EndingAccounts
  <2>2. QED
    BY <1>2, <1>3, <2>1 DEF FaultlessInv, PatientSound
<1>6. QED
  BY <1>4, <1>5 DEF Crash

LEMMA LandedAccounts ==
  ASSUME FaultlessInv, Landed
  PROVE  FaultlessInv'
<1> DEFINE cb == [what |-> "landed", gloss |-> FALSE]
<1>1. cb \in Callbacks /\ VelocityInv /\ Consume(cb) /\ cb.what = "landed"
  BY DEF Callbacks, FaultlessInv, Landed
<1>2. VelocityInv'
  BY LandedStep DEF FaultlessInv
<1> HIDE DEF cb
<1>3. /\ NoRecovery' /\ patient' = patient /\ (EndsSoon => EndsSoon') /\ velo' = velo
      /\ patient => Outstanding' = {} /\ velo.locked /\ Accounts(velo, velo.pos)
  BY <1>1, FiredLeaves, DyingAccounts DEF FaultlessInv, Landed, Lost, DrawDone
<1>4. OutOfLivesIsEnding'
  BY <1>3 DEF FaultlessInv, OutOfLivesIsEnding, EndsSoon, Playing
<1>5. PatientSound'
  <2>1. CASE patient
    <3>1. OneAtATime' /\ ~Passing'
      BY <1>3, <2>1 DEF OneAtATime, Passing
    <3>2. PassedSoon' = velo.pos
      BY <1>3, <3>1 DEF PassedSoon, FaultlessInv, VelocityInv, GameSound, Game
    <3>3. QED
      BY <1>3, <2>1, <3>1, <3>2 DEF PatientSound
  <2>2. CASE ~patient
    BY <1>3, <2>2 DEF PatientSound
  <2>3. QED
    BY <2>1, <2>2
<1>6. QED
  BY <1>2, <1>3, <1>4, <1>5 DEF FaultlessInv

\* Steps that fire no callback and give no answer.
LEMMA PageAccounts ==
  ASSUME FaultlessInv, TimerStops \/ Quit \/ Again \/ Leave \/ VelocityTab
  PROVE  FaultlessInv'
<1>1. VelocityInv' /\ VelocityInv
  BY PageSteps DEF FaultlessInv
<1>2. pending' = pending /\ patient' = patient /\ Outstanding' = Outstanding
  BY DEF TimerStops, Quit, Again, Leave, VelocityTab, Outstanding
<1>3. NoRecovery' /\ (EndsSoon <=> EndsSoon')
  BY <1>2 DEF FaultlessInv, NoRecovery, EndsSoon
<1>5. OutOfLivesIsEnding' /\ (patient => PatientSound')
  <2>1. CASE TimerStops
    <3>1. velo' = velo /\ ~timer' /\ (Passing <=> Passing') /\ PassedSoon' = PassedSoon
      BY <1>2, <2>1 DEF TimerStops, Passing, PassedSoon
    <3>2. OutOfLivesIsEnding'
      BY <1>3, <3>1 DEF FaultlessInv, OutOfLivesIsEnding, EndsSoon, Playing
    <3>3. ASSUME patient PROVE OneAtATime'
      BY <1>2, <3>1, <3>3 DEF FaultlessInv, PatientSound, OneAtATime, Playing
    <3>4. QED
      BY <1>2, <3>1, <3>2, <3>3 DEF FaultlessInv, PatientSound, Playing
  <2>2. CASE Quit
    <3>1. Playing /\ Render([velo EXCEPT !.over = TRUE])
      BY <2>2 DEF Quit
    <3>2. patient => Outstanding' = {} /\ Accounts(velo, velo.pos)
      BY <1>2, <2>2, PatientActs DEF Quit
    <3>3. QED
      BY <1>2, <3>1, <3>2, EndingAccounts
  <2>3. CASE Again
    <3>1. Render(NoGame)
      BY <2>3 DEF Again
    <3>2. velo' = NoGame
      BY <3>1, NoGameSound, RenderDraws
    <3>3. OutOfLivesIsEnding'
      BY <3>2 DEF OutOfLivesIsEnding, Playing
    <3>4. patient => Outstanding' = {}
      BY <1>2, <2>3, PatientActs DEF Again
    <3>5. QED
      BY <3>1, <3>3, <3>4, NoGameSound, QuietDrawing
  <2>4. CASE Leave
    <3>1. velo' = velo \/ velo' = NoGame
      BY <2>4 DEF Leave
    <3>2. OutOfLivesIsEnding'
      BY <1>3, <3>1 DEF FaultlessInv, OutOfLivesIsEnding, EndsSoon, Playing
    <3>3. ASSUME patient PROVE PatientSound'
      <4>1. Outstanding' = {} /\ (Playing => Accounts(velo, velo.pos))
        BY <1>2, <2>4, <3>3, PatientActs DEF Leave
      <4>2. OneAtATime' /\ ~Passing'
        BY <4>1 DEF OneAtATime, Passing
      <4>3. PassedSoon' = velo'.pos
        BY <1>1, <4>2 DEF PassedSoon, VelocityInv, GameSound, Game
      <4>4. QED
        BY <3>1, <3>3, <4>1, <4>2, <4>3 DEF FaultlessInv, PatientSound, Playing
    <3>4. QED
      BY <3>2, <3>3
  <2>5. CASE VelocityTab
    <3>1. Render(velo) /\ GameSound(velo) /\ Asked(velo)
      BY <1>1, <2>5 DEF VelocityTab, VelocityInv
    <3>2. OutOfLivesIsEnding'
      BY <1>3, <3>1, LivesDrawn DEF FaultlessInv, OutOfLivesIsEnding, EndsSoon, Playing
    <3>3. ASSUME patient PROVE PatientSound'
      <4>1. Outstanding' = {} /\ (Playing => Accounts(velo, velo.pos))
        BY <1>2, <2>5, <3>3, PatientActs DEF VelocityTab
      <4>2. velo # NoGame => velo.locked \/ OnTurn(velo)
        BY <3>3 DEF FaultlessInv, PatientSound, Playing
      <4>3. QED
        BY <3>1, <4>1, <4>2, QuietDrawing DEF Playing
    <3>4. QED
      BY <3>2, <3>3
  <2>6. QED
    BY <2>1, <2>2, <2>3, <2>4, <2>5
<1>6. QED
  BY <1>1, <1>2, <1>3, <1>5 DEF FaultlessInv, PatientSound
\* The catch block's callback is never outstanding.
LEMMA RecoverAccounts ==
  ASSUME FaultlessInv, NEW gloss \in BOOLEAN
  PROVE  ~Recover(gloss)
<1> DEFINE cb == [what |-> "recover", gloss |-> gloss]
<1>1. cb \in Callbacks /\ cb.what = "recover"
  BY DEF Callbacks
<1>2. ASSUME Recover(gloss) PROVE FALSE
  <2>1. cb \in Outstanding
    BY <1>1, <1>2 DEF Recover, Consume, Outstanding
  <2>2. QED
    BY <1>1, <2>1 DEF FaultlessInv, NoRecovery
<1>3. QED
  BY <1>2

LEMMA FaultlessInitial == Init => FaultlessInv
<1> SUFFICES ASSUME Init PROVE FaultlessInv
  OBVIOUS
<1>1. Outstanding = {} /\ ~Playing
  BY DEF Init, Outstanding, Playing
<1>2. QED
  BY <1>1, VelocityInitial DEF FaultlessInv, NoRecovery, OutOfLivesIsEnding, PatientSound, OneAtATime

LEMMA FaultlessStep == ~threw' /\ FaultlessInv /\ [Next]_vars => FaultlessInv'
<1> SUFFICES ASSUME ~threw', FaultlessInv, [Next]_vars
             PROVE  FaultlessInv'
  OBVIOUS
<1>1. CASE UNCHANGED vars
  <2>1. velo' = velo /\ pending' = pending /\ timer' = timer /\ patient' = patient /\ Outstanding' = Outstanding
    BY <1>1 DEF vars, Outstanding
  <2>2. VelocityInv'
    BY <1>1, VelocityStep DEF FaultlessInv
  <2>3. NoRecovery' /\ OutOfLivesIsEnding'
    BY <2>1 DEF FaultlessInv, NoRecovery, OutOfLivesIsEnding, Playing
  <2>4. OneAtATime' = OneAtATime /\ PassedSoon' = PassedSoon /\ Playing' = Playing
    BY <2>1 DEF OneAtATime, PassedSoon, Passing, Playing
  <2>5. PatientSound'
    BY <2>1, <2>4 DEF FaultlessInv, PatientSound
  <2>6. QED
    BY <2>2, <2>3, <2>5 DEF FaultlessInv
<1>2. CASE Fire
  BY <1>2, AdvanceAccounts, MissAccounts, RecoverAccounts, DeathAccounts, CrashAccounts, LandedAccounts
    DEF Fire
<1>3. QED
  BY <1>1, <1>2, StartAccounts, AnswerAccounts, PageAccounts DEF Next

\* What an answer threw stays thrown.
LEMMA ThrewStays == [Next]_vars /\ threw => threw'
BY DEF Next, Start, Answer, TimerStops, Fire, Advance, Miss, Recover, Death, Crash, Landed, Lost,
       Quit, Again, Leave, VelocityTab, vars

\* What holds of every reachable state until veloAnswer throws.
THEOREM FaultlessInvariant == Spec => [](~threw => FaultlessInv)
<1>1. (~threw => FaultlessInv) /\ [Next]_vars => (~threw => FaultlessInv)'
  BY FaultlessStep, ThrewStays
<1>2. QED
  BY <1>1, FaultlessInitial, PTL DEF Spec

\* A round is sound under every order of callbacks, tabs and games: of its
\* types, with its timer on an open question only, and with a death or crash
\* callback to come (veloDeathSequence) once it is out of lives, unless
\* veloAnswer has thrown.
THEOREM VelocityRoundSound == Spec => []RoundSound
<1>1. VelocityInv /\ (~threw => FaultlessInv) => RoundSound
  BY DEF FaultlessInv, VelocityInv, RoundSound
<1>2. QED
  BY <1>1, VelocityInvariant, FaultlessInvariant, PTL

\* veloAnswer puts a missed card back far enough, and a right answer takes it
\* from `missed` only as it leaves the queue: a patient player's missed cards
\* are all ahead when the next question is shown, for every queue and gap, until
\* veloAnswer throws.
THEOREM VelocityMissedStillQueued == Spec => []MissedStillQueued
<1>1. ASSUME ~threw => FaultlessInv PROVE MissedStillQueued
  <2> SUFFICES ASSUME patient, ~threw, ~velo.locked
               PROVE  MissedAhead(velo, velo.pos)
    BY DEF MissedStillQueued, MissedAhead
  <2>1. CASE Playing
    <3>1. Outstanding = {}
      BY <1>1 DEF FaultlessInv, PatientSound, OneAtATime
    <3>2. QED
      BY <2>1, <3>1, PatientActs, <1>1 DEF Free, Accounts
  <2>2. CASE ~Playing
    BY <2>2 DEF Playing, NoGame, MissedAhead
  <2>3. QED
    BY <2>1, <2>2
<1>2. QED
  BY <1>1, FaultlessInvariant, PTL
LEMMA BanksDrawn ==
  ASSUME NEW w, GameSound(w), Asked(w), Render(w)
  PROVE  velo'.banks = w.banks
BY RenderDraws DEF SameGame

\* Every step but a win keeps the count of banked waypoints, or drops the game.
LEMMA OnlyAWinBanks ==
  ASSUME FaultlessInv, Next, \A gloss \in BOOLEAN : ~Advance(gloss)
  PROVE  ~(velo'.banks > velo.banks)
<1>1. VelocityInv /\ velo \in Game /\ GameSound(velo) /\ Asked(velo) /\ velo.banks \in Nat
  BY DEF FaultlessInv, VelocityInv, TypeOK, Game
<1>2. NoGame.banks = 0 /\ GameSound(NoGame) /\ Asked(NoGame)
  BY NoGameSound DEF NoGame
<1>3. ASSUME velo' = velo \/ velo' = NoGame PROVE ~(velo'.banks > velo.banks)
  BY <1>1, <1>2, <1>3
<1>4. ASSUME NEW queue \in Queues, NEW zen \in BOOLEAN, Start(queue, zen)
      PROVE  ~(velo'.banks > velo.banks)
  <2> DEFINE w == [NoGame EXCEPT !.queue = queue, !.zen = zen, !.hearts = Hearts, !.target = NextTarget,
                                 !.legCost = Least(LegLength[NextTarget], Len(queue))]
  <2>1. Render(w) /\ velo = NoGame
    BY <1>4 DEF Start, Playing
  <2>2. GameSound(w) /\ ~w.over /\ w.pos < Len(w.queue) /\ w.banks = 0
    BY <1>1, StartingGame
  <2> HIDE DEF w
  <2>3. velo'.banks = 0
    BY <2>1, <2>2, RenderDraws DEF SameGame
  <2>4. QED
    BY <1>2, <2>1, <2>3
<1>5. ASSUME NEW said \in {"right", "wrong", "skip", "time"}, Answer(said)
      PROVE  ~(velo'.banks > velo.banks)
  <2> DEFINE answered == velo.answered + 1
             w == [velo EXCEPT !.locked = TRUE, !.answered = answered]
  <2>1. (velo' = w \/ velo' = Outcome(w, said)) /\ answered \in Nat /\ velo # NoGame
    BY <1>1, <1>5 DEF Answer, Game, Playing
  <2> HIDE DEF answered
  <2>2. w \in Game /\ w.queue = velo.queue /\ w.q = velo.q /\ w.banks = velo.banks /\ w.won = velo.won
        /\ w.target = velo.target
    BY <1>1, <2>1 DEF Game
  <2> HIDE DEF w
  <2>3. GameSound(w) /\ Asked(w) /\ w # NoGame
    BY <1>1, <2>1, <2>2, QueueMeansPlaying DEF GameSound, Asked
  <2>4. velo'.banks = w.banks
    BY <2>1, <2>3, OutcomeOfAnswer DEF SameRound
  <2>5. QED
    BY <1>1, <2>2, <2>4
<1>6. ASSUME NEW gloss \in BOOLEAN, Miss(gloss)
      PROVE  ~(velo'.banks > velo.banks)
  <2>1. CASE Playing
    <3>1. GameSound(Passed(gloss)) /\ Asked(Passed(gloss)) /\ Passed(gloss).banks = velo.banks
      BY <1>1, <2>1, PassedSound DEF Passed
    <3>2. Render(Passed(gloss))
      BY <1>6, <2>1 DEF Miss
    <3>3. QED
      BY <1>1, <3>1, <3>2, BanksDrawn
  <2>2. CASE ~Playing
    <3>1. Render(velo) \/ velo' = velo
      BY <1>6, <2>2 DEF Miss, Passed, Lost
    <3>2. QED
      BY <1>1, <3>1, BanksDrawn
  <2>3. QED
    BY <2>1, <2>2
<1>7. ASSUME Playing, Render([velo EXCEPT !.over = TRUE])
      PROVE  ~(velo'.banks > velo.banks)
  <2> DEFINE w == [velo EXCEPT !.over = TRUE]
  <2>1. GameSound(w) /\ Asked(w) /\ w.banks = velo.banks /\ Render(w)
    BY <1>1, <1>7, OverSound
  <2> HIDE DEF w
  <2>2. QED
    BY <1>1, <2>1, BanksDrawn
<1>8. CASE Death \/ Crash \/ Landed
  BY <1>3, <1>7, <1>8 DEF Death, Crash, Landed, Lost, DrawDone
<1>9. CASE TimerStops \/ Quit \/ Again \/ Leave \/ VelocityTab
  <2>1. CASE Render(NoGame) \/ Render(velo)
    BY <1>1, <1>2, <2>1, BanksDrawn
  <2>2. QED
    BY <1>3, <1>7, <1>9, <2>1 DEF TimerStops, Quit, Again, Leave, VelocityTab
<1>10. QED
  BY <1>4, <1>5, <1>6, <1>8, <1>9, RecoverAccounts DEF Next, Fire

\* A win of a patient player is earned: the callback that finds it is the one
\* of a right answer, so that the ship has lives and every card passed, the
\* last one included, has earned its leg.
LEMMA WinIsEarned ==
  ASSUME FaultlessInv, patient, NEW gloss \in BOOLEAN, Advance(gloss), velo'.banks > velo.banks
  PROVE  ~OutOfLives(velo) /\ velo'.leg >= velo'.legCost
<1> DEFINE cb == [what |-> "advance", gloss |-> gloss]
           w == Passed(gloss)
           winner == [w EXCEPT !.won = TRUE, !.banks = @ + 1]
           landed == [what |-> "landed", gloss |-> FALSE]
<1>1. /\ cb \in Callbacks /\ landed \in Callbacks /\ cb # landed /\ VelocityInv /\ pending[cb] > 0
      /\ cb.what = "advance" /\ cb.gloss = gloss
      /\ GameSound(velo) /\ Asked(velo) /\ velo.banks \in Nat
  BY DEF Callbacks, FaultlessInv, Advance, VelocityInv, TypeOK, Game
<1>2. Outstanding = {cb} /\ Playing
  <2> HIDE DEF cb, landed
  <2>1. CASE Consume(cb)
    BY <1>1, <2>1, FiredLeaves DEF FaultlessInv
  <2>2. CASE pending' = [pending EXCEPT ![cb] = @ - 1, ![landed] = @ + 1]
    BY <1>1, <2>2, FollowedBy DEF FaultlessInv
  <2>3. QED
    BY <2>1, <2>2 DEF Advance, cb, landed
<1>3. /\ GameSound(w) /\ Asked(w) /\ SameGame(w, [velo EXCEPT !.pos = IF gloss THEN @ ELSE @ + 1])
  BY <1>1, <1>2, PassedSound
<1>4. w.over = velo.over /\ w.zen = velo.zen /\ w.hearts = velo.hearts /\ w.banks = velo.banks
  BY <1>1, <1>3 DEF SameGame, GameSound, Game
<1>5. Wins(w) /\ velo' = winner
  <2>1. CASE Render(w)
    <3> HIDE DEF w
    <3>1. velo'.banks = velo.banks
      BY <1>3, <1>4, <2>1, BanksDrawn
    <3>2. QED
      BY <1>1, <3>1
  <2>2. QED
    BY <1>2, <2>1 DEF Advance, DrawDone
<1>6. Accounts(w, w.pos)
  <2> HIDE DEF cb, w
  <2>1. w = Passed(cb.gloss)
    BY <1>1 DEF w
  <2>2. QED
    BY <1>1, <1>2, <2>1, PassingAccounts
<1> HIDE DEF cb, w
<1>7. w \in Game /\ velo'.leg = w.leg /\ velo'.legCost = w.legCost
  BY <1>3, <1>5 DEF GameSound, Game
<1>8. velo'.leg >= velo'.legCost
  BY <1>5, <1>6, <1>7 DEF Wins, Accounts, LegKeepsUp, Game
<1>9. ~OutOfLives(velo)
  <2>1. ~EndsSoon /\ ~velo.over
    BY <1>1, <1>2, <1>4, <1>5 DEF EndsSoon, Wins
  <2>2. QED
    BY <1>2, <2>1 DEF FaultlessInv, OutOfLivesIsEnding, EndsSoon
<1>10. QED
  BY <1>8, <1>9

\* veloVictorySequence is "played on a genuine round CLEAR": what a patient
\* player banks was answered for, by a ship with lives, whatever the queue, the
\* legs and the gap, until veloAnswer throws.
THEOREM VelocityWaypointEarned == Spec => WaypointEarned
<1>1. ASSUME FaultlessInv, [Next]_vars, patient, velo'.banks > velo.banks
      PROVE  ~OutOfLives(velo) /\ velo'.leg >= velo'.legCost
  <2>1. velo' # velo
    BY <1>1 DEF FaultlessInv, VelocityInv, TypeOK, Game
  <2>2. PICK gloss \in BOOLEAN : Advance(gloss)
    BY <1>1, <2>1, OnlyAWinBanks DEF vars
  <2>3. QED
    BY <1>1, <2>2, WinIsEarned
<1>2. (~threw => FaultlessInv) /\ [Next]_vars
        => [patient /\ ~threw /\ velo'.banks > velo.banks
              => ~OutOfLives(velo) /\ velo'.leg >= velo'.legCost]_vars
  BY <1>1
<1>3. QED
  BY <1>2, FaultlessInvariant, PTL DEF Spec, WaypointEarned

=============================================================================
