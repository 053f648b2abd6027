----------------------------- MODULE ShellProofs -----------------------------
(***************************************************************************)
(* Proofs about the modes, the quiz and the episodes: for any number of    *)
(* questions, of cards in an episode and of episodes started.              *)
(***************************************************************************)
EXTENDS Shell, TLAPS

\* There is a question to answer while one is on screen.
QuestionOnScreen == view = "question" => quiz.pos < Questions

\* The menu of Listen is there without a session, and its transcript with one.
MenuWithoutSession == view = "menu" => listen = "none"
AloudOnScreen == view = "aloud" => listen = "aloud"

\* The card that epOnTime has seen last; the first, before it has seen any.
CardSeen == IF cardIdx = -1 THEN 0 ELSE cardIdx

CardOnScreen == view = "episode" => shown = CardSeen

\* Once all updates came, a paused episode is where epOnTime saw it, unless it
\* could not look.
PausedAtCardSeen == ~due /\ playing = {} /\ ~misread => heard = CardSeen

\* An episode has a player.
EpisodeHasPlayer == listen = "episode" => player > 0

\* What holds for any learner.
ShellInv ==
  /\ EpisodesSound /\ ScoreIsEarned
  /\ QuestionOnScreen /\ MenuWithoutSession /\ AloudOnScreen
  /\ CardOnScreen /\ PausedAtCardSeen /\ EpisodeHasPlayer

\* While a patient learner waits for a manifest, it is that of the last episode
\* started.
OneFetch ==
  fetches # {} => /\ fetches \subseteq {player}
                  /\ mode = "listen" /\ listen = "episode" /\ ~manifest
                  /\ view \in {"loading", "unavailable"}

SilentWhenUnavailable == view = "unavailable" => listen = "episode" /\ playing = {}

\* What holds for a patient learner besides.
PatientInv ==
  /\ PatientSoundStops /\ PatientScreenIsModes
  /\ patient => OneFetch /\ SilentWhenUnavailable

-----------------------------------------------------------------------------
(* Any learner.                                                            *)

\* The types, part by part.
QuizType == quiz \in [made: BOOLEAN, pos: 0..Questions, score: Nat, answered: BOOLEAN] /\ redrawn \in BOOLEAN

ScreenType ==
  /\ mode \in {"test", "listen", "other"}
  /\ view \in {"question", "score", "menu", "loading", "episode", "unavailable", "aloud", "other"}
  /\ listen \in {"none", "episode", "aloud"} /\ speaking \in BOOLEAN /\ patient \in BOOLEAN

PlayerType ==
  /\ player \in 0..MaxPlayers /\ playing \subseteq 1..player
  /\ broken \subseteq 1..player /\ fetches \subseteq 1..player

CardType ==
  /\ manifest \in BOOLEAN /\ due \in BOOLEAN /\ misread \in BOOLEAN /\ media \in BOOLEAN
  /\ heard \in Cards /\ shown \in Cards /\ cardIdx \in Cards \cup {-1}

LEMMA TypeParts == TypeOK <=> (QuizType /\ ScreenType /\ PlayerType /\ CardType)
BY DEF TypeOK, QuizType, ScreenType, PlayerType, CardType, Views

LEMMA NewQuizType ==
  /\ NewQuiz \in [made: BOOLEAN, pos: 0..Questions, score: Nat, answered: BOOLEAN]
  /\ NewQuiz.pos = 0 /\ NewQuiz.score = 0 /\ ~NewQuiz.answered
BY ShellAssumption DEF NewQuiz

LEMMA QuizKept ==
  ASSUME QuizType, QuestionOnScreen, ScoreIsEarned, Choose \/ NextQuestion \/ Restart
  PROVE  QuizType' /\ QuestionOnScreen' /\ ScoreIsEarned'
<1>0. /\ quiz.pos \in 0..Questions /\ quiz.score \in Nat /\ quiz.answered \in BOOLEAN
      /\ quiz.made \in BOOLEAN /\ redrawn \in BOOLEAN /\ Questions \in Nat \ {0}
  BY ShellAssumption DEF QuizType
<1>1. CASE Choose
  <2>1. PICK score \in quiz.score .. Least(quiz.score + 1, MaxScore) :
          quiz' = [quiz EXCEPT !.answered = TRUE, !.score = score]
    BY <1>1 DEF Choose
  <2>2. score \in Nat /\ score <= quiz.score + 1
    BY <1>0, <2>1, ShellAssumption DEF Least
  <2>3. QuizType' /\ quiz'.pos = quiz.pos /\ quiz'.score = score /\ quiz'.answered
    BY <1>1, <2>1, <2>2 DEF Choose, QuizType
  <2>4. view = "question" /\ view' = view /\ ~quiz.answered /\ redrawn' = redrawn
    BY <1>1 DEF Choose
  <2>5. QED
    BY <1>0, <2>2, <2>3, <2>4 DEF QuestionOnScreen, ScoreIsEarned, AnswerShown
<1>2. CASE NextQuestion
  <2> DEFINE pos == quiz.pos + 1
  <2>1. view = "question" /\ quiz.answered /\ pos \in 0..Questions /\ redrawn' = redrawn
    BY <1>0, <1>2 DEF NextQuestion, QuestionOnScreen
  <2> HIDE DEF pos
  <2>2. QuizType' /\ quiz'.pos = pos /\ quiz'.score = quiz.score
        /\ view' = IF pos >= Questions THEN "score" ELSE "question"
    BY <1>2, <2>1 DEF NextQuestion, RenderTest, QuizType, pos
  <2>3. QED
    BY <1>0, <2>1, <2>2 DEF QuestionOnScreen, ScoreIsEarned, AnswerShown, pos
<1>3. CASE Restart
  <2>1. quiz' = NewQuiz /\ redrawn' \in BOOLEAN
    BY <1>3 DEF Restart
  <2>2. QuizType' /\ quiz'.pos = 0 /\ quiz'.score = 0 /\ ~quiz'.answered
    BY <2>1, NewQuizType DEF QuizType
  <2>3. QED
    BY <1>0, <2>2 DEF QuestionOnScreen, ScoreIsEarned, AnswerShown
<1>4. QED
  BY <1>1, <1>2, <1>3

\* A visit draws the question again: the answer is forgotten, and `redrawn`
\* remembers it.
LEMMA QuizVisited ==
  ASSUME QuizType, QuestionOnScreen, ScoreIsEarned, SetMode("test")
  PROVE  QuizType' /\ QuestionOnScreen' /\ ScoreIsEarned'
<1>1. /\ RenderTest(quiz) /\ redrawn' = (redrawn \/ AnswerShown)
  BY DEF SetMode
<1>2. /\ quiz.pos \in 0..Questions /\ quiz.score \in Nat /\ quiz.answered \in BOOLEAN
      /\ quiz.made \in BOOLEAN /\ redrawn \in BOOLEAN /\ Questions \in Nat \ {0}
  BY ShellAssumption DEF QuizType
<1>3. /\ QuizType' /\ quiz'.pos = quiz.pos /\ quiz'.score = quiz.score
      /\ quiz'.answered = (quiz.answered /\ quiz.pos >= Questions)
      /\ view' = IF quiz.pos >= Questions THEN "score" ELSE "question"
  BY <1>1, <1>2 DEF RenderTest, QuizType, AnswerShown
<1>4. QED
  BY <1>1, <1>2, <1>3 DEF QuestionOnScreen, ScoreIsEarned, AnswerShown

\* Any other step leaves the quiz alone.
LEMMA QuizLeft ==
  ASSUME QuizType, QuestionOnScreen, ScoreIsEarned, UNCHANGED quizzing, view' = view \/ view' # "question"
  PROVE  QuizType' /\ QuestionOnScreen' /\ ScoreIsEarned'
BY DEF QuizType, QuestionOnScreen, ScoreIsEarned, AnswerShown, quizzing

\* The screen, the player and the cards, one action at a time.
Screens == ScreenType /\ MenuWithoutSession /\ AloudOnScreen /\ EpisodeOnScreenExists

Players == PlayerType /\ OnePlayer /\ EpisodeHasPlayer

CardsSound == CardType /\ CardOnScreen

LEMMA PlayersKept ==
  ASSUME Players, EpisodeOnScreenExists, Next
  PROVE  Players'
<1> USE DEF Players, PlayerType, OnePlayer, EpisodeHasPlayer, Others, Pause, episode, quizzing
<1>1. MaxPlayers \in Nat
  BY ShellAssumption
<1>2. CASE Choose \/ NextQuestion \/ Restart
  BY <1>2 DEF Choose, NextQuestion, Restart
<1>3. CASE StartEpisode
  BY <1>1, <1>3 DEF StartEpisode
<1>4. CASE EpToggle
  <2>1. player \in 1..player
    BY <1>4 DEF EpToggle, Controls, EpisodeOnScreenExists
  <2>2. QED
    BY <1>4, <2>1 DEF EpToggle
<1>5. CASE Seek \/ EpExit \/ EpBack
  BY <1>5 DEF Seek, EpExit, EpBack
<1>6. ASSUME NEW i \in 1..player, ManifestArrives(i) \/ ManifestFails(i)
      PROVE  Players'
  BY <1>6 DEF ManifestArrives, ManifestFails, EpUnavailable
<1>7. ASSUME NEW i \in 1..player, AudioError(i)
      PROVE  Players'
  BY <1>7 DEF AudioError
<1>8. CASE Advance \/ TimeUpdate
  BY <1>8 DEF Advance, TimeUpdate
<1>9. CASE StartAloud \/ ToggleAloud \/ AloudGoesOn \/ SpeechEnds \/ AloudExit
  BY <1>9 DEF StartAloud, ToggleAloud, AloudGoesOn, SpeechEnds, AloudExit
<1>10. ASSUME NEW m \in {"test", "listen", "other"}, SetMode(m)
       PROVE  Players'
  BY <1>10 DEF SetMode, Teardown
<1>11. QED
  BY <1>2, <1>3, <1>4, <1>5, <1>6, <1>7, <1>8, <1>9, <1>10 DEF Next

LEMMA ScreensKept ==
  ASSUME Screens, CardType, Next
  PROVE  Screens'
<1> USE DEF Screens, ScreenType, MenuWithoutSession, AloudOnScreen, EpisodeOnScreenExists,
            Pause, episode, quizzing
<1>1. manifest \in BOOLEAN
  BY DEF CardType
<1>2. CASE Choose \/ NextQuestion \/ Restart
  BY <1>2 DEF Choose, NextQuestion, Restart, RenderTest
<1>3. CASE StartEpisode
  BY <1>3 DEF StartEpisode
<1>4. CASE EpToggle \/ Seek
  BY <1>4 DEF EpToggle, Seek
<1>5. CASE EpExit \/ EpBack
  BY <1>5 DEF EpExit, EpBack
<1>6. ASSUME NEW i \in 1..player, ManifestArrives(i)
      PROVE  Screens'
  BY <1>6 DEF ManifestArrives, RenderEpisode
<1>7. ASSUME NEW i \in 1..player, ManifestFails(i) \/ AudioError(i)
      PROVE  Screens'
  BY <1>7 DEF ManifestFails, EpUnavailable, AudioError
<1>8. CASE Advance \/ TimeUpdate
  BY <1>8 DEF Advance, TimeUpdate
<1>9. CASE StartAloud \/ ToggleAloud \/ AloudGoesOn \/ SpeechEnds \/ AloudExit
  BY <1>9 DEF StartAloud, ToggleAloud, AloudGoesOn, SpeechEnds, AloudExit
<1>10. ASSUME SetMode("test") PROVE Screens'
  BY <1>10 DEF SetMode, RenderTest, Teardown
<1>11. ASSUME SetMode("listen") PROVE Screens'
  BY <1>1, <1>11 DEF SetMode, Teardown, RenderEpisode
<1>12. ASSUME SetMode("other") PROVE Screens'
  BY <1>12 DEF SetMode, Teardown
<1>13. QED
  BY <1>2, <1>3, <1>4, <1>5, <1>6, <1>7, <1>8, <1>9, <1>10, <1>11, <1>12 DEF Next

LEMMA CardsKept ==
  ASSUME CardsSound, EpisodeOnScreenExists, ScreenType, Next
  PROVE  CardsSound'
<1> USE DEF CardsSound, CardType, CardOnScreen, CardSeen, Pause, episode, quizzing
<1>1. 0 \in Cards /\ -1 \notin Cards /\ Cards \subseteq Int /\ EpisodeCards \in Nat \ {0}
  BY ShellAssumption DEF Cards
<1>2. CASE Choose \/ NextQuestion \/ Restart
  BY <1>2 DEF Choose, NextQuestion, Restart, RenderTest
<1>3. CASE StartEpisode
  BY <1>1, <1>3 DEF StartEpisode
<1>4. CASE EpToggle
  <2>1. heard' \in Cards /\ due' \in BOOLEAN
    BY <1>1, <1>4 DEF EpToggle
  <2>2. UNCHANGED <<view, manifest, misread, media, cardIdx, shown>>
    BY <1>4 DEF EpToggle
  <2>3. QED
    BY <2>1, <2>2
<1>5. CASE Seek
  BY <1>1, <1>5 DEF Seek, Clamped, Least, Cards
<1>6. CASE EpExit \/ EpBack
  BY <1>6 DEF EpExit, EpBack
<1>7. ASSUME NEW i \in 1..player, ManifestArrives(i)
      PROVE  CardsSound'
  BY <1>1, <1>7 DEF ManifestArrives, RenderEpisode
<1>8. ASSUME NEW i \in 1..player, ManifestFails(i) \/ AudioError(i)
      PROVE  CardsSound'
  BY <1>8 DEF ManifestFails, EpUnavailable, AudioError
<1>9. CASE Advance
  <2>1. heard' \in Cards
    BY <1>1, <1>9 DEF Advance, Cards
  <2>2. QED
    BY <1>9, <2>1 DEF Advance
<1>10. CASE TimeUpdate
  BY <1>1, <1>10 DEF TimeUpdate, IsNew, EpisodeOnScreenExists
<1>11. CASE StartAloud \/ ToggleAloud \/ AloudGoesOn \/ SpeechEnds \/ AloudExit
  BY <1>11 DEF StartAloud, ToggleAloud, AloudGoesOn, SpeechEnds, AloudExit
<1>12. ASSUME NEW m \in {"test", "listen", "other"}, SetMode(m)
       PROVE  CardsSound'
  BY <1>1, <1>12 DEF SetMode, Teardown, RenderEpisode, RenderTest
<1>13. QED
  BY <1>2, <1>3, <1>4, <1>5, <1>6, <1>7, <1>8, <1>9, <1>10, <1>11, <1>12 DEF Next

LEMMA PausedKept ==
  ASSUME CardType, OnePlayer, PausedAtCardSeen, Next
  PROVE  PausedAtCardSeen'
<1> USE DEF PausedAtCardSeen, CardSeen, Others, Pause, episode, quizzing
<1>1. /\ playing \subseteq {player} /\ manifest \in BOOLEAN /\ due \in BOOLEAN
      /\ heard \in Nat /\ cardIdx \in Int /\ cardIdx >= -1
  BY DEF CardType, OnePlayer, Cards
<1>2. CASE Choose \/ NextQuestion \/ Restart
  BY <1>2 DEF Choose, NextQuestion, Restart
<1>3. CASE StartEpisode
  BY <1>3 DEF StartEpisode
<1>4. CASE EpToggle
  BY <1>1, <1>4 DEF EpToggle
<1>5. CASE Seek \/ EpBack
  BY <1>5 DEF Seek, EpBack
<1>6. CASE EpExit
  BY <1>1, <1>6 DEF EpExit
<1>7. ASSUME NEW i \in 1..player, ManifestArrives(i)
      PROVE  PausedAtCardSeen'
  BY <1>7 DEF ManifestArrives
<1>8. ASSUME NEW i \in 1..player, ManifestFails(i)
      PROVE  PausedAtCardSeen'
  BY <1>1, <1>8 DEF ManifestFails, EpUnavailable
<1>9. ASSUME NEW i \in 1..player, AudioError(i)
      PROVE  PausedAtCardSeen'
  BY <1>1, <1>9 DEF AudioError
<1>10. CASE Advance
  BY <1>1, <1>10 DEF Advance
<1>11. CASE TimeUpdate
  <2> DEFINE i == IF manifest THEN heard ELSE 0
  <2>1. /\ misread' = (~manifest /\ heard # 0) /\ heard' = heard
        /\ IF i # cardIdx THEN cardIdx' = i ELSE cardIdx' = cardIdx
    BY <1>11 DEF TimeUpdate, IsNew
  <2>2. cardIdx' = i
    BY <2>1
  <2>3. ~misread' => i = heard
    BY <2>1
  <2>4. QED
    BY <1>1, <2>1, <2>2, <2>3
<1>12. CASE StartAloud \/ ToggleAloud \/ AloudGoesOn \/ SpeechEnds \/ AloudExit
  BY <1>12 DEF StartAloud, ToggleAloud, AloudGoesOn, SpeechEnds, AloudExit
<1>13. ASSUME NEW m \in {"test", "listen", "other"}, SetMode(m)
       PROVE  PausedAtCardSeen'
  <2>1. /\ (playing' = playing /\ due' = due)
           \/ (playing' = playing \ {player} /\ due' = (due \/ player \in playing))
        /\ UNCHANGED <<heard, cardIdx, misread>>
    BY <1>13 DEF SetMode, Teardown
  <2>2. QED
    BY <1>1, <2>1
<1>14. QED
  BY <1>2, <1>3, <1>4, <1>5, <1>6, <1>7, <1>8, <1>9, <1>10, <1>11, <1>12, <1>13 DEF Next

\* The steps that draw no question leave the quiz alone.
LEMMA QuizInvKept ==
  ASSUME ShellInv, Next
  PROVE  QuizType' /\ QuestionOnScreen' /\ ScoreIsEarned'
<1> USE DEF episode
<1>1. QuizType /\ QuestionOnScreen /\ ScoreIsEarned
  BY TypeParts DEF ShellInv, EpisodesSound
<1>2. CASE Choose \/ NextQuestion \/ Restart
  BY <1>1, <1>2, QuizKept
<1>3. CASE SetMode("test")
  BY <1>1, <1>3, QuizVisited
<1>4. CASE StartEpisode \/ EpToggle \/ Seek \/ EpExit \/ EpBack \/ Advance \/ TimeUpdate
  BY <1>1, <1>4, QuizLeft DEF StartEpisode, EpToggle, Seek, EpExit, EpBack, Advance, TimeUpdate
<1>5. ASSUME NEW i \in 1..player, ManifestArrives(i) \/ ManifestFails(i) \/ AudioError(i)
      PROVE  QuizType' /\ QuestionOnScreen' /\ ScoreIsEarned'
  BY <1>1, <1>5, QuizLeft DEF ManifestArrives, RenderEpisode, ManifestFails, EpUnavailable, AudioError
<1>6. CASE StartAloud \/ ToggleAloud \/ AloudGoesOn \/ SpeechEnds \/ AloudExit
  BY <1>1, <1>6, QuizLeft DEF StartAloud, ToggleAloud, AloudGoesOn, SpeechEnds, AloudExit
<1>7. CASE SetMode("listen") \/ SetMode("other")
  <2>1. UNCHANGED quizzing /\ (view' = view \/ view' # "question")
    BY <1>7 DEF SetMode, RenderEpisode
  <2>2. QED
    BY <1>1, <2>1, QuizLeft
<1>8. QED
  BY <1>2, <1>3, <1>4, <1>5, <1>6, <1>7 DEF Next

LEMMA ShellStep == ShellInv /\ [Next]_vars => ShellInv'
<1> SUFFICES ASSUME ShellInv, [Next]_vars
             PROVE  ShellInv'
  OBVIOUS
<1>1. CASE UNCHANGED vars
  <2>1. ShellInv' = ShellInv
    BY <1>1 DEF vars, quizzing, episode, ShellInv, EpisodesSound, TypeOK, OnePlayer, EpisodeOnScreenExists,
                ScoreIsEarned, AnswerShown, QuestionOnScreen, MenuWithoutSession, AloudOnScreen,
                CardOnScreen, PausedAtCardSeen, CardSeen, EpisodeHasPlayer
  <2>2. QED
    BY <2>1
<1>2. CASE Next
  <2>1. /\ QuizType /\ Screens /\ Players /\ CardsSound /\ PausedAtCardSeen
    BY TypeParts DEF ShellInv, EpisodesSound, Screens, Players, CardsSound
  <2>2. QuizType' /\ QuestionOnScreen' /\ ScoreIsEarned'
    BY <1>2, QuizInvKept
  <2>3. Players' /\ CardsSound' /\ PausedAtCardSeen'
    BY <1>2, <2>1, PlayersKept, CardsKept, PausedKept DEF Screens, Players, CardsSound
  <2>4. Screens'
    BY <1>2, <2>1, ScreensKept DEF CardsSound
  <2>5. TypeOK'
    BY <2>2, <2>3, <2>4 DEF Screens, Players, CardsSound, TypeOK, QuizType, ScreenType, PlayerType, CardType, Views
  <2>6. QED
    BY <2>2, <2>3, <2>4, <2>5 DEF ShellInv, EpisodesSound, Screens, Players, CardsSound
<1>3. QED
  BY <1>1, <1>2

LEMMA ShellInitial == Init => ShellInv
<1> SUFFICES ASSUME Init PROVE ShellInv
  OBVIOUS
<1>1. QuizType /\ ~quiz.answered /\ quiz.pos = 0 /\ quiz.score = 0
  BY NewQuizType DEF Init, QuizType
<1>2. ScreenType /\ PlayerType /\ CardType
  <2>1. 0 \in Cards /\ 0 \in 0..MaxPlayers
    BY ShellAssumption DEF Cards
  <2>2. QED
    BY <2>1 DEF Init, ScreenType, PlayerType, CardType
<1>3. TypeOK
  BY <1>1, <1>2, TypeParts
<1>4. ScoreIsEarned /\ QuestionOnScreen
  BY <1>1 DEF Init, ScoreIsEarned, AnswerShown, QuestionOnScreen
<1>5. OnePlayer /\ EpisodeOnScreenExists /\ MenuWithoutSession /\ AloudOnScreen
  BY DEF Init, OnePlayer, EpisodeOnScreenExists, MenuWithoutSession, AloudOnScreen
<1>6. CardOnScreen /\ PausedAtCardSeen /\ EpisodeHasPlayer
  BY DEF Init, CardOnScreen, PausedAtCardSeen, CardSeen, EpisodeHasPlayer
<1>7. QED
  BY <1>3, <1>4, <1>5, <1>6 DEF ShellInv, EpisodesSound

\* What holds of the screen, the quiz and the episodes for any learner.
THEOREM ShellInvariant == Spec => []ShellInv
BY ShellInitial, ShellStep, PTL DEF Spec

\* epAudio is one player, and the screen of an episode is there only with its
\* manifest, whatever the tabs, the media keys and late fetches do.
THEOREM ShellEpisodesSound == Spec => []EpisodesSound
<1>1. ShellInv => EpisodesSound
  BY DEF ShellInv
<1>2. QED
  BY <1>1, ShellInvariant, PTL

\* quizScore counts questions, for a quiz of any length.
THEOREM ShellScoreIsEarned == Spec => []ScoreIsEarned
<1>1. ShellInv => ScoreIsEarned
  BY DEF ShellInv
<1>2. QED
  BY <1>1, ShellInvariant, PTL

\* epOnTime catches up with every seek, tab, media key and pause, and with what
\* was played while the manifest was fetched: the card on screen is the one a
\* paused episode is in, for any learner and any number of cards.
THEOREM ShellCardIsHeard == Spec => []CardIsHeard
<1>1. ASSUME ShellInv PROVE CardIsHeard
  BY <1>1 DEF ShellInv, CardOnScreen, PausedAtCardSeen, CardIsHeard
<1>2. QED
  BY <1>1, ShellInvariant, PTL

-----------------------------------------------------------------------------
(* A patient learner.                                                      *)

\* The mode a view is of.
ModeOf(v) == IF v \in {"question", "score"} THEN "test" ELSE IF v = "other" THEN "other" ELSE "listen"

LEMMA ViewIsOfMode ==
  ASSUME NEW m \in {"test", "listen", "other"},
         NEW v \in {"question", "score", "menu", "loading", "episode", "unavailable", "aloud", "other"}
  PROVE  v \in Views(m) <=> m = ModeOf(v)
BY DEF Views, ModeOf

\* The parts of PatientInv for a learner who is patient.
Heard == /\ playing # {} => mode = "listen" /\ listen = "episode"
         /\ speaking => mode = "listen" /\ listen = "aloud"

OnScreen == \/ mode = ModeOf(view)
            \/ mode = "listen" /\ listen = "episode" /\ ~manifest /\ fetches = {}

Waiting == OneFetch /\ SilentWhenUnavailable

LEMMA HeardKept ==
  ASSUME ShellInv, patient, Heard, OnScreen, Waiting, Next
  PROVE  Heard'
<1> USE DEF Heard, Pause, Others, episode, quizzing
<1>1. /\ playing \subseteq {player} /\ speaking \in BOOLEAN
      /\ view = "episode" => listen = "episode" /\ manifest
      /\ view = "menu" => listen = "none"
      /\ view = "aloud" => listen = "aloud"
  BY DEF ShellInv, EpisodesSound, TypeOK, OnePlayer, EpisodeOnScreenExists, MenuWithoutSession, AloudOnScreen
<1>2. view \in {"menu", "episode", "unavailable", "aloud"} => mode = "listen"
  BY DEF OnScreen, ModeOf
<1>3. /\ fetches # {} => listen = "episode" /\ mode = "listen"
      /\ view = "unavailable" => listen = "episode" /\ playing = {}
  BY DEF Waiting, OneFetch, SilentWhenUnavailable
<1>4. CASE Choose \/ NextQuestion \/ Restart
  <2>1. UNCHANGED <<mode, listen, speaking, playing>>
    BY <1>4 DEF Choose, NextQuestion, Restart
  <2>2. QED
    BY <1>1, <2>1
<1>5. CASE StartEpisode
  BY <1>1, <1>2, <1>5 DEF StartEpisode
<1>6. CASE EpToggle
  BY <1>1, <1>2, <1>6 DEF EpToggle, Controls
<1>7. CASE Seek \/ EpExit \/ EpBack
  <2>1. (playing' = playing /\ (listen' = listen \/ playing = {})) \/ playing' = {}
    BY <1>1, <1>2, <1>3, <1>7 DEF Seek, EpExit, EpBack
  <2>2. speaking' = speaking /\ mode' = mode /\ (listen' = listen \/ ~speaking)
    BY <1>1, <1>2, <1>3, <1>7 DEF Seek, EpExit, EpBack
  <2>3. QED
    BY <2>1, <2>2
<1>8. ASSUME NEW i \in 1..player, ManifestArrives(i) \/ ManifestFails(i) \/ AudioError(i)
      PROVE  Heard'
  <2>1. playing' \subseteq playing
    BY <1>8 DEF ManifestArrives, ManifestFails, EpUnavailable, AudioError
  <2>2. speaking' = speaking /\ mode' = mode /\ listen' = listen
    BY <1>8 DEF ManifestArrives, ManifestFails, AudioError
  <2>3. QED
    BY <2>1, <2>2
<1>9. CASE Advance \/ TimeUpdate
  <2>1. playing' \subseteq playing
    BY <1>9 DEF Advance, TimeUpdate
  <2>2. speaking' = speaking /\ mode' = mode /\ listen' = listen
    BY <1>9 DEF Advance, TimeUpdate
  <2>3. QED
    BY <2>1, <2>2
<1>10. CASE StartAloud \/ ToggleAloud \/ AloudGoesOn
  BY <1>1, <1>2, <1>10 DEF StartAloud, ToggleAloud, AloudGoesOn
<1>11. CASE SpeechEnds \/ AloudExit
  BY <1>1, <1>2, <1>11 DEF SpeechEnds, AloudExit
<1>12. ASSUME NEW m \in {"test", "listen", "other"}, SetMode(m)
       PROVE  Heard'
  <2>1. /\ mode' = m /\ listen' = listen
        /\ IF mode = "listen" /\ m # "listen" THEN Teardown ELSE UNCHANGED <<speaking, playing, due>>
    BY <1>12 DEF SetMode
  <2>2. QED
    BY <1>1, <2>1 DEF Teardown
<1>13. QED
  BY <1>4, <1>5, <1>6, <1>7, <1>8, <1>9, <1>10, <1>11, <1>12 DEF Next

LEMMA OnScreenKept ==
  ASSUME ShellInv, patient, Heard, OnScreen, Waiting, Next
  PROVE  OnScreen'
<1> USE DEF OnScreen, ModeOf, episode, quizzing
<1>1. /\ manifest \in BOOLEAN /\ mode \in {"test", "listen", "other"}
      /\ view = "episode" => listen = "episode" /\ manifest
      /\ view = "menu" => listen = "none"
      /\ view = "aloud" => listen = "aloud"
  BY DEF ShellInv, EpisodesSound, TypeOK, EpisodeOnScreenExists, MenuWithoutSession, AloudOnScreen
<1>2. fetches # {} => listen = "episode" /\ mode = "listen"
  BY DEF Waiting, OneFetch
<1>3. CASE Choose \/ NextQuestion \/ Restart
  BY <1>3 DEF Choose, NextQuestion, Restart, RenderTest
<1>4. CASE StartEpisode
  BY <1>1, <1>4 DEF StartEpisode
<1>5. CASE EpToggle \/ Seek
  BY <1>5 DEF EpToggle, Seek
<1>6. CASE EpExit \/ EpBack
  BY <1>1, <1>6 DEF EpExit, EpBack
<1>7. ASSUME NEW i \in 1..player, ManifestArrives(i) \/ ManifestFails(i) \/ AudioError(i)
      PROVE  OnScreen'
  BY <1>2, <1>7 DEF ManifestArrives, RenderEpisode, ManifestFails, EpUnavailable, AudioError, ErrorIsShown
<1>8. CASE Advance \/ TimeUpdate
  BY <1>8 DEF Advance, TimeUpdate
<1>9. CASE StartAloud \/ ToggleAloud \/ AloudGoesOn
  BY <1>1, <1>9 DEF StartAloud, ToggleAloud, AloudGoesOn
<1>10. CASE SpeechEnds \/ AloudExit
  BY <1>1, <1>10 DEF SpeechEnds, AloudExit
<1>11. CASE SetMode("test")
  BY <1>11 DEF SetMode, RenderTest
<1>12. CASE SetMode("listen")
  BY <1>1, <1>12 DEF SetMode, RenderEpisode, Waited
<1>13. CASE SetMode("other")
  BY <1>13 DEF SetMode
<1>14. QED
  BY <1>3, <1>4, <1>5, <1>6, <1>7, <1>8, <1>9, <1>10, <1>11, <1>12, <1>13 DEF Next

LEMMA WaitingKept ==
  ASSUME ShellInv, patient, Heard, OnScreen, Waiting, Next
  PROVE  Waiting'
<1> USE DEF Waiting, OneFetch, SilentWhenUnavailable, Others, Pause, episode, quizzing
<1>1. /\ playing \subseteq {player} /\ manifest \in BOOLEAN
      /\ view = "episode" => listen = "episode" /\ manifest
      /\ view = "menu" => listen = "none"
      /\ view = "aloud" => listen = "aloud"
  BY DEF ShellInv, EpisodesSound, TypeOK, OnePlayer, EpisodeOnScreenExists, MenuWithoutSession, AloudOnScreen
<1>2. view \in {"menu", "episode", "unavailable", "aloud"} => mode = "listen"
  BY DEF OnScreen, ModeOf
<1>3. playing # {} => listen = "episode"
  BY DEF Heard
<1>4. CASE Choose \/ NextQuestion \/ Restart
  BY <1>4 DEF Choose, NextQuestion, Restart, RenderTest
<1>5. CASE StartEpisode
  BY <1>1, <1>2, <1>5 DEF StartEpisode
<1>6. CASE EpToggle
  BY <1>1, <1>6 DEF EpToggle, Controls
<1>7. CASE Seek
  BY <1>1, <1>7 DEF Seek
<1>8. CASE EpExit
  BY <1>1, <1>8 DEF EpExit
<1>9. CASE EpBack
  BY <1>9 DEF EpBack, Waited
<1>10. ASSUME NEW i \in 1..player, ManifestArrives(i)
       PROVE  Waiting'
  <2>1. fetches' = {} /\ view' = "episode"
    BY <1>10 DEF ManifestArrives, RenderEpisode
  <2>2. QED
    BY <2>1
<1>11. ASSUME NEW i \in 1..player, ManifestFails(i)
       PROVE  Waiting'
  <2>1. fetches' = {} /\ playing' = {} /\ listen' = "episode"
    BY <1>1, <1>11 DEF ManifestFails, EpUnavailable
  <2>2. QED
    BY <2>1
<1>12. ASSUME NEW i \in 1..player, AudioError(i)
       PROVE  Waiting'
  <2>1. OneFetch'
    BY <1>12 DEF AudioError
  <2>2. SilentWhenUnavailable'
    BY <1>1, <1>12 DEF AudioError, ErrorIsShown
  <2>3. QED
    BY <2>1, <2>2
<1>13. CASE Advance
  BY <1>13 DEF Advance
<1>14. CASE TimeUpdate
  BY <1>1, <1>14 DEF TimeUpdate, IsNew
<1>15. CASE StartAloud \/ ToggleAloud \/ AloudGoesOn
  BY <1>1, <1>15 DEF StartAloud, ToggleAloud, AloudGoesOn
<1>16. CASE SpeechEnds \/ AloudExit
  <2>1. CASE SpeechEnds
    BY <2>1 DEF SpeechEnds
  <2>2. CASE AloudExit
    <3>1. fetches' = {} /\ view' = "menu"
      BY <2>2 DEF AloudExit
    <3>2. QED
      BY <3>1
  <2>3. QED
    BY <1>16, <2>1, <2>2
<1>17. ASSUME NEW m \in {"test", "listen", "other"}, SetMode(m)
       PROVE  Waiting'
  <2>1. fetches' = {} /\ listen' = listen /\ playing' \subseteq playing
    BY <1>17 DEF SetMode, Waited, Teardown
  <2>2. view' = "unavailable" => view = "unavailable"
    BY <1>17 DEF SetMode, RenderTest, RenderEpisode
  <2>3. QED
    BY <2>1, <2>2
<1>18. QED
  BY <1>4, <1>5, <1>6, <1>7, <1>8, <1>9, <1>10, <1>11, <1>12, <1>13, <1>14, <1>15, <1>16, <1>17 DEF Next

LEMMA PatientInvParts ==
  ASSUME ShellInv
  PROVE  PatientInv <=> (patient => Heard /\ OnScreen /\ Waiting)
<1>1. ScreenType
  BY TypeParts DEF ShellInv, EpisodesSound
<1>2. view \in Views(mode) <=> mode = ModeOf(view)
  BY <1>1, ViewIsOfMode DEF ScreenType
<1>3. QED
  BY <1>2 DEF PatientInv, PatientSoundStops, PatientScreenIsModes, Heard, OnScreen, Waiting

LEMMA PatientStep == ShellInv /\ PatientInv /\ [Next]_vars => PatientInv'
<1> SUFFICES ASSUME ShellInv, PatientInv, [Next]_vars
             PROVE  PatientInv'
  OBVIOUS
<1>1. ShellInv'
  BY ShellStep
<1>2. CASE UNCHANGED vars
  <2>1. PatientInv' = PatientInv
    BY <1>2 DEF vars, quizzing, episode, PatientInv, PatientSoundStops, PatientScreenIsModes, OneFetch,
                SilentWhenUnavailable
  <2>2. QED
    BY <2>1
<1>3. CASE Next
  <2>1. patient' = patient
    BY <1>3 DEF Next, Choose, NextQuestion, Restart, StartEpisode, EpToggle, Seek, EpExit, EpBack,
                ManifestArrives, ManifestFails, AudioError, Advance, TimeUpdate, StartAloud, ToggleAloud,
                AloudGoesOn, SpeechEnds, AloudExit, SetMode
  <2>2. patient => Heard /\ OnScreen /\ Waiting
    BY PatientInvParts
  <2>3. patient => (Heard /\ OnScreen /\ Waiting)'
    BY <1>3, <2>2, HeardKept, OnScreenKept, WaitingKept
  <2>4. /\ mode' \in {"test", "listen", "other"}
        /\ view' \in {"question", "score", "menu", "loading", "episode", "unavailable", "aloud", "other"}
    BY <1>1 DEF ShellInv, EpisodesSound, TypeOK, Views
  <2>5. view' \in Views(mode') <=> mode' = ModeOf(view')
    BY <2>4, ViewIsOfMode
  <2>6. QED
    BY <2>1, <2>3, <2>5 DEF PatientInv, PatientSoundStops, PatientScreenIsModes, Heard, OnScreen, Waiting
<1>4. QED
  BY <1>2, <1>3

LEMMA PatientInitial == Init => PatientInv
BY DEF Init, PatientInv, PatientSoundStops, PatientScreenIsModes, OneFetch, SilentWhenUnavailable,
       Views

\* What holds besides for a learner who waits for manifests and leaves the media
\* keys alone in other modes.
THEOREM PatientInvariant == Spec => [](ShellInv /\ PatientInv)
<1>1. Init => ShellInv /\ PatientInv
  BY ShellInitial, PatientInitial
<1>2. (ShellInv /\ PatientInv) /\ [Next]_vars => (ShellInv /\ PatientInv)'
  BY ShellStep, PatientStep
<1>3. QED
  BY <1>1, <1>2, PTL DEF Spec

\* "stop audio when leaving Listen": listenTeardown and epTeardown leave that
\* learner in silence in every other mode, and one session's sound in Listen.
THEOREM ShellSoundStops == Spec => []PatientSoundStops
<1>1. PatientInv => PatientSoundStops
  BY DEF PatientInv
<1>2. QED
  BY <1>1, PatientInvariant, PTL

\* setMode draws the mode it sets, but for renderListen with an episode whose
\* manifest failed.
THEOREM ShellScreenIsModes == Spec => []PatientScreenIsModes
<1>1. PatientInv => PatientScreenIsModes
  BY DEF PatientInv
<1>2. QED
  BY <1>1, PatientInvariant, PTL

=============================================================================
