-------------------------------- MODULE Shell --------------------------------
(***************************************************************************)
(* The modes and what two of them leave behind: the quiz, which draws its  *)
(* question again at every visit, and the audio episodes of Listen, whose  *)
(* manifest, player and media keys answer whatever is shown by then.  What *)
(* can be clicked is what #view shows, and that need not be of the mode.   *)
(***************************************************************************)
EXTENDS Integers

CONSTANTS
  Questions,                \* how many there are in QUIZ
  EpisodeCards,             \* and cards in an episode
  MaxPlayers, MaxScore      \* bounds: episodes started, and answers counted
                            \* as right

ASSUME ShellAssumption ==
  Questions \in Nat \ {0} /\ EpisodeCards \in Nat \ {0} /\ MaxPlayers \in Nat
  /\ MaxScore \in Nat

Least(a, b) == IF a <= b THEN a ELSE b

Cards == 0 .. EpisodeCards - 1

VARIABLES
  mode,                     \* "test", "listen", or "other"
  view,                     \* what #view shows
  quiz,                     \* quizOrder (made or not), quizPos, quizScore,
                            \* quizAnswered
  redrawn,                  \* history: an answered question was drawn again
  listen,                   \* "none", "episode", or "aloud": see Listen
  speaking,                 \* a text is read aloud
  player,                   \* epAudio, by number; 0 is null
  playing,                  \* the players that are not paused
  broken,                   \* and those that reported an error
  fetches,                  \* players whose manifest is being fetched
  manifest,                 \* epManifest is set
  heard, cardIdx, shown,    \* the card at currentTime, epCardIdx, and the card
                            \* of the episode's view
  due,                      \* a timeupdate of a jump or a pause is to come
  misread,                  \* history: the last timeupdate had no manifest to
                            \* look into, and the first card was over
  media,                    \* the media keys are handled
  patient                   \* the learner waits for manifests

quizzing == <<quiz, redrawn>>
episode == <<player, playing, broken, fetches, manifest, heard, cardIdx, due, misread, media>>
vars == <<mode, view, quizzing, listen, speaking, episode, shown, patient>>

Views(m) == CASE m = "test" -> {"question", "score"}
              [] m = "listen" -> {"menu", "loading", "episode", "unavailable", "aloud"}
              [] OTHER -> {"other"}

NewQuiz == [made |-> TRUE, pos |-> 0, score |-> 0, answered |-> FALSE]

Init ==
  /\ mode = "other" /\ view = "other"
  /\ quiz = [NewQuiz EXCEPT !.made = FALSE] /\ redrawn = FALSE
  /\ listen = "none" /\ speaking = FALSE
  /\ player = 0 /\ playing = {} /\ broken = {} /\ fetches = {} /\ manifest = FALSE
  /\ heard = 0 /\ cardIdx = -1 /\ shown = 0 /\ due = FALSE /\ misread = FALSE
  /\ media = FALSE
  /\ patient \in BOOLEAN

-----------------------------------------------------------------------------
(* The quiz.                                                               *)

\* renderTest of the quiz q.
RenderTest(q) ==
  /\ view' = IF q.pos >= Questions THEN "score" ELSE "question"
  /\ quiz' = [q EXCEPT !.made = TRUE, !.answered = @ /\ q.pos >= Questions]

AnswerShown == quiz.answered /\ quiz.pos < Questions

\* A slip: quizAnswered is not looked at.
ChooseAgain ==
  /\ view = "question"
  /\ \E score \in quiz.score .. Least(quiz.score + 1, MaxScore) :
       quiz' = [quiz EXCEPT !.answered = TRUE, !.score = score]
  /\ UNCHANGED <<mode, view, redrawn, listen, speaking, episode, shown, patient>>

\* A choice is clicked.
Choose ==
  /\ view = "question" /\ ~quiz.answered
  /\ \E score \in quiz.score .. Least(quiz.score + 1, MaxScore) :
       quiz' = [quiz EXCEPT !.answered = TRUE, !.score = score]
  /\ UNCHANGED <<mode, view, redrawn, listen, speaking, episode, shown, patient>>

\* #qnext
NextQuestion ==
  /\ view = "question" /\ quiz.answered
  /\ RenderTest([quiz EXCEPT !.pos = @ + 1])
  /\ UNCHANGED <<mode, redrawn, listen, speaking, episode, shown, patient>>

\* #again
Restart ==
  /\ view = "score"
  /\ view' = "question" /\ quiz' = NewQuiz /\ redrawn' = FALSE
  /\ UNCHANGED <<mode, listen, speaking, episode, shown, patient>>

-----------------------------------------------------------------------------
(* Episodes.                                                               *)

Others == playing \ {player}

\* epAudio.pause(), and the timeupdate it queues.
Pause == playing' = Others /\ due' = (due \/ player \in playing)

\* renderEpisode, with the media keys set by epMediaSession.
RenderEpisode ==
  /\ view' = "episode" /\ media' = TRUE
  /\ shown' = IF cardIdx = -1 THEN 0 ELSE cardIdx

\* A slip: an error of the player is shown in whichever mode.
ErrorIsShownAnywhere == listen = "episode"

ErrorIsShown == mode = "listen" /\ listen = "episode"

\* epUnavailable; its button is EpBack.
EpUnavailable == Pause /\ view' = "unavailable"

\* listenStartEpisode; play() may be refused.
StartEpisode ==
  /\ view = "menu" /\ player < MaxPlayers
  /\ player' = player + 1 /\ playing' \in {Others, Others \cup {player'}}
  /\ fetches' = fetches \cup {player'} /\ manifest' = FALSE
  /\ heard' = 0 /\ cardIdx' = -1 /\ due' = (due \/ player \in playing) /\ misread' = FALSE
  /\ listen' = "episode" /\ view' = "loading"
  /\ UNCHANGED <<mode, quizzing, speaking, shown, broken, media, patient>>

\* Slips: a manifest is drawn whatever has become of the session, or a failure
\* is not answered.
ManifestArrivesAnyway(i) ==
  /\ i \in fetches /\ fetches' = fetches \ {i}
  /\ manifest' = TRUE /\ RenderEpisode
  /\ UNCHANGED <<mode, quizzing, listen, speaking, player, playing, broken, heard, cardIdx,
                 due, misread, patient>>
ManifestFailsSilently(i) ==
  /\ i \in fetches /\ fetches' = fetches \ {i}
  /\ UNCHANGED <<mode, view, quizzing, listen, speaking, player, playing, broken, manifest,
                 heard, cardIdx, shown, due, media, misread, patient>>

\* The fetch of listenStartEpisode: whatever mode is shown, the manifest of an
\* episode that is not ended is drawn.
ManifestArrives(i) ==
  /\ i \in fetches /\ fetches' = fetches \ {i}
  /\ \/ listen = "episode" /\ manifest' = TRUE /\ RenderEpisode
     \/ listen # "episode" /\ UNCHANGED <<manifest, view, media, shown>>
  /\ UNCHANGED <<mode, quizzing, listen, speaking, player, playing, broken, heard, cardIdx,
                 due, misread, patient>>

\* And of any episode, its failure.
ManifestFails(i) ==
  /\ i \in fetches /\ fetches' = fetches \ {i}
  /\ EpUnavailable
  /\ UNCHANGED <<mode, quizzing, listen, speaking, player, broken, manifest, heard, cardIdx,
                 shown, media, misread, patient>>

\* The 'error' event of the player i, or of one before it.
AudioError(i) ==
  /\ i \in 1..player \ broken /\ broken' = broken \cup {i}
  /\ \/ ErrorIsShown /\ view' = "unavailable" /\ playing' = Others \ {i}
     \/ ~ErrorIsShown /\ playing' = playing \ {i} /\ UNCHANGED view
  /\ due' = (due \/ playing' # playing)
  /\ UNCHANGED <<mode, quizzing, listen, speaking, player, fetches, manifest, heard, cardIdx,
                 shown, media, misread, patient>>

Waited == patient => fetches = {}

\* The episode plays on, into the next card or to its end, with or without its
\* manifest.
Advance ==
  /\ player \in playing
  /\ \/ heard < EpisodeCards - 1 /\ heard' = heard + 1 /\ UNCHANGED <<playing, due>>
     \/ heard = EpisodeCards - 1 /\ playing' = Others /\ due' = TRUE /\ UNCHANGED heard
  /\ UNCHANGED <<mode, view, quizzing, listen, speaking, player, broken, fetches, manifest,
                 cardIdx, shown, media, misread, patient>>

\* A slip: an earlier card is not shown again.
IsLater(i) == i > cardIdx

IsNew(i) == i # cardIdx

\* epOnTime
TimeUpdate ==
  /\ player \in playing \/ due
  /\ due' = FALSE /\ misread' = (~manifest /\ heard # 0)
  /\ LET i == IF manifest THEN heard ELSE 0       \* epCurrentIdx
     IN  IF IsNew(i)
         THEN /\ cardIdx' = i /\ media' = (media \/ manifest)
              /\ shown' = IF manifest /\ view = "episode" THEN i ELSE shown
         ELSE UNCHANGED <<cardIdx, media, shown>>
  /\ UNCHANGED <<mode, view, quizzing, listen, speaking, player, playing, broken, fetches,
                 manifest, heard, patient>>

\* The buttons of the episode, or the media keys, in any mode.
Controls ==
  \/ view = "episode"
  \/ media /\ player > 0 /\ ~patient

\* epToggle, and the keys for play and pause.  A broken player stays silent, and
\* an episode that was played to its end begins again.
EpToggle ==
  /\ Controls
  /\ \/ /\ player \notin playing \cup broken /\ playing' = playing \cup {player}
        /\ heard' = heard \/ (heard = EpisodeCards - 1 /\ heard' = 0)
        /\ UNCHANGED due
     \/ player \in playing /\ Pause /\ UNCHANGED heard
  /\ UNCHANGED <<mode, view, quizzing, listen, speaking, player, broken, fetches, manifest,
                 cardIdx, shown, media, misread, patient>>

\* epSeekCard
Clamped(i) == IF i < 0 THEN 0 ELSE Least(EpisodeCards - 1, i)

\* epPrev, epNext, the scrubber, and the keys that seek, which some do without
\* the manifest.
Seek ==
  /\ Controls
  /\ heard' \in Cards \cup {Clamped(heard - 1), Clamped(heard + 1)} /\ due' = TRUE
  /\ UNCHANGED <<mode, view, quizzing, listen, speaking, player, playing, broken, fetches,
                 manifest, cardIdx, shown, media, misread, patient>>

\* #epExit
EpExit ==
  /\ view = "episode"
  /\ Pause /\ listen' = "none" /\ manifest' = FALSE /\ view' = "menu"
  /\ UNCHANGED <<mode, quizzing, speaking, player, broken, fetches, heard, cardIdx, shown,
                 media, misread, patient>>

\* #epBack
EpBack ==
  /\ view = "unavailable" /\ Waited
  /\ listen' = "none" /\ manifest' = FALSE /\ view' = "menu"
  /\ UNCHANGED <<mode, quizzing, speaking, player, playing, broken, fetches, heard, cardIdx,
                 shown, due, media, misread, patient>>

-----------------------------------------------------------------------------
(* Reading aloud, as far as the episodes get in its way; see Listen.       *)

\* #listenStart
StartAloud ==
  /\ view = "menu"
  /\ listen' = "aloud" /\ speaking' = TRUE /\ view' = "aloud"
  /\ UNCHANGED <<mode, quizzing, episode, shown, patient>>

\* listenToggle
ToggleAloud ==
  /\ view = "aloud" /\ listen = "aloud"
  /\ speaking' = ~speaking
  /\ UNCHANGED <<mode, view, quizzing, listen, episode, shown, patient>>

\* The next card, or the end: listenRenderNow and listenFinish.
AloudGoesOn ==
  /\ speaking /\ listen = "aloud"
  /\ speaking' \in BOOLEAN
  /\ view' = IF mode = "listen" THEN "aloud" ELSE view
  /\ UNCHANGED <<mode, quizzing, listen, episode, shown, patient>>

\* Without its session the utterance is the last.
SpeechEnds ==
  /\ speaking /\ listen # "aloud" /\ speaking' = FALSE
  /\ UNCHANGED <<mode, view, quizzing, listen, episode, shown, patient>>

\* #listenExit
AloudExit ==
  /\ view = "aloud"
  /\ listen' = "none" /\ speaking' = FALSE /\ view' = "menu"
  /\ UNCHANGED <<mode, quizzing, episode, shown, patient>>

-----------------------------------------------------------------------------
(* The tabs.                                                               *)

\* A slip: an episode plays on.
TeardownOfSpeechOnly == speaking' = FALSE /\ UNCHANGED <<playing, due>>

\* listenTeardown, epTeardown
Teardown ==
  /\ speaking' = (speaking /\ listen # "aloud")
  /\ IF listen = "episode" THEN Pause ELSE UNCHANGED <<playing, due>>

\* setMode and render
SetMode(m) ==
  /\ Waited
  /\ IF mode = "listen" /\ m # "listen" THEN Teardown ELSE UNCHANGED <<speaking, playing, due>>
  /\ mode' = m
  /\ CASE m = "test" ->
            /\ RenderTest(quiz) /\ UNCHANGED <<media, shown>>
            /\ redrawn' = (redrawn \/ AnswerShown)
       [] m = "listen" /\ listen = "episode" /\ manifest ->
            RenderEpisode /\ UNCHANGED quizzing
       [] m = "listen" /\ listen = "episode" /\ ~manifest ->
            UNCHANGED <<view, media, shown, quizzing>>
       [] m = "listen" /\ listen # "episode" ->
            view' = (IF listen = "none" THEN "menu" ELSE "aloud") /\ UNCHANGED <<media, shown, quizzing>>
       [] OTHER ->
            view' = "other" /\ UNCHANGED <<media, shown, quizzing>>
  /\ UNCHANGED <<listen, player, broken, fetches, manifest, heard, cardIdx, misread, patient>>

Next ==
  \/ Choose \/ NextQuestion \/ Restart
  \/ StartEpisode \/ EpToggle \/ Seek \/ EpExit \/ EpBack
  \/ \E i \in 1..player : ManifestArrives(i) \/ ManifestFails(i) \/ AudioError(i)
  \/ Advance \/ TimeUpdate
  \/ StartAloud \/ ToggleAloud \/ AloudGoesOn \/ SpeechEnds \/ AloudExit
  \/ \E m \in {"test", "listen", "other"} : SetMode(m)

Spec == Init /\ [][Next]_vars

\* A fetch resolves or rejects.
Fairness ==
  \A i \in 1..MaxPlayers : WF_vars(ManifestArrives(i) \/ ManifestFails(i))

FairSpec == Spec /\ Fairness

-----------------------------------------------------------------------------
TypeOK ==
  /\ mode \in {"test", "listen", "other"}
  /\ view \in Views("test") \cup Views("listen") \cup Views("other")
  /\ quiz \in [made: BOOLEAN, pos: 0..Questions, score: Nat, answered: BOOLEAN]
  /\ redrawn \in BOOLEAN
  /\ listen \in {"none", "episode", "aloud"} /\ speaking \in BOOLEAN
  /\ player \in 0..MaxPlayers /\ playing \subseteq 1..player
  /\ broken \subseteq 1..player /\ fetches \subseteq 1..player
  /\ manifest \in BOOLEAN /\ due \in BOOLEAN /\ misread \in BOOLEAN /\ media \in BOOLEAN
  /\ heard \in Cards /\ shown \in Cards /\ cardIdx \in Cards \cup {-1}
  /\ patient \in BOOLEAN

\* The score of a quiz counts questions: it is not above the number answered,
\* unless a tab drew an answered one again.
ScoreIsEarned ==
  ~redrawn => quiz.score <= quiz.pos + (IF AnswerShown THEN 1 ELSE 0)

\* Whatever the media keys started again, one episode is heard at a time, and
\* it is the one the controls act on.
OnePlayer == playing \subseteq {player}

\* The screen of an episode is up only while there is an episode and its
\* manifest, which all its controls look into, however late a fetch comes.
EpisodeOnScreenExists == view = "episode" => listen = "episode" /\ manifest

\* Episodes are sound whatever arrives late: of their types, one player heard,
\* and the one on screen is there.
EpisodesSound == TypeOK /\ OnePlayer /\ EpisodeOnScreenExists

\* "stop audio when leaving Listen": for a learner who waits for manifests and
\* leaves the media keys alone elsewhere, an episode plays and a text is read
\* only in Listen, and only for the session there is.
PatientSoundStops ==
  patient => /\ playing # {} => mode = "listen" /\ listen = "episode"
             /\ speaking => mode = "listen" /\ listen = "aloud"

\* For that learner the screen is the mode's, but in Listen with an episode
\* whose manifest failed: renderListen draws nothing for it.
PatientScreenIsModes ==
  patient => \/ view \in Views(mode)
             \/ mode = "listen" /\ listen = "episode" /\ ~manifest /\ fetches = {}

\* A paused episode shows the card it is paused in, however the tabs, the
\* seeks, the keys, the updates and late manifests interleave; but for one that fell
\* silent past its first card with its last update before the manifest.
CardIsHeard ==
  view = "episode" /\ ~due /\ playing = {} /\ ~misread => shown = heard

\* "Loading episode..." does not stay, whether the manifest comes or not.
LoadingEnds == (view = "loading") ~> (view # "loading")
=============================================================================
