------------------------------- MODULE Listen -------------------------------
(***************************************************************************)
(* Read-aloud sessions: each card's question is spoken sentence by         *)
(* sentence, then a pause, then the answer, then the next card.  The chain *)
(* hangs on utterance events and timers; a command cancels it, but the     *)
(* events of cancelled utterances may still come, and are told apart by a  *)
(* generation counter.  The screen wake lock is asked for asynchronously   *)
(* and taken away by the browser when the page is hidden.                  *)
(***************************************************************************)
EXTENDS Integers, FiniteSets

CONSTANTS
  MaxCards,                 \* bounds: cards in a queue,
  MaxChunks,                \* sentences of a text,
  MaxGen,                   \* generations in which a session takes commands,
  MaxRequests               \* wake-lock requests under way

ASSUME ListenAssumption ==
  /\ MaxCards \in Nat \ {0} /\ MaxChunks \in Nat \ {0}
  /\ MaxGen \in Nat /\ MaxRequests \in Nat

Least(a, b) == IF a <= b THEN a ELSE b
Greatest(a, b) == IF a <= b THEN b ELSE a

VARIABLES
  mode,                     \* "listen", or "other" for any other mode
  listen,                   \* the session; NoSession is null
  speech,                   \* utterances handed to speechSynthesis
  late,                     \* cancelled ones whose event may still come
  timer,                    \* what listen._t will continue, or NoTimer
  visible,                  \* the page is not hidden
  wake,                     \* listenWake: null, an active lock, a lost one
  requests,                 \* lock requests under way
  leaked,                   \* an active lock listenWake no longer names
  hid                       \* history: the page was hidden since the
                            \* session last asked for the lock

session == <<listen, speech, late, timer>>
screen == <<visible, wake, requests, leaked, hid>>
vars == <<mode, session, screen>>

\* A chain being read: which card's which text, and the generation it is of.
Place == [gen: Nat, pos: Nat, stage: {"front", "back"}]
NoTimer == [gen |-> 0, pos |-> 0, stage |-> "none"]

NoSession == [len |-> 0, gen |-> 0, pos |-> 0, phase |-> "front", playing |-> FALSE, done |-> FALSE]
On == listen # NoSession

\* A slip: the generation is not compared.
StaleIfStopped(g) == ~On \/ ~listen.playing

\* listenStale
Stale(g) == ~On \/ ~listen.playing \/ listen.gen # g

-----------------------------------------------------------------------------
(* Reading, with the session in l and speechSynthesis holding s.           *)

\* The text is through: the pause to think starts, or the one before the next
\* card.
ReadOut(l, s, place) ==
  /\ listen' = [l EXCEPT !.phase = IF place.stage = "front" THEN "think" ELSE @]
  /\ speech' = s
  /\ timer' = place

\* nxt of listenSpeakSeq with n sentences left: one of them is spoken, or
\* speak() throws for all of them.
Speak(l, s, place, n) ==
  \/ /\ n > 0
     /\ \E left \in 0 .. n - 1 : speech' = s \cup {[place |-> place, left |-> left]}
     /\ listen' = l /\ timer' = NoTimer
  \/ ReadOut(l, s, place)

\* listenPlayCard
PlayCard(l, s) ==
  Speak([l EXCEPT !.phase = "front"], s,
        [gen |-> l.gen, pos |-> l.pos, stage |-> "front"], MaxChunks)

\* An utterance ends or fails: u.onend and u.onerror.
Event(u, s) ==
  \/ Stale(u.place.gen) /\ speech' = s /\ UNCHANGED <<listen, timer>>
  \/ ~Stale(u.place.gen) /\ Speak(listen, s, u.place, u.left)

UtteranceEnds ==
  /\ \E u \in speech : Event(u, speech \ {u})
  /\ UNCHANGED <<mode, late, screen>>

LateEvent ==
  /\ \E u \in late : Event(u, speech) /\ late' = late \ {u}
  /\ UNCHANGED <<mode, screen>>

\* A slip: the generation stays what it was.
CancelledSameGen(l) == l

\* listenCancel: a new generation; the timer is cleared, the utterances are
\* dropped, and their events may be delivered later.
Cancelled(l) == [l EXCEPT !.gen = @ + 1]
Dropped == late' \in {late, late \cup speech}

\* Nothing is read any more.
Silent(l) == listen' = l /\ speech' = {} /\ timer' = NoTimer

WakeOff == wake' = "none" /\ UNCHANGED <<visible, requests, leaked, hid>>
WakeOn == requests' = requests + 1 /\ hid' = FALSE /\ UNCHANGED <<visible, wake, leaked>>

-----------------------------------------------------------------------------
Init ==
  /\ mode = "listen" /\ listen = NoSession
  /\ speech = {} /\ late = {} /\ timer = NoTimer
  /\ visible = TRUE /\ wake = "none" /\ requests = 0 /\ leaked = FALSE /\ hid = FALSE

\* The timers of listenPlayCard.  listenCancel clears them, so none is stale.
ThinkOver ==
  /\ timer.stage = "front" /\ ~Stale(timer.gen)
  /\ Speak([listen EXCEPT !.phase = "back"], speech, [timer EXCEPT !.stage = "back"], MaxChunks)
  /\ UNCHANGED <<mode, late, screen>>

\* listenFinish after the last card.
GapOver ==
  /\ timer.stage = "back" /\ ~Stale(timer.gen)
  /\ \/ /\ listen.pos >= listen.len - 1
        /\ Silent([Cancelled(listen) EXCEPT !.playing = FALSE, !.done = TRUE])
        /\ Dropped /\ WakeOff
     \/ /\ listen.pos < listen.len - 1
        /\ PlayCard([listen EXCEPT !.pos = @ + 1], speech)
        /\ UNCHANGED <<late, screen>>
  /\ UNCHANGED mode

\* #listenStart.  The counter starts at 0 again, so this is sound only if the
\* events of an ended session have come before the click.
Start ==
  /\ mode = "listen" /\ visible /\ ~On /\ late = {} /\ requests < MaxRequests
  /\ \E n \in 1..MaxCards :
       PlayCard([NoSession EXCEPT !.len = n, !.playing = TRUE], speech)
  /\ WakeOn
  /\ UNCHANGED <<mode, late>>

\* A button of the session is pressed.
Pressed ==
  /\ mode = "listen" /\ visible /\ On
  /\ listen.gen < MaxGen /\ requests < MaxRequests

\* listenToggle
Pause ==
  /\ Pressed /\ listen.playing
  /\ Silent([Cancelled(listen) EXCEPT !.playing = FALSE]) /\ Dropped
  /\ WakeOff /\ UNCHANGED mode

\* Slips: resuming does not ask for the lock, or does not read.
ResumeNoLock ==
  /\ Pressed /\ ~listen.playing
  /\ PlayCard([listen EXCEPT !.playing = TRUE, !.done = FALSE], speech)
  /\ hid' = FALSE
  /\ UNCHANGED <<mode, late, visible, wake, requests, leaked>>
ResumeSilent ==
  /\ Pressed /\ ~listen.playing
  /\ listen' = [listen EXCEPT !.playing = TRUE, !.done = FALSE]
  /\ WakeOn
  /\ UNCHANGED <<mode, late, speech, timer>>

Resume ==
  /\ Pressed /\ ~listen.playing
  /\ PlayCard([listen EXCEPT !.playing = TRUE, !.done = FALSE], speech)
  /\ WakeOn /\ UNCHANGED <<mode, late>>

Following(l) == Least(l.len - 1, l.pos + 1)

\* listenNext, listenPrev
Move ==
  /\ Pressed
  /\ \E p \in {Following(listen), Greatest(0, listen.pos - 1)} :
       LET l == [Cancelled(listen) EXCEPT !.pos = p]
       IN  \/ listen.playing /\ PlayCard(l, {})
           \/ ~listen.playing /\ Silent(l)
  /\ Dropped /\ UNCHANGED <<mode, screen>>

\* listenReplay
Replay ==
  /\ Pressed
  /\ PlayCard([Cancelled(listen) EXCEPT !.playing = TRUE, !.done = FALSE], {})
  /\ Dropped /\ WakeOn /\ UNCHANGED mode

\* #listenExit: listenTeardown, and the session is dropped.
Exit ==
  /\ mode = "listen" /\ visible /\ On
  /\ Silent(NoSession) /\ Dropped /\ WakeOff
  /\ UNCHANGED mode

\* setMode to another mode tears the session down and keeps it.
Leave ==
  /\ mode = "listen" /\ visible
  /\ mode' = "other"
  /\ \/ /\ On /\ listen.gen < MaxGen
        /\ Silent([Cancelled(listen) EXCEPT !.playing = FALSE]) /\ Dropped /\ WakeOff
     \/ ~On /\ UNCHANGED <<session, screen>>

\* The Listen tab.
Return ==
  /\ mode = "other" /\ visible
  /\ mode' = "listen" /\ UNCHANGED <<session, screen>>

-----------------------------------------------------------------------------
(* The browser and the screen.                                             *)

\* The request of listenWakeOn resolves; the lock it named before is forgotten.
Granted ==
  /\ requests > 0 /\ visible
  /\ requests' = requests - 1
  /\ wake' = "held" /\ leaked' = (leaked \/ wake = "held")
  /\ UNCHANGED <<mode, session, visible, hid>>

\* It is refused because the page is hidden.
Refused ==
  /\ requests > 0 /\ ~visible
  /\ requests' = requests - 1
  /\ UNCHANGED <<mode, session, visible, wake, leaked, hid>>

\* A hidden page loses its locks; nothing tells listenWake.
Hide ==
  /\ visible /\ requests < MaxRequests
  /\ visible' = FALSE /\ hid' = TRUE
  /\ wake' = (IF wake = "held" THEN "lost" ELSE wake) /\ leaked' = FALSE
  /\ UNCHANGED <<mode, session, requests>>

\* visibilitychange
Show ==
  /\ ~visible /\ visible' = TRUE
  /\ requests' = requests + (IF On /\ listen.playing /\ wake = "none" THEN 1 ELSE 0)
  /\ UNCHANGED <<mode, session, wake, leaked, hid>>

Next ==
  \/ UtteranceEnds \/ LateEvent \/ ThinkOver \/ GapOver
  \/ Start \/ Pause \/ Resume \/ Move \/ Replay \/ Exit
  \/ Leave \/ Return
  \/ Granted \/ Refused \/ Hide \/ Show

Spec == Init /\ [][Next]_vars

\* speechSynthesis ends or fails what it was given, and timers fire.
Fairness == WF_vars(UtteranceEnds) /\ WF_vars(ThinkOver) /\ WF_vars(GapOver)

FairSpec == Spec /\ Fairness

-----------------------------------------------------------------------------
Utterance == [place: Place, left: Nat]
Session == [len: Nat, gen: Nat, pos: Nat, phase: {"front", "think", "back"},
            playing: BOOLEAN, done: BOOLEAN]

TypeOK ==
  /\ mode \in {"listen", "other"}
  /\ listen \in Session /\ (On => listen.pos < listen.len)
  /\ speech \subseteq Utterance /\ late \subseteq Utterance
  /\ timer \in Place \cup {NoTimer}
  /\ visible \in BOOLEAN /\ leaked \in BOOLEAN /\ hid \in BOOLEAN
  /\ wake \in {"none", "held", "lost"}
  /\ requests \in Nat

\* One voice: whatever was pressed and whichever events come late, a playing
\* session hangs on exactly one utterance or timer, of its own generation, and
\* a session that is paused, ended or left (setMode: "stop audio when leaving
\* Listen") on none.
OneVoice ==
  IF On /\ listen.playing
  THEN \/ timer = NoTimer /\ \E u \in speech : speech = {u} /\ ~Stale(u.place.gen)
       \/ speech = {} /\ timer # NoTimer /\ ~Stale(timer.gen)
  ELSE speech = {} /\ timer = NoTimer

\* What is spoken is the text of the card on screen, and the answer is shown
\* exactly while it is read and until the next card.
ReadsWhatIsShown ==
  /\ \A u \in speech : u.place.pos = listen.pos /\ u.place.stage = listen.phase
  /\ timer # NoTimer =>
       /\ timer.pos = listen.pos
       /\ listen.phase = IF timer.stage = "front" THEN "think" ELSE "back"

\* As long as the page stays visible, a playing session holds the lock once
\* its requests are answered, however pauses and requests overlap.
AwakeWhileVisible ==
  On /\ listen.playing /\ requests = 0 /\ ~hid => wake = "held"

\* "we keep your screen awake so playback isn't cut off": while a session plays
\* on a visible page and no request is under way, some lock is active.
ScreenKeptAwake ==
  On /\ listen.playing /\ visible /\ requests = 0 => wake = "held" \/ leaked

\* "auto-advances": a playing session that is left alone reads to the end of
\* its queue and stops.
PlaybackEnds == (On /\ listen.playing) ~> ~(On /\ listen.playing)
=============================================================================
