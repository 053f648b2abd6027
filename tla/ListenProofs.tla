---------------------------- MODULE ListenProofs ----------------------------
(***************************************************************************)
(* Proofs about read-aloud sessions, for queues, texts and numbers of      *)
(* commands of any size.                                                   *)
(***************************************************************************)
EXTENDS Listen, TLAPS

\* What the generation counter is for: while a session is on, every event
\* still to come from a cancelled utterance is of an earlier generation.
LateIsOld == On => \A u \in late : u.place.gen < listen.gen

ListenInv ==
  /\ TypeOK
  /\ OneVoice
  /\ ReadsWhatIsShown
  /\ LateIsOld

\* The parts of the invariant that speak of the session after a step.
Reading ==
  /\ listen \in Session /\ On /\ listen.pos < listen.len /\ listen.playing
  /\ speech \subseteq Utterance /\ timer \in Place \cup {NoTimer}
  /\ OneVoice /\ ReadsWhatIsShown

Stopped ==
  /\ listen \in Session /\ (On => listen.pos < listen.len) /\ ~listen.playing
  /\ speech = {} /\ timer = NoTimer
  /\ OneVoice /\ ReadsWhatIsShown

-----------------------------------------------------------------------------
(* Helpers.                                                                *)

LEMMA SessionOn ==
  ASSUME NEW l \in Session, l.pos < l.len
  PROVE  l # NoSession
BY DEF Session, NoSession

LEMMA NoTimerIsNoPlace == NoTimer \notin Place
BY DEF NoTimer, Place

\* Speaking on with nothing else in the queue leaves one voice: either one
\* utterance or the timer that follows the text.
LEMMA SpeakReads ==
  ASSUME NEW l \in Session, l.playing, l.pos < l.len,
         NEW place \in Place, place.gen = l.gen, place.pos = l.pos, place.stage = l.phase,
         NEW n \in Nat, Speak(l, {}, place, n)
  PROVE  Reading' /\ listen'.gen = l.gen
<1>1. CASE /\ \E left \in 0 .. n - 1 : speech' = {} \cup {[place |-> place, left |-> left]}
           /\ listen' = l /\ timer' = NoTimer
  <2>1. PICK left \in 0 .. n - 1 : speech' = {[place |-> place, left |-> left]}
    BY <1>1
  <2> DEFINE u == [place |-> place, left |-> left]
  <2>2. u \in Utterance /\ u.place = place /\ speech' = {u}
    BY <2>1 DEF Utterance
  <2>3. On' /\ ~Stale(u.place.gen)'
    BY <1>1, <2>2, SessionOn DEF On, Stale
  <2>4. OneVoice'
    BY <1>1, <2>2, <2>3 DEF OneVoice
  <2>5. ReadsWhatIsShown'
    BY <1>1, <2>2 DEF ReadsWhatIsShown
  <2>6. QED
    BY <1>1, <2>2, <2>3, <2>4, <2>5 DEF Reading
<1>2. CASE ReadOut(l, {}, place)
  <2> DEFINE k == IF place.stage = "front" THEN "think" ELSE l.phase
  <2>1. listen' = [l EXCEPT !.phase = k] /\ speech' = {} /\ timer' = place
    BY <1>2 DEF ReadOut, Session
  <2>2. /\ listen' \in Session /\ listen'.playing /\ listen'.pos < listen'.len
        /\ listen'.gen = l.gen /\ listen'.pos = l.pos /\ listen'.phase = k
    BY <2>1 DEF Session
  <2>3. On' /\ timer' # NoTimer /\ ~Stale(timer.gen)'
    BY <2>1, <2>2, SessionOn, NoTimerIsNoPlace DEF On, Stale
  <2>4. OneVoice'
    BY <2>1, <2>3 DEF OneVoice
  <2>5. k = IF place.stage = "front" THEN "think" ELSE "back"
    BY DEF Place
  <2>6. ReadsWhatIsShown'
    BY <2>1, <2>2, <2>5 DEF ReadsWhatIsShown
  <2>7. QED
    BY <2>1, <2>2, <2>3, <2>4, <2>6 DEF Reading
<1>3. QED
  BY <1>1, <1>2 DEF Speak

LEMMA PlayCardReads ==
  ASSUME NEW l \in Session, l.playing, l.pos < l.len, PlayCard(l, {})
  PROVE  Reading' /\ listen'.gen = l.gen
<1> DEFINE k == [l EXCEPT !.phase = "front"]
           place == [gen |-> l.gen, pos |-> l.pos, stage |-> "front"]
<1>1. /\ k \in Session /\ k.playing /\ k.pos < k.len /\ place \in Place
      /\ place.gen = k.gen /\ place.pos = k.pos /\ place.stage = k.phase /\ k.gen = l.gen
  BY DEF Session, Place
<1>2. MaxChunks \in Nat
  BY ListenAssumption
<1>3. Speak(k, {}, place, MaxChunks)
  BY DEF PlayCard
<1> HIDE DEF k, place
<1>4. QED
  BY <1>1, <1>2, <1>3, SpeakReads

\* A session that is not playing, with nothing queued and no timer.
LEMMA SilentStops ==
  ASSUME NEW l \in Session, l = NoSession \/ l.pos < l.len, ~l.playing, Silent(l)
  PROVE  Stopped'
BY NoTimerIsNoPlace DEF Silent, Stopped, OneVoice, ReadsWhatIsShown, On

\* The state of speech before a step: a live utterance is the only one, a
\* timer runs alone, and a session that is not playing is silent.
LEMMA VoiceNow ==
  ASSUME ListenInv
  PROVE  /\ \A u \in speech : speech = {u} /\ timer = NoTimer /\ On /\ listen.playing
                              /\ u.place.gen = listen.gen
         /\ timer # NoTimer => /\ speech = {} /\ On /\ listen.playing
                               /\ timer \in Place /\ timer.gen = listen.gen
         /\ ~(On /\ listen.playing) => speech = {} /\ timer = NoTimer
BY DEF ListenInv, TypeOK, OneVoice, Stale

\* listenCancel leaves events of generations up to the current one behind.
LEMMA DroppedIsOld ==
  ASSUME ListenInv, On, Dropped
  PROVE  late' \subseteq Utterance /\ \A u \in late' : u.place.gen <= listen.gen
<1>1. late' \subseteq late \cup speech
  BY DEF Dropped
<1>2. \A u \in late \cup speech : u \in Utterance /\ u.place.gen <= listen.gen
  BY VoiceNow DEF ListenInv, TypeOK, LateIsOld, Utterance, Place, Session
<1>3. QED
  BY <1>1, <1>2

\* The types of what the session does not decide.
Around ==
  /\ mode \in {"listen", "other"}
  /\ visible \in BOOLEAN /\ leaked \in BOOLEAN /\ hid \in BOOLEAN
  /\ wake \in {"none", "held", "lost"} /\ requests \in Nat

LEMMA AroundNow == ListenInv => Around
BY DEF Around, ListenInv, TypeOK

LEMMA AroundWakeOn ==
  ASSUME Around, WakeOn, mode' = mode
  PROVE  Around'
<1>1. requests' \in Nat
  BY DEF Around, WakeOn
<1>2. QED
  BY <1>1 DEF Around, WakeOn

LEMMA Assemble ==
  ASSUME Reading' \/ Stopped', Around', late' \subseteq Utterance, LateIsOld'
  PROVE  ListenInv'
BY DEF Reading, Stopped, Around, ListenInv, TypeOK

\* Steps after which the session is the one before a cancellation or later.
LEMMA AfterCancel ==
  ASSUME ListenInv, On, Dropped, Reading' \/ Stopped', Around',
         On' => listen'.gen > listen.gen
  PROVE  ListenInv'
<1>1. late' \subseteq Utterance /\ \A u \in late' : u.place.gen <= listen.gen
  BY DroppedIsOld
<1>2. ASSUME On', NEW u \in late' PROVE u.place.gen < listen'.gen
  <2>1. u.place.gen \in Nat /\ listen.gen \in Nat /\ listen'.gen \in Nat
    BY <1>1 DEF ListenInv, TypeOK, Utterance, Place, Session, Reading, Stopped
  <2>2. QED
    BY <1>1, <1>2, <2>1
<1>3. LateIsOld'
  BY <1>2 DEF LateIsOld
<1>4. QED
  BY <1>1, <1>3, Assemble

\* Steps that go on in the same generation.
LEMMA SameGeneration ==
  ASSUME ListenInv, On, late' \subseteq late, Reading', Around', listen'.gen = listen.gen
  PROVE  ListenInv'
<1>1. late' \subseteq Utterance /\ LateIsOld'
  BY DEF ListenInv, TypeOK, LateIsOld
<1>2. QED
  BY <1>1, Assemble

\* Steps that do not touch the session.
LEMMA SameSession ==
  ASSUME ListenInv, UNCHANGED session, Around'
  PROVE  ListenInv'
<1>1. UNCHANGED <<listen, speech, late, timer>>
  BY DEF session
<1>2. OneVoice' /\ ReadsWhatIsShown' /\ LateIsOld'
  BY <1>1 DEF ListenInv, OneVoice, ReadsWhatIsShown, LateIsOld, Stale, On
<1>3. TypeOK'
  BY <1>1 DEF ListenInv, TypeOK, Around, On
<1>4. QED
  BY <1>2, <1>3 DEF ListenInv
-----------------------------------------------------------------------------
(* The steps.                                                              *)

\* The session with a new generation, and what a command does to it.
LEMMA CancelledSession ==
  ASSUME ListenInv, On
  PROVE  LET l == Cancelled(listen)
         IN  /\ l \in Session /\ l.gen > listen.gen /\ l.pos < l.len
             /\ l.len = listen.len /\ l.pos = listen.pos /\ l.playing = listen.playing
BY DEF ListenInv, TypeOK, Cancelled, Session

\* The same session stopped, and playing.
LEMMA StoppedSession ==
  ASSUME NEW c \in Session, c.pos < c.len, NEW d \in BOOLEAN
  PROVE  LET l == [c EXCEPT !.playing = FALSE, !.done = d]
         IN  l \in Session /\ l.pos < l.len /\ ~l.playing /\ l.gen = c.gen
BY DEF Session

LEMMA PlayingSession ==
  ASSUME NEW c \in Session, c.pos < c.len
  PROVE  LET l == [c EXCEPT !.playing = TRUE, !.done = FALSE]
         IN  l \in Session /\ l.pos < l.len /\ l.playing /\ l.gen = c.gen
BY DEF Session

LEMMA StartedSession ==
  ASSUME NEW c \in Session, NEW m \in Nat, c.pos < m
  PROVE  LET l == [c EXCEPT !.len = m, !.playing = TRUE]
         IN  l \in Session /\ l.pos < l.len /\ l.playing
BY DEF Session

LEMMA PausedSession ==
  ASSUME NEW c \in Session, c.pos < c.len
  PROVE  LET l == [c EXCEPT !.playing = FALSE]
         IN  l \in Session /\ l.pos < l.len /\ ~l.playing /\ l.gen = c.gen
BY DEF Session

LEMMA EventStep ==
  ASSUME ListenInv, UtteranceEnds
  PROVE  ListenInv'
<1>1. PICK u \in speech : Event(u, speech \ {u})
  BY DEF UtteranceEnds
<1>2. /\ speech \ {u} = {} /\ On /\ listen.playing /\ u.place.gen = listen.gen
      /\ u \in Utterance /\ listen \in Session /\ listen.pos < listen.len
      /\ u.place.pos = listen.pos /\ u.place.stage = listen.phase
  BY VoiceNow DEF ListenInv, TypeOK, ReadsWhatIsShown
<1>3. Speak(listen, {}, u.place, u.left)
  BY <1>1, <1>2 DEF Event, Stale
<1>4. Reading' /\ listen'.gen = listen.gen
  BY <1>2, <1>3, SpeakReads DEF Utterance
<1>5. Around' /\ late' \subseteq late
  BY DEF UtteranceEnds, screen, Around, ListenInv, TypeOK
<1>6. QED
  BY <1>2, <1>4, <1>5, SameGeneration

\* The counter at work: a late event finds itself stale.
LEMMA LateStep ==
  ASSUME ListenInv, LateEvent
  PROVE  ListenInv'
<1>1. PICK u \in late : Event(u, speech) /\ late' = late \ {u}
  BY DEF LateEvent
<1>2. Stale(u.place.gen)
  BY DEF ListenInv, TypeOK, LateIsOld, Stale, Utterance, Place, Session
<1>3. UNCHANGED <<listen, speech, timer>>
  BY <1>1, <1>2 DEF Event
<1>4. OneVoice' /\ ReadsWhatIsShown' /\ LateIsOld'
  BY <1>1, <1>3 DEF ListenInv, OneVoice, ReadsWhatIsShown, LateIsOld, Stale, On
<1>5. TypeOK'
  BY <1>1, <1>3 DEF LateEvent, screen, ListenInv, TypeOK, On
<1>6. QED
  BY <1>4, <1>5 DEF ListenInv

LEMMA ThinkStep ==
  ASSUME ListenInv, ThinkOver
  PROVE  ListenInv'
<1> DEFINE l == [listen EXCEPT !.phase = "back"]
           place == [timer EXCEPT !.stage = "back"]
<1>1. timer # NoTimer
  BY DEF ThinkOver, NoTimer
<1>2. /\ speech = {} /\ On /\ listen.playing /\ timer \in Place /\ timer.gen = listen.gen
      /\ timer.pos = listen.pos /\ listen \in Session /\ listen.pos < listen.len
  BY <1>1, VoiceNow DEF ListenInv, TypeOK, ReadsWhatIsShown
<1>3. /\ l \in Session /\ l.playing /\ l.pos < l.len /\ l.gen = listen.gen /\ place \in Place
      /\ place.gen = l.gen /\ place.pos = l.pos /\ place.stage = l.phase
  BY <1>2 DEF Session, Place
<1>4. Speak(l, {}, place, MaxChunks) /\ MaxChunks \in Nat
  BY <1>2, ListenAssumption DEF ThinkOver
<1> HIDE DEF l, place
<1>5. Reading' /\ listen'.gen = listen.gen
  BY <1>3, <1>4, SpeakReads
<1>6. Around' /\ late' \subseteq late
  BY DEF ThinkOver, screen, Around, ListenInv, TypeOK
<1>7. QED
  BY <1>2, <1>5, <1>6, SameGeneration

LEMMA GapStep ==
  ASSUME ListenInv, GapOver
  PROVE  ListenInv'
<1>1. timer # NoTimer
  BY DEF GapOver, NoTimer
<1>2. /\ speech = {} /\ On /\ listen.playing
      /\ listen \in Session /\ listen.pos < listen.len
  BY <1>1, VoiceNow DEF ListenInv, TypeOK
<1>3. CASE /\ Silent([Cancelled(listen) EXCEPT !.playing = FALSE, !.done = TRUE])
           /\ Dropped /\ WakeOff
  <2> DEFINE l == [Cancelled(listen) EXCEPT !.playing = FALSE, !.done = TRUE]
  <2>1. l \in Session /\ l.pos < l.len /\ ~l.playing /\ l.gen > listen.gen
    BY <1>2, CancelledSession, StoppedSession
  <2>2. Silent(l) /\ listen' = l
    BY <1>3 DEF Silent
  <2> HIDE DEF l
  <2>3. Stopped'
    BY <2>1, <2>2, SilentStops
  <2>4. Around'
    BY <1>3 DEF GapOver, WakeOff, Around, ListenInv, TypeOK
  <2>5. QED
    BY <1>2, <1>3, <2>1, <2>2, <2>3, <2>4, AfterCancel
<1>4. CASE /\ listen.pos < listen.len - 1
           /\ PlayCard([listen EXCEPT !.pos = @ + 1], speech)
           /\ UNCHANGED <<late, screen>>
  <2> DEFINE l == [listen EXCEPT !.pos = @ + 1]
  <2>1. l \in Session /\ l.pos < l.len /\ l.playing /\ l.gen = listen.gen
    BY <1>2, <1>4 DEF Session
  <2>2. PlayCard(l, {})
    BY <1>2, <1>4
  <2> HIDE DEF l
  <2>3. Reading' /\ listen'.gen = listen.gen
    BY <2>1, <2>2, PlayCardReads
  <2>4. Around' /\ late' \subseteq late
    BY <1>4 DEF GapOver, screen, Around, ListenInv, TypeOK
  <2>5. QED
    BY <1>2, <2>3, <2>4, SameGeneration
<1>5. QED
  BY <1>3, <1>4 DEF GapOver

LEMMA StartStep ==
  ASSUME ListenInv, Start
  PROVE  ListenInv'
<1>1. PICK m \in 1..MaxCards :
        PlayCard([NoSession EXCEPT !.len = m, !.playing = TRUE], speech)
  BY DEF Start
<1> DEFINE l == [NoSession EXCEPT !.len = m, !.playing = TRUE]
<1>2. l \in Session /\ l.pos < l.len /\ l.playing
  <2>1. m \in Nat /\ 0 < m
    BY ListenAssumption
  <2>2. NoSession \in Session /\ NoSession.pos = 0
    BY DEF NoSession, Session
  <2>3. QED
    BY <2>1, <2>2, StartedSession
<1>3. speech = {} /\ late' = {}
  BY VoiceNow DEF Start
<1> HIDE DEF l
<1>4. Reading'
  BY <1>1, <1>2, <1>3, PlayCardReads DEF l
<1>5. Around'
  BY AroundNow, AroundWakeOn DEF Start
<1>6. LateIsOld'
  BY <1>3 DEF LateIsOld
<1>7. QED
  BY <1>3, <1>4, <1>5, <1>6, Assemble

LEMMA PauseStep ==
  ASSUME ListenInv, Pause
  PROVE  ListenInv'
<1> DEFINE l == [Cancelled(listen) EXCEPT !.playing = FALSE]
<1>1. On /\ l \in Session /\ l.pos < l.len /\ ~l.playing /\ l.gen > listen.gen
  BY CancelledSession, PausedSession DEF Pause, Pressed
<1>2. Silent(l) /\ Dropped /\ listen' = l
  BY DEF Pause, Silent
<1> HIDE DEF l
<1>3. Stopped'
  BY <1>1, <1>2, SilentStops
<1>4. Around'
  BY DEF Pause, WakeOff, Around, ListenInv, TypeOK
<1>5. QED
  BY <1>1, <1>2, <1>3, <1>4, AfterCancel

LEMMA ResumeStep ==
  ASSUME ListenInv, Resume
  PROVE  ListenInv'
<1> DEFINE l == [listen EXCEPT !.playing = TRUE, !.done = FALSE]
<1>1. On /\ l \in Session /\ l.pos < l.len /\ l.playing /\ l.gen = listen.gen
  BY PlayingSession DEF Resume, Pressed, ListenInv, TypeOK
<1>2. PlayCard(l, {}) /\ late' \subseteq late
  BY VoiceNow DEF Resume
<1> HIDE DEF l
<1>3. Reading' /\ listen'.gen = listen.gen
  BY <1>1, <1>2, PlayCardReads
<1>4. Around'
  BY AroundNow, AroundWakeOn DEF Resume
<1>5. QED
  BY <1>1, <1>2, <1>3, <1>4, SameGeneration

LEMMA ReplayStep ==
  ASSUME ListenInv, Replay
  PROVE  ListenInv'
<1> DEFINE l == [Cancelled(listen) EXCEPT !.playing = TRUE, !.done = FALSE]
<1>1. On /\ l \in Session /\ l.pos < l.len /\ l.playing /\ l.gen > listen.gen
  BY CancelledSession, PlayingSession DEF Replay, Pressed
<1>2. PlayCard(l, {}) /\ Dropped
  BY DEF Replay
<1> HIDE DEF l
<1>3. Reading' /\ listen'.gen > listen.gen
  BY <1>1, <1>2, PlayCardReads
<1>4. Around'
  BY AroundNow, AroundWakeOn DEF Replay
<1>5. QED
  BY <1>1, <1>2, <1>3, <1>4, AfterCancel

LEMMA MoveStep ==
  ASSUME ListenInv, Move
  PROVE  ListenInv'
<1>1. On /\ listen \in Session /\ listen.pos < listen.len
  BY DEF Move, Pressed, ListenInv, TypeOK
<1>2. PICK p \in {Following(listen), Greatest(0, listen.pos - 1)} :
        LET l == [Cancelled(listen) EXCEPT !.pos = p]
        IN  \/ listen.playing /\ PlayCard(l, {})
            \/ ~listen.playing /\ Silent(l)
  BY DEF Move
<1> DEFINE l == [Cancelled(listen) EXCEPT !.pos = p]
<1>3. p \in Nat /\ p < listen.len
  BY <1>1 DEF Following, Least, Greatest, Session
<1>4. /\ l \in Session /\ l.pos < l.len /\ l.gen > listen.gen
      /\ l.playing = listen.playing
  <2> DEFINE c == Cancelled(listen)
  <2>1. /\ c \in Session /\ c.gen > listen.gen /\ c.len = listen.len
        /\ c.playing = listen.playing
    BY <1>1, CancelledSession
  <2> HIDE DEF c
  <2>2. /\ [c EXCEPT !.pos = p] \in Session /\ [c EXCEPT !.pos = p].pos = p
        /\ [c EXCEPT !.pos = p].len = c.len /\ [c EXCEPT !.pos = p].gen = c.gen
        /\ [c EXCEPT !.pos = p].playing = c.playing
    BY <1>3, <2>1 DEF Session
  <2>3. QED
    BY <1>3, <2>1, <2>2 DEF c
<1> HIDE DEF l
<1>5. Around' /\ Dropped
  BY DEF Move, screen, Around, ListenInv, TypeOK
<1>6. CASE listen.playing /\ PlayCard(l, {})
  <2>1. Reading' /\ listen'.gen > listen.gen
    BY <1>4, <1>6, PlayCardReads
  <2>2. QED
    BY <1>1, <1>5, <2>1, AfterCancel
<1>7. CASE ~listen.playing /\ Silent(l)
  <2>1. Stopped' /\ listen'.gen > listen.gen
    BY <1>4, <1>7, SilentStops DEF Silent
  <2>2. QED
    BY <1>1, <1>5, <2>1, AfterCancel
<1>8. QED
  BY <1>2, <1>6, <1>7 DEF l

LEMMA ExitStep ==
  ASSUME ListenInv, Exit
  PROVE  ListenInv'
<1>1. On /\ Silent(NoSession) /\ Dropped
  BY DEF Exit
<1>2. NoSession \in Session /\ ~NoSession.playing
  BY DEF NoSession, Session
<1>3. Stopped' /\ ~On'
  BY <1>1, <1>2, SilentStops DEF Silent, On
<1>4. Around'
  BY DEF Exit, WakeOff, Around, ListenInv, TypeOK
<1>5. QED
  BY <1>1, <1>3, <1>4, AfterCancel

LEMMA LeaveStep ==
  ASSUME ListenInv, Leave
  PROVE  ListenInv'
<1> DEFINE l == [Cancelled(listen) EXCEPT !.playing = FALSE]
<1>1. CASE On /\ Silent(l) /\ Dropped /\ WakeOff
  <2>1. l \in Session /\ l.pos < l.len /\ ~l.playing /\ l.gen > listen.gen
    BY <1>1, CancelledSession, PausedSession
  <2>2. listen' = l
    BY <1>1 DEF Silent
  <2> HIDE DEF l
  <2>3. Stopped'
    BY <1>1, <2>1, SilentStops
  <2>4. Around'
    BY <1>1 DEF Leave, WakeOff, Around, ListenInv, TypeOK
  <2>5. QED
    BY <1>1, <2>1, <2>2, <2>3, <2>4, AfterCancel
<1>2. CASE UNCHANGED <<session, screen>>
  <2>1. Around'
    BY <1>2 DEF Leave, screen, Around, ListenInv, TypeOK
  <2>2. QED
    BY <1>2, <2>1, SameSession
<1>3. QED
  BY <1>1, <1>2 DEF Leave

\* Tabs, the browser and the screen do not reach the session.
LEMMA OtherSteps ==
  ASSUME ListenInv, Return \/ Granted \/ Refused \/ Hide \/ Show \/ UNCHANGED vars
  PROVE  ListenInv'
<1>1. CASE Return
  <2>1. UNCHANGED session /\ Around'
    BY <1>1 DEF Return, screen, Around, ListenInv, TypeOK
  <2>2. QED
    BY <2>1, SameSession
<1>2. CASE Granted
  <2>1. UNCHANGED session /\ Around'
    BY <1>2 DEF Granted, Around, ListenInv, TypeOK
  <2>2. QED
    BY <2>1, SameSession
<1>3. CASE Refused
  <2>1. UNCHANGED session /\ Around'
    BY <1>3 DEF Refused, Around, ListenInv, TypeOK
  <2>2. QED
    BY <2>1, SameSession
<1>4. CASE Hide
  <2>1. UNCHANGED session /\ Around'
    BY <1>4 DEF Hide, Around, ListenInv, TypeOK
  <2>2. QED
    BY <2>1, SameSession
<1>5. CASE Show
  <2>1. UNCHANGED session /\ Around'
    BY <1>5 DEF Show, Around, ListenInv, TypeOK
  <2>2. QED
    BY <2>1, SameSession
<1>6. CASE UNCHANGED vars
  <2>1. UNCHANGED session /\ Around'
    BY <1>6 DEF vars, screen, Around, ListenInv, TypeOK
  <2>2. QED
    BY <2>1, SameSession
<1>7. QED
  BY <1>1, <1>2, <1>3, <1>4, <1>5, <1>6

-----------------------------------------------------------------------------
LEMMA ListenInitial == Init => ListenInv
<1> SUFFICES ASSUME Init PROVE ListenInv
  OBVIOUS
<1>1. NoSession \in Session
  BY DEF NoSession, Session
<1>2. TypeOK
  BY <1>1 DEF Init, TypeOK, On
<1>3. OneVoice /\ ReadsWhatIsShown /\ LateIsOld
  BY DEF Init, OneVoice, ReadsWhatIsShown, LateIsOld, On
<1>4. QED
  BY <1>2, <1>3 DEF ListenInv

LEMMA ListenStep == ListenInv /\ [Next]_vars => ListenInv'
<1> SUFFICES ASSUME ListenInv, [Next]_vars
             PROVE  ListenInv'
  OBVIOUS
<1>1. QED
  BY EventStep, LateStep, ThinkStep, GapStep, StartStep, PauseStep, ResumeStep, MoveStep,
     ReplayStep, ExitStep, LeaveStep, OtherSteps DEF Next

\* The invariant: one voice, reading what is shown, and every late event old.
THEOREM ListenInvariant == Spec => []ListenInv
BY ListenInitial, ListenStep, PTL DEF Spec

\* The variables keep their types; in particular the position stays in the queue.
THEOREM ListenTypeCorrect == Spec => []TypeOK
<1>1. ListenInv => TypeOK
  BY DEF ListenInv
<1>2. QED
  BY <1>1, ListenInvariant, PTL

\* listenStale and listenCancel together: no late event of a cancelled utterance
\* ever starts a second voice, for any number of commands, and silence is
\* kept in a session that is paused or left.
THEOREM ListenOneVoice == Spec => []OneVoice
<1>1. ListenInv => OneVoice
  BY DEF ListenInv
<1>2. QED
  BY <1>1, ListenInvariant, PTL

\* The text read is that of the card and the side on screen.
THEOREM ListenReadsWhatIsShown == Spec => []ReadsWhatIsShown
<1>1. ListenInv => ReadsWhatIsShown
  BY DEF ListenInv
<1>2. QED
  BY <1>1, ListenInvariant, PTL

-----------------------------------------------------------------------------
(* The screen.                                                             *)

\* While the page has stayed visible since the session last asked, a playing
\* session has a request under way or holds the lock.
AwakeInv ==
  /\ ~hid => visible
  /\ On /\ listen.playing /\ ~hid => requests > 0 \/ wake = "held"

\* A step that leaves the screen alone starts nothing.
LEMMA ScreenAlone ==
  ASSUME AwakeInv, UNCHANGED screen, On' /\ listen'.playing => On /\ listen.playing
  PROVE  AwakeInv'
BY DEF AwakeInv, screen

\* A step that asks for the lock, on a visible page.
LEMMA ScreenAsked ==
  ASSUME AwakeInv, ListenInv, visible, WakeOn
  PROVE  AwakeInv'
<1>1. requests \in Nat
  BY DEF ListenInv, TypeOK
<1>2. requests' > 0
  BY <1>1 DEF WakeOn
<1>3. QED
  BY <1>2 DEF AwakeInv, WakeOn

\* A step that stops the session.
LEMMA ScreenFreed ==
  ASSUME AwakeInv, ~(On' /\ listen'.playing), WakeOff
  PROVE  AwakeInv'
BY DEF AwakeInv, WakeOff

LEMMA AwakeStep ==
  ASSUME ListenInv, ListenInv', AwakeInv, [Next]_vars
  PROVE  AwakeInv'
<1>1. CASE UtteranceEnds \/ ThinkOver
  <2>1. speech # {} \/ timer # NoTimer
    BY <1>1 DEF UtteranceEnds, ThinkOver, NoTimer
  <2>2. On /\ listen.playing /\ UNCHANGED screen
    BY <1>1, <2>1, VoiceNow DEF UtteranceEnds, ThinkOver
  <2>3. QED
    BY <2>2, ScreenAlone
<1>2. CASE LateEvent
  <2>1. PICK u \in late : Event(u, speech)
    BY <1>2 DEF LateEvent
  <2>2. Stale(u.place.gen)
    BY DEF ListenInv, TypeOK, LateIsOld, Stale, Utterance, Place, Session
  <2>3. UNCHANGED <<listen, screen>>
    BY <1>2, <2>1, <2>2 DEF LateEvent, Event
  <2>4. QED
    BY <2>3, ScreenAlone DEF On
<1>3. CASE GapOver
  <2>1. On /\ listen.playing
    BY <1>3, VoiceNow DEF GapOver, NoTimer
  <2> DEFINE l == [Cancelled(listen) EXCEPT !.playing = FALSE, !.done = TRUE]
  <2>2. CASE Silent(l) /\ WakeOff
    <3>1. ~l.playing
      BY <2>1, CancelledSession, StoppedSession
    <3>2. QED
      BY <2>2, <3>1, ScreenFreed DEF Silent
  <2>3. CASE UNCHANGED screen
    BY <2>1, <2>3, ScreenAlone
  <2>4. QED
    BY <1>3, <2>2, <2>3 DEF GapOver
<1>4. CASE Start \/ Resume \/ Replay
  <2>1. visible /\ WakeOn
    BY <1>4 DEF Start, Resume, Replay, Pressed
  <2>2. QED
    BY <2>1, ScreenAsked
<1>5. CASE Pause \/ (Leave /\ On)
  <2> DEFINE l == [Cancelled(listen) EXCEPT !.playing = FALSE]
  <2>1. On /\ Silent(l) /\ WakeOff
    BY <1>5 DEF Pause, Leave, Pressed
  <2>2. ~l.playing
    BY <2>1, CancelledSession, PausedSession
  <2>3. QED
    BY <2>1, <2>2, ScreenFreed DEF Silent
<1>6. CASE Exit
  BY <1>6, ScreenFreed DEF Exit, Silent, On
<1>7. CASE Move
  <2>1. ~listen.playing => ~listen'.playing
    <3>1. PICK p \in {Following(listen), Greatest(0, listen.pos - 1)} :
            LET l == [Cancelled(listen) EXCEPT !.pos = p]
            IN  \/ listen.playing /\ PlayCard(l, {})
                \/ ~listen.playing /\ Silent(l)
      BY <1>7 DEF Move
    <3>2. On /\ Cancelled(listen) \in Session /\ Cancelled(listen).playing = listen.playing
      BY <1>7, CancelledSession DEF Move, Pressed
    <3>3. [Cancelled(listen) EXCEPT !.pos = p].playing = Cancelled(listen).playing
      BY <3>2 DEF Session
    <3>4. QED
      BY <3>1, <3>2, <3>3 DEF Silent
  <2>2. On /\ UNCHANGED screen
    BY <1>7 DEF Move, Pressed
  <2>3. QED
    BY <2>1, <2>2, ScreenAlone
<1>8. CASE (Leave /\ ~On) \/ Return \/ UNCHANGED vars
  <2>1. UNCHANGED <<listen, screen>>
    BY <1>8 DEF Leave, Return, vars, session
  <2>2. QED
    BY <2>1, ScreenAlone DEF On
<1>9. CASE Granted
  BY <1>9 DEF Granted, AwakeInv, session, On
<1>10. CASE Refused
  BY <1>10 DEF Refused, AwakeInv, session, On
<1>11. CASE Hide
  BY <1>11 DEF Hide, AwakeInv
<1>12. CASE Show
  <2>1. hid' /\ hid
    BY <1>12 DEF Show, AwakeInv, ListenInv, TypeOK
  <2>2. QED
    BY <2>1 DEF AwakeInv
<1>13. QED
  BY <1>1, <1>2, <1>3, <1>4, <1>5, <1>6, <1>7, <1>8, <1>9, <1>10, <1>11, <1>12 DEF Next

\* The lock of a session that plays on a page never hidden, for any number of
\* pauses and of requests that overlap.
THEOREM ListenAwakeWhileVisible == Spec => []AwakeWhileVisible
<1>1. Init => AwakeInv
  BY DEF Init, AwakeInv, On
<1>2. ListenInv /\ ListenInv' /\ AwakeInv /\ [Next]_vars => AwakeInv'
  BY AwakeStep
<1>3. ListenInv /\ AwakeInv => AwakeWhileVisible
  BY DEF AwakeInv, AwakeWhileVisible, ListenInv, TypeOK
<1>4. QED
  BY <1>1, <1>2, <1>3, ListenInvariant, PTL DEF Spec
=============================================================================
