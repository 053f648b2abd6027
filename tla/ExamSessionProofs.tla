-------------------------- MODULE ExamSessionProofs -------------------------
(***************************************************************************)
(* Proofs about taking an exam, for exams of any length and any time per   *)
(* question, and about the allocation of its questions, for any blueprint. *)
(***************************************************************************)
EXTENDS ExamSession, FiniteSetTheorems, WellFoundedInduction, TLAPS

\* What the clock has charged for.
Charged(e) == Granted(e) - e.remaining

\* What is kept of an exam that has been on screen for x half seconds.
Sound(e, x) ==
  /\ ExamOK(e) /\ (e # NoExam => e.len > 0)
  /\ Settled(e)
  /\ e.timed => x <= Second * Charged(e)

\* On screen, the clock has charged for a second that is not over yet; and it
\* runs for no other exam than a timed one.
ClockAhead ==
  /\ view = "question" /\ exam.timed =>
       \E c \in clocks : elapsed <= Second * (Charged(exam) - 1) + c.age
  /\ exam # NoExam /\ clocks # {} => exam.timed

ExamInv ==
  /\ SessionTypeOK
  /\ OneClock
  /\ Sound(exam, elapsed)
  /\ view = "question" => exam.pos < exam.len /\ mode = "exam"
  /\ ~built => mode = "exam"
  /\ ClockAhead

-----------------------------------------------------------------------------
(* Helpers.                                                                *)

LEMMA GrantedIsNat ==
  ASSUME NEW e, e.len \in Nat
  PROVE  Granted(e) \in Nat
BY SessionAssumption DEF Granted

\* With one clock, clearing examTimer leaves none.
LEMMA ClearedIsEmpty ==
  ASSUME SessionTypeOK, OneClock
  PROVE  Cleared(clocks) = {} /\ Cleared(Rested) = {}
<1>1. \A c \in clocks : c.id = examTimer /\ [c EXCEPT !.age = 0].id = examTimer
  BY DEF SessionTypeOK, OneClock
<1>2. \A d \in Rested : d.id = examTimer
  BY <1>1 DEF Rested
<1>3. QED
  BY <1>1, <1>2 DEF Cleared

LEMMA NoExamSound ==
  ASSUME NEW x \in Nat
  PROVE  Sound(NoExam, x)
<1>1. NoExam.len = 0 /\ NoExam.pos = 0 /\ NoExam.answers = <<>> /\ NoExam.timed = FALSE
      /\ NoExam.remaining = 0
  BY DEF NoExam
<1>2. Granted(NoExam) \in Nat
  BY <1>1, GrantedIsNat
<1>3. ExamOK(NoExam)
  BY <1>1, <1>2 DEF ExamOK, NoExam
<1>4. Settled(NoExam)
  BY <1>1 DEF Settled
<1>5. QED
  BY <1>1, <1>3, <1>4 DEF Sound

\* One question charged, or the exam cut short, keeps an exam sound.
LEMMA ChargeOne ==
  ASSUME NEW x \in Nat, NEW e, Sound(e, x), e.remaining > 0
  PROVE  LET f == [e EXCEPT !.remaining = @ - 1]
         IN  /\ ExamOK(f) /\ f # NoExam /\ f.len > 0 /\ f.len = e.len /\ f.pos = e.pos
             /\ f.timed = e.timed /\ Settled(f) /\ Charged(f) = Charged(e) + 1
             /\ Charged(e) \in Nat
<1> DEFINE f == [e EXCEPT !.remaining = @ - 1]
<1>1. ExamOK(e) /\ Settled(e)
  BY DEF Sound
<1>2. /\ f \in [len: Nat, pos: Nat, answers: Seq(Choices \cup {"open", "skipped"}),
                timed: BOOLEAN, remaining: Nat]
      /\ f.len = e.len /\ f.pos = e.pos /\ f.answers = e.answers /\ f.timed = e.timed
      /\ f.remaining = e.remaining - 1
  BY <1>1 DEF ExamOK
<1>3. Granted(e) \in Nat /\ Granted(f) = Granted(e)
  BY <1>1, <1>2, GrantedIsNat DEF ExamOK, Granted
<1> HIDE DEF f
<1>4. ExamOK(f)
  BY <1>1, <1>2, <1>3 DEF ExamOK
<1>5. Settled(f)
  BY <1>1, <1>2 DEF Settled, ExamOK
<1>6. Charged(f) = Charged(e) + 1 /\ Charged(e) \in Nat
  BY <1>1, <1>2, <1>3 DEF Charged, ExamOK
<1>7. e # NoExam /\ e.len > 0
  BY DEF Sound, NoExam
<1>8. f # NoExam
  BY <1>2, <1>7 DEF NoExam
<1>9. QED
  BY <1>2, <1>4, <1>5, <1>6, <1>7, <1>8 DEF f

LEMMA CutShort ==
  ASSUME NEW x \in Nat, NEW e, Sound(e, x), e.timed, e.remaining <= 0, e # NoExam
  PROVE  LET f == [e EXCEPT !.pos = e.len]
         IN  Sound(f, x) /\ f # NoExam /\ f.pos = f.len /\ f.timed
<1> DEFINE f == [e EXCEPT !.pos = e.len]
<1>1. ExamOK(e) /\ Settled(e) /\ e.len > 0
  BY DEF Sound
<1>2. /\ f \in [len: Nat, pos: Nat, answers: Seq(Choices \cup {"open", "skipped"}),
                timed: BOOLEAN, remaining: Nat]
      /\ f.len = e.len /\ f.pos = e.len /\ f.answers = e.answers /\ f.timed = e.timed
      /\ f.remaining = e.remaining
  BY <1>1 DEF ExamOK
<1>3. Granted(f) = Granted(e)
  BY <1>2 DEF Granted
<1> HIDE DEF f
<1>4. ExamOK(f)
  BY <1>1, <1>2, <1>3 DEF ExamOK
<1>5. e.remaining = 0
  BY <1>1 DEF ExamOK
<1>6. Settled(f)
  <2>1. PICK k \in 0..e.pos : \A i \in 1..e.len : e.answers[i] = "open" <=> i > k
    BY <1>1 DEF Settled
  <2>2. k \in 0..f.pos
    BY <1>1, <1>2 DEF ExamOK
  <2>3. QED
    BY <1>2, <1>5, <2>1, <2>2 DEF Settled
<1>7. f # NoExam
  BY <1>1, <1>2 DEF NoExam
<1>8. QED
  BY <1>1, <1>2, <1>3, <1>4, <1>6, <1>7 DEF Sound, Charged, f

-----------------------------------------------------------------------------
(* Rendering.                                                              *)

\* What every handler leaves to be shown about the page it has drawn.
Drawn ==
  /\ view \in {"landing", "question", "results", "misses", "other"}
  /\ chosen \in Choices \cup {"none"} /\ examTimer \in 0..3
  /\ clocks \subseteq [id: 1..3, age: 0..Second]
  /\ OneClock
  /\ Sound(exam, elapsed)
  /\ view = "question" => exam.pos < exam.len /\ mode = "exam"
  /\ ClockAhead

LEMMA DrawnIsEnough ==
  ASSUME Drawn', mode' \in {"exam", "other"}, elapsed' \in Nat, ~built' => mode' = "exam"
  PROVE  ExamInv'
BY DEF Drawn, ExamInv, SessionTypeOK, Sound

\* setInterval on a page without intervals.
LEMMA OneInterval ==
  ASSUME SetInterval({}), mode' = "exam"
  PROVE  /\ examTimer' \in 1..3 /\ clocks' = {[id |-> examTimer', age |-> 0]}
         /\ clocks' \subseteq [id: 1..3, age: 0..Second] /\ OneClock'
<1>1. \E i \in 1..3 : \A j \in 1 .. i - 1 : FALSE
  <2>1. 1 \in 1..3 /\ 1 .. 1 - 1 = {}
    OBVIOUS
  <2>2. QED
    BY <2>1
<1>2. /\ examTimer' = CHOOSE i \in 1..3 : /\ \A c \in {} : c.id # i
                                         /\ \A j \in 1 .. i - 1 : \E c \in {} : c.id = j
      /\ clocks' = {} \cup {[id |-> examTimer', age |-> 0]}
  BY DEF SetInterval
<1>3. examTimer' \in 1..3
  BY <1>1, <1>2
<1>4. clocks' = {[id |-> examTimer', age |-> 0]}
  BY <1>2
<1>5. clocks' \subseteq [id: 1..3, age: 0..Second]
  BY <1>3, <1>4 DEF Second
<1>6. OneClock'
  BY <1>4 DEF OneClock
<1>7. QED
  BY <1>3, <1>4, <1>5, <1>6

LEMMA StartDraws ==
  ASSUME SessionTypeOK, OneClock, NEW e, Sound(e, elapsed'), elapsed' \in Nat, e.pos < e.len,
         StartExamClock(e), chosen' = "none", mode' = "exam"
  PROVE  Drawn'
<1> USE ClearedIsEmpty
<1>1. CASE /\ ~e.timed
           /\ exam' = e /\ view' = "question"
           /\ clocks' = Cleared(clocks) /\ UNCHANGED examTimer
  <2>1. clocks' = {} /\ OneClock' /\ ClockAhead'
    BY <1>1 DEF OneClock, ClockAhead
  <2>2. QED
    BY <1>1, <2>1 DEF Drawn, SessionTypeOK
<1>2. CASE e.timed
  <2>1. SetInterval({})
    BY <1>2 DEF StartExamClock
  <2>2. /\ examTimer' \in 1..3 /\ clocks' = {[id |-> examTimer', age |-> 0]}
        /\ clocks' \subseteq [id: 1..3, age: 0..Second] /\ OneClock'
    BY <2>1, OneInterval
  <2>3. e # NoExam
    BY <1>2 DEF NoExam
  <2>4. CASE e.remaining <= 0
    <3>1. exam' = [e EXCEPT !.pos = e.len] /\ view' = "results"
      BY <1>2, <2>4 DEF StartExamClock
    <3>2. Sound(exam, elapsed)' /\ exam'.timed
      BY <1>2, <2>3, <2>4, <3>1, CutShort
    <3>3. QED
      BY <2>2, <3>1, <3>2 DEF Drawn, ClockAhead
  <2>5. CASE ~(e.remaining <= 0)
    <3>1. exam' = [e EXCEPT !.remaining = @ - 1] /\ view' = "question"
      BY <1>2, <2>5 DEF StartExamClock
    <3>2. e.remaining > 0
      BY <2>5 DEF Sound, ExamOK
    <3>3. /\ ExamOK(exam') /\ exam' # NoExam /\ exam'.len > 0 /\ exam'.len = e.len
          /\ exam'.pos = e.pos /\ exam'.timed = e.timed /\ Settled(exam')
          /\ Charged(exam') = Charged(e) + 1 /\ Charged(e) \in Nat
      BY <3>1, <3>2, ChargeOne
    <3>4. elapsed' <= Second * Charged(e)
      BY <1>2 DEF Sound
    <3>5. elapsed' <= Second * Charged(exam')
          /\ elapsed' <= Second * (Charged(exam') - 1) + 0
      BY <3>3, <3>4 DEF Second
    <3>6. Sound(exam', elapsed')
      BY <3>3, <3>5 DEF Sound
    <3>7. ClockAhead'
      <4>1. PICK c \in clocks' : c.age = 0
        BY <2>2
      <4>2. elapsed' <= Second * (Charged(exam') - 1) + c.age
        BY <3>5, <4>1
      <4>3. QED
        BY <1>2, <3>3, <4>2 DEF ClockAhead
    <3>8. QED
      BY <2>2, <3>1, <3>3, <3>6, <3>7 DEF Drawn
  <2>6. QED
    BY <2>4, <2>5
<1>3. QED
  BY <1>1, <1>2 DEF StartExamClock

LEMMA RenderDraws ==
  ASSUME SessionTypeOK, OneClock, NEW e, Sound(e, elapsed'), elapsed' \in Nat,
         RenderExam(e), mode' = "exam"
  PROVE  Drawn'
<1>1. CASE e = NoExam /\ DrawLanding
  <2>1. Sound(NoExam, elapsed')
    BY NoExamSound
  <2>2. UNCHANGED <<clocks, examTimer>> /\ exam' = NoExam /\ view' = "landing" /\ chosen' = "none"
    BY <1>1 DEF DrawLanding
  <2>3. OneClock' /\ ClockAhead'
    BY <2>2 DEF OneClock, ClockAhead
  <2>4. QED
    BY <2>1, <2>2, <2>3 DEF Drawn, SessionTypeOK
<1>2. CASE DrawResults(e, clocks)
  <2>1. /\ exam' = e /\ view' = "results" /\ chosen' = "none" /\ clocks' = {}
        /\ UNCHANGED examTimer
    BY <1>2, ClearedIsEmpty DEF DrawResults
  <2>2. OneClock' /\ ClockAhead'
    BY <2>1 DEF OneClock, ClockAhead
  <2>3. QED
    BY <2>1, <2>2 DEF Drawn, SessionTypeOK
<1>3. CASE e.pos < e.len /\ StartExamClock(e) /\ chosen' = "none"
  BY <1>3, StartDraws
<1>4. QED
  BY <1>1, <1>2, <1>3 DEF RenderExam

-----------------------------------------------------------------------------
(* The steps.                                                              *)

\* What the invariant says of the present page.
LEMMA Now ==
  ASSUME ExamInv
  PROVE  /\ ExamOK(exam) /\ Sound(exam, elapsed) /\ elapsed \in Nat /\ mode \in {"exam", "other"}
         /\ OneClock /\ SessionTypeOK /\ clocks \subseteq [id: 1..3, age: 0..Second]
BY DEF ExamInv, SessionTypeOK

LEMMA BuildStep ==
  ASSUME ExamInv, Build
  PROVE  ExamInv'
<1>1. UNCHANGED page /\ (~built' => mode = "exam")
  BY DEF Build, Idle, Begin, Trim, Grow, ExamInv
<1>2. QED
  BY <1>1 DEF page, ExamInv, SessionTypeOK, OneClock, ClockAhead

LEMMA OpenStep ==
  ASSUME ExamInv, Open
  PROVE  ExamInv'
<1>1. built' /\ ~built
  BY DEF Open, Draw
<1>2. CASE UNCHANGED page
  BY <1>1, <1>2 DEF page, ExamInv, SessionTypeOK, OneClock, ClockAhead
<1>3. ASSUME total \in 1..MaxQuestions, NEW timed \in BOOLEAN,
             StartExamClock([len |-> total, pos |-> 0, answers |-> [i \in 1..total |-> "open"],
                             timed |-> timed, remaining |-> PerQuestion * total]),
             chosen' = "none" /\ elapsed' = 0 /\ UNCHANGED mode
      PROVE  ExamInv'
  <2> DEFINE e == [len |-> total, pos |-> 0, answers |-> [i \in 1..total |-> "open"],
                   timed |-> timed, remaining |-> PerQuestion * total]
  <2>1. total \in Nat /\ total > 0
    BY <1>3, SessionAssumption
  <2>2. PerQuestion * total \in Nat
    BY <2>1, SessionAssumption
  <2>3. /\ [i \in 1..total |-> "open"] \in Seq(Choices \cup {"open", "skipped"})
        /\ Len([i \in 1..total |-> "open"]) = total
    BY <2>1
  <2>4. e.len = total /\ e.pos = 0 /\ e.remaining = Granted(e) /\ Granted(e) \in Nat
        /\ \A i \in 1..total : e.answers[i] = "open"
    BY <2>2 DEF Granted
  <2>5. ExamOK(e)
    BY <2>1, <2>2, <2>3, <2>4 DEF ExamOK
  <2>6. Settled(e)
    BY <2>1, <2>4 DEF Settled
  <2> HIDE DEF e
  <2>7. Sound(e, 0)
    BY <2>1, <2>4, <2>5, <2>6 DEF Sound, Charged, Second
  <2>8. mode' = "exam"
    BY <1>1, <1>3 DEF ExamInv
  <2>9. StartExamClock(e) /\ elapsed' = 0
    BY <1>3 DEF e
  <2>10. Drawn'
    BY <1>3, <2>1, <2>4, <2>7, <2>8, <2>9, StartDraws DEF ExamInv
  <2>11. QED
    BY <2>8, <2>9, <2>10, DrawnIsEnough
<1>4. QED
  BY <1>2, <1>3 DEF Open

LEMMA AnsweredSound ==
  ASSUME ExamInv, view = "question", NEW a \in Choices \cup {"skipped"}
  PROVE  Sound(Answered(exam, a), elapsed)
<1> DEFINE e == exam
           f == Answered(exam, a)
<1>1. ExamOK(e) /\ Settled(e) /\ e.pos < e.len /\ elapsed \in Nat
  BY DEF ExamInv, SessionTypeOK, Sound
<1>2. /\ e.answers \in Seq(Choices \cup {"open", "skipped"}) /\ Len(e.answers) = e.len
      /\ e.pos + 1 \in 1..e.len /\ e.pos \in Nat /\ e.len \in Nat
  BY <1>1 DEF ExamOK
<1>3. LET b == [e.answers EXCEPT ![e.pos + 1] = a]
      IN  /\ b \in Seq(Choices \cup {"open", "skipped"}) /\ Len(b) = e.len
          /\ \A i \in 1..e.len : b[i] = IF i = e.pos + 1 THEN a ELSE e.answers[i]
  BY <1>2
<1>4. /\ f \in [len: Nat, pos: Nat, answers: Seq(Choices \cup {"open", "skipped"}),
                timed: BOOLEAN, remaining: Nat]
      /\ f.len = e.len /\ f.pos = e.pos + 1 /\ f.answers = [e.answers EXCEPT ![e.pos + 1] = a]
      /\ f.timed = e.timed /\ f.remaining = e.remaining
  <2> DEFINE b == [e.answers EXCEPT ![e.pos + 1] = a]
  <2>1. b \in Seq(Choices \cup {"open", "skipped"})
    BY <1>3
  <2>2. f = [e EXCEPT !.answers = b, !.pos = @ + 1]
    BY DEF Answered
  <2> HIDE DEF b, f, e
  <2> DEFINE g == [e EXCEPT !.answers = b]
  <2>3. /\ g \in [len: Nat, pos: Nat, answers: Seq(Choices \cup {"open", "skipped"}),
                  timed: BOOLEAN, remaining: Nat]
        /\ g.len = e.len /\ g.pos = e.pos /\ g.answers = b
        /\ g.timed = e.timed /\ g.remaining = e.remaining
    BY <1>1, <2>1 DEF ExamOK
  <2>4. f = [g EXCEPT !.pos = @ + 1]
    BY <2>2
  <2> HIDE DEF g
  <2>5. /\ f \in [len: Nat, pos: Nat, answers: Seq(Choices \cup {"open", "skipped"}),
                  timed: BOOLEAN, remaining: Nat]
        /\ f.len = e.len /\ f.pos = e.pos + 1 /\ f.answers = b
        /\ f.timed = e.timed /\ f.remaining = e.remaining
    BY <2>3, <2>4
  <2>6. QED
    BY <2>5 DEF b
<1>5. Granted(f) = Granted(e)
  BY <1>4 DEF Granted
<1>6. ExamOK(f)
  BY <1>1, <1>2, <1>3, <1>4, <1>5 DEF ExamOK
<1>7. Settled(f)
  <2>1. \A i \in 1..e.len : e.answers[i] = "open" <=> i > e.pos
    BY <1>1, <1>2 DEF Settled
  <2>2. a # "open"
    BY DEF Choices
  <2>3. \A i \in 1..f.len : f.answers[i] = "open" <=> i > f.pos
    BY <1>2, <1>3, <1>4, <2>1, <2>2
  <2>4. f.pos \in 0..f.pos
    BY <1>2, <1>4
  <2>5. QED
    BY <2>3, <2>4 DEF Settled
<1>8. f.len > 0
  BY <1>1, <1>2, <1>4
<1>9. QED
  BY <1>4, <1>5, <1>6, <1>7, <1>8 DEF Sound, Charged, ExamInv

LEMMA AdvanceStep ==
  ASSUME ExamInv, Advance
  PROVE  ExamInv'
<1>1. PICK a \in Choices \cup {"skipped"} : RenderExam(Answered(exam, a))
  BY DEF Advance, ExamInv, SessionTypeOK
<1>2. view = "question" /\ elapsed' = elapsed /\ mode' = mode /\ mode = "exam" /\ built' = built
      /\ built
  BY DEF Advance, Idle, vars, ExamInv
<1>3. Sound(Answered(exam, a), elapsed') /\ elapsed' \in Nat
  BY <1>2, AnsweredSound, Now
<1> DEFINE e == Answered(exam, a)
<1> HIDE DEF e
<1>4. Drawn'
  BY <1>1, <1>2, <1>3, Now, RenderDraws DEF e
<1>5. QED
  BY <1>2, <1>3, <1>4, DrawnIsEnough

LEMMA TabStep ==
  ASSUME ExamInv, ExamTab
  PROVE  ExamInv'
<1>1. RenderExam(exam) /\ mode' = "exam" /\ elapsed' = elapsed
  BY DEF ExamTab
<1>2. Drawn'
  BY <1>1, Now, RenderDraws
<1>3. QED
  BY <1>1, <1>2, Now, DrawnIsEnough

LEMMA NewExamStep ==
  ASSUME ExamInv, NewExam
  PROVE  ExamInv'
<1>1. /\ UNCHANGED <<clocks, examTimer, mode, built>> /\ built /\ exam' = NoExam
      /\ view' = "landing" /\ chosen' = "none" /\ elapsed' = 0
  BY DEF NewExam, DrawLanding, Idle, vars
<1>2. Sound(NoExam, 0)
  BY NoExamSound
<1>3. OneClock' /\ ClockAhead'
  BY <1>1, Now DEF OneClock, ClockAhead
<1>4. Drawn'
  BY <1>1, <1>2, <1>3, Now DEF Drawn, SessionTypeOK
<1>5. QED
  BY <1>1, <1>4, Now, DrawnIsEnough

LEMMA LeaveStep ==
  ASSUME ExamInv, Leave
  PROVE  ExamInv'
<1>1. /\ UNCHANGED <<exam, chosen, examTimer, elapsed, built>> /\ built
      /\ mode' = "other" /\ view' = "other" /\ clocks' = {}
  BY Now, ClearedIsEmpty DEF Leave, Idle, vars
<1>2. OneClock' /\ ClockAhead'
  BY <1>1 DEF OneClock, ClockAhead
<1>3. Drawn'
  BY <1>1, <1>2, Now DEF Drawn, SessionTypeOK
<1>4. QED
  BY <1>1, <1>3, Now, DrawnIsEnough

\* Steps that only touch the question or the list of misses.
LEMMA MarkStep ==
  ASSUME ExamInv, Choose \/ ReviewMisses
  PROVE  ExamInv'
<1>1. /\ UNCHANGED <<exam, clocks, examTimer, elapsed, mode, built>> /\ built
      /\ view' = view \/ view' = "misses"
      /\ chosen' \in Choices \cup {"none"} /\ view' \in {"landing", "question", "results", "misses", "other"}
  BY Now DEF Choose, ReviewMisses, Idle, vars, SessionTypeOK
<1>2. OneClock' /\ ClockAhead' /\ (view' = "question" => exam.pos < exam.len /\ mode = "exam")
  BY <1>1 DEF ExamInv, OneClock, ClockAhead
<1>3. Drawn'
  BY <1>1, <1>2, Now DEF Drawn, SessionTypeOK
<1>4. QED
  BY <1>1, <1>3, Now, DrawnIsEnough

LEMMA TimeStep ==
  ASSUME ExamInv, Time
  PROVE  ExamInv'
<1>1. /\ UNCHANGED <<exam, chosen, examTimer, mode, view, built>> /\ built
      /\ clocks' = {[c EXCEPT !.age = @ + 1] : c \in clocks}
  BY DEF Time, Idle, vars
<1>2. elapsed' \in Nat /\ elapsed' <= elapsed + 1 /\ (view # "question" => elapsed' = elapsed)
  <2>1. Second * Granted(exam) + 1 \in Nat
    BY Now, GrantedIsNat DEF ExamOK, Second
  <2>2. QED
    BY <2>1, Now DEF Time, Least
<1>3. ASSUME NEW c \in clocks
      PROVE  LET d == [c EXCEPT !.age = @ + 1]
             IN  d \in [id: 1..3, age: 0..Second] /\ d.age = c.age + 1 /\ d.id = c.id
  <2>1. c \in [id: 1..3, age: 0..Second] /\ c.age # Second
    BY Now DEF Time, Due
  <2>2. QED
    BY <2>1 DEF Second
<1>4. clocks' \subseteq [id: 1..3, age: 0..Second]
  BY <1>1, <1>3
<1>5. OneClock'
  BY <1>1, <1>3, Now DEF OneClock
<1>6. Charged(exam) \in Int
  BY Now, GrantedIsNat DEF Charged, ExamOK
<1>7. ASSUME view = "question", exam.timed
      PROVE  /\ \E d \in clocks' : elapsed' <= Second * (Charged(exam) - 1) + d.age
             /\ elapsed' <= Second * Charged(exam)
  <2>1. PICK c \in clocks : elapsed <= Second * (Charged(exam) - 1) + c.age
    BY <1>7 DEF ExamInv, ClockAhead
  <2> DEFINE d == [c EXCEPT !.age = @ + 1]
  <2>2. d \in clocks' /\ d.age = c.age + 1 /\ d.age \in 0..2 /\ c.age \in 0..2
    BY <1>1, <1>3, Now DEF Second
  <2> HIDE DEF d
  <2>3. elapsed' <= Second * (Charged(exam) - 1) + d.age
    BY <1>2, <1>6, <2>1, <2>2, Now DEF Second
  <2>4. elapsed' <= Second * Charged(exam)
    BY <1>2, <1>6, <2>2, <2>3 DEF Second
  <2>5. QED
    BY <2>2, <2>3, <2>4
<1>8. ClockAhead'
  <2>1. clocks # {} /\ (exam # NoExam => exam.timed)
    BY DEF Time, ExamInv, ClockAhead
  <2>2. QED
    BY <1>1, <1>7, <2>1 DEF ClockAhead, Charged, Granted
<1>9. Sound(exam', elapsed')
  <2>1. exam.timed => elapsed' <= Second * Charged(exam)
    BY <1>2, <1>7, Now DEF Sound
  <2>2. QED
    BY <1>1, <2>1, Now DEF Sound
<1>10. Drawn'
  BY <1>1, <1>4, <1>5, <1>8, <1>9, Now DEF Drawn, SessionTypeOK, ExamInv
<1>11. QED
  BY <1>1, <1>2, <1>10, Now, DrawnIsEnough

LEMMA TickStep ==
  ASSUME ExamInv, Tick
  PROVE  ExamInv'
<1>1. built /\ UNCHANGED <<built, mode, elapsed>> /\ Due # {}
  BY DEF Tick, Idle, vars
<1>2. Rested \subseteq [id: 1..3, age: 0..Second] /\ \A c \in Rested : c.id = examTimer
  <2>1. \A c \in clocks : [c EXCEPT !.age = 0] \in [id: 1..3, age: 0..Second]
                          /\ [c EXCEPT !.age = 0].id = c.id /\ c.id = examTimer
    BY Now DEF OneClock, Second
  <2>2. QED
    BY <2>1, Now DEF Rested
<1>3. CASE /\ ~On \/ mode # "exam"
           /\ clocks' = Cleared(Rested) /\ UNCHANGED <<view, exam, chosen, examTimer>>
  <2>1. clocks' = {} /\ OneClock'
    BY <1>3, Now, ClearedIsEmpty DEF OneClock
  <2>2. ClockAhead'
    <3>1. view # "question" \/ ~exam.timed
      BY <1>3 DEF On, NoExam, ExamInv
    <3>2. QED
      BY <1>3, <2>1, <3>1 DEF ClockAhead
  <2>3. Drawn'
    BY <1>1, <1>3, <2>1, <2>2, Now DEF Drawn, SessionTypeOK, ExamInv
  <2>4. QED
    BY <1>1, <2>3, Now, DrawnIsEnough
<1>4. CASE /\ On /\ mode = "exam" /\ exam.remaining <= 0
           /\ DrawResults([exam EXCEPT !.pos = exam.len], Rested)
  <2> DEFINE f == [exam EXCEPT !.pos = exam.len]
  <2>1. /\ exam' = f /\ view' = "results" /\ chosen' = "none" /\ clocks' = {}
        /\ UNCHANGED examTimer
    BY <1>4, Now, ClearedIsEmpty DEF DrawResults
  <2>2. exam.timed
    BY <1>1, <1>4 DEF ExamInv, ClockAhead, Due, On
  <2>3. Sound(f, elapsed)
    BY <1>4, <2>2, Now, CutShort DEF On
  <2> HIDE DEF f
  <2>4. OneClock' /\ ClockAhead'
    BY <2>1 DEF OneClock, ClockAhead
  <2>5. Drawn'
    BY <1>1, <2>1, <2>3, <2>4, Now DEF Drawn, SessionTypeOK
  <2>6. QED
    BY <1>1, <2>5, Now, DrawnIsEnough
<1>5. CASE /\ On /\ mode = "exam" /\ exam.remaining > 0
           /\ exam' = [exam EXCEPT !.remaining = @ - 1]
           /\ clocks' = Rested /\ UNCHANGED <<view, chosen, examTimer>>
  <2>1. /\ ExamOK(exam') /\ exam' # NoExam /\ exam'.len > 0 /\ exam'.len = exam.len
        /\ exam'.pos = exam.pos /\ exam'.timed = exam.timed /\ Settled(exam')
        /\ Charged(exam') = Charged(exam) + 1 /\ Charged(exam) \in Nat
    BY <1>5, Now, ChargeOne
  <2>2. OneClock'
    <3>1. \A c, d \in clocks : c = d
      BY Now DEF OneClock
    <3>2. \A c, d \in Rested : c = d
      BY <3>1 DEF Rested
    <3>3. QED
      BY <1>1, <1>2, <1>5, <3>2 DEF OneClock
  <2>3. exam.timed => elapsed <= Second * Charged(exam)
    BY Now DEF Sound
  <2>4. Sound(exam', elapsed')
    BY <1>1, <2>1, <2>3, Now DEF Sound, Second
  <2>5. ClockAhead'
    <3>1. ASSUME view = "question", exam.timed
          PROVE  \E c \in Rested : elapsed <= Second * Charged(exam) + c.age
      <4>1. PICK c \in clocks : c.age = Second
        BY <1>1 DEF Due
      <4> DEFINE d == [c EXCEPT !.age = 0]
      <4>2. d \in Rested
        BY <4>1 DEF Rested
      <4>3. d.age = 0
        BY Now
      <4> HIDE DEF d
      <4>4. elapsed <= Second * Charged(exam) + d.age
        BY <2>1, <2>3, <3>1, <4>3, Now DEF Second
      <4>5. QED
        BY <4>2, <4>4
    <3>2. Charged(exam') - 1 = Charged(exam)
      BY <2>1
    <3>3. exam.timed
      BY <1>1, <1>5 DEF ExamInv, ClockAhead, Due, On
    <3>4. QED
      BY <1>1, <1>5, <2>1, <3>1, <3>2, <3>3 DEF ClockAhead
  <2>6. Drawn'
    BY <1>1, <1>2, <1>5, <2>1, <2>2, <2>4, <2>5, Now DEF Drawn, SessionTypeOK, ExamInv
  <2>7. QED
    BY <1>1, <2>6, Now, DrawnIsEnough
<1>6. QED
  BY <1>3, <1>4, <1>5 DEF Tick

-----------------------------------------------------------------------------
LEMMA ExamInitial == SessionInit => ExamInv
<1> SUFFICES ASSUME SessionInit PROVE ExamInv
  OBVIOUS
<1>1. Sound(NoExam, 0)
  BY NoExamSound
<1>2. SessionTypeOK /\ OneClock /\ ClockAhead
  BY <1>1 DEF SessionInit, SessionTypeOK, OneClock, ClockAhead, Sound
<1>3. QED
  BY <1>1, <1>2 DEF SessionInit, Init, ExamInv

LEMMA ExamStep == ExamInv /\ [SessionNext]_sessionVars => ExamInv'
<1> SUFFICES ASSUME ExamInv, [SessionNext]_sessionVars
             PROVE  ExamInv'
  OBVIOUS
<1>1. CASE UNCHANGED sessionVars
  BY <1>1 DEF sessionVars, vars, page, ExamInv, SessionTypeOK, OneClock, ClockAhead
<1>2. QED
  BY <1>1, BuildStep, OpenStep, AdvanceStep, TabStep, NewExamStep, LeaveStep, MarkStep,
     TimeStep, TickStep DEF SessionNext

THEOREM ExamInvariant == SessionSpec => []ExamInv
BY ExamInitial, ExamStep, PTL DEF SessionSpec

\* The page's variables keep their types; the clock never runs below zero.
THEOREM ExamTypeCorrect == SessionSpec => []SessionTypeOK
<1>1. ExamInv => SessionTypeOK
  BY DEF ExamInv
<1>2. QED
  BY <1>1, ExamInvariant, PTL

\* startExamClock and setMode together: one clock, which can be stopped.
THEOREM ExamOneClock == SessionSpec => []OneClock
<1>1. ExamInv => OneClock
  BY DEF ExamInv
<1>2. QED
  BY <1>1, ExamInvariant, PTL

\* No way of moving through an exam gains time.
THEOREM ExamClockCoversTime == SessionSpec => []ClockCoversTime
<1>1. ExamInv => ClockCoversTime
  BY DEF ExamInv, Sound, ClockCoversTime, Charged
<1>2. QED
  BY <1>1, ExamInvariant, PTL

\* Answers follow the questions, and only a clock at zero leaves some open.
THEOREM ExamSettledInOrder == SessionSpec => []SettledInOrder
<1>1. ExamInv => SettledInOrder
  BY DEF ExamInv, Sound, SettledInOrder
<1>2. QED
  BY <1>1, ExamInvariant, PTL

-----------------------------------------------------------------------------
(* Sums.  A recursion over sets is proved about as a count: the sum of f   *)
(* is the number of cells below its graph.                                 *)

\* Induction over the subsets of a finite set.
LEMMA SubsetInduction ==
  ASSUME NEW D, IsFiniteSet(D), NEW T, {} \in T,
         \A s \in SUBSET D : s # {} /\ (\A x \in s : s \ {x} \in T) => s \in T
  PROVE  SUBSET D \subseteq T
<1> DEFINE Missing == {s \in FiniteSubsetsOf(D) : s \notin T}
<1>1. SUBSET D = FiniteSubsetsOf(D)
  BY FS_Subset DEF FiniteSubsetsOf
<1>2. SUFFICES ASSUME Missing # {} PROVE FALSE
  BY <1>1
<1>3. PICK s \in Missing : \A t \in Missing : <<t, s>> \notin StrictSubsetOrdering(D)
  BY <1>2, FS_StrictSubsetOrderingWellFounded, WFMin
<1>4. s \in SUBSET D /\ s \notin T
  BY <1>1
<1>5. ASSUME NEW x \in s, s \ {x} \notin T PROVE FALSE
  <2>1. s \ {x} \in Missing
    BY <1>1, <1>4, <1>5
  <2>2. <<s \ {x}, s>> \in StrictSubsetOrdering(D)
    BY <1>4, <1>5 DEF StrictSubsetOrdering
  <2>3. QED
    BY <1>3, <2>1, <2>2
<1>6. QED
  BY <1>4, <1>5

\* The cells under the graph of f over s: f[i] of them for each i.
Cells(f, s) == {c \in s \X (Nat \ {0}) : c[2] <= f[c[1]]}

\* Those of one index.
UpTo(m) == 1..m
Column(f, i) == {i} \X UpTo(f[i])

\* The cells of one index are as many as its value, and no other's.
LEMMA CellsByColumn ==
  ASSUME NEW D, NEW f \in [D -> Nat], NEW s \in SUBSET D, NEW i \in s
  PROVE  /\ Cells(f, s) = Cells(f, s \ {i}) \cup Column(f, i)
         /\ Cells(f, s \ {i}) \cap Column(f, i) = {}
         /\ IsFiniteSet(Column(f, i)) /\ Cardinality(Column(f, i)) = f[i]
<1>1. f[i] \in Nat
  OBVIOUS
<1>2. IsFiniteSet({i}) /\ Cardinality({i}) = 1
  BY FS_Singleton
<1>3. IsFiniteSet(1..f[i]) /\ Cardinality(1..f[i]) = f[i]
  BY <1>1, FS_Interval, SMTT(30)
<1>4. IsFiniteSet(Column(f, i)) /\ Cardinality(Column(f, i)) = f[i]
  <2>1. IsFiniteSet(UpTo(f[i])) /\ Cardinality(UpTo(f[i])) = f[i]
    BY <1>3 DEF UpTo
  <2>2. IsFiniteSet(Column(f, i)) /\ Cardinality(Column(f, i)) = Cardinality({i}) * Cardinality(UpTo(f[i]))
    BY <1>2, <2>1, FS_Product DEF Column
  <2>3. QED
    BY <1>1, <1>2, <2>1, <2>2
<1>5. ASSUME NEW c
      PROVE  c \in Cells(f, s) <=> c \in Cells(f, s \ {i}) \cup Column(f, i)
  <2>1. ASSUME c \in Cells(f, s)
        PROVE  c \in Cells(f, s \ {i}) \cup Column(f, i)
    <3>1. c = <<c[1], c[2]>> /\ c[1] \in s /\ c[2] \in Nat \ {0} /\ c[2] <= f[c[1]]
      BY <2>1 DEF Cells
    <3>2. CASE c[1] = i
      <4>1. c[2] \in 1..f[i]
        BY <1>1, <3>1, <3>2
      <4>2. c \in {i} \X UpTo(f[i])
        BY <3>1, <3>2, <4>1 DEF UpTo
      <4>3. QED
        BY <4>2 DEF Column
    <3>3. CASE c[1] # i
      <4>1. c \in (s \ {i}) \X (Nat \ {0})
        BY <3>1, <3>3
      <4>2. QED
        BY <3>1, <4>1 DEF Cells
    <3>4. QED
      BY <3>2, <3>3
  <2>2. ASSUME c \in Column(f, i)
        PROVE  c \in Cells(f, s)
    <3>1. c = <<c[1], c[2]>> /\ c[1] = i /\ c[2] \in 1..f[i]
      <4>1. c \in {i} \X UpTo(f[i])
        BY <2>2 DEF Column
      <4>2. c = <<c[1], c[2]>> /\ c[1] = i /\ c[2] \in UpTo(f[i])
        BY <4>1
      <4>3. QED
        BY <4>2 DEF UpTo
    <3>2. c[2] \in Nat \ {0} /\ c[2] <= f[i]
      BY <1>1, <3>1
    <3>3. c \in s \X (Nat \ {0}) /\ c[2] <= f[c[1]]
      BY <3>1, <3>2
    <3>4. QED
      BY <3>3 DEF Cells
  <2>3. Cells(f, s \ {i}) \subseteq Cells(f, s)
    BY DEF Cells
  <2>4. QED
    BY <2>1, <2>2, <2>3
<1>6. Cells(f, s \ {i}) \cap Column(f, i) = {}
  <2>1. \A c \in Cells(f, s \ {i}) : c[1] # i
    BY DEF Cells
  <2>2. \A c \in {i} \X UpTo(f[i]) : c[1] = i
    OBVIOUS
  <2>3. QED
    BY <2>1, <2>2 DEF Column
<1>7. Cells(f, s) = Cells(f, s \ {i}) \cup Column(f, i)
  BY <1>5
<1>8. QED
  BY <1>4, <1>6, <1>7

\* A finite set of indices has finitely many cells.
LEMMA CellsFinite ==
  ASSUME NEW D, IsFiniteSet(D), NEW f \in [D -> Nat], NEW s \in SUBSET D
  PROVE  IsFiniteSet(Cells(f, s)) /\ Cardinality(Cells(f, s)) \in Nat
<1> DEFINE T == {t \in SUBSET D : IsFiniteSet(Cells(f, t))}
<1>1. {} \in T
  BY FS_EmptySet DEF Cells
<1>2. ASSUME NEW t \in SUBSET D, t # {}, \A x \in t : t \ {x} \in T
      PROVE  t \in T
  <2>1. PICK x \in t : TRUE
    BY <1>2
  <2>2. IsFiniteSet(Cells(f, t \ {x}))
    BY <1>2
  <2>3. Cells(f, t) = Cells(f, t \ {x}) \cup Column(f, x) /\ IsFiniteSet(Column(f, x))
    BY CellsByColumn
  <2>4. IsFiniteSet(Cells(f, t \ {x}) \cup Column(f, x))
    BY <2>2, <2>3, FS_Union
  <2>5. IsFiniteSet(Cells(f, t))
    BY <2>3, <2>4
  <2>6. QED
    BY <1>2, <2>5
<1> HIDE DEF T
<1>3. SUBSET D \subseteq T
  BY <1>1, <1>2, SubsetInduction
<1>4. QED
  BY <1>3, FS_CardinalityType DEF T

\* What the fold of Sum chooses: a function of the sets of indices.
IsSum(g, f) ==
  g = [s \in SUBSET (DOMAIN f) |->
         IF s = {} THEN 0 ELSE LET x == CHOOSE x \in s : TRUE IN f[x] + g[s \ {x}]]

\* They add up in whatever order the indices are taken.
LEMMA SumOfCells ==
  ASSUME NEW D, IsFiniteSet(D), NEW f \in [D -> Nat], NEW s \in SUBSET D, s # {}, NEW i \in s
  PROVE  Cardinality(Cells(f, s)) = f[i] + Cardinality(Cells(f, s \ {i}))
<1>1. IsFiniteSet(Cells(f, s \ {i})) /\ Cardinality(Cells(f, s \ {i})) \in Nat
  BY CellsFinite
<1> DEFINE A == Cells(f, s \ {i})
           B == Column(f, i)
<1>2. IsFiniteSet(A) /\ IsFiniteSet(B) /\ Cells(f, s) = A \cup B /\ A \cap B = {} /\ Cardinality(B) = f[i]
      /\ Cardinality(A) \in Nat /\ f[i] \in Nat
  <2>1. f[i] \in Nat
    OBVIOUS
  <2>2. Cells(f, s) = A \cup B /\ A \cap B = {} /\ IsFiniteSet(B) /\ Cardinality(B) = f[i]
    BY CellsByColumn
  <2> HIDE DEF A, B
  <2>3. IsFiniteSet(A) /\ Cardinality(A) \in Nat
    BY <1>1 DEF A
  <2>4. QED
    BY <2>1, <2>2, <2>3
<1> HIDE DEF A, B
<1>3. Cardinality(A \cup B) = Cardinality(A) + Cardinality(B) - Cardinality(A \cap B)
  BY <1>2, FS_Union
<1>4. Cardinality(A \cap B) = 0
  BY <1>2, FS_EmptySet
<1>5. QED
  BY <1>2, <1>3, <1>4 DEF A

\* A sum is the number of cells, so it is a number.
LEMMA SumIsCells ==
  ASSUME NEW D, IsFiniteSet(D), NEW f \in [D -> Nat]
  PROVE  Sum(f) = Cardinality(Cells(f, D)) /\ Sum(f) \in Nat
<1> DEFINE h == [s \in SUBSET D |-> Cardinality(Cells(f, s))]
<1>0. Cardinality(Cells(f, {})) = 0
  BY FS_EmptySet DEF Cells
<1>1. IsSum(h, f)
  <2>1. ASSUME NEW s \in SUBSET D
        PROVE  h[s] = IF s = {} THEN 0 ELSE LET x == CHOOSE x \in s : TRUE IN f[x] + h[s \ {x}]
    <3>1. CASE s = {}
      BY <1>0, <3>1
    <3>2. CASE s # {}
      <4> DEFINE x == CHOOSE x \in s : TRUE
      <4>1. x \in s
        BY <3>2
      <4> HIDE DEF x
      <4>2. h[s] = f[x] + h[s \ {x}]
        BY <3>2, <4>1, SumOfCells
      <4>3. QED
        BY <3>2, <4>2 DEF x
    <3>3. QED
      BY <3>1, <3>2
  <2>2. DOMAIN f = D
    OBVIOUS
  <2>3. QED
    BY <2>1, <2>2 DEF IsSum
<1> HIDE DEF h
<1> DEFINE g == CHOOSE x : IsSum(x, f)
<1>2. Sum(f) = g[D]
  BY DEF Sum, FoldFunction, FoldFunctionOnSet, MapThenFoldSet, IsSum
<1>3. IsSum(g, f)
  BY <1>1
<1> HIDE DEF g
<1> DEFINE T == {s \in SUBSET D : g[s] = Cardinality(Cells(f, s))}
<1>4. {} \in T
  <2>1. g[{}] = 0
    BY <1>3 DEF IsSum
  <2>2. QED
    BY <1>0, <2>1
<1>5. ASSUME NEW s \in SUBSET D, s # {}, \A x \in s : s \ {x} \in T
      PROVE  s \in T
  <2> DEFINE x == CHOOSE x \in s : TRUE
  <2>1. x \in s
    BY <1>5
  <2>2. g[s] = f[x] + g[s \ {x}]
    BY <1>3, <1>5 DEF IsSum
  <2> HIDE DEF x
  <2>3. g[s \ {x}] = Cardinality(Cells(f, s \ {x}))
    BY <1>5, <2>1
  <2>4. QED
    BY <1>5, <2>1, <2>2, <2>3, SumOfCells
<1> HIDE DEF T
<1>6. SUBSET D \subseteq T
  BY <1>4, <1>5, SubsetInduction
<1>7. QED
  BY <1>2, <1>6, CellsFinite DEF T

-----------------------------------------------------------------------------
(* What sums do.                                                           *)

\* The sum over nothing, as before the first exam.
LEMMA SumOfNone ==
  ASSUME NEW f \in [{} -> Nat]
  PROVE  Sum(f) = 0
<1>1. Cells(f, {}) = {}
  BY DEF Cells
<1>2. QED
  BY <1>1, SumIsCells, FS_EmptySet

\* Larger values have a larger sum.
LEMMA SumGrows ==
  ASSUME NEW D, IsFiniteSet(D), NEW f \in [D -> Nat], NEW g \in [D -> Nat],
         \A i \in D : f[i] <= g[i]
  PROVE  Sum(f) <= Sum(g)
<1>1. Cells(f, D) \subseteq Cells(g, D)
  BY DEF Cells
<1>2. QED
  BY <1>1, SumIsCells, CellsFinite, FS_Subset

\* One more for one of them.
OneMore(f, i) == [f EXCEPT ![i] = f[i] + 1]

LEMMA SumOfOneMore ==
  ASSUME NEW D, IsFiniteSet(D), NEW f \in [D -> Nat], NEW i \in D
  PROVE  Sum(OneMore(f, i)) = Sum(f) + 1
<1> DEFINE g == OneMore(f, i)
           top == <<i, f[i] + 1>>
<1>1. /\ g \in [D -> Nat] /\ g[i] = f[i] + 1 /\ f[i] \in Nat
      /\ \A j \in D : j # i => g[j] = f[j]
  BY DEF OneMore
<1> HIDE DEF g
<1>2. top \notin Cells(f, D)
  BY <1>1 DEF Cells
<1>3. Cells(f, D) \cup {top} \subseteq Cells(g, D)
  BY <1>1 DEF Cells
<1>4. ASSUME NEW c \in Cells(g, D), c \notin Cells(f, D)
      PROVE  c = top
  <2>1. c = <<c[1], c[2]>> /\ c[1] \in D /\ c[2] \in Nat \ {0} /\ c[2] <= g[c[1]]
    BY <1>4 DEF Cells
  <2>2. ~(c[2] <= f[c[1]])
    BY <1>4 DEF Cells
  <2>3. c[1] = i /\ c[2] = f[i] + 1
    BY <1>1, <2>1, <2>2
  <2>4. QED
    BY <2>1, <2>3
<1>5. Cells(g, D) = Cells(f, D) \cup {top}
  BY <1>3, <1>4
<1> HIDE DEF top
<1>6. Cardinality(Cells(g, D)) = Cardinality(Cells(f, D)) + 1
  BY <1>1, <1>2, <1>5, CellsFinite, FS_AddElement
<1>7. Sum(g) = Sum(f) + 1
  BY <1>1, <1>6, SumIsCells
<1>8. QED
  BY <1>7 DEF g

\* As many as there are, when each is one.
LEMMA SumOfOnes ==
  ASSUME NEW k \in Nat, NEW f \in [1..k -> Nat], \A i \in 1..k : f[i] = 1
  PROVE  Sum(f) = k
<1>1. IsFiniteSet(1..k) /\ Cardinality(1..k) = k
  BY FS_Interval
<1> DEFINE S == 1..k
           h == [i \in S |-> <<i, 1>>]
<1>2. ASSUME NEW i \in S
      PROVE  <<i, 1>> \in Cells(f, S)
  BY DEF Cells
<1>3. ASSUME NEW c \in Cells(f, S)
      PROVE  \E i \in S : c = <<i, 1>>
  <2>1. c = <<c[1], c[2]>> /\ c[1] \in S /\ c[2] \in Nat \ {0} /\ c[2] <= f[c[1]]
    BY DEF Cells
  <2>2. c[2] = 1
    BY <2>1
  <2>3. QED
    BY <2>1, <2>2
<1> HIDE DEF S
<1>4. h \in Bijection(S, Cells(f, S))
  BY <1>2, <1>3 DEF Bijection, Injection, Surjection, IsInjective
<1>5. Cardinality(Cells(f, S)) = k
  BY <1>1, <1>4, FS_Bijection DEF S, ExistsBijection
<1>6. QED
  BY <1>1, <1>5, SumIsCells DEF S

\* No value exceeds the sum.
LEMMA SumBounds ==
  ASSUME NEW D, IsFiniteSet(D), NEW f \in [D -> Nat], NEW i \in D
  PROVE  f[i] <= Sum(f)
<1>1. Column(f, i) \subseteq Cells(f, D)
  <2>1. D \in SUBSET D
    OBVIOUS
  <2>2. Cells(f, D) = Cells(f, D \ {i}) \cup Column(f, i)
    BY <2>1, CellsByColumn
  <2>3. QED
    BY <2>2
<1>2. f[i] \in Nat /\ Cardinality(Column(f, i)) = f[i]
  BY CellsByColumn
<1>3. Cardinality(Column(f, i)) <= Cardinality(Cells(f, D))
  BY <1>1, CellsFinite, FS_Subset
<1>4. QED
  BY <1>2, <1>3, SumIsCells

-----------------------------------------------------------------------------
(* The first topic with the most.                                          *)

\* A set of naturals has a least element.
LEMMA LeastNumber ==
  ASSUME NEW S \in SUBSET Nat, S # {}
  PROVE  \E m \in S : \A x \in S : m <= x
<1>1. PICK m \in S : \A x \in S : <<x, m>> \notin OpToRel(<, Nat)
  BY NatLessThanWellFounded, WFMin
<1>2. \A x \in S : ~(x < m)
  BY <1>1 DEF OpToRel
<1>3. QED
  BY <1>2

\* The scan for the largest value finds it, whatever the values are.
LEMMA FirstHasMost ==
  ASSUME NEW k \in Nat \ {0}, Topics = 1..k, NEW f \in [1..k -> Nat]
  PROVE  First(f) \in Topics /\ \A u \in Topics : f[u] <= f[First(f)]
<1> DEFINE Bounds == {b \in Nat : \A u \in 1..k : f[u] <= b}
<1>1. IsFiniteSet(1..k)
  BY FS_Interval
<1>2. Sum(f) \in Bounds
  BY <1>1, SumIsCells, SumBounds
<1>3. PICK b \in Bounds : \A x \in Bounds : b <= x
  BY <1>2, LeastNumber
<1>4. \E t \in 1..k : f[t] = b
  <2>1. SUFFICES ASSUME \A t \in 1..k : f[t] # b PROVE FALSE
    OBVIOUS
  <2>2. b \in Nat /\ 1 \in 1..k
    BY <1>3
  <2>3. \A t \in 1..k : f[t] <= b - 1
    BY <1>3, <2>1
  <2>4. f[1] \in Nat
    BY <2>2
  <2>5. b - 1 \in Bounds
    BY <2>2, <2>3, <2>4
  <2>6. QED
    BY <1>3, <2>2, <2>5
<1> DEFINE Best == {t \in 1..k : f[t] = b}
<1>5. PICK t \in Best : \A u \in Best : t <= u
  <2>1. Best \in SUBSET Nat /\ Best # {}
    BY <1>4
  <2> HIDE DEF Best
  <2>2. QED
    BY <2>1, LeastNumber
<1>6. t \in Topics /\ (\A u \in Topics : f[u] <= f[t]) /\ \A u \in Topics : f[u] = f[t] => t <= u
  BY <1>3, <1>5
<1>7. QED
  BY <1>6 DEF First

-----------------------------------------------------------------------------
(* Shares.                                                                 *)

\* Dividing and rounding keep the order.
LEMMA DivMonotone ==
  ASSUME NEW a \in Nat, NEW c \in Nat, a <= c, NEW d \in Nat \ {0}
  PROVE  a \div d \in Nat /\ a \div d <= c \div d
<1> DEFINE p == a \div d
           q == c \div d
<1>1. p \in Nat /\ q \in Nat /\ d * p <= a /\ c < d * q + d
  OBVIOUS
<1> HIDE DEF p, q
<1>2. ASSUME p >= q + 1 PROVE FALSE
  <2>1. PICK r \in Nat : p = q + 1 + r
    <3>1. p - q - 1 \in Nat /\ p = q + 1 + (p - q - 1)
      BY <1>1, <1>2
    <3>2. QED
      BY <3>1
  <2>2. d * p = d * q + d + d * r /\ d * r \in Nat /\ d * q \in Nat
    BY <1>1, <2>1
  <2>3. QED
    BY <1>1, <2>2
<1>3. QED
  BY <1>1, <1>2 DEF p, q

LEMMA RoundedMonotone ==
  ASSUME NEW m \in Nat, NEW a \in Nat, NEW c \in Nat, a <= c, NEW d \in Nat \ {0}
  PROVE  /\ Rounded(m * a, d) \in Nat /\ Rounded(m * c, d) \in Nat
         /\ Rounded(m * a, d) <= Rounded(m * c, d)
<1>1. m * a \in Nat /\ m * c \in Nat /\ m * a <= m * c
  <2>1. PICK r \in Nat : c = a + r
    <3>1. c - a \in Nat /\ c = a + (c - a)
      OBVIOUS
    <3>2. QED
      BY <3>1
  <2>2. m * c = m * a + m * r /\ m * r \in Nat
    BY <2>1
  <2>3. QED
    BY <2>2
<1> DEFINE x == 2 * (m * a) + d
           y == 2 * (m * c) + d
           e == 2 * d
<1>2. x \in Nat /\ y \in Nat /\ x <= y /\ e \in Nat \ {0}
  BY <1>1
<1> HIDE DEF x, y, e
<1>3. x \div e \in Nat /\ y \div e \in Nat /\ x \div e <= y \div e
  BY <1>2, DivMonotone
<1>4. QED
  BY <1>3 DEF Rounded, x, y, e

\* The first shares: within the cards, and never less for a heavier topic with
\* no fewer cards.
LEMMA ShareSound ==
  ASSUME NEW k \in Nat \ {0}, NEW w \in [1..k -> Nat \ {0}], NEW c \in [1..k -> Nat \ {0}],
         NEW m \in Nat, NEW s, s = Share(w, c, m)
  PROVE  /\ s \in [1..k -> Nat] /\ \A t \in 1..k : s[t] \in 1..c[t]
         /\ \A t, u \in 1..k : w[t] >= w[u] /\ c[t] >= c[u] => s[t] >= s[u]
<1>1. Sum(w) \in Nat \ {0}
  <2>0. 1 \in 1..k /\ IsFiniteSet(1..k)
    BY FS_Interval
  <2>1. w \in [1..k -> Nat] /\ IsFiniteSet(1..k) /\ 1 \in 1..k /\ w[1] > 0
    BY <2>0
  <2>2. Sum(w) \in Nat /\ w[1] <= Sum(w)
    BY <2>1, SumIsCells, SumBounds
  <2>3. QED
    BY <2>1, <2>2
<1> DEFINE d == Sum(w)
<1> HIDE DEF d
<1>2. ASSUME NEW t \in 1..k
      PROVE  /\ Rounded(m * w[t], d) \in Nat /\ c[t] \in Nat \ {0} /\ w[t] \in Nat \ {0}
             /\ s[t] = Least(c[t], Greatest(1, Rounded(m * w[t], d)))
  <2>1. c[t] \in Nat \ {0} /\ w[t] \in Nat \ {0} /\ d \in Nat \ {0}
    BY <1>1 DEF d
  <2>2. Rounded(m * w[t], d) \in Nat
    BY <2>1, RoundedMonotone
  <2>3. s[t] = Least(c[t], Greatest(1, Rounded(m * w[t], d)))
    BY DEF Share, d
  <2>4. QED
    BY <2>1, <2>2, <2>3
<1>3. ASSUME NEW t \in 1..k
      PROVE  s[t] \in 1..c[t]
  <2> DEFINE r == Rounded(m * w[t], d)
  <2>1. r \in Nat /\ c[t] \in Nat \ {0} /\ s[t] = Least(c[t], Greatest(1, r))
    BY <1>2
  <2> HIDE DEF r
  <2>2. QED
    BY <2>1 DEF Least, Greatest
<1>4. s \in [1..k -> Nat]
  <2>1. s = [t \in 1..k |-> s[t]]
    BY DEF Share
  <2>2. \A t \in 1..k : s[t] \in Nat
    BY <1>2, <1>3, SMTT(30)
  <2>3. QED
    BY <2>1, <2>2
<1>5. ASSUME NEW t \in 1..k, NEW u \in 1..k, w[t] >= w[u], c[t] >= c[u]
      PROVE  s[t] >= s[u]
  <2>1. Rounded(m * w[u], d) <= Rounded(m * w[t], d)
    BY <1>1, <1>2, <1>5, RoundedMonotone DEF d
  <2> DEFINE p == Rounded(m * w[t], d)
             q == Rounded(m * w[u], d)
  <2>2. /\ p \in Nat /\ c[t] \in Nat \ {0} /\ s[t] = Least(c[t], Greatest(1, p))
        /\ q \in Nat /\ c[u] \in Nat \ {0} /\ s[u] = Least(c[u], Greatest(1, q))
        /\ q <= p
    BY <1>2, <2>1
  <2> HIDE DEF p, q
  <2>3. QED
    BY <1>5, <2>2, SMTT(30) DEF Least, Greatest
<1>6. QED
  BY <1>3, <1>4, <1>5

-----------------------------------------------------------------------------
(* The loops of buildExam.                                                 *)

\* What the loops work on: a blueprint, a length that its cards can fill, and
\* the number of questions drawn so far.
Blueprint ==
  /\ weight \in Seq(Nat \ {0}) /\ cap \in [1..Len(weight) -> Nat \ {0}]
  /\ counts \in [1..Len(weight) -> Nat]
  /\ n \in Nat /\ n <= Sum(cap)
  /\ total = Sum(counts)

AllocationInv ==
  /\ Blueprint
  /\ SharesWithinCaps
  /\ HeavierNotShorted
  /\ LengthOrTopics
  /\ ~built => weight # <<>>

LEMMA TopicsAre ==
  ASSUME weight \in Seq(Nat \ {0})
  PROVE  Topics = 1..Len(weight) /\ Len(weight) \in Nat /\ IsFiniteSet(Topics)
         /\ (weight # <<>> => Len(weight) \in Nat \ {0})
<1>1. IsFiniteSet(1..Len(weight)) /\ Len(weight) \in Nat
  BY FS_Interval
<1>2. QED
  BY <1>1 DEF Topics

LEMMA AllocationInitial == Init => AllocationInv
<1> SUFFICES ASSUME Init PROVE AllocationInv
  OBVIOUS
<1>1. weight = <<>> /\ cap = <<>> /\ n = 0 /\ counts = <<>> /\ total = 0 /\ built /\ Len(weight) = 0
  BY DEF Init
<1>2. <<>> \in [{} -> Nat] /\ <<>> \in [{} -> Nat \ {0}] /\ 1..0 = {}
  OBVIOUS
<1>3. Sum(<<>>) = 0
  BY <1>2, SumOfNone
<1>4. Blueprint
  BY <1>1, <1>2, <1>3 DEF Blueprint
<1>5. Topics = {}
  BY <1>1 DEF Topics
<1>6. QED
  BY <1>1, <1>3, <1>4, <1>5 DEF AllocationInv, SharesWithinCaps, HeavierNotShorted, LengthOrTopics, Greatest

LEMMA BeginStep ==
  ASSUME Begin
  PROVE  AllocationInv'
<1>1. PICK k \in 1..MaxTopics :
        \E w \in [1..k -> Weights], c \in [1..k -> Caps], len \in Lengths :
          /\ weight' = w /\ cap' = c /\ n' = Least(len, Sum(c))
          /\ counts' = Share(w, c, n') /\ total' = Sum(counts') /\ built' = FALSE
  BY DEF Begin
<1>2. PICK w \in [1..k -> Weights], c \in [1..k -> Caps], len \in Lengths :
          /\ weight' = w /\ cap' = c /\ n' = Least(len, Sum(c))
          /\ counts' = Share(w, c, n') /\ total' = Sum(counts') /\ built' = FALSE
  BY <1>1
<1>3. k \in Nat \ {0} /\ w \in [1..k -> Nat \ {0}] /\ c \in [1..k -> Nat \ {0}] /\ len \in Nat
      /\ c \in [1..k -> Nat]
  <2>1. k \in Nat \ {0} /\ len \in Nat
    BY ExamAssumption
  <2> DEFINE D == 1..k
  <2>2. w \in [D -> Weights] /\ c \in [D -> Caps]
    OBVIOUS
  <2> HIDE DEF D
  <2>3. w \in [D -> Nat \ {0}] /\ c \in [D -> Nat \ {0}] /\ c \in [D -> Nat]
    BY <2>2, ExamAssumption
  <2>4. QED
    BY <2>1, <2>3 DEF D
<1>4. w \in Seq(Nat \ {0}) /\ Len(w) = k /\ DOMAIN w = 1..k
  BY <1>3
<1>5. Sum(c) \in Nat
  <2>1. IsFiniteSet(1..k)
    BY <1>3, FS_Interval
  <2>2. QED
    BY <1>3, <2>1, SumIsCells
<1>6. n' \in Nat /\ n' <= Sum(c)
  BY <1>2, <1>3, <1>5 DEF Least
<1>7. /\ counts' \in [1..k -> Nat] /\ \A t \in 1..k : counts'[t] \in 1..c[t]
      /\ \A t, u \in 1..k : w[t] >= w[u] /\ c[t] >= c[u] => counts'[t] >= counts'[u]
  BY <1>2, <1>3, <1>6, ShareSound
<1>8. Blueprint'
  BY <1>2, <1>3, <1>4, <1>6, <1>7 DEF Blueprint
<1>9. Topics' = 1..k
  BY <1>2, <1>4 DEF Topics
<1>10. SharesWithinCaps'
  BY <1>2, <1>7, <1>9 DEF SharesWithinCaps
<1>11. HeavierNotShorted'
  <2>1. ASSUME NEW t \in 1..k, NEW u \in 1..k, w[t] >= w[u], c[t] >= c[u]
        PROVE  counts'[t] >= counts'[u] - 1
    <3>1. counts'[t] >= counts'[u] /\ counts'[t] \in Nat /\ counts'[u] \in Nat
      BY <1>7, <2>1
    <3>2. QED
      BY <3>1
  <2>2. QED
    BY <1>2, <1>9, <2>1 DEF HeavierNotShorted
<1>12. w # <<>>
  BY <1>3, <1>4
<1>13. QED
  BY <1>2, <1>8, <1>10, <1>11, <1>12 DEF AllocationInv, LengthOrTopics

\* Trimming takes from a topic that has no less than any other.
LEMMA TrimStep ==
  ASSUME AllocationInv, Trim
  PROVE  AllocationInv'
<1> DEFINE k == Len(weight)
           i == First(counts)
           c == counts[i]
<1>1. /\ UNCHANGED <<weight, cap, n, built>> /\ ~built /\ Blueprint /\ SharesWithinCaps
      /\ counts' = [counts EXCEPT ![i] = @ - 1] /\ total' = total - 1
      /\ \E t \in Topics : counts[t] > 1
  BY DEF Trim, CanTrim, AllocationInv
<1>2. Topics = 1..k /\ k \in Nat \ {0} /\ counts \in [1..k -> Nat] /\ cap \in [1..k -> Nat \ {0}]
      /\ IsFiniteSet(1..k) /\ Topics' = Topics
  BY <1>1, TopicsAre DEF Blueprint, AllocationInv, Topics
<1>3. i \in 1..k /\ \A u \in 1..k : counts[u] <= c
  BY <1>2, FirstHasMost
<1> HIDE DEF k, i
<1>4. c \in Nat /\ c > 1
  BY <1>1, <1>2, <1>3
<1> HIDE DEF c
<1>5. counts' \in [1..k -> Nat] /\ counts'[i] = c - 1
      /\ \A u \in 1..k : u # i => counts'[u] = counts[u]
  BY <1>1, <1>2, <1>3, <1>4, SMTT(30) DEF c
<1>6. Sum(counts) = Sum(counts') + 1 /\ Sum(counts') \in Nat
  <2>1. counts = [counts' EXCEPT ![i] = counts'[i] + 1]
    <3>1. counts[i] = counts'[i] + 1
      BY <1>4, <1>5 DEF c
    <3>2. QED
      BY <1>2, <1>3, <1>5, <3>1
  <2> DEFINE D == 1..k
             f == counts'
  <2>2. /\ IsFiniteSet(D) /\ i \in D /\ counts \in [D -> Nat] /\ f \in [D -> Nat]
        /\ counts = OneMore(f, i)
    BY <1>2, <1>3, <1>5, <2>1 DEF OneMore
  <2> HIDE DEF D, f
  <2>3. Sum(counts) = Sum(f) + 1
    BY <2>2, SumOfOneMore
  <2>4. Sum(f) \in Nat
    BY <2>2, SumIsCells
  <2>5. QED
    BY <2>3, <2>4 DEF f
<1>7. Blueprint'
  BY <1>1, <1>5, <1>6 DEF Blueprint, k
<1>8. SharesWithinCaps'
  <2>1. ASSUME NEW t \in 1..k PROVE counts'[t] \in 1..cap[t]
    <3>1. counts[t] \in 1..cap[t] /\ cap[t] \in Nat
      BY <1>1, <1>2 DEF SharesWithinCaps
    <3>2. CASE t = i
      BY <1>4, <1>5, <3>1, <3>2 DEF c
    <3>3. CASE t # i
      BY <1>5, <3>1, <3>3
    <3>4. QED
      BY <3>2, <3>3
  <2>2. QED
    BY <1>1, <1>2, <2>1 DEF SharesWithinCaps
<1>9. HeavierNotShorted'
  <2>1. ASSUME NEW t \in 1..k, NEW u \in 1..k, weight[t] >= weight[u], cap[t] >= cap[u]
        PROVE  counts'[t] >= counts'[u] - 1
    <3>1. counts[t] >= counts[u] - 1 /\ counts[t] \in Nat /\ counts[u] \in Nat /\ counts[u] <= c
      BY <1>2, <1>3, <2>1 DEF AllocationInv, HeavierNotShorted
    <3>2. CASE t = i
      BY <1>4, <1>5, <3>1, <3>2
    <3>3. CASE t # i
      BY <1>4, <1>5, <3>1, <3>3, SMTT(30) DEF c
    <3>4. QED
      BY <3>2, <3>3
  <2>2. QED
    BY <1>1, <1>2, <2>1 DEF HeavierNotShorted
<1>10. QED
  BY <1>1, <1>7, <1>8, <1>9 DEF AllocationInv, LengthOrTopics

\* Growing gives to a topic that has no less slack than any other.
LEMMA GrowStep ==
  ASSUME AllocationInv, Grow
  PROVE  AllocationInv'
<1> DEFINE k == Len(weight)
           i == First(Slack)
           c == counts[i]
<1>1. /\ UNCHANGED <<weight, cap, n, built>> /\ ~built /\ Blueprint /\ SharesWithinCaps
      /\ counts' = [counts EXCEPT ![i] = @ + 1] /\ total' = total + 1
      /\ \E t \in Topics : Slack[t] > 0
  BY DEF Grow, CanGrow, AllocationInv
<1>2. Topics = 1..k /\ k \in Nat \ {0} /\ counts \in [1..k -> Nat] /\ cap \in [1..k -> Nat \ {0}]
      /\ IsFiniteSet(1..k) /\ Topics' = Topics
  BY <1>1, TopicsAre DEF Blueprint, AllocationInv, Topics
<1>3. /\ Slack \in [1..k -> Nat]
      /\ \A t \in 1..k : Slack[t] = cap[t] - counts[t]
  BY <1>1, <1>2 DEF Slack, SharesWithinCaps
<1>4. i \in 1..k /\ \A u \in 1..k : Slack[u] <= Slack[i]
  BY <1>2, <1>3, FirstHasMost
<1> HIDE DEF k, i
<1>5. c \in Nat /\ cap[i] \in Nat /\ c < cap[i] /\ \A u \in 1..k : cap[u] - counts[u] <= cap[i] - c
  <2>1. Slack[i] > 0 /\ Slack[i] = cap[i] - c
    <3>1. PICK t \in 1..k : Slack[t] > 0
      BY <1>1, <1>2
    <3>2. Slack[t] \in Nat /\ Slack[i] \in Nat /\ Slack[t] <= Slack[i]
      BY <1>3, <1>4
    <3>3. Slack[i] = cap[i] - c
      BY <1>3, <1>4
    <3>4. QED
      BY <3>1, <3>2, <3>3
  <2>2. QED
    BY <1>2, <1>3, <1>4, <2>1, SMTT(30)
<1> HIDE DEF c
<1>6. counts' \in [1..k -> Nat] /\ counts'[i] = c + 1
      /\ \A u \in 1..k : u # i => counts'[u] = counts[u]
  <2> DEFINE v == c + 1
  <2>1. v \in Nat /\ counts' = [counts EXCEPT ![i] = v]
    BY <1>1, <1>5 DEF c
  <2> HIDE DEF v
  <2>2. counts' \in [1..k -> Nat] /\ counts'[i] = v /\ \A u \in 1..k : u # i => counts'[u] = counts[u]
    BY <1>2, <1>4, <2>1
  <2>3. QED
    BY <2>2 DEF v
<1>7. Sum(counts') = Sum(counts) + 1
  <2> DEFINE D == 1..k
             f == counts'
  <2>1. /\ IsFiniteSet(D) /\ i \in D /\ counts \in [D -> Nat] /\ f \in [D -> Nat]
        /\ f = OneMore(counts, i)
    BY <1>1, <1>2, <1>4, <1>6 DEF OneMore
  <2> HIDE DEF D, f
  <2>2. Sum(f) = Sum(counts) + 1
    BY <2>1, SumOfOneMore
  <2>3. QED
    BY <2>2 DEF f
<1>8. Blueprint'
  BY <1>1, <1>6, <1>7 DEF Blueprint, k
<1>9. SharesWithinCaps'
  <2>1. ASSUME NEW t \in 1..k PROVE counts'[t] \in 1..cap[t]
    <3>1. counts[t] \in 1..cap[t] /\ cap[t] \in Nat
      BY <1>1, <1>2 DEF SharesWithinCaps
    <3>2. CASE t = i
      BY <1>5, <1>6, <3>1, <3>2 DEF c
    <3>3. CASE t # i
      BY <1>6, <3>1, <3>3
    <3>4. QED
      BY <3>2, <3>3
  <2>2. QED
    BY <1>1, <1>2, <2>1 DEF SharesWithinCaps
<1>10. HeavierNotShorted'
  <2>1. ASSUME NEW t \in 1..k, NEW u \in 1..k, weight[t] >= weight[u], cap[t] >= cap[u]
        PROVE  counts'[t] >= counts'[u] - 1
    <3>1. /\ counts[t] >= counts[u] - 1 /\ counts[t] \in Nat /\ counts[u] \in Nat
          /\ cap[t] \in Nat /\ cap[u] \in Nat /\ cap[t] - counts[t] <= cap[i] - c
      BY <1>2, <1>5, <2>1 DEF AllocationInv, HeavierNotShorted
    <3>2. CASE u = i
      BY <1>5, <1>6, <2>1, <3>1, <3>2, SMTT(30)
    <3>3. CASE u # i
      BY <1>5, <1>6, <3>1, <3>3, SMTT(30) DEF c
    <3>4. QED
      BY <3>2, <3>3
  <2>2. QED
    BY <1>1, <1>2, <2>1 DEF HeavierNotShorted
<1>11. QED
  BY <1>1, <1>8, <1>9, <1>10 DEF AllocationInv, LengthOrTopics

\* Where neither loop can go on, the length is met.
LEMMA DrawStep ==
  ASSUME AllocationInv, Draw
  PROVE  AllocationInv'
<1> DEFINE k == Len(weight)
           s == Sum(counts)
<1>1. /\ UNCHANGED <<weight, cap, n, counts, total>> /\ built' /\ ~CanTrim /\ ~CanGrow
      /\ Blueprint /\ SharesWithinCaps /\ ~built
  BY DEF Draw, AllocationInv
<1>2. Topics = 1..k /\ k \in Nat \ {0} /\ counts \in [1..k -> Nat] /\ cap \in [1..k -> Nat]
      /\ cap \in [1..k -> Nat \ {0}] /\ IsFiniteSet(1..k) /\ Topics' = Topics
  BY <1>1, TopicsAre DEF Blueprint, AllocationInv, Topics
<1>3. s \in Nat /\ n \in Nat /\ n <= Sum(cap) /\ total = s /\ Sum(cap) \in Nat
  BY <1>1, <1>2, SumIsCells DEF Blueprint
<1>4. \A t \in 1..k : counts[t] \in 1..cap[t]
  BY <1>1, <1>2 DEF SharesWithinCaps
<1> HIDE DEF k
<1>5. s >= n
  <2>1. SUFFICES ASSUME s < n PROVE FALSE
    BY <1>3
  <2>2. \A t \in 1..k : cap[t] <= counts[t]
    <3>1. ASSUME NEW t \in 1..k PROVE cap[t] <= counts[t]
      <4>1. ~(Slack[t] > 0) /\ Slack[t] = cap[t] - counts[t]
        BY <1>1, <1>2, <1>3, <2>1 DEF CanGrow, Slack
      <4>2. cap[t] \in Nat /\ counts[t] \in Nat
        BY <1>2
      <4>3. QED
        BY <4>1, <4>2
    <3>2. QED
      BY <3>1
  <2>3. Sum(cap) <= s
    BY <1>2, <2>2, SumGrows
  <2> HIDE DEF s
  <2>4. QED
    BY <1>3, <2>1, <2>3
<1>6. s >= k
  <2> DEFINE ones == [t \in 1..k |-> 1]
  <2>1. ones \in [1..k -> Nat] /\ \A t \in 1..k : ones[t] = 1
    OBVIOUS
  <2> HIDE DEF ones
  <2>2. Sum(ones) = k
    BY <1>2, <2>1, SumOfOnes
  <2>3. \A t \in 1..k : ones[t] <= counts[t]
    BY <1>2, <1>4, <2>1
  <2>4. Sum(ones) <= s
    BY <1>2, <2>1, <2>3, SumGrows
  <2> HIDE DEF s
  <2>5. QED
    BY <1>2, <1>3, <2>2, <2>4
<1>7. s > n => s = k
  <2>1. SUFFICES ASSUME s > n PROVE s = k
    OBVIOUS
  <2>2. ASSUME NEW t \in 1..k PROVE counts[t] = 1
    <3>1. ~(counts[t] > 1) /\ counts[t] \in Nat /\ counts[t] >= 1
      BY <1>1, <1>2, <1>3, <1>4, <2>1 DEF CanTrim
    <3>2. QED
      BY <3>1
  <2>3. QED
    BY <1>2, <2>2, SumOfOnes
<1> HIDE DEF s
<1>8. s = Greatest(k, n)
  BY <1>2, <1>3, <1>5, <1>6, <1>7 DEF Greatest
<1>9. LengthOrTopics'
  BY <1>1, <1>8 DEF LengthOrTopics, k, s
<1>10. QED
  BY <1>1, <1>9 DEF AllocationInv, Blueprint, SharesWithinCaps, HeavierNotShorted, Topics

LEMMA AllocationStep == AllocationInv /\ [SessionNext]_sessionVars => AllocationInv'
<1> SUFFICES ASSUME AllocationInv, [SessionNext]_sessionVars
             PROVE  AllocationInv'
  OBVIOUS
<1>1. CASE UNCHANGED vars
  BY <1>1 DEF vars, AllocationInv, Blueprint, SharesWithinCaps, HeavierNotShorted, LengthOrTopics, Topics
<1>2. CASE Build
  BY <1>2, BeginStep, TrimStep, GrowStep DEF Build
<1>3. CASE Open
  BY <1>3, DrawStep DEF Open
<1>4. CASE Choose \/ Advance \/ ReviewMisses \/ NewExam \/ Leave \/ ExamTab \/ Time \/ Tick
  BY <1>1, <1>4 DEF Choose, Advance, ReviewMisses, NewExam, Leave, ExamTab, Time, Tick
<1>5. QED
  BY <1>1, <1>2, <1>3, <1>4 DEF SessionNext, sessionVars

\* What holds of the allocation through every exam taken.
THEOREM AllocationInvariant == SessionSpec => []AllocationInv
<1>1. SessionInit => AllocationInv
  BY AllocationInitial DEF SessionInit
<1>2. QED
  BY <1>1, AllocationStep, PTL DEF SessionSpec

\* buildExam "never over-draws a thin topic" and leaves none out.
THEOREM ExamSharesWithinCaps == SessionSpec => []SharesWithinCaps
<1>1. AllocationInv => SharesWithinCaps
  BY DEF AllocationInv
<1>2. QED
  BY <1>1, AllocationInvariant, PTL

\* The loops of buildExam settle on the length asked for where the topics fit in
\* it, and on one question per topic where they do not.
THEOREM ExamLengthOrTopics == SessionSpec => []LengthOrTopics
<1>1. AllocationInv => LengthOrTopics
  BY DEF AllocationInv
<1>2. QED
  BY <1>1, AllocationInvariant, PTL

\* Rounding, trimming and growing never favour a lighter topic by more than one.
THEOREM ExamHeavierNotShorted == SessionSpec => []HeavierNotShorted
<1>1. AllocationInv => HeavierNotShorted
  BY DEF AllocationInv
<1>2. QED
  BY <1>1, AllocationInvariant, PTL
=============================================================================
