---------------------------- MODULE ExamSession ----------------------------
(***************************************************************************)
(* Taking an exam: the questions built by ExamAllocation, answered one by  *)
(* one or skipped, under a clock that is restarted by every rendering of a *)
(* question.  The exam outlives the mode: another tab stops the clock and  *)
(* coming back draws the question again.                                   *)
(***************************************************************************)
EXTENDS ExamAllocation, FiniteSets

CONSTANTS
  PerQuestion,              \* 78, seconds a timed exam grants per question
  MaxQuestions              \* bound: longer exams are not followed

ASSUME SessionAssumption == PerQuestion \in Nat \ {0} /\ MaxQuestions \in Nat

VARIABLES
  mode,                     \* "exam", or "other" for any other mode
  view,                     \* what #view shows
  exam,                     \* examState; NoExam is null
  chosen,                   \* the choice marked in this rendering
  clocks,                   \* intervals that run, and their age
  examTimer,                \* the one examTimer names
  elapsed                   \* history: time a timed question was on screen,
                            \* counted to just past what the exam grants

page == <<mode, view, exam, chosen, clocks, examTimer, elapsed>>
sessionVars == <<vars, page>>

\* Time runs in half seconds; an interval is due when its age is Second.
Second == 2

Choices == {"right", "wrong"}
NoExam == [len |-> 0, pos |-> 0, answers |-> <<>>, timed |-> FALSE, remaining |-> 0]
On == exam # NoExam
Granted(e) == PerQuestion * e.len

-----------------------------------------------------------------------------
(* renderExam, with the exam as it stands in e and the intervals cs.       *)

Cleared(cs) == {c \in cs : c.id # examTimer}

DrawLanding ==
  /\ exam' = NoExam /\ view' = "landing" /\ chosen' = "none"
  /\ UNCHANGED <<clocks, examTimer>>

\* renderExamResults
DrawResults(e, cs) ==
  /\ exam' = e /\ view' = "results" /\ chosen' = "none"
  /\ clocks' = Cleared(cs) /\ UNCHANGED examTimer

\* setInterval returns an id that is not in use.
SetInterval(cs) ==
  LET id == CHOOSE i \in 1..3 : (\A c \in cs : c.id # i) /\ \A j \in 1 .. i - 1 : \E c \in cs : c.id = j
  IN  clocks' = cs \cup {[id |-> id, age |-> 0]} /\ examTimer' = id

\* Slips: the old interval is left running; the first tick comes a second
\* later.
StartExamClockAnother(e) ==
  \/ ~e.timed /\ exam' = e /\ view' = "question" /\ UNCHANGED <<clocks, examTimer>>
  \/ /\ e.timed
     /\ IF e.remaining <= 0
        THEN exam' = [e EXCEPT !.pos = e.len] /\ view' = "results"
        ELSE exam' = [e EXCEPT !.remaining = @ - 1] /\ view' = "question"
     /\ SetInterval(clocks)
StartExamClockLater(e) ==
  /\ exam' = e /\ view' = "question"
  /\ \/ ~e.timed /\ clocks' = Cleared(clocks) /\ UNCHANGED examTimer
     \/ e.timed /\ SetInterval(Cleared(clocks))

\* startExamClock: it ticks at once, and sets the interval even if that tick
\* ended the exam.
StartExamClock(e) ==
  \/ /\ ~e.timed
     /\ exam' = e /\ view' = "question"
     /\ clocks' = Cleared(clocks) /\ UNCHANGED examTimer
  \/ /\ e.timed
     /\ IF e.remaining <= 0
        THEN exam' = [e EXCEPT !.pos = e.len] /\ view' = "results"
        ELSE exam' = [e EXCEPT !.remaining = @ - 1] /\ view' = "question"
     /\ SetInterval(Cleared(clocks))

RenderExam(e) ==
  \/ e = NoExam /\ DrawLanding
  \/ e # NoExam /\ e.pos >= e.len /\ DrawResults(e, clocks)
  \/ e # NoExam /\ e.pos < e.len /\ StartExamClock(e) /\ chosen' = "none"

-----------------------------------------------------------------------------
SessionInit ==
  /\ Init
  /\ mode = "exam" /\ view = "landing" /\ exam = NoExam /\ chosen = "none"
  /\ clocks = {} /\ examTimer = 0 /\ elapsed = 0

\* #startExam is one handler: buildExam runs to its end before anything else.
Idle == built
Build ==
  /\ UNCHANGED page
  /\ \/ Idle /\ mode = "exam" /\ view = "landing" /\ Begin
     \/ Trim \/ Grow

\* Its end: the exam is on.
Open ==
  /\ Draw
  /\ \/ /\ total \in 1..MaxQuestions
        /\ \E timed \in BOOLEAN :
             StartExamClock([len |-> total, pos |-> 0, answers |-> [i \in 1..total |-> "open"],
                             timed |-> timed, remaining |-> PerQuestion * total])
        /\ chosen' = "none" /\ elapsed' = 0 /\ UNCHANGED mode
     \/ total \notin 1..MaxQuestions /\ UNCHANGED page

\* A choice is marked, or another instead.
Choose ==
  /\ Idle /\ view = "question"
  /\ chosen' \in Choices
  /\ UNCHANGED <<vars, mode, view, exam, clocks, examTimer, elapsed>>

\* A slip: the position moves before the answer is stored.
AnsweredAfterMove(e, a) ==
  [e EXCEPT !.pos = @ + 1, !.answers = [i \in 1..e.len |-> IF i = e.pos + 2 THEN a ELSE e.answers[i]]]

Answered(e, a) == [e EXCEPT !.answers = [@ EXCEPT ![e.pos + 1] = a], !.pos = @ + 1]

\* #examNext and #examSkip.  Skip keeps a choice that is marked.
Advance ==
  /\ Idle /\ view = "question"
  /\ \/ chosen # "none" /\ RenderExam(Answered(exam, chosen))
     \/ chosen = "none" /\ RenderExam(Answered(exam, "skipped"))
  /\ UNCHANGED <<vars, mode, elapsed>>

\* #examReview lists the misses below the results.
ReviewMisses ==
  /\ Idle /\ view = "results"
  /\ view' = "misses"
  /\ UNCHANGED <<vars, mode, exam, chosen, clocks, examTimer, elapsed>>

\* #examAgain
NewExam ==
  /\ Idle /\ view \in {"results", "misses"}
  /\ DrawLanding
  /\ elapsed' = 0 /\ UNCHANGED <<vars, mode>>

\* setMode to another mode.
Leave ==
  /\ Idle
  /\ mode' = "other" /\ view' = "other"
  /\ clocks' = Cleared(clocks)
  /\ UNCHANGED <<vars, exam, chosen, examTimer, elapsed>>

\* The Exam tab, from another mode or from the exam itself.
ExamTab ==
  /\ Idle
  /\ mode' = "exam" /\ RenderExam(exam)
  /\ UNCHANGED <<vars, elapsed>>

-----------------------------------------------------------------------------
(* The clock.                                                              *)

Due == {c \in clocks : c.age = Second}
Rested == {IF c.age = Second THEN [c EXCEPT !.age = 0] ELSE c : c \in clocks}

Time ==
  /\ Idle /\ clocks # {} /\ Due = {}
  /\ clocks' = {[c EXCEPT !.age = @ + 1] : c \in clocks}
  /\ elapsed' = IF view = "question" THEN Least(elapsed + 1, Second * Granted(exam) + 1) ELSE elapsed
  /\ UNCHANGED <<vars, mode, view, exam, chosen, examTimer>>

\* A slip: the question is drawn again instead of the results.
TickRedraws ==
  /\ Idle /\ Due # {}
  /\ \/ /\ ~On \/ mode # "exam"
        /\ clocks' = Cleared(Rested) /\ UNCHANGED <<view, exam, chosen, examTimer>>
     \/ /\ On /\ mode = "exam" /\ exam.remaining <= 0
        /\ clocks' = Rested /\ view' = view
        /\ UNCHANGED <<exam, chosen, examTimer>>
     \/ /\ On /\ mode = "exam" /\ exam.remaining > 0
        /\ exam' = [exam EXCEPT !.remaining = @ - 1]
        /\ clocks' = Rested /\ UNCHANGED <<view, chosen, examTimer>>
  /\ UNCHANGED <<vars, mode, elapsed>>

\* tick, called by an interval: it stops itself where there is no exam to time
\* and ends an exam without time.
Tick ==
  /\ Idle /\ Due # {}
  /\ \/ /\ ~On \/ mode # "exam"
        /\ clocks' = Cleared(Rested) /\ UNCHANGED <<view, exam, chosen, examTimer>>
     \/ /\ On /\ mode = "exam" /\ exam.remaining <= 0
        /\ DrawResults([exam EXCEPT !.pos = exam.len], Rested)
     \/ /\ On /\ mode = "exam" /\ exam.remaining > 0
        /\ exam' = [exam EXCEPT !.remaining = @ - 1]
        /\ clocks' = Rested /\ UNCHANGED <<view, chosen, examTimer>>
  /\ UNCHANGED <<vars, mode, elapsed>>

SessionNext ==
  \/ Build \/ Open
  \/ Choose \/ Advance \/ ReviewMisses \/ NewExam
  \/ Leave \/ ExamTab
  \/ Time \/ Tick

SessionSpec == SessionInit /\ [][SessionNext]_sessionVars

\* Time passes and intervals fire.
SessionFairSpec == SessionSpec /\ WF_sessionVars(Time) /\ WF_sessionVars(Tick)

-----------------------------------------------------------------------------
ExamOK(e) ==
  /\ e \in [len: Nat, pos: Nat, answers: Seq(Choices \cup {"open", "skipped"}),
            timed: BOOLEAN, remaining: Nat]
  /\ e.pos <= e.len /\ Len(e.answers) = e.len /\ e.remaining <= Granted(e)

SessionTypeOK ==
  /\ mode \in {"exam", "other"}
  /\ view \in {"landing", "question", "results", "misses", "other"}
  /\ ExamOK(exam)
  /\ chosen \in Choices \cup {"none"}
  /\ clocks \subseteq [id: 1..3, age: 0..Second]
  /\ examTimer \in 0..3 /\ elapsed \in Nat

\* However often a question is drawn, by moving on or by the tab, one clock
\* runs, examTimer can stop it, and it is stopped outside the exam.
OneClock ==
  /\ \A c, d \in clocks : c = d
  /\ \A c \in clocks : c.id = examTimer /\ mode = "exam"

\* Restarting the clock never grants time: what it has charged covers the time
\* the exam's questions were on screen.
ClockCoversTime ==
  On /\ exam.timed => elapsed <= Second * (Granted(exam) - exam.remaining)

\* The first k questions of an exam are settled, and the others are open.
Settled(e) ==
  \E k \in 0..e.pos :
    /\ \A i \in 1..e.len : e.answers[i] = "open" <=> i > k
    /\ k = e.pos \/ (e.timed /\ e.remaining = 0 /\ e.pos = e.len)

\* Questions are settled in order, each once, and only a clock at zero ends an
\* exam before its last question.
SettledInOrder == Settled(exam)

\* A timed exam whose question stays on screen comes to its end.
TimedExamEnds == (view = "question" /\ exam.timed) ~> view # "question"
=============================================================================
