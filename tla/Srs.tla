-------------------------------- MODULE Srs --------------------------------
(***************************************************************************)
(* The spaced-repetition rule of the engine: what one grade does to one    *)
(* card's entry in the store (srsGrade), and which cards are due or new.   *)
(* Time is counted in a unit of which a tenth of a day is Tenth units and  *)
(* the minute a missed card is put off by is AgainDelay units.             *)
(* A card without an entry in the store is represented by Missing, the     *)
(* default the code takes for it; an entry in the store has reps > 0.      *)
(***************************************************************************)
EXTENDS Integers

CONSTANTS
  NumCards,                 \* CARDS is the array 1..NumCards
  Tenth,                    \* SRS_DAY / 10
  AgainDelay                \* the 60000 ms a missed card is put off by

ASSUME SrsAssumption ==
  /\ NumCards \in Nat \ {0}
  /\ Tenth \in Nat
  /\ AgainDelay \in 1..Tenth

Cards == 1..NumCards

MaxBox == 6
BoxDays == [b \in 0..MaxBox |-> <<0, 1, 3, 7, 16, 35, 90>>[b + 1]]

Qualities == {"again", "hard", "good", "easy"}

Entry == [box: 0..MaxBox, due: Nat, reps: Nat, lapses: Nat, last: Nat]
Missing == [box |-> 0, due |-> 0, reps |-> 0, lapses |-> 0, last |-> 0]

Seen(e) == e.reps > 0

Least(a, b) == IF a <= b THEN a ELSE b
Greatest(a, b) == IF a <= b THEN b ELSE a

\* A slip the runs must catch: "hard" keeps a card in box 0.
NextBoxHardStays(b, q) ==
  CASE q = "again" -> 0
    [] q = "hard"  -> b
    [] q = "good"  -> Least(MaxBox, b + 1)
    [] q = "easy"  -> Least(MaxBox, b + 2)

NextBox(b, q) ==
  CASE q = "again" -> 0
    [] q = "hard"  -> Greatest(1, b)
    [] q = "good"  -> Least(MaxBox, b + 1)
    [] q = "easy"  -> Least(MaxBox, b + 2)

\* Time until a card graded q and now in box b is due: 60% of the box's days
\* for "hard", 130% for "easy".
Delay(b, q) ==
  CASE q = "again" -> AgainDelay
    [] q = "hard"  -> BoxDays[b] * 6 * Tenth
    [] q = "good"  -> BoxDays[b] * 10 * Tenth
    [] q = "easy"  -> BoxDays[b] * 13 * Tenth

Graded(e, q, now) ==
  LET b == NextBox(e.box, q) IN
  [box    |-> b,
   due    |-> now + Delay(b, q),
   reps   |-> e.reps + 1,
   lapses |-> IF q = "again" THEN e.lapses + 1 ELSE e.lapses,
   last   |-> now]

DueCards(srs, now) == {c \in Cards : Seen(srs[c]) /\ srs[c].due <= now}
NewCards(srs) == {c \in Cards : ~Seen(srs[c])}

(***************************************************************************)
(* What every entry the rule ever wrote satisfies: a card in box 0 is one  *)
(* whose last grade was a miss and is due again a minute later; any other  *)
(* card is put off by at least 60% of a day and at most 130% of the last   *)
(* box's days; and mastery is earned: two boxes at most per grade that was *)
(* not a miss.                                                             *)
(***************************************************************************)
EntrySound(e) ==
  /\ e.box = 0 <=> e.due = e.last + AgainDelay
  /\ e.box > 0 => e.due - e.last \in 6 * Tenth .. BoxDays[MaxBox] * 13 * Tenth
  /\ e.lapses <= e.reps
  /\ e.box <= 2 * (e.reps - e.lapses)
=============================================================================
