-------------------------- MODULE MCReviewSession --------------------------
(* Instances of ReviewSession for TLC. *)
EXTENDS ReviewSession

\* A stored entry in box b that was last graded at time t.
Stored(b, t) ==
  [box |-> b, due |-> t + (IF b = 0 THEN AgainDelay ELSE BoxDays[b] * 10 * Tenth),
   reps |-> 1, lapses |-> IF b = 0 THEN 1 ELSE 0, last |-> t]

\* One card missed long ago and two new ones to draw from; two cards due
\* together and one that becomes due in the second half.
Schedules ==
  {<<Missing, Stored(0, 0), Missing>>,
   <<Stored(1, 1), Stored(1, 5), Stored(1, 1)>>}
JumpOnce == {10}
=============================================================================
