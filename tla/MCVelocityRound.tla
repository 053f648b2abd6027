-------------------------- MODULE MCVelocityRound --------------------------
(* An instance of VelocityRound for TLC. *)
EXTENDS VelocityRound

\* The order of the queue does not matter here, its length does.
OneOrTwo == {<<1>>, <<1, 2>>}

\* Legs scaled to these queues: as long as a queue of two, or longer.
ShortLegs == [d \in 0..LastDest |-> d + 1]

\* A patient player has fewer ways to go wrong and is followed further.
AnswersEach == [p \in BOOLEAN |-> IF p THEN 4 ELSE 2]
=============================================================================
