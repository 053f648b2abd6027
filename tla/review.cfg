SPECIFICATION Spec
CONSTANTS
  NumCards = 3
  Tenth = 1
  AgainDelay = 1
  NewPer = 1
  InitialSchedules <- Schedules
  Start = 11
  Horizon = 21
  Jumps <- JumpOnce
  MaxReps = 3
  MaxAgain = 2
INVARIANTS QueueSound DoneMeansRecalled DoneMeansCaughtUp
PROPERTY NeverBackToBack
