SPECIFICATION FairSpec
CONSTANTS
  Cards = {1, 2}
  NoCard = 0
  Queues <- OneOrTwo
  Gap = 2
  Hearts = 2
  LastDest = 1
  LegLength <- ShortLegs
  Patience = {TRUE, FALSE}
  MaxGames = 2
  MaxAnswers <- AnswersEach
  MaxPending = 1
INVARIANTS RoundSound MissedStillQueued BankedOncePerGame
PROPERTIES WaypointEarned NeverHardLocked DeathReachesSummary
