SPECIFICATION FairSpec
CONSTANTS
  Questions = 2
  EpisodeCards = 3
  MaxPlayers = 2
  MaxScore = 3
INVARIANTS EpisodesSound ScoreIsEarned PatientSoundStops PatientScreenIsModes CardIsHeard
PROPERTY LoadingEnds
