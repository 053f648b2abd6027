SPECIFICATION FairSpec
CONSTANTS
  MaxCards = 2
  MaxChunks = 2
  MaxGen = 3
  MaxRequests = 2
INVARIANTS OneVoice ReadsWhatIsShown AwakeWhileVisible
PROPERTY PlaybackEnds
