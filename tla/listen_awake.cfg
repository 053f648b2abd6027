SPECIFICATION Spec
CONSTANTS
  MaxCards = 2
  MaxChunks = 2
  MaxGen = 3
  MaxRequests = 2
INVARIANT ScreenKeptAwake
