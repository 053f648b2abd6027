SPECIFICATION Spec
CONSTANTS
  NumCards = 2
  Tenth = 144
  AgainDelay = 1
  Tabs <- OneTab
  StorageModes <- AllModes
  Start = 0
  Horizon = 2
  Jumps = {1}
  MaxReps = 2
INVARIANT EntriesSound
PROPERTY LedgerPromise
