SPECIFICATION Spec
CONSTANTS
  NumCards = 2
  Tenth = 144
  AgainDelay = 1
  Tabs <- TwoTabs
  StorageModes <- WorkingModes
  Start = 0
  Horizon = 0
  Jumps = {1}
  MaxReps = 2
INVARIANT MissResurfaces
