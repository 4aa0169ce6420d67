CONSTANTS
  Buttons = {b1}
  Modes <- MCModes
  Cap = 2
  MaxStep = 2
  MaxRun = 3
  MaxVSyncs = 2
  MaxExtra = 2
  None = None
SPECIFICATION FairSpec
INVARIANTS ServerOK StopsWhereAsked PauseWithinAFrame  InputSeen
PROPERTIES VSyncReturns
CHECK_DEADLOCK FALSE
