CONSTANTS
  N = 2
  Thread <- TwoThreads
  Home <- Spread
  SchedSize = 2
  PauseSize = 1
  Timeouts = {0, 1}
  MaxTick = 1
  NoThread = NoThread
SPECIFICATION FairSpec
PROPERTY WokenRuns
CHECK_DEADLOCK FALSE
