CONSTANTS
  N = 1
  Thread <- ThreeThreads
  Home <- OneProcessor
  SchedSize = 3
  PauseSize = 1
  Timeouts = {0, 1}
  MaxTick = 1
  NoThread = NoThread
SPECIFICATION Spec
INVARIANT SleeperHasTimer
CHECK_DEADLOCK FALSE
