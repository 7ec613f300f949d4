CONSTANTS
  N = 2
  Thread <- ThreeThreads
  Home <- Spread
  SchedSize = 2
  PauseSize = 2
  Timeouts = {0, 1, 2}
  MaxTick = 1
  NoThread = NoThread
SPECIFICATION Spec
INVARIANTS QueuesSound RunningIsQueued RunnableIsQueued PauseSorted OnlyWakersFail NoLostWakeup
CHECK_DEADLOCK FALSE
