CONSTANTS
  N = 2
  a1 = a1
  a2 = a2
  b1 = b1
  NoThread = NoThread
  Scheduler = Scheduler
  Thread = {a1, a2, b1}
  Home <- TwoAndOne
  Uses = {"complete", "light", "all"}
SPECIFICATION Spec
INVARIANTS TablesExclusive TargetHalted
PROPERTY UnlockRestores
CHECK_DEADLOCK FALSE
