CONSTANTS
  TableSize = 2
  sK_BASE = 4
  sK_CEILING = 6
  TOP = 8
  Frame <- TwoFrames
  Process = {"p", "q"}
  Thread = {"t1", "t2"}
  Home <- Homes
  MaxId = 2
  MaxUsage = 1
  Careless = {"q"}
  Mortal = {"q"}
  Kinds <- TwoKinds
  Device = 50
SPECIFICATION MCSpec
INVARIANTS Accounted Isolated FramesExact ShowsUsed CleanLeavesOrphans
CHECK_DEADLOCK FALSE
