CONSTANTS
  User = {u1, u2}
  Home <- OneProcess
  Cpu = {c1, c2}
  MAX_GC = 1
  MaxPid = 3
  MaxReaders = 1
SPECIFICATION Spec
INVARIANT InsideKept
CHECK_DEADLOCK FALSE
