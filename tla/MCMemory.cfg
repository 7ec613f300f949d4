CONSTANTS
  MemBytes = 48
  PageSize = 4
  AddrPages = 16
  Available <- Usable
  Reserved <- InUse
  MaxAlloc = 3
SPECIFICATION MCSpec
INVARIANTS
  NoDoubleHandout
  ReservedKept
  HandsOutRam
  HeapSound
  ArenaSound
  ObjectsInside
  CountFits
  InOrder
  HoldsExactly
  EnvironmentRight
  TreeSound
PROPERTY ImplementAllocator
CHECK_DEADLOCK FALSE
