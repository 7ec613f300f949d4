CONSTANTS
  Readers = {r1, r2, r3}
  Writers = {w1, w2}
  MaxReaders = 4
SPECIFICATION Spec
SYMMETRY Symmetry
INVARIANTS Exclusion ReleaseMatchesHold ReadersCounted RequestHasWriter
PROPERTY ImplementsLock
