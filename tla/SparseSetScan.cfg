SPECIFICATION ScanSpec
CONSTANTS
  N = 3
  StateCount = 4
  GenMod = 2
  Listed = 2
  IndexMod = 8
INVARIANTS Inverse Partitioned HeldExclusive ReadsInBounds ReserveBounded NobodyMissed ListsEachOnce
PROPERTY ImplementsPartition
