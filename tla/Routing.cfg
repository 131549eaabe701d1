CONSTANTS
  sv1 = sv1
  sv2 = sv2
  Worker = {w1}
  Server <- MCServer
  HashOf <- MCHashOf
  Chunk = 2
  CacheSize = 2
  MaxBatches = 3
  MaxTurns = 3
  MaxFaults = 1
SPECIFICATION FairSpec
INVARIANTS HeapInOrder NoneLeftBehind
PROPERTIES Sticky RollingEnds ExceptionFailsJob
CHECK_DEADLOCK FALSE
