SPECIFICATION FairSpec
CONSTANTS
  Server = {s1, s2}
  TP = {t1, t2}
  Loop = {l1, l2}
  FreeCache = TRUE
  MaxRounds = 4
  MaxVersion = 2
  MaxTurns = 2
  MaxFaults = 1
INVARIANTS FreshWeights FreshCache NoSyncDuringUpdate SleepTogether TrainingHasMemory FailureStops
PROPERTY RoundsEnd
CHECK_DEADLOCK FALSE
