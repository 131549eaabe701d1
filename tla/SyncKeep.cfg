SPECIFICATION Spec
CONSTANTS
  Server = {s1, s2}
  TP = {t1, t2}
  Loop = {l1, l2}
  FreeCache = FALSE
  MaxRounds = 3
  MaxVersion = 2
  MaxTurns = 1
  MaxFaults = 0
INVARIANT FreshWeights
CHECK_DEADLOCK FALSE
