SPECIFICATION Spec
CONSTANTS
  Rank = {r0, r1}
  Rank0 = r0
  UseCritic = FALSE
  MaxKeep <- KeepTwoOfEach
  SaveFreq = 1
  Total = 4
  Batches = 2
  Epochs = 2
  ResumeModes = {"auto"}
  MaxStep = 6
  MaxStarts = 2
INVARIANT AutoStarts
CHECK_DEADLOCK FALSE
