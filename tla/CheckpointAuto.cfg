SPECIFICATION FairSpec
CONSTANTS
  Rank = {r0, r1}
  Rank0 = r0
  UseCritic = TRUE
  MaxKeep <- KeepTwoOfEach
  SaveFreq = 2
  Total = 4
  Batches = 2
  Epochs = 2
  ResumeModes = {"auto"}
  MaxStep = 7
  MaxStarts = 3
INVARIANTS TrackerNamesWhole DataAligned FinalStepSaved
PROPERTIES ImplementsDurable JobEnds
CHECK_DEADLOCK FALSE
