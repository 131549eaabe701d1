SPECIFICATION FairSpec
CONSTANTS
  Rank = {r0, r1}
  Rank0 = r0
  UseCritic = FALSE
  MaxKeep <- KeepTwoOfEach
  SaveFreq = 1
  Total = 6
  Batches = 2
  Epochs = 2
  ResumeModes = {"auto", "disable", "resume_path"}
  MaxStep = 6
  MaxStarts = 2
INVARIANTS RetentionOfRun
CHECK_DEADLOCK FALSE
