SPECIFICATION Spec
CONSTANTS
  None = None
  Miner = {m1, m2}
  Target = {1, 2}
  FirstTarget = 2
  MaxChannels = 2
  MaxJobs = 2
  MaxTargets = 1
  MaxLeaves = 1
  Modes <- TwoModes
  MaxSent = 2
INVARIANTS
  DifficultyAgrees
  NotifyAfterDifficulty
  WorkIsCurrent
CHECK_DEADLOCK FALSE
SYMMETRY Symmetry
