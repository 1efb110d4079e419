SPECIFICATION FairSpec
CONSTANTS
  Last = 3
  Skippable <- MCSkippable
  Guarded <- MCGuarded
  Signatures = {t1, t2, t3, t4, t5}
  MaxAttempts = 2
  SlowChecks = FALSE
  MaxFaults = 2
INVARIANTS
  NoStepTwice
  CheckpointIsTrue
PROPERTIES
  SeedFinishes
CHECK_DEADLOCK FALSE
