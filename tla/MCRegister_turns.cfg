SPECIFICATION FairSpec
CONSTANTS
  r1 = r1
  r2 = r2
  r3 = r3
  p1 = p1
  p2 = p2
  Runs <- Attempts3
  Presets <- TwoPresets
  Overlap = FALSE
  FaultKinds <- AllFaultKinds
  MaxFaults = 2
  MaxEdits = 1
CHECK_DEADLOCK FALSE
INVARIANTS ProjectionFromLog VaultGated OrphansBounded
PROPERTIES RetryResumes EventuallyRegistered
