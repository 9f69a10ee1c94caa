SPECIFICATION Spec
CONSTANTS
  r1 = r1
  r2 = r2
  r3 = r3
  p1 = p1
  p2 = p2
  Runs <- Attempts2
  Presets <- TwoPresets
  Overlap = TRUE
  FaultKinds <- AllFaultKinds
  MaxFaults = 2
  MaxEdits = 1
CHECK_DEADLOCK FALSE
SYMMETRY Symmetry
INVARIANTS RegisteredMeansRecorded
PROPERTIES LedgerRefined
