SPECIFICATION FairSpec
CONSTANTS
  r1 = r1
  r2 = r2
  p1 = p1
  p2 = p2
  NoPreset = NoPreset
  Proposed = p1
  Runs <- TwoRuns
  Presets <- TwoPresets
  Overlap = FALSE
  MaxFaults = 2
  MaxEdits = 2
INVARIANTS StageBacked OfferedIsFixed
PROPERTIES  WithdrawnNotOffered
