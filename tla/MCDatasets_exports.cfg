SPECIFICATION Spec
CONSTANTS
  a1 = a1
  a2 = a2
  train = train
  notrain = notrain
  name = name
  k1 = k1
  k2 = k2
  None = None
  AnyTerms = AnyTerms
  NoTrain <- notrain
  Assets <- TwoAssets
  Presets <- BothPresets
  Names <- OneName
  Snaps <- OneSnap
  Overlap = FALSE
  MaxPairs = 1
SYMMETRY Symmetry
CHECK_DEADLOCK FALSE
INVARIANTS SnapshotsLicensed ExportHonoursWithdrawal ExportIsWithinSnapshot
