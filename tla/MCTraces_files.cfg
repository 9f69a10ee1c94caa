SPECIFICATION TracesSpec
CONSTANTS
  bash = bash
  edit = edit
  search = search
  None = None
  Names <- AllNames
  Lines <- AllLines
  Blocks <- AllBlocks
  MaxMessages = 4
  MaxPreview = 3
  MaxNames = 2
  MaxText = 1
  MaxPieces = 5
CHECK_DEADLOCK FALSE
INVARIANTS CallsCounted FailuresCounted SubmissionServes
