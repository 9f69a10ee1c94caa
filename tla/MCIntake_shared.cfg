SPECIFICATION Spec
CONSTANTS
  b1 = b1
  b2 = b2
  w1 = w1
  w2 = w2
  f = f
  None = None
  Browsers <- OneBrowser
  Wallets <- TwoWallets
  Holds <- Shared
  Files <- OneFile
  Entries = {TRUE, FALSE}
  Typed = {w2}
  Overlap = FALSE
  MaxCreators = 2
  MaxVersion = 2
  MaxRows = 2
CHECK_DEADLOCK FALSE
INVARIANTS StampIsProof OneActive UploadsConsented FlaggedTogether
