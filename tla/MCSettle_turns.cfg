SPECIFICATION FairSpec
CONSTANTS
  s1 = s1
  s2 = s2
  b1 = b1
  b2 = b2
  Sessions <- OneSession
  Buyers <- TwoBuyers
  Overlap = FALSE
  FaultKinds <- AllFaultKinds
  Takedown = FALSE
  MaxFaults = 3
  MaxPayouts = 5
CHECK_DEADLOCK FALSE
INVARIANTS SalesAgree TokensBounded
PROPERTIES EventuallySettled
