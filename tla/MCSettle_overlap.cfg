SPECIFICATION Spec
CONSTANTS
  s1 = s1
  s2 = s2
  b1 = b1
  b2 = b2
  Sessions <- TwoSessions
  Buyers <- TwoBuyers
  Overlap = TRUE
  FaultKinds <- AllFaultKinds
  Takedown = TRUE
  MaxFaults = 2
  MaxPayouts = 3
SYMMETRY Symmetry
CHECK_DEADLOCK FALSE
INVARIANTS PromotedFirst
PROPERTIES WithdrawnIsFinal LedgerRefined
