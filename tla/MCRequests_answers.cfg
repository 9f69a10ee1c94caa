SPECIFICATION Spec
CONSTANTS
  lab = lab
  ann = ann
  w1 = w1
  w2 = w2
  p1 = p1
  p2 = p2
  q1 = q1
  q2 = q2
  i1 = i1
  i2 = i2
  i3 = i3
  s1 = s1
  s2 = s2
  Accounts <- BothAccounts
  Labs <- OneLab
  Assets <- OneWork
  OwnerOf <- AnnsWorks
  Presets <- TwoPresets
  Requests <- OneRequest
  Subs <- ThreeSubs
  Sessions <- TwoSessions
  Amounts <- SomeAmounts
  Grain = 1
SYMMETRY Symmetry
CHECK_DEADLOCK FALSE
INVARIANTS AnswersTheBrief BadgeBacked
PROPERTIES LifecycleRefined
