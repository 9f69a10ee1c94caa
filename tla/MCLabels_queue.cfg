SPECIFICATION FairSpec
CONSTANTS
  genre = genre
  turns = turns
  p1 = p1
  x1 = x1
  x2 = x2
  x3 = x3
  x4 = x4
  x5 = x5
  c1 = c1
  c2 = c2
  w1 = w1
  w2 = w2
  b1 = b1
  b2 = b2
  Null = Null
  Keys <- OneKey
  KeysOf <- SameKey
  Measurable <- OneKey
  Pairs <- OnePair
  SourceOf <- FromGpt
  Jurors <- FiveJurors
  FamilyOf <- OneFromGpt
  Answers <- TwoAnswers
  Callers <- OneCaller
  Workers <- TwoWorkers
  Tabs <- OneTab
  MaxCalls = 2
  MaxStops = 1
  Concurrent = FALSE
CHECK_DEADLOCK FALSE
INVARIANTS OneWorker PairsDecided WordStands
PROPERTIES EventuallyFinished
