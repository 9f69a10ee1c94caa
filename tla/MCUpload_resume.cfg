SPECIFICATION FairSpec
CONSTANTS
  t1 = t1
  t2 = t2
  d1 = d1
  d2 = d2
  k1 = k1
  k2 = k2
  NoKey = NoKey
  Tabs <- TwoTabs
  Keys <- TwoKeys
  Backends <- BothStores
  Devices <- TwoDevices
  DeviceOf <- Apart
  Size = 3
  Overlap = FALSE
  FaultKinds <- AllFaultKinds
  MaxFaults = 3
INVARIANTS OffsetBacked OneKey
PROPERTIES EventuallyComplete
