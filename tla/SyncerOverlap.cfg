SPECIFICATION Spec
CONSTANTS
  t1 = t1
  t2 = t2
  s1 = s1
  s2 = s2
  r1 = r1
  r2 = r2
  None = None
  Tables <- OneTable
  Instances <- TwoSyncers
  Requests <- TwoRequests
  MaxLog <- ThreeRecords
  MaxFaults = 1
  MaxCrashes = 1
CHECK_DEADLOCK FALSE
SYMMETRY Symmetry
INVARIANTS TypeOK StoreIsTail InstanceOrder BatchIsWindow CleanStop StoppedForGood
PROPERTIES OnlyOverlapCloses
