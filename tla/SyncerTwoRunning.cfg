SPECIFICATION Spec
CONSTANTS
  t1 = t1
  t2 = t2
  s1 = s1
  s2 = s2
  r1 = r1
  r2 = r2
  None = None
  Tables <- OneTable
  Instances <- TwoSyncers
  Requests <- OneRequest
  MaxLog <- ThreeRecords
  MaxFaults = 0
  MaxCrashes = 0
CHECK_DEADLOCK FALSE
INVARIANTS RemovedWereExecuted
