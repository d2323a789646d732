SPECIFICATION FairSpec
CONSTANTS
  t1 = t1
  t2 = t2
  s1 = s1
  s2 = s2
  r1 = r1
  r2 = r2
  None = None
  Tables <- TwoTables
  Instances <- TwoSyncers
  Requests <- OneRequest
  MaxLog <- TwoAndOneRecords
  MaxFaults = 1
  MaxCrashes = 1
CHECK_DEADLOCK FALSE
INVARIANTS RemovedWereExecuted NoGap BatchIsPending
PROPERTIES ExecutesPending ImplementsOutbox Drains StopReturns
