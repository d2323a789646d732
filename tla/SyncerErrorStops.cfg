SPECIFICATION FairSpec
CONSTANTS
  t1 = t1
  t2 = t2
  s1 = s1
  s2 = s2
  r1 = r1
  r2 = r2
  None = None
  Tables <- OneTable
  Instances <- OneSyncer
  Requests <- OneRequest
  MaxLog <- OneRecord
  MaxFaults = 1
  MaxCrashes = 0
CHECK_DEADLOCK FALSE
PROPERTIES StopsOnError
