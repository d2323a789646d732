SPECIFICATION FairSpec
CONSTANTS
  t1 = t1
  w1 = w1
  w2 = w2
  s1 = s1
  s2 = s2
  r1 = r1
  None = None
  Tables <- OneTable
  Wrappers <- TwoWrappers
  Instances <- OneSyncer
  Requests <- OneRequest
  MaxChanges = 2
  MaxFaults = 0
  MaxCrashes = 0
CHECK_DEADLOCK FALSE
INVARIANTS LoggedOnce RefusedMeansClosed
PROPERTIES ListenersEnd Replicated
