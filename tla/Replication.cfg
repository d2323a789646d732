SPECIFICATION Spec
CONSTANTS
  t1 = t1
  w1 = w1
  w2 = w2
  s1 = s1
  s2 = s2
  r1 = r1
  None = None
  Tables <- OneTable
  Wrappers <- TwoWrappers
  Instances <- TwoSyncers
  Requests <- NoRequest
  MaxChanges = 2
  MaxFaults = 1
  MaxCrashes = 1
CHECK_DEADLOCK FALSE
SYMMETRY Symmetry
INVARIANTS TargetMissesNothing TargetFollowsSource
PROPERTIES PanicNeedsACause ImplementsOutbox
