SPECIFICATION Spec
CONSTANTS
  v1 = v1
  v2 = v2
  Columns <- TwoColumns
  Key = "k"
  Types <- TwoTypes
  Models <- TwoOrders
  Engines <- Nutsdb
  Values <- TwoValues
  NULL = NULL
  MaxLog = 2
  MaxFaults = 1
  MaxCrashes = 1
SYMMETRY Symmetric
CHECK_DEADLOCK FALSE
INVARIANTS BoundRight
