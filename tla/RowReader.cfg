SPECIFICATION Spec
CONSTANTS
  a = a
  b = b
  NULL = NULL
  Mappings <- Tables
  MaxRows = 2
  Width = 4
CHECK_DEADLOCK FALSE
INVARIANTS TypeOK ValuesArrive PanicsExplained PointersExact
