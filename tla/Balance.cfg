SPECIFICATION Spec
CONSTANTS
  MaxRows = 6
  MaxLen = 3
  MaxParts = 4
INVARIANTS RaisesOnlyAtEntry SpreadBounded
PROPERTIES ImplementsPromise
CHECK_DEADLOCK FALSE
