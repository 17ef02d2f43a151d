SPECIFICATION Spec
CONSTANTS
  N = 3
  G = 2
  MaxReuse = 1
  NBranches = 2
  Programs <- MCPrograms
INVARIANTS
  WindowShape
  StaleRejected
  BoundaryExact
  ResultOnce
  StoreOwnership
PROPERTIES
  Implements
