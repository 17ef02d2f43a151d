SPECIFICATION Spec
CONSTANTS
  Tags = {t1, t2, t3}
  NoTag = NoTag
  Depth = 3
  Programs <- MCWrongPathFault
SYMMETRY TagSymmetry
INVARIANTS
  PendingOwned
