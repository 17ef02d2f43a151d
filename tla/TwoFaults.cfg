SPECIFICATION Spec
CONSTANTS
  Tags = {t1, t2, t3}
  NoTag = NoTag
  Depth = 3
  Programs <- MCTwoFaults
SYMMETRY TagSymmetry
INVARIANTS
  RightPathOnly
