SPECIFICATION Spec
CONSTANTS
  Tags = {t1, t2, t3, t4, t5}
  NoTag = NoTag
  Depth = 4
  Programs <- MCPrograms
SYMMETRY TagSymmetry
INVARIANTS
  BranchBookkeeping
  NoProtocolError
  PendingOwned
  TransactionOwned
  RightPathOnly
