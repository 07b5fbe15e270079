SPECIFICATION Spec
CONSTANTS
  NoSockets = 3
  Child = {t1, t2, t3}
  EagerClient = FALSE
SYMMETRY ChildSymmetry
INVARIANTS
  TypeOK
  ExclusiveWorkers
  NoOrphanSocket
  ReturnNeverBlocks
PROPERTIES
  PoolSpec
  OnlyNetworkCutsOff
