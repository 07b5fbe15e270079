SPECIFICATION Spec
CONSTANTS
  Child = {c1, c2}
  Address <- MCAddress
  Value = {65}
  MaxLength = 2
SYMMETRY ChildSymmetry
CONSTRAINT CallsBounded
INVARIANTS
  FramesIntact
PROPERTIES
  NobodyCutsIn
  RegistersSpec
