SPECIFICATION Spec
CONSTANTS
  Child = {c1}
  Address <- MCAddress
  Value = {65}
  MaxLength = 1
SYMMETRY ChildSymmetry
INVARIANTS
  FramesProtected
