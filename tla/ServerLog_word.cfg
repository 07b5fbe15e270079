SPECIFICATION Spec
CONSTANTS
  Child = {t1, t2}
  QueueLength = 2
SYMMETRY ChildSymmetry
INVARIANT TypeOK
PROPERTIES
  SavedHolds
  SharedCodesStay
