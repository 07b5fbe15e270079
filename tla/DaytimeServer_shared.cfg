SPECIFICATION Spec
CONSTANTS
  NoSockets = 3
  Child = {t1, t2}
  EagerClient = TRUE
INVARIANT ExclusiveWorkers
