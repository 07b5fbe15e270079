SPECIFICATION Spec
CONSTANT
  Room <- MCRoom
INVARIANTS
  TypeOK
  BusyIsReal
PROPERTIES
  InterruptsReturn
  CallsReturn
CHECK_DEADLOCK FALSE
