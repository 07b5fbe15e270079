SPECIFICATION Spec
CONSTANTS
  Child = {c1}
  Listener = listener
  Eeprom = eeprom
  Log = log
  None = none
  Seconds = 12
  Minutes = 2
  Hours = 3
  MaxTicks = 2
INVARIANTS
  TransfersWhole
  SendMasked
  ClockErrorBounded
