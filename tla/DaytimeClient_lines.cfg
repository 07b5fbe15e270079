SPECIFICATION FairClientSpec
CONSTANTS
  MAXLINE = 7
  Port = {1111, 2222, 3333}
  Garbage <- MCGarbage
  Lines <- MCLines
INVARIANTS
  PortAgreed
  LinesWhole
PROPERTY ClientEnds
CHECK_DEADLOCK FALSE
