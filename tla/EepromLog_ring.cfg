SPECIFICATION FairSpec
CONSTANTS
  Pages = 3
  QueueLength = 2
  MaxLogs = 8
  MaxBoots = 2
CHECK_DEADLOCK FALSE
INVARIANTS
  TypeOK
  RecentKept
  RecentPrinted
  InOrder
PROPERTY Drains
