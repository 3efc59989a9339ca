SPECIFICATION FairSpec
CONSTANTS
  TickLimit = 10
  TimeoutTicks = 4
  Interval = 2
  MaxLag = 1
INVARIANTS
  TypeOK
  GivesUpInTime
PROPERTIES
  SilenceEndsInSearch
