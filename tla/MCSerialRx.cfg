SPECIFICATION FairRxSpec
CONSTANTS
  LineMax = 3
  BufSize = 2
  QueueSize = 2
  MaxLines = 5
  MaxTyped = 5
INVARIANTS
  RxTypeOK
PROPERTIES
  ImplementsChannel
  FittingLineIsTaken
  QueueDrains
CHECK_DEADLOCK FALSE
