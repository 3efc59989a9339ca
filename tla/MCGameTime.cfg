SPECIFICATION TimeSpec
CONSTANTS
  Debounce = 3
  Ring = 1
  W = 2
  K = 2
  TimeMod = 3
  SetTimes = {0, 1}
  Delay = 1
  MaxMsgs = 1
  MaxNow = 4
INVARIANTS
  TimeTypeOK
  ImpactClicks
  ClicksLagTheHub
  TornOnlyAcrossHalves
CHECK_DEADLOCK FALSE
