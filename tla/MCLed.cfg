SPECIFICATION LedSpec
CONSTANTS
  Full = 2
  Durations = {0, 1, 2}
  MaxAge = 3
INVARIANTS
  LampFollowsCommand
PROPERTIES
  PhasesLast
