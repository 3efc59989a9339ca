SPECIFICATION Spec
CONSTANTS
  History = 3
  MaxClicks = 8
INVARIANTS
  TypeOK
  UndisturbedReportIsExact
  DisturbedReportIsRecent
PROPERTIES
  ImplementsWindow
