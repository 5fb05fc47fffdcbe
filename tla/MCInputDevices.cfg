SPECIFICATION Spec
CONSTANTS
  WordSize = 16
  Period = 3
  Debounce = 4
  LongPress = 7
  MaxGap = 4
  MaxTurn = 2
INVARIANTS
  ScansKeepTheGrid
  ClickOrLongPress
  KnobReportsTurns
PROPERTIES
  SteadyBeforeReported
