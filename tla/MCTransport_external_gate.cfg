SPECIFICATION Spec
CONSTANTS
  None = None
  n1 = n1
  n2 = n2
  Modes <- External
  StepChoices <- ShortAndFull
  Notes <- OneNote
  Swings <- Swung
  TicksPerSixteenth = 2
  PhaseCount = 2
  QueueCapacity = 6
  MaxPacketsPerTick = 4
  NormalCapacity = 2
  TerminalReserve = 2
  Lookahead = 1
  MaxAttempts = 3
  MaxTicksPerPass = 2
  MaxTick = 3
  MaxGen = 2
INVARIANT AcceptedOnHasOff
