SPECIFICATION Spec
CONSTANTS
  None = None
  n1 = n1
  n2 = n2
  Modes <- AllModes
  StepChoices <- FullOnly
  Notes <- OneNote
  Swings <- Straight
  TicksPerSixteenth = 2
  PhaseCount = 2
  QueueCapacity = 6
  MaxPacketsPerTick = 4
  NormalCapacity = 2
  TerminalReserve = 2
  Lookahead = 1
  MaxAttempts = 3
  MaxTicksPerPass = 1
  MaxTick = 1
  MaxGen = 3
INVARIANT HostIsStopped
