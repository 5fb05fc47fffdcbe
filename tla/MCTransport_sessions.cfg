SPECIFICATION Spec
CONSTANTS
  None = None
  n1 = n1
  n2 = n2
  Modes <- AllModes
  StepChoices <- FullOrRest
  Notes <- OneNote
  Swings <- Swung
  TicksPerSixteenth = 2
  PhaseCount = 2
  QueueCapacity = 3
  MaxPacketsPerTick = 4
  NormalCapacity = 2
  TerminalReserve = 2
  Lookahead = 1
  MaxAttempts = 2
  MaxTicksPerPass = 1
  MaxTick = 3
  MaxGen = 3
INVARIANTS
  TypeOK
  NoStuckNote
  FlagsAgree
PROPERTIES
  OnlyLiveMusic
  OffBeforeStop
