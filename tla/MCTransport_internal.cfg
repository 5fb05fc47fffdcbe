SPECIFICATION SpecStorageCloses
CONSTANTS
  None = None
  n1 = n1
  n2 = n2
  Modes <- Internal
  StepChoices <- RestFullOrShort
  Notes <- TwoNotes
  Swings <- Swung
  TicksPerSixteenth = 2
  PhaseCount = 2
  QueueCapacity = 3
  MaxPacketsPerTick = 4
  NormalCapacity = 2
  TerminalReserve = 2
  Lookahead = 1
  MaxAttempts = 2
  MaxTicksPerPass = 2
  MaxTick = 4
  MaxGen = 2
INVARIANTS
  HostIsStopped
  RetryWindowEnforced
  AcceptedOnHasOff
  OffIsNotDuplicated
PROPERTIES
  PlannerFits
  OneNoteAtATime
  OffSilencesItsOwnNote
  ImplementsVoice
  StoppedFallsSilent
