SPECIFICATION Spec
CONSTANTS
  None = None
  Minute = 7
  Ppqn = 1
  Tempos <- OneTempo
  RingCapacity = 3
  MaxTicksPerPass = 1
  MaxTime = 3
  MaxSession = 2
PROPERTY OwnTicks
