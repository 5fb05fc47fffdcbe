SPECIFICATION Spec
CONSTANTS
  None = None
  Minute = 7
  Ppqn = 1
  Tempos <- TwoTempos
  RingCapacity = 3
  MaxTicksPerPass = 2
  MaxTime = 8
  MaxSession = 2
INVARIANTS
  TypeOK
  ReaderProtected
  ArmedIsCurrent
  GridExact
  QuietWhenStopped
PROPERTY NextTargetIsFirst
