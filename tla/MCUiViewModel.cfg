SPECIFICATION SpecFair
CONSTANTS
  None = None
  WordCount = 3
  Contents <- Bits
  Blank <- AllZero
  MaxGeneration = 6
INVARIANT SeqlockInvariant
PROPERTIES
  ActsAsRegister
  DisplayCatchesUp
