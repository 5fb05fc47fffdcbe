SPECIFICATION Spec
CONSTANTS
  None = None
  Steps = {s1, s2}
  LastSlot = 0
  Capacity = 8
  MaxHeld = 2
INVARIANTS
  ScreensAgree
  CapturedIsHeld
  StorageStopsMusic
PROPERTIES
  OneScreenPerGesture
  DialogShields
  BusyEnds
