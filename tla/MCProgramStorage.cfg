SPECIFICATION StorageSpec
CONSTANTS
  None = None
  Missing = Missing
  Fields = {"swing", "gate"}
  Valid <- Ranges
  Default <- Defaults
  MaxSwing = 90
  LegacySwings <- Legacy
  Slots = {"user", "current"}
  CurrentSlot = "current"
  MaxRevision = 3
  MaxFaults = 2
  InitialFiles <- FoundFiles
  Edits <- TwoEdits
INVARIANTS
  TypeOK
  RevisionsStayApart
  RememberedIsStored
  RamFollowsFlash
PROPERTIES
  UserSlotsAreTheUsers
  ImplementsDurableSlots
  AutosaveSettles
