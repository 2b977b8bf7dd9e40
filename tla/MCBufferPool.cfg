SPECIFICATION Spec
CONSTANTS
  Capacity = 2
  MaxPage = 3
  Values = {0, 1}
  Zero = 0
  Absent = Absent
  Unknown = Unknown
  MaxTick = 4
  MaxPins = 2
  MaxLost = 1
INVARIANTS
  OneCopy
  HeldPagesStay
  CleanIsOnDisk
PROPERTIES
  ImplementsPageStore
