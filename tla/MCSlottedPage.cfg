SPECIFICATION Spec
CONSTANTS
  DataSize = 12
  SlotEntrySize = 2
  RowLens = {1, 2, 4}
INVARIANTS
  FreeSpaceIsFree
  RowsReadBack
PROPERTIES
  SlotIdsAreStable
