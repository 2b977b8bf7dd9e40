SPECIFICATION Spec
CONSTANTS
  Keys <- MCKeys
  Vals = {v1, v2}
  Order = 2
  MaxPages = 8
  MaxFailures = 1
SYMMETRY MCSymmetry
INVARIANTS
  SearchFindsAll
  ScanInOrder
  ScanLosesNothing
