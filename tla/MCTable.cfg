SPECIFICATION Spec
CONSTANTS
  a = a
  Null = Null
  MaxInt = 3
  Texts = {a}
  Wheres <- MCWheres
  Sets <- MCSets
  Batches <- MCBatches
  MaxRids = 4
  MaxFailures = 1
INVARIANTS
  IndexesMatchHeap
PROPERTIES
  ImplementsKeyedRows
