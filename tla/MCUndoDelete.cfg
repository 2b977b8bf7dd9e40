SPECIFICATION Spec
CONSTANTS
  Slots = 8
  MaxPages = 1
  MaxTx = 1
  MaxSavepoints = 0
  MaxEntries = 100
  MaxUndo = 100
  Names = {}
  AutoStatements = {"INSERT", "UPDATE", "DELETE"}
  TxStatements = {"DELETE"}
  Oversize = {FALSE}
  StaleSavepoints = FALSE
  CrashPhases = {"up"}
  MaxRows = 3
  MaxLog = 6
  MaxRestarts = 1
INVARIANTS
  RestartKeepsRows
PROPERTIES
  RollbackRestores
CHECK_DEADLOCK FALSE
