SPECIFICATION Spec
CONSTANTS
  Slots = 2
  MaxPages = 2
  MaxTx = 2
  MaxSavepoints = 1
  MaxEntries = 100
  MaxUndo = 100
  Names = {s}
  AutoStatements = {"INSERT", "DELETE"}
  TxStatements = {"INSERT"}
  Oversize = {FALSE, TRUE}
  StaleSavepoints = FALSE
  CrashPhases = {"up", "recover", "rollback_to"}
  MaxRows = 3
  MaxLog = 5
  MaxRestarts = 2
INVARIANTS
  RestartKeepsRows
  OnlyOpenUndone
PROPERTIES
  RollbackRestores
  ImplementsTxnStore
CHECK_DEADLOCK FALSE
