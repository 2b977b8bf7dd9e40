SPECIFICATION Spec
CONSTANTS
  Slots = 8
  MaxPages = 1
  MaxTx = 2
  MaxSavepoints = 0
  MaxEntries = 100
  MaxUndo = 100
  Names = {}
  AutoStatements = {"INSERT", "DELETE"}
  TxStatements = {"UPDATE"}
  Oversize = {FALSE}
  StaleSavepoints = FALSE
  CrashPhases = {"up"}
  MaxRows = 2
  MaxLog = 7
  MaxRestarts = 1
PROPERTIES
  RollbackRestores
CHECK_DEADLOCK FALSE
