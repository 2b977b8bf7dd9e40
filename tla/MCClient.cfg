SPECIFICATION Spec
CONSTANTS
  Alphabet <- MCAlphabet
  SCALE = 100
  IntMax = 31
  BigMax = 63
  TextMax = 6
  MaxViewDepth = 2
  MaxColumns = 8
  Selects <- MCSelects
  Inserts <- MCInserts
  Exponents = FALSE
  Words <- MCWords
  TokenMax = 8
  MaxDepth = 12
  MaxList <- MCMaxList
  ViewMax = 300
  Indent = 2
  FieldMax = 20
  VarcharSizes <- MCVarcharSizes
  Scripts <- MCScripts
  Tables <- MCTables
PROPERTIES
  SelectMeetsDefinition
  TernaryPartition
  ViewIsItsQuery
  AcceptedIsKept
  ScriptSplits
  FormatKeepsTokens
  GuardSeesWhatRuns
  TransferKeepsRows
  WrittenIsRead
CHECK_DEADLOCK FALSE
