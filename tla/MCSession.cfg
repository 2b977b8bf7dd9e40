SPECIFICATION Spec
CONSTANTS
  MaxTabs = 1
  MaxStatements = 3
INVARIANTS
  WritesUninterrupted
  OnlyStopCancels
  ReportIsHonest
  EngineOutlivesRun
PROPERTIES
  StopEnds
  QuitCloses
CHECK_DEADLOCK FALSE
