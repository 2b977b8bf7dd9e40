SPECIFICATION Spec
CONSTANTS
  d1 = d1  d2 = d2  n1 = n1  n2 = n2
  DbNames <- MCDbNames
  Names <- MCNames
  MaxDatabases = 2
  MaxTables = 2
  MaxViews = 1
  MaxPages = 3
  MaxCreated = 2
  MaxFailures = 1
SYMMETRY Symmetry
INVARIANTS SchemaDurable TablesApart
PROPERTY CurrentKept
