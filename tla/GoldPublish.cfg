SPECIFICATION Spec
CONSTANTS
  Jobs = {j1, j2}
  Days = {1, 2}
  Versions = {1, 2}
  MaxCols = 2
  NoTable = NoTable
  SilverTables <- MCSilverTables
  MaxRuns = 4
  MaxRebuilds = 2
SYMMETRY Symmetric
PROPERTIES
  NeverEmptied
  OnePublicationAfterTheOther
CHECK_DEADLOCK FALSE
