SPECIFICATION Spec
CONSTANTS
  Requests <- MCRequests
  Jobs <- MCJobs
  Tables <- MCTables
  Forms <- MCForms
  None = None
  Old = Old
  r1 = r1
  r2 = r2
  j1 = j1
  j2 = j2
  t1 = t1
  t2 = t2
INVARIANTS
  EntryHasItsRun
  RunIsListed
  NothingLeft
  OwnWork
  SourcesDeclared
PROPERTIES
  NoKilledRun
  ListEmpties
CHECK_DEADLOCK FALSE
