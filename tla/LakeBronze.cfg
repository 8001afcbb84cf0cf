SPECIFICATION Spec
CONSTANTS
  Jobs = {j1, j2}
  LastDate = 2
  Keys = {"k", "l"}
  Rows <- MCRows
  Batches <- MCBatches
  MaxRuns = 4
SYMMETRY Symmetric
INVARIANTS
  OneRowPerKey
  
 
CHECK_DEADLOCK FALSE
