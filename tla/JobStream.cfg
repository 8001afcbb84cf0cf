SPECIFICATION FairSpec
CONSTANTS
  MaxLines = 6
  QueueMax = 3
INVARIANTS TypeOK
PROPERTIES ImplementsLog JobFinishes ResponseFinishes
CHECK_DEADLOCK FALSE
