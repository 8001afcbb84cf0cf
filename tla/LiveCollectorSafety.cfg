CONSTANTS
  MaxTicks = 3
  QueueMax = 2
  BatchSize = 2
  MinuteOf <- MCMinuteOf
SPECIFICATION Spec
INVARIANTS
  TypeOK
  OneRawCopy
  EveryTickAccountedFor
PROPERTIES
  CleanExitCommitsAll
  GracefulExitKeepsTicks
  ImplementsLanding
