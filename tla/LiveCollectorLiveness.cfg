CONSTANTS
  MaxTicks = 2
  QueueMax = 1
  BatchSize = 1
  MinuteOf <- MCMinuteOf
SPECIFICATION ThreadSpec
PROPERTIES
  AcceptedTicksSettle
  WriterErrorEndsTheRun
  StopEndsTheRun
