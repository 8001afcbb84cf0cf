CONSTANTS
  MaxTicks = 1
  QueueMax = 1
  BatchSize = 1
  MinuteOf <- MCMinuteOf
SPECIFICATION Spec
PROPERTIES
  WriterErrorExitsNonZero
