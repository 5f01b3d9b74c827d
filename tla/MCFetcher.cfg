CONSTANTS
  File = {1, 2, 3}
  MaxTime = 2
  SharedInstant = 2
  BatchSize = 2
  ChannelSize = 1
  ConcurrentTasks = 2
  RetryLimit = 1
  Faults = {"ingest", "panic", "crash"}
  MaxMishaps = 2
SPECIFICATION LiveSpec
INVARIANTS CheckpointIsSafe ReadAheadIsHeld
PROPERTY EveryFileIsDecided
CHECK_DEADLOCK FALSE
