CONSTANTS
  Cases <- MCCases
  Radix = 2
  ChunkSize = 5
  PoolSize = 1
  MaxThreads = 3
  Faults = {"read"}
SPECIFICATION LiveSpec
INVARIANTS  AnswerIsAllowed FoundIsExact
PROPERTIES ImplementsStreams EveryQueryEnds
CHECK_DEADLOCK FALSE
