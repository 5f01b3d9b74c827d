CONSTANTS
  Trigram <- MCTrigram
  Batches <- OneBatch
  Id = {1}
  Inode = {i1, i2, i3}
  Query = {q1}
  None = None
  Faults = {"prepareTail"}
  MaxBlocks = 4
  MaxGeneration = 2
SPECIFICATION LiveSpec
PROPERTIES RefinesIndex DeleteCompletes QueriesEnd WriterReleases
CHECK_DEADLOCK FALSE
