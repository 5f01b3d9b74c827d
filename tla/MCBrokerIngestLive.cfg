CONSTANTS
  h1 = h1
  h2 = h2
  Hash = {h1, h2}
  Caller <- SameGroup
  Worker = {w1}
  Slot = {s1}
  CheckBatchSize = 2
  PendingLimit = 1
  ItemLimit = 5
  GroupDuplication = 1
  Faults = {"check", "poll", "watcher", "worker", "pressure"}
  MaxMishaps = 1
  MaxDay = 3
  MaxFilter = 3
SPECIFICATION LiveSpec
INVARIANTS OnlyClashesAreLost GroupsBounded PendingBounded
 
CHECK_DEADLOCK FALSE
