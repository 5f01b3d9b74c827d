CONSTANTS
  h1 = h1
  h2 = h2
  Hash = {h1}
  Caller <- TwoDates
  Worker = {w1, w2}
  Slot = {s1, s2}
  CheckBatchSize = 1
  PendingLimit = 1
  ItemLimit = 5
  GroupDuplication = 1
  Faults = {"watcher"}
  MaxMishaps = 1
  MaxDay = 2
  MaxFilter = 2
SPECIFICATION Spec
SYMMETRY Symmetric
INVARIANTS HeldOnce AnswersAreTrue
CHECK_DEADLOCK FALSE
