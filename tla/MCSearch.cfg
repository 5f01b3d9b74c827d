CONSTANTS
  w1 = w1
  w2 = w2
  i1 = i1
  i2 = i2
  a = a
  b = b
  c = c
  Worker = {w1, w2}
  Index = {i1, i2}
  WorkerOf <- Workers
  Candidates <- Found
  Matching = {a, b}
  Batch = 1
  Permits = 1
  HitLimit = 2
  Caller = {c1, c2}
  MaxTask = 2
  MaxRepeats = 2
  Faults = {"fails", "answer", "socket", "yara", "write", "refused", "lost", "dropped", "crash"}
  MaxMishaps = 1
SPECIFICATION LiveSpec
INVARIANTS OneTaskWorks FinishedIsComplete
PROPERTY ListedSearchFinishes
CHECK_DEADLOCK FALSE
