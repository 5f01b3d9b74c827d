CONSTANTS
  w1 = w1
  w2 = w2
  i1 = i1
  i2 = i2
  a = a
  b = b
  c = c
  Worker = {w1, w2}
  Index = {i1, i2}
  WorkerOf <- Workers
  Candidates <- Found
  Matching = {a, b}
  Batch = 2
  Permits = 1
  HitLimit = 3
  Caller = {c1}
  MaxTask = 2
  MaxRepeats = 1
  Faults = {}
  MaxMishaps = 0
SPECIFICATION LiveSpec
PROPERTY EverySearchFinishes
CHECK_DEADLOCK FALSE
