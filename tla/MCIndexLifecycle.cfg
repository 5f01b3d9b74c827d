CONSTANTS
  MaxId = 2
  MaxDay = 3
  MaxFile = 1
  Request = {r1, r2}
  Query = {q1}
  GC = gc
  None = None
  Faults = {"create", "delete", "repeated", "crash"}
  MaxMishaps = 1
SPECIFICATION LiveSpec
INVARIANTS OpenIsWhole
PROPERTIES EveryFileIsWritten EveryIndexExpires
CHECK_DEADLOCK FALSE
