CONSTANTS
  Hash = {h1, h2}
  Request = {r1}
  BatchSize = 2
  Faults = {"crash", "drop", "finish", "commit", "write", "load"}
  MaxMishaps = 2
SPECIFICATION LiveSpec
INVARIANTS TypeOK CompletedIsIndexed EnteredHasTrigrams WrittenHasRow PendingIsEntered FetchedOnce
PROPERTY EveryFileIsDecided
CHECK_DEADLOCK FALSE
