CONSTANTS
  Hash = {h1, h2}
  Request = {r1}
  BatchSize = 2
  Faults = {"load"}
  MaxMishaps = 1
SPECIFICATION Spec
INVARIANT RejectedIsNotCompleted
CHECK_DEADLOCK FALSE
