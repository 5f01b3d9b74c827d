CONSTANTS
  small = small
  large = large
  huge = huge
  Label = {small, large, huge}
  Size <- Sizes
  Capacity = 2
  Caller = {c1, c2, c3}
  Faults = {"storage", "cancel"}
  MaxLoad = 3
SPECIFICATION LiveSpec
INVARIANTS SpaceAccounted OneCopyPerLabel
 
CHECK_DEADLOCK FALSE
