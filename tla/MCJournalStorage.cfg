CONSTANTS
  Trigram <- MCTrigram
  Batches <- MCBatches
  Id = {1, 2}
  Inode = {i1, i2, i3}
  Query = {}
  None = None
  Faults = {"append", "publish", "copy", "prepareData", "prepareTail"}
  MaxBlocks = 6
  MaxGeneration = 3
VIEW View
SYMMETRY InodeSymmetry
SPECIFICATION Spec
INVARIANTS TypeOK FragmentsBounded TablesAreDurable 
  
CHECK_DEADLOCK FALSE
