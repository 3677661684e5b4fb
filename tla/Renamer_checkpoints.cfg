SPECIFICATION Spec
CONSTANTS
  logicalRegSize = 2
  PRFsize = 6
  noOfCheckpoint = 4
  activeListSize = 4
  dispatch_width = 2
  Program <- BranchyProgram
  GBMBits = 4
  IntBits = 3
INVARIANTS CheckpointFound
