SPECIFICATION Spec
CONSTANTS
  logicalRegSize = 2
  PRFsize = 4
  noOfCheckpoint = 2
  activeListSize = 2
  dispatch_width = 2
  Program <- MixedProgram
  GBMBits = 3
  IntBits = 2
INVARIANTS TypeOK RegistersPartitioned MapsFollowProgramOrder MasksNameOlderBranches ActiveListInProgramOrder
