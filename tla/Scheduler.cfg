SPECIFICATION Spec
CONSTANTS
  LogReg = {0}
  Reg = {0, 1, 2}
  IQsize = 2
  num_parts = 1
  IDEAL_AGE_BASED = FALSE
  Depth <- MCDepth
  FULanes <- MCFULanes
  Predictions = {"none", "right", "wrong"}
  ActiveListSize = 3
  NoReg = NoReg
INVARIANTS TypeOK SlotsSharedOut WaitsForAProducer NoStaleRead OnlyRightValuesRetire
