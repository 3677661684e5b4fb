SPECIFICATION Spec
CONSTANTS
  PCs = {0, 1}
  VPQsize = 2
  dispatch_width = 2
  ActiveListSize = 3
  SVPEntries = 1
  SVPTags = 2
  confMax = 1
  confInc = 1
  confDec = 1
  replace_stride = 0
  Replace = 0
  oracleConf = FALSE
  ValueMod = 2
  ConfMod = 4
  InstanceMod = 8
INVARIANTS TypeOK VPQInProgramOrder VPQEntryBelongsToOwner InstanceTracksVPQ ConfidenceSaturates
