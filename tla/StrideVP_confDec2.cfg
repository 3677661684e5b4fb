SPECIFICATION Spec
CONSTANTS
  PCs = {0}
  VPQsize = 2
  dispatch_width = 2
  ActiveListSize = 3
  SVPEntries = 1
  SVPTags = 1
  confMax = 2
  confInc = 1
  confDec = 2
  replace_stride = 0
  Replace = 0
  oracleConf = FALSE
  ValueMod = 2
  ConfMod = 4
  InstanceMod = 8
INVARIANTS ConfidenceSaturates
