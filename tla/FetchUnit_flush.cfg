SPECIFICATION Spec
CONSTANTS
  instr_per_cycle = 2
  cond_branch_per_cycle = 2
  dispatch_width = 2
  fq_size = 5
  rob_size = 2
  PAYLOAD_BUFFER_SIZE = 8
  BQ_SIZE = 3
  bhr_length = 2
  SPLIT_STORES = TRUE
  MaxInFlight = 3
PROPERTY FlushRestoresCommitPoint
