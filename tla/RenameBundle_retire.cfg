SPECIFICATION Spec
CONSTANTS
  VPQsize = 2
  dispatch_width = 2
  VPQ_full_policy = 1
  ActiveListSize = 3
  PAYLOAD_BUFFER_SIZE = 5
INVARIANTS RetiringOwnsHead
