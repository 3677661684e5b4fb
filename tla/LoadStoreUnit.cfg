SPECIFICATION Spec
CONSTANTS
  LQsize = 2
  SQsize = 2
  ActiveListSize = 3
  Accesses <- MCAccesses
  Faults <- MCFaults
  Value = {v0, v1}
  SPEC_DISAMBIG = TRUE
  NoAccess = NoAccess
  NoValue = NoValue
SYMMETRY ValueSymmetry
INVARIANTS TypeOK QueuesHoldSurvivors UnflaggedLoadsAreRight
