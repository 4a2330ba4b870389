SPECIFICATION Spec
CONSTANTS
  Setups <- MCSetups
  Rounds = 2
INVARIANT DriveReturnsKeys
CHECK_DEADLOCK FALSE
