SPECIFICATION Spec
CONSTANTS
  Setups <- MCSetups
  Rounds = 2
INVARIANT BondEncrypts
CHECK_DEADLOCK FALSE
