SPECIFICATION MCSpec
CONSTANTS
  Setups <- MCSetups
  Rounds = 2
  a = a
  b = b
INVARIANTS
  Mirrored
  NothingLeftWaiting
  ReportsWhole
  
  
  BothEndsAgree
  PairingSound
  MessageInPlace
  
  UpToDate
SYMMETRY Symmetry
CHECK_DEADLOCK FALSE
