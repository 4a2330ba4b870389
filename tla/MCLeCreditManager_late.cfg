SPECIFICATION Spec
CONSTANTS
  Managers = {a, b}
  Cids <- TwoCids
  MaxChannels = 2
  MaxConnects = 2
  MaxDisconnects = 2
  MaxAborts = 0
  MaxData = 0
INVARIANTS
  LateResponsesIgnored
SYMMETRY Symmetry
CHECK_DEADLOCK FALSE
