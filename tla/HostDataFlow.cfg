SPECIFICATION FairSpec
CONSTANTS
  h1 = h1
  h2 = h2
  Handles = {h1, h2}
  Buffers = 2
  DefaultCapacity = 3
  ReportsUnknown = FALSE
  EarlyConnect = FALSE
  MaxPackets = 3
  MaxFragments = 2
  MaxResets = 1
  MaxLinks = 3
INVARIANTS
  TypeOK
  Accounting
  BuffersRespected
  NoIdleWindow
PROPERTIES
  WaitingDrains
CHECK_DEADLOCK FALSE
