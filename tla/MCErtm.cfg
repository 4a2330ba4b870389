SPECIFICATION FairSpec
CONSTANTS
  Modulus = 3
  TxWindowSize = 2
  MaxRetransmissions <- OneLimited
  MaxSegments = 2
  MaxSdus <- BothWays
  MaxLosses = 1
  MaxTransmissions = 3
  MaxBusyChanges = 1
  TimerSlack = 1
INVARIANTS
  SdusIntact
  WindowKept
PROPERTIES
  AllDelivered
CHECK_DEADLOCK FALSE
