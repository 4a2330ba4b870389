SPECIFICATION FairSpec
CONSTANTS
  InitialCredits <- TruncatedOffer
  CreditField = 2
  MaxCredits = 3
  Limits <- SmallLimits
  Mtu = 2
  RxQueueSize = 2
  MaxBytes = 3
  WriteSizes = {1, 3}
INVARIANTS
  ReceiverSound
  CreditsConserved
PROPERTIES
  ImplementsFlow
  AllReceived
CHECK_DEADLOCK FALSE
