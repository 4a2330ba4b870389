SPECIFICATION FairSpec
CONSTANTS
  MaxCredits = 3
  Sizes <- SmallSizes
  InitialSize <- SmallestSize
  MaxBytes = 6
  MaxWrite = 4
  MaxReconfigs = 2
INVARIANTS
  Faithful
PROPERTIES
  ImplementsFlow
  AllDelivered
CHECK_DEADLOCK FALSE
