SPECIFICATION Spec
CONSTANTS
  Managers = {a, b}
  Cids <- TwoCids
  MaxChannels = 2
  MaxConnects = 4
  MaxDisconnects = 2
  MaxAborts = 1
  MaxData = 1
INVARIANTS
  TablesSound
  ChannelsApart
PROPERTIES
  ClosesItsOwn
SYMMETRY Symmetry
CHECK_DEADLOCK FALSE
