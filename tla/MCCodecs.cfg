SPECIFICATION MCSpec
CONSTANTS
  HciVariants <- MCHciVariants
  HciChanges <- MCHciChanges
  ReadSizes = {3, 4096}
  Extended <- MCExtended
  Variants <- MCVariants
  Changes <- MCChanges
  FragmentSizes = {27, 1021}
  Links = {1, 2}
  Reliable = {"command", "response", "event", "item", "avc", "lmp"}
  Mtu = 64
  MaxVendorParameters = 100
INVARIANTS StreamFaithful PduFaithful AcceptedCanonical
CHECK_DEADLOCK FALSE
