SPECIFICATION Spec
CONSTANTS
  Programs = {"Client-all", "Client-send", "Client-recv", "ClientGUI", "ChannelUnitForward", "ChannelForwardGUI", "ChannelUnitBackward"}
  Radix = 2
  Lengths = {1, 2, 3}
  MaxMissing = 2
INVARIANTS ConfigRead ReachableIsConfigured TableIsPrefix
CHECK_DEADLOCK FALSE
