SPECIFICATION FairSpec
CONSTANTS
  Programs = {"backward", "forward", "gui"}
  HeadLen = 2
  TcpBufSize = 9
  BufferLength = 7
  Lens = {0, 2}
  Clients <- ConfigClients
  Fields <- WindowFields
  Garbage = "?"
  MaxPackets = 3
  MaxErrors = 1
  MaxClicks = 1
INVARIANTS BackwardKeepsAll DisconnectIsReal CallerBufferFits QuietBroadcast AddressesMatch
PROPERTIES FramingSpec Broadcasts
CHECK_DEADLOCK FALSE
