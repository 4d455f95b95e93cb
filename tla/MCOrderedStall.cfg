\* Ordered channel, window 2: a refused send uses up its sequence number.
SPECIFICATION FairSpec
CONSTANTS
  SeqMod = 8
  AckHistory = 3
  Ordered = TRUE
  ConfiguredWindow = 2
  CongestionWindows = {2}
  EncodeCanFail = FALSE
  SendCanFail = FALSE
  NoPacket = NoPacket
  MaxMsgs = 4
  NetCapacity = 4
  Lifetime = 4
PROPERTY EventuallyDelivered
CHECK_DEADLOCK FALSE
