\* Ordered channel, window 1, no failing send.
SPECIFICATION FairSpec
CONSTANTS
  SeqMod = 8
  AckHistory = 3
  Ordered = TRUE
  ConfiguredWindow = 1
  CongestionWindows = {1}
  EncodeCanFail = FALSE
  SendCanFail = FALSE
  NoPacket = NoPacket
  MaxMsgs = 3
  NetCapacity = 3
  Lifetime = 3
PROPERTIES FairStreamSpec EventuallyReleased
CHECK_DEADLOCK FALSE
