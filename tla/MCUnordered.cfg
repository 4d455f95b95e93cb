\* Unordered channel; the ACK word reaches back over the whole stream.
SPECIFICATION FairSpec
CONSTANTS
  SeqMod = 8
  AckHistory = 3
  Ordered = FALSE
  ConfiguredWindow = 2
  CongestionWindows = {2}
  EncodeCanFail = FALSE
  SendCanFail = TRUE
  NoPacket = NoPacket
  MaxMsgs = 3
  NetCapacity = 3
  Lifetime = 3
INVARIANTS AtMostOnce AckSound
PROPERTIES EventuallyDelivered EventuallyReleased
CHECK_DEADLOCK FALSE
