\* Unordered channel, window 3, ACK word of 1 bit: the window outruns the word.
SPECIFICATION FairSpec
CONSTANTS
  SeqMod = 8
  AckHistory = 1
  Ordered = FALSE
  ConfiguredWindow = 3
  CongestionWindows = {3}
  EncodeCanFail = FALSE
  SendCanFail = FALSE
  NoPacket = NoPacket
  MaxMsgs = 3
  NetCapacity = 3
  Lifetime = 3
PROPERTY EventuallyDelivered
CHECK_DEADLOCK FALSE
