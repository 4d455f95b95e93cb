\* Ordered channel whose window does not divide the number of sequence numbers.
SPECIFICATION Spec
CONSTANTS
  SeqMod = 10
  AckHistory = 4
  Ordered = TRUE
  ConfiguredWindow = 3
  CongestionWindows = {2}
  EncodeCanFail = FALSE
  SendCanFail = FALSE
  NoPacket = NoPacket
  MaxMsgs = 11
  NetCapacity = 1
  Lifetime = 1
INVARIANT AckSound
CHECK_DEADLOCK FALSE
