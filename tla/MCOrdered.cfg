\* Ordered channel, window 2: every failure, no wrap of the sequence numbers.
SPECIFICATION Spec
CONSTANTS
  SeqMod = 16
  AckHistory = 3
  Ordered = TRUE
  ConfiguredWindow = 2
  CongestionWindows = {1, 2}
  EncodeCanFail = TRUE
  SendCanFail = TRUE
  NoPacket = NoPacket
  MaxMsgs = 4
  NetCapacity = 2
  Lifetime = 4
INVARIANTS TypeOK InFlightExact NumbersSound Accounted
PROPERTY StreamSpec
CHECK_DEADLOCK FALSE
