\* Ordered channel, window 2, past the wrap of the sequence numbers.
SPECIFICATION Spec
CONSTANTS
  SeqMod = 8
  AckHistory = 3
  Ordered = TRUE
  ConfiguredWindow = 2
  CongestionWindows = {2}
  EncodeCanFail = FALSE
  SendCanFail = FALSE
  NoPacket = NoPacket
  MaxMsgs = 10
  NetCapacity = 1
  Lifetime = 1
INVARIANTS OrderedPrefix AckSound
CHECK_DEADLOCK FALSE
