\* As the tracker of MCParts.cfg, with jumps of exactly the width of the ACK word too.
SPECIFICATION TrackerSpec
CONSTANTS
  SeqMod = 12
  AckHistory = 3
  MaxIndex = 15
  Jumps = {1, 2, 3, 4, 5}
INVARIANT BitsSound
CHECK_DEADLOCK FALSE
