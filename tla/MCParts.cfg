\* The stream of the tracker and of the window helpers and the messages of the
\* unreliable channel are longer than the sequence space; a jump of the tracker
\* is shorter or longer than the ACK word, never exactly as long.
SPECIFICATION Spec
CONSTANTS
  SeqMod = 12
  AckHistory = 3
  MaxIndex = 15
  Jumps = {1, 2, 4, 5}
  EncodeCanFail = TRUE
  MaxMsgs = 14
  NetCapacity = 2
  Lifetime = 3
  MaxOutage = 3
  Priorities = {0, 1}
  MaxJobs = 6
  MaxClears = 2
  PeakRate = 1200
  FloorRate = 1000
  Burst = 4
  Rtts = {0, 1, 3}
  Expiry = 2
  kProbeRttInterval = 3
  Unlimited = 40
  N = 2
  Lag = 2
  MaxStream = 15
  ByteSize = 4
  Basis = 197
  Prime = 19
  XorByte <- BitXor
  U8s = {1, 2}
  U16s = {7, 13}
  U32s = {0, 228}
  MaxPayload = 1
INVARIANTS
  BitsSound BitsComplete Sequenced NewestDelivered Serialized NeverStalls QueueOrdered
  BbrFloor DrainedInOrder AcceptedOnce RefusedOnlyBySlide DecodeSound
PROPERTY CapRestored
CHECK_DEADLOCK FALSE
