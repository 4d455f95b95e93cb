\* One session, two receives, one send and two disconnects at a time.
SPECIFICATION FairSpec
CONSTANTS
  NoRecv = NoRecv
  Reasons = {"ConnectionReset", "Timeout", "aborted", "BadPacket", "socket", "ChannelClosed"}
  MaxRecvs = 2
  MaxMsgs = 2
  Keepalive = 1
  Timeout = 2
  EncodeCanFail = TRUE
  MaxSends = 1
  MaxDisconnects = 2
INVARIANTS LoopAlive DeadPeerDetected TornDownOnce NoneLost Fifo
PROPERTIES QuietAfterClose CompletedOnce Released DisconnectCloses
CHECK_DEADLOCK FALSE
