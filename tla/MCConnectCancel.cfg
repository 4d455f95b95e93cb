\* As MCHandshake.cfg, with two calls of asyncConnect on one connector.
SPECIFICATION Spec
CONSTANTS
  MaxConnects = 2
  maxHandshakeMs = 5
  DefaultTimeout = 100
  MinRetry = 2
  MaxRetry = 20
  EncodeCanFail = FALSE
  keepaliveMs = 1
  timeoutMs = 1
  MaxSessions = 2
INVARIANT CancelAborts
