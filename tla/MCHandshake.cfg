\* Three units to the deadline and two between retries, so that the deadline falls
\* between two retries; two sessions, one of which the client adopts; a keepalive
\* that may find a silent peer still in time.
SPECIFICATION FairSpec
CONSTANTS
  MaxConnects = 1
  maxHandshakeMs = 3
  DefaultTimeout = 100
  MinRetry = 2
  MaxRetry = 20
  EncodeCanFail = TRUE
  keepaliveMs = 1
  timeoutMs = 1
  MaxSessions = 2
INVARIANTS CompletesOnce EndsByDeadline PeersAgree HalfOpenBounded
PROPERTY ConnectComesToRest
