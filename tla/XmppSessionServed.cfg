SPECIFICATION ServedSpec
CONSTANTS
  PingPeriod = 120
  PongTimeout = 3
  MissLimit = 3
  QueueLen = 2
  MaxDelay = 2
  Conforming = TRUE
  Prompt = TRUE
  Overlaps = FALSE
  id1 = id1
  id2 = id2
  PingIds <- MCPingIds
INVARIANT NeverMissed
PROPERTY LoginCompletes
