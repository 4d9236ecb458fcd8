SPECIFICATION FairSpec
CONSTANTS
  PingPeriod = 2
  PongTimeout = 1
  MissLimit = 2
  QueueLen = 2
  MaxDelay = 0
  Conforming = FALSE
  Prompt = FALSE
  Overlaps = TRUE
  id1 = id1
  id2 = id2
  PingIds <- MCPingIds
INVARIANTS TypeOK Watched PongTimed RestartJustified
PROPERTIES LoginInOrder LinkAsPromised DeadServerNoticed
