CONSTANTS
  Timeout = 5
  PingPeriod = 2
  PingGrace = 8
  RetryAfter = 2
  Latency = 1
  MaxFrames = 1
  MaxOutages = 2
SPECIFICATION LoopFairSpec
INVARIANTS LiveIsKept RefusedOnlyAfterOutage
PROPERTIES HalfOpenIsNoticed Reconnects
