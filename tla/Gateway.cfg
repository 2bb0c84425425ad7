SPECIFICATION FairGateway
CONSTANTS
  MaxInFlight = 1
  MaxBackoff = 2
  Conns = 2
  Codes = {0, 4004}
  MaxLosses = 3
  MaxWorkers = 1
  k1 = k1  k2 = k2
  MaxTaken = 2
  Closers = {k1, k2}
  Backoffs = 1
CHECK_DEADLOCK FALSE
INVARIANTS
  HeartbeatIsOwn
  ReturnsAlone
  BackoffFollowsLosses
  NilMeansGone
PROPERTIES
  OneRuntime
  StaysConnected
  AllEnds
