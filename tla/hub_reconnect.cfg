SPECIFICATION Spec
CONSTANTS
  k1 = k1
  k2 = k2
  p1 = p1
  p2 = p2
  c1 = c1
  c2 = c2
  c3 = c3
  NoConn = NoConn
  Callers <- TwoCallers
  Pages <- OnePage
  Conns <- TwoConns
  PageOf <- Reconnects
  Workers = 1
  SendCap = 1
  QueueCap = 1
  ChanCap = 2
  LeastConnection = FALSE
  MaxCalls = 2
  MaxNotices = 0
  MaxRestarts = 1
  WireCap = 1
SYMMETRY Symmetric
INVARIANTS TypeOK OwnAnswer NothingLeaks LoadIsCalls RegistryFollowsPumps
PROPERTIES CallsImplemented
CHECK_DEADLOCK FALSE
