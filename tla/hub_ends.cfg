SPECIFICATION FairSpec
CONSTANTS
  k1 = k1
  k2 = k2
  p1 = p1
  p2 = p2
  c1 = c1
  c2 = c2
  c3 = c3
  NoConn = NoConn
  Callers <- TwoCallers
  Pages <- OnePage
  Conns <- OneConn
  PageOf <- Reconnects
  Workers = 1
  SendCap = 1
  QueueCap = 1
  ChanCap = 2
  LeastConnection = TRUE
  MaxCalls = 2
  MaxNotices = 1
  MaxRestarts = 0
  WireCap = 1
CHECK_DEADLOCK FALSE
PROPERTIES ClosedLeaves CallEnds
