SPECIFICATION ConnectorSpec
CONSTANTS
  Commands = {}
  MetricsEnabled = FALSE
  MayStop = FALSE
  MaxLinks = 1
  MaxFailures = 40
INVARIANTS RetriesForever
CHECK_DEADLOCK FALSE
