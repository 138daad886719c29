\* Ends that must come.
SPECIFICATION Spec
CONSTANTS
  Commands = {}
  MetricsEnabled = FALSE
  MayStop = TRUE
  MaxLinks = 3
  MaxFailures = 2
  Videos = {v1}
  NoVideo = NoVideo
  Finishers = {f1}
  Togglers = {g1}
  MaxRows = 1
  MaxEvents = 0
  Targets = {t1, t2}
  NoTarget = NoTarget
  MaxEdits = 0
  Viewers = {w1}
  Broadcasters = {b1}
  Ticker = b1
  ViewerCap = 1
  BroadcastCap = 1
PROPERTIES
  LostLinkReplaced
  RadarStops
  GoneViewerLeaves
CHECK_DEADLOCK FALSE
