SPECIFICATION Spec
CONSTANTS
  c1 = c1
  c2 = c2
  v1 = v1
  v2 = v2
  w1 = w1
  w2 = w2
  NoPath = NoPath
  Clients <- OneClient
  Videos <- TwoVideos
  Name <- SameName
  Lists <- OneList
  Forces <- NotForced
  Workers <- TwoWorkers
  ResumeModes <- ResumeOn
  MaxRetries = 1
  MaxRuns = 2
  MaxTransfers = 2
INVARIANTS DoneIsOnDisk
CHECK_DEADLOCK FALSE
