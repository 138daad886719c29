SPECIFICATION FairSpec
CONSTANTS
  c1 = c1
  c2 = c2
  v1 = v1
  v2 = v2
  w1 = w1
  w2 = w2
  NoPath = NoPath
  Clients <- OneClient
  Videos <- OneVideo
  Name <- OwnName
  Lists <- SingleList
  Forces <- NotForced
  Workers <- OneWorker
  ResumeModes <- EitherMode
  MaxRetries = 2
  MaxRuns = 2
  MaxTransfers = 2
INVARIANTS DoneIsOnDisk StoredOnce StopWithoutResume ArtifactsOwned
PROPERTIES DoneIsFinal RunEnds
CHECK_DEADLOCK FALSE
