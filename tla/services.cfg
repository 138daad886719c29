\* Each service alone, its requests, goroutines and peers in any order.
SPECIFICATION Spec
CONSTANTS
  Commands = {m1, m2}
  MetricsEnabled = TRUE
  MayStop = TRUE
  MaxLinks = 2
  MaxFailures = 1
  r1 = r1
  r2 = r2
  Records = {r1, r2}
  KindOf <- KindOfRecord
  Pushes = {q1, q2}
  BatchSize = 1
  MaxStores = 3
  MaxTicks = 2
  Videos = {v1}
  NoVideo = NoVideo
  f1 = f1
  Finishers = {f1, f2}
  Togglers = {g1}
  MaxRows = 3
  MaxEvents = 2
  t1 = t1
  t2 = t2
  Targets = {t1, t2}
  NoTarget = NoTarget
  MaxEdits = 2
  Viewers = {w1, w2}
  b1 = b1
  Broadcasters = {b1}
  Ticker = b1
  ViewerCap = 1
  BroadcastCap = 1
  Uploads = {u1}
  NoOne = NoOne
  Chunkers = {c1, c2, c3}
  Mergers = {n1, n2}
  Savers = {s1}
  PartCount = 2
  ChunkCap = 2
  MergeCap = 1
  Askers = {a1, a2, a3}
  NoAsker = NoAsker
  Cancellers = {k1}
  y2 = y2
  Clips = {y1, y2}
  NoClip = NoClip
  Sockets = {p1, p2}
  NoPage = NoPage
  MaxCalls = 2
  MaxReports = 1
  Pages <- CommentPagesMC
  Embedded <- EmbeddedMC
  ReplyPages <- ReplyPagesMC
  LimitChoices <- LimitsMC
  MaxAttempts = 3
  Works = {x1, x2, x3}
  WorkLimit = 2
  MaxPages = 4
  NoProgressCap = 2
  MaxAccounts = 1
  MaxTries = 2
INVARIANTS
  ServicesTypeOK
  HealthyLinkKept
  CommandsAnswered
  LossesExplained
  CompletedIsRecorded
  CrashExplained
  DamageExplained
  DownloadsApart
  SleepersCanWake
  HonestPageKept
  NothingLostSilently
  SearchBounded
  SmokeAccounted
PROPERTIES
  RequeueExplained
CHECK_DEADLOCK FALSE
