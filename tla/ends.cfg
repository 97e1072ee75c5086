SPECIFICATION FairSpec
CONSTANTS
  a = a
  b = b
  r1 = r1
  r2 = r2
  Job <- SoloJobs
  NoJob = NoJob
  Repo = {r1, r2}
  GlobalKey = GlobalKey
  NoKey = NoKey
  Cost <- SoloCost
  Local <- SoloLocal
  Class <- SoloClass
  RepoOf <- SoloRepo
  UsesServer <- SoloJobs
  Straggles <- SoloJobs
  InitLimit <- OneEach
  LimitChoices <- NoLanes
  MaxGestures = 5
PROPERTIES
  CancelEnds
  CloseReturns
CHECK_DEADLOCK FALSE
