SPECIFICATION Spec
CONSTANTS
  a = a
  b = b
  r1 = r1
  r2 = r2
  Job <- PairJobs
  NoJob = NoJob
  Repo = {r1, r2}
  GlobalKey = GlobalKey
  NoKey = NoKey
  Cost <- GlobalCost
  Local <- BilledLocal
  Class <- GlobalClass
  RepoOf <- GlobalRepo
  UsesServer = {}
  Straggles <- PairJobs
  InitLimit <- TwoFree
  LimitChoices <- NoLanes
  MaxGestures = 2
PROPERTIES
  Implements
CHECK_DEADLOCK FALSE
