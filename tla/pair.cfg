SPECIFICATION Spec
CONSTANTS
  a = a
  b = b
  r1 = r1
  r2 = r2
  Job <- PairJobs
  NoJob = NoJob
  Repo = {r1, r2}
  GlobalKey = GlobalKey
  NoKey = NoKey
  Cost <- PairCost
  Local <- PairLocal
  Class <- PairClass
  RepoOf <- PairRepo
  UsesServer <- PairJobs
  Straggles <- PairJobs
  InitLimit <- TwoLocal
  LimitChoices <- NoLanes
  MaxGestures = 3
INVARIANTS
  OutputExclusive
  LeaseCoversProcess
  PauseMatchesProcess
  LeaseReturned
  NothingOutlivesClose
SYMMETRY PairSymmetry
CHECK_DEADLOCK FALSE
