SPECIFICATION Spec
CONSTANTS
  a = a
  b = b
  r1 = r1
  r2 = r2
  Job <- PairJobs
  NoJob = NoJob
  Repo = {r1, r2}
  GlobalKey = GlobalKey
  NoKey = NoKey
  Cost <- PairCost
  Local <- BilledLocal
  Class <- BilledClass
  RepoOf <- PairRepo
  UsesServer = {}
  Straggles = {}
  InitLimit <- OneEach
  LimitChoices <- MeteredOneOrTwo
  MaxGestures = 3
INVARIANTS
  LaneBound
  NeverUnasked
  NoLostWakeup
SYMMETRY PairSymmetry
CHECK_DEADLOCK FALSE
