SPECIFICATION FairSpec
CONSTANTS
  a = a
  b = b
  r = r
  Job <- TwoJobs
  Repo = {r}
  RepoOf <- SameRow
  Restored <- OneRestored
  Capacity = 1
  MaxToggles = 1
INVARIANTS
  NeverSendsOnClosed
  NewestShown
PROPERTIES
  EventsEnd
CHECK_DEADLOCK FALSE
