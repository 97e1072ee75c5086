SPECIFICATION Spec
CONSTANTS
  a = a
  b = b
  r = r
  Job <- OneJob
  Repo = {r}
  RepoOf <- SameRow
  Restored <- NothingRestored
  Capacity = 1
  MaxToggles = 2
INVARIANTS
  NoRowStuck
CHECK_DEADLOCK FALSE
