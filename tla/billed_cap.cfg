SPECIFICATION Spec
CONSTANTS
  r1 = r1
  r2 = r2
  w = w
  t = t
  Order <- TwoRepos
  Tags = {t}
  Enrollable = {r1}
  Excluded = {}
  BilledPin = TRUE
  MaxRunning = 1
  Attempts = 2
  Cooldown = 1
  MeteredPerDay = 1
  Window = 3
  MaxFleet = 1
  Scenarios <- LocalAndBilled
INVARIANT
  BilledWithinBudget
CHECK_DEADLOCK FALSE
