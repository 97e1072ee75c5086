SPECIFICATION OwnedSpec
CONSTANTS
  a = a
  b = b
  s1 = s1
  s2 = s2
  idler = idler
  Job = {a, b}
  Idlers = {idler}
  Starter = Starter
  Stopper = Stopper
  Quitter = Quitter
  Server = {s1, s2}
  NoServer = NoServer
  Unit = Unit
  Route = "detached"
  OneShot = FALSE
  MaxTakes = 3
  MaxClicks = 1
INVARIANTS
  CountsLeases
  NothingOutlivesOwner
PROPERTIES
  NeverStopsForeign
  IdleStopsOnBoard
CHECK_DEADLOCK FALSE
