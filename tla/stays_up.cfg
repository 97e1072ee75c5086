SPECIFICATION Spec
CONSTANTS
  a = a
  b = b
  s1 = s1
  s2 = s2
  idler = idler
  Job = {a, b}
  Idlers = {idler}
  Starter = Starter
  Stopper = Stopper
  Quitter = Quitter
  Server = {s1, s2}
  NoServer = NoServer
  Unit = Unit
  Route = "detached"
  OneShot = FALSE
  MaxTakes = 3
  MaxClicks = 0
PROPERTIES
  StaysUpForLeases
CHECK_DEADLOCK FALSE
