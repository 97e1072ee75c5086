SPECIFICATION SettlingSpec
CONSTANTS
  Steps = 3
  History = 4
  KeepFullFailures = 2
  MaxRetired = 7
  Main = Main
  Scanner = Scanner
  Callbacks = {c1, c2}
  NoSaver = NoSaver
  Absent = Absent
  Garbled = Garbled
  Unreadable = Unreadable
  MaxChanges = 2
  f = f
  g = g
  Sources = {f, g}
  Gone = Gone
  Kinds <- TwoKinds
  Allowances <- Some
  NoRepo = NoRepo
  r1 = r1
  Repos = {r1}
  Graphed = {r1}
  Lanes <- OneClass
  MaxJobs = 2
  MaxEvents = 2
  MaxGen = 2
  Paths = {"/a/x", "/b/y"}
  Folder <- TwoFolders
  All = "all"
  Chips = {"all", "gap", "running"}
  Sorts = {"state", "usage"}
  MaxUses = 1
  Moves = 2
  top = top
  aa = aa
  bb = bb
  cc = cc
  Dirs <- Named
  Trees <- OneRoot
  Options <- Wide
  Inits = 2
  Backends = {"ollama", "claude"}
  Ready = {"claude"}
  MaxFlips = 2
INVARIANTS
  ChainTells
  HistoryKept
  SavedOrSaid
  WindowTells
PROPERTIES
  ScanKeeps
  FileKept
  ChainEnds
  EventuallySaved
  WindowSettles
CHECK_DEADLOCK FALSE
