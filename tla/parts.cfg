SPECIFICATION Spec
CONSTANTS
  r1 = r1
  r2 = r2
  Repos = {r1, r2}
  MaxJobs = 2
  Cap = 6
  TrimFraction = 4
  MarkEdge = 1
  RetiredBytes = 3
  Chunks <- Pieces
  Views <- Logs
  MaxHistory = 1
  Crashes = 1
  away = away
  theBoard = theBoard
  Transcripts = {away}
  Programs = {theBoard}
  Headless = {}
  Lists <- Everything
  Retain = 3
  PendingTTL = 1
  MaxTime = 4
  onBoard = onBoard
  byScan = byScan
  byJob = byJob
  Covers <- Coverage
  MaxBuilds = 3
  board = board
  peer = peer
  older = older
  newer = newer
  go = go
  zen = zen
  cheap = cheap
  Processes = {board, peer}
  Plans = {go, zen}
  Served <- Versions
  Go = go
  Models = {cheap}
  NoModel = NoModel
  Default <- Defaults
  MaxRuns <- Submits
  scanner = scanner
  Readers = {scanner}
  Indexed = {r1}
  Moves = 2
  own = own
  as = as
  Tags = {own, as}
  Base <- TwoNames
  Enrolls = FALSE
  Events = 3
  Envs <- Machines
  Pins <- SomePins
  Overrides <- SomeOverrides
  Overlays = {"", "typed"}
  ConfirmBatchAt = 5
  MaxFlips = 1
  MaxGen = 3
  Lanes <- OneClass
  DoneRows = 1
INVARIANTS
  LogTells
  NeverBilledUnasked
  ReadIsCounted
  AcceptedIsServed
  CachedIsCurrent
  MembershipShown
  RoutingTells
PROPERTIES
  QueueSurvives
  NoneDropped
  DockTells
CHECK_DEADLOCK FALSE
