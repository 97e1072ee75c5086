------------------------------ MODULE MCParts ------------------------------
(***************************************************************************)
(* Nine parts of the board that meet only through their effects, each on   *)
(* an instance of its own and one of them in every behaviour: the log of a *)
(* job, a relaunch, the usage rollup, the knowledge index, the OpenCode    *)
(* gateway, the graft index, the global graph, the routing of billed work  *)
(* and the dock. The variables of the other parts stand still.             *)
(***************************************************************************)
EXTENDS Integers, Sequences, FiniteSets, TLC

\* Of the parts, and the model values their instances are made of.
CONSTANTS
  r1, r2, Repos, MaxJobs,
  Cap, TrimFraction, MarkEdge, RetiredBytes, Chunks, Views,
  MaxHistory, Crashes,
  away, theBoard, Transcripts, Programs, Headless, Lists, Retain, PendingTTL,
  MaxTime,
  onBoard, byScan, byJob, Covers, MaxBuilds,
  board, peer, older, newer, go, zen, cheap,
  Processes, Plans, Served, Go, Models, NoModel, Default, MaxRuns,
  scanner, Readers, Indexed, Moves,
  own, as, Tags, Base, Enrolls, Events,
  Envs, Pins, Overrides, Overlays, ConfirmBatchAt, MaxFlips,
  MaxGen, Lanes, DoneRows

VARIABLES
  part,  \* whose behaviour it is
  ring, screen, process, look, pane, watcher, main,
  jobList, untold, sidecar, savedJobs, life, crashes, missing, made, consent,
  unasked, parked,
  transcript, now, index, pass, saving, rollup,
  graph, builds, removed, due, entries, flock, snap, draft,
  version, holder, pc, req, root, listed, via, verdicts, refused, file,
  providersLock, providersDraft, queue, runs,
  graft, tree, cache, gen, clears, floor, reader, rows, building, deeps,
  dialog,
  manifest, built, time, scan, dirty, members, screenRows, ticked, question,
  chains,
  env, up, pins, override, overlay, confirm, submitted, changes,
  jobs, dock

logVars == <<ring, screen, process, look, pane, watcher, main>>
relaunchVars == <<jobList, untold, sidecar, savedJobs, life, crashes,
                  missing, made, consent, unasked, parked>>
usageVars == <<transcript, now, index, pass, saving, rollup>>
knowledgeVars == <<graph, builds, removed, due, entries, flock, snap, draft>>
proxyVars == <<version, holder, pc, req, root, listed, via, verdicts,
               refused, file, providersLock, providersDraft, queue, runs>>
graftVars == <<graft, tree, cache, gen, clears, floor, reader, rows,
               building, deeps, dialog>>
globalVars == <<manifest, built, time, scan, dirty, members, screenRows,
                ticked, question, chains>>
routeVars == <<env, up, pins, override, overlay, confirm, submitted, changes>>
panelVars == <<jobs, dock>>

Log == INSTANCE JobLog
Relaunch == INSTANCE Restart
Usage == INSTANCE UsageIndex
Knowledge == INSTANCE KnowledgeIndex
  WITH Checkouts <- Repos
Proxy == INSTANCE Gateway
  WITH flock <- providersLock, draft <- providersDraft
Graft == INSTANCE GraftIndex
  WITH Checkouts <- Indexed
Global == INSTANCE GlobalGraph
  WITH graph <- built, rows <- members, pane <- screenRows, dialog <- question
Route == INSTANCE Routing
  WITH dialog <- confirm, jobs <- submitted
Panel == INSTANCE Dock

ASSUME LogConstants == Log!JobLogAssumptions
ASSUME RelaunchConstants == Relaunch!RestartAssumptions
ASSUME UsageConstants == Usage!UsageAssumptions
ASSUME KnowledgeConstants == Knowledge!KnowledgeAssumptions
ASSUME ProxyConstants == Proxy!GatewayAssumptions
ASSUME GraftConstants == Graft!GraftAssumptions
ASSUME GlobalConstants == Global!GlobalAssumptions
ASSUME RouteConstants == Route!RoutingAssumptions

-----------------------------------------------------------------------------
Parts ==
  {"log", "restart", "usage", "knowledge", "gateway", "graft",
   "global", "routing", "dock"}
Off == "off"

Init ==
  /\ part \in Parts
  /\ IF part = "log" THEN Log!LogInit
     ELSE /\ ring = Off /\ screen = Off /\ process = Off /\ look = Off
          /\ pane = Off /\ watcher = Off /\ main = Off
  /\ IF part = "restart" THEN Relaunch!RestartInit
     ELSE /\ jobList = Off /\ untold = Off /\ sidecar = Off
          /\ savedJobs = Off /\ life = Off /\ crashes = Off /\ missing = Off
          /\ made = Off /\ consent = Off /\ unasked = Off /\ parked = Off
  /\ IF part = "usage" THEN Usage!UsageInit
     ELSE /\ transcript = Off /\ now = Off /\ index = Off /\ pass = Off
          /\ saving = Off /\ rollup = Off
  /\ IF part = "knowledge" THEN Knowledge!KnowledgeInit
     ELSE /\ graph = Off /\ builds = Off /\ removed = Off /\ due = Off
          /\ entries = Off /\ flock = Off /\ snap = Off /\ draft = Off
  /\ IF part = "gateway" THEN Proxy!GatewayInit
     ELSE /\ version = Off /\ holder = Off /\ pc = Off /\ req = Off
          /\ root = Off /\ listed = Off /\ via = Off /\ verdicts = Off
          /\ refused = Off /\ file = Off /\ providersLock = Off
          /\ providersDraft = Off /\ queue = Off /\ runs = Off
  /\ IF part = "graft" THEN Graft!GraftInit
     ELSE /\ graft = Off /\ tree = Off /\ cache = Off /\ gen = Off
          /\ clears = Off /\ floor = Off /\ reader = Off /\ rows = Off
          /\ building = Off /\ deeps = Off /\ dialog = Off
  /\ IF part = "global" THEN Global!GlobalInit
     ELSE /\ manifest = Off /\ built = Off /\ time = Off /\ scan = Off
          /\ dirty = Off /\ members = Off /\ screenRows = Off /\ ticked = Off
          /\ question = Off /\ chains = Off
  /\ IF part = "routing" THEN Route!RoutingInit
     ELSE /\ env = Off /\ up = Off /\ pins = Off /\ override = Off
          /\ overlay = Off /\ confirm = Off /\ submitted = Off
          /\ changes = Off
  /\ IF part = "dock" THEN Panel!DockInit
     ELSE /\ jobs = Off /\ dock = Off

Others(p) ==
  /\ UNCHANGED part
  /\ IF p = "log" THEN TRUE ELSE UNCHANGED logVars
  /\ IF p = "restart" THEN TRUE ELSE UNCHANGED relaunchVars
  /\ IF p = "usage" THEN TRUE ELSE UNCHANGED usageVars
  /\ IF p = "knowledge" THEN TRUE ELSE UNCHANGED knowledgeVars
  /\ IF p = "gateway" THEN TRUE ELSE UNCHANGED proxyVars
  /\ IF p = "graft" THEN TRUE ELSE UNCHANGED graftVars
  /\ IF p = "global" THEN TRUE ELSE UNCHANGED globalVars
  /\ IF p = "routing" THEN TRUE ELSE UNCHANGED routeVars
  /\ IF p = "dock" THEN TRUE ELSE UNCHANGED panelVars

LogStep == part = "log" /\ Log!LogNext /\ Others("log")
RelaunchStep == part = "restart" /\ Relaunch!RestartNext /\ Others("restart")
UsageStep == part = "usage" /\ Usage!UsageNext /\ Others("usage")
KnowledgeStep == part = "knowledge" /\ Knowledge!KnowledgeNext /\ Others("knowledge")
ProxyStep == part = "gateway" /\ Proxy!GatewayNext /\ Others("gateway")
GraftStep == part = "graft" /\ Graft!GraftNext /\ Others("graft")
GlobalStep == part = "global" /\ Global!GlobalNext /\ Others("global")
RouteStep == part = "routing" /\ Route!RoutingNext /\ Others("routing")
PanelStep == part = "dock" /\ Panel!DockNext /\ Others("dock")

Next ==
  \/ LogStep
  \/ RelaunchStep
  \/ UsageStep
  \/ KnowledgeStep
  \/ ProxyStep
  \/ GraftStep
  \/ GlobalStep
  \/ RouteStep
  \/ PanelStep

partsVars ==
  <<part, logVars, relaunchVars, usageVars, knowledgeVars,
    proxyVars, graftVars, globalVars, routeVars, panelVars>>

Spec == Init /\ [][Next]_partsVars

-----------------------------------------------------------------------------
(***************************************************************************)
(* The properties of the parts, each in the behaviours of its own part.    *)
(***************************************************************************)
\* The log of a job loses its oldest whole lines and nothing else, and a view
\* that follows the job shows the whole log when it stops.
LogTells == part = "log" => Log!LosesOnlyOldest /\ Log!WatchedToTheEnd

\* A relaunch starts nothing billed that nobody asked for.
NeverBilledUnasked == part = "restart" => Relaunch!NeverBilledUnasked

\* What was outstanding at a quit is outstanding after the relaunch.
QueueSurvives == [][part = "restart" => Relaunch!QueueKept]_partsVars

\* What the rollup read of a transcript is in its counters once.
ReadIsCounted == part = "usage" => Usage!ReadIsCounted

\* Processes that publish into one file keep each other's entries: in the
\* knowledge index those no scan of theirs covers, in providers.json all of them,
\* a user's included.
NoneDropped ==
  [][/\ part = "knowledge" => Knowledge!KeptEntries
     /\ part = "gateway" => Proxy!KeptProviders]_partsVars

\* A submit goes on only behind a proxy that serves its plan.
AcceptedIsServed == part = "gateway" => Proxy!AcceptedIsServed

\* What the graft cache holds is no older than the key it is kept under.
CachedIsCurrent == part = "graft" => Graft!CachedIsCurrent

\* At rest, every row says of its membership what the manifest does.
MembershipShown == part = "global" => Global!MembershipShown

\* Nothing billed is about to start unless somebody was told that it bills, and
\* a model that was chosen is the one that runs.
RoutingTells == part = "routing" => Route!BillsOnlyAsked /\ Route!ModelSurvives

\* After a tick the dock shows what the runner holds.
DockTells == [][part = "dock" => Panel!TickTells]_partsVars

-----------------------------------------------------------------------------
(***************************************************************************)
(* The instances.                                                          *)
(***************************************************************************)
\* A redraw, a CRLF cut in two, a line, an enormous line, one byte.
LF == 10
CR == 13
Pieces == {<<1>>, <<LF>>, <<CR>>, <<1, LF>>, <<CR, 2, 3>>, <<1, 2, 1, 3, 1>>,
           <<1, CR, LF, 2>>, <<CR, CR, 1>>}
Look(d, w, n) == [dialog |-> d, watched |-> w, writes |-> n]
Logs == {Look(FALSE, FALSE, 5), Look(FALSE, TRUE, 3), Look(TRUE, FALSE, 2)}

\* The board lists the transcripts of every account.
Everything == [p \in Programs |-> Transcripts]

\* The scans of the board and of ggraphify-scan list one checkout of the two; the
\* job puts the entry of either.
Coverage == (onBoard :> {r1}) @@ (byScan :> {r1}) @@ (byJob :> {})

\* Boards of two versions, of which the older does not know Zen's plan.
Versions == (older :> {go}) @@ (newer :> {go, zen})
Defaults == (go :> cheap) @@ (zen :> NoModel)
Submits == [p \in Processes |-> IF p = board THEN 2 ELSE 1]

\* Two repositories whose graphs have a tag each.
TwoNames == [r \in Repos |-> IF r = r1 THEN own ELSE as]

\* A machine with both logins, and one with claude's alone.
Machine(v, o, oc, c) == [vendor |-> v, ollamaVar |-> o, opencode |-> oc, claude |-> c, canStart |-> TRUE]
Machines == {Machine(FALSE, FALSE, TRUE, TRUE), Machine(FALSE, FALSE, FALSE, TRUE)}
Pin(b, h, d) == [backend |-> b, heavy |-> h, deep |-> d, model |-> "chosen"]
SomePins == {Pin("", "", "opencode"), Pin("opencode", "ollama", ""), Pin("claude-cli", "auto", "")}
SomeOverrides == {[backend |-> "ollama", model |-> ""], [backend |-> "claude-cli", model |-> "chosen"]}

OneClass == [free |-> 1]
=============================================================================
