----------------------------- MODULE MCSettling -----------------------------
(***************************************************************************)
(* Seven parts of the board that have something to reach: a chain and the  *)
(* history behind it, the state file, the graph scan, the panes, the list, *)
(* discovery and readiness. As in MCParts, one of them moves in every      *)
(* behaviour. The chain and the store stay as they begin when it is not    *)
(* theirs, the others hold nothing.                                        *)
(***************************************************************************)
EXTENDS JobChain, Store, TLC

\* Of the parts, and the model values their instances are made of.
CONSTANTS
  r1, Repos, Graphed, NoRepo, MaxEvents, Lanes, MaxJobs, MaxGen,
  f, g, Sources, Gone, Kinds, Allowances,
  Paths, Folder, All, Chips, Sorts, MaxUses, Moves,
  top, aa, bb, cc, Dirs, Trees, Options, Inits,
  Backends, Ready, MaxFlips

VARIABLES
  part,  \* whose behaviour it is
  kind, tree, clock, head, found, may, graph, manifest, flag, named, build,
  ended, acks, baseline, entry, gen, clears, drops, scan, dirty, row,
  repaired,
  jobs, events, last, selected, tab, page, query,
  disk, rows, uses, busy, landing, tally, chip, group, sort, list, current,
  chosen, moves,
  dirTree, opts, touched, todo, visited, rowsFound, walking, listing, scanned, still,
  up, time, cache, fresh, epoch, refreshing, floor, probes, answer, starter,
  pin, check, banner

graphVars == <<kind, tree, clock, head, found, may, graph, manifest, flag,
               named, build, ended, acks, baseline, entry, gen, clears,
               drops, scan, dirty, row, repaired>>
paneVars == <<jobs, events, last, selected, tab, page, query>>
viewVars == <<disk, rows, uses, busy, landing, tally, chip, group, sort,
              list, current, chosen, moves>>
walkVars == <<dirTree, opts, touched, todo, visited, rowsFound, walking,
             listing, scanned, still>>
probeVars == <<up, time, cache, fresh, epoch, refreshing, floor, probes,
               answer, starter, pin, check, banner>>

Graph == INSTANCE GraphScan
Pane == INSTANCE Panes WITH row <- selected
View == INSTANCE BoardView WITH scan <- landing
Walk == INSTANCE Discovery WITH tree <- dirTree, rows <- rowsFound, found <- scanned
Probe == INSTANCE Readiness

ASSUME Graph!GraphScanAssumptions
ASSUME WalkAssumed == Walk!DiscoveryAssumptions

-----------------------------------------------------------------------------
Parts == {"chain", "store", "graph", "panes", "view", "discovery", "readiness"}
Off == "off"

SettlingInit ==
  /\ part \in Parts
  /\ ChainInit /\ Init
  /\ IF part = "graph" THEN Graph!GraphInit
     ELSE /\ kind = Off /\ tree = Off /\ clock = Off /\ head = Off
          /\ found = Off /\ may = Off /\ graph = Off /\ manifest = Off
          /\ flag = Off /\ named = Off /\ build = Off /\ ended = Off
          /\ acks = Off /\ baseline = Off /\ entry = Off /\ gen = Off
          /\ clears = Off /\ drops = Off /\ scan = Off /\ dirty = Off
          /\ row = Off /\ repaired = Off
  /\ IF part = "panes" THEN Pane!PanesInit
     ELSE /\ jobs = Off /\ events = Off /\ last = Off /\ selected = Off
          /\ tab = Off /\ page = Off /\ query = Off
  /\ IF part = "view" THEN View!ViewInit
     ELSE /\ disk = Off /\ rows = Off /\ uses = Off /\ busy = Off
          /\ landing = Off /\ tally = Off /\ chip = Off /\ group = Off
          /\ sort = Off /\ list = Off /\ current = Off /\ chosen = Off
          /\ moves = Off
  /\ IF part = "discovery" THEN Walk!DiscoveryInit
     ELSE /\ dirTree = Off /\ opts = Off /\ touched = Off /\ todo = Off
          /\ visited = Off /\ rowsFound = Off /\ walking = Off
          /\ listing = Off /\ scanned = Off /\ still = Off
  /\ IF part = "readiness" THEN Probe!ReadinessInit
     ELSE /\ up = Off /\ time = Off /\ cache = Off /\ fresh = Off
          /\ epoch = Off /\ refreshing = Off /\ floor = Off /\ probes = Off
          /\ answer = Off /\ starter = Off /\ pin = Off /\ check = Off
          /\ banner = Off

Others(p) ==
  /\ UNCHANGED part
  /\ IF p = "chain" THEN TRUE ELSE UNCHANGED chainVars
  /\ IF p = "store" THEN TRUE ELSE UNCHANGED vars
  /\ IF p = "graph" THEN TRUE ELSE UNCHANGED graphVars
  /\ IF p = "panes" THEN TRUE ELSE UNCHANGED paneVars
  /\ IF p = "view" THEN TRUE ELSE UNCHANGED viewVars
  /\ IF p = "discovery" THEN TRUE ELSE UNCHANGED walkVars
  /\ IF p = "readiness" THEN TRUE ELSE UNCHANGED probeVars

ChainStep == part = "chain" /\ ChainNext /\ Others("chain")
StoreStep == part = "store" /\ Next /\ Others("store")
GraphStep == part = "graph" /\ Graph!GraphNext /\ Others("graph")
PaneStep == part = "panes" /\ Pane!PanesNext /\ Others("panes")
ViewStep == part = "view" /\ View!ViewNext /\ Others("view")
WalkStep == part = "discovery" /\ Walk!DiscoveryNext /\ Others("discovery")
ProbeStep == part = "readiness" /\ Probe!ReadinessNext /\ Others("readiness")

SettlingNext ==
  \/ ChainStep
  \/ StoreStep
  \/ GraphStep
  \/ PaneStep
  \/ ViewStep
  \/ WalkStep
  \/ ProbeStep

settlingVars ==
  <<part, chainVars, vars, graphVars, paneVars, viewVars, walkVars, probeVars>>

\* The variables of the part that moves.
moving ==
  CASE part = "chain" -> chainVars
    [] part = "store" -> vars
    [] part = "graph" -> graphVars
    [] part = "panes" -> paneVars
    [] part = "view" -> viewVars
    [] part = "discovery" -> walkVars
    [] part = "readiness" -> probeVars

\* The fairness of each part's own specification. A condition here is one of
\* every part that has another: only the part that moves has steps.
Fair ==
  /\ WF_moving(UNCHANGED part /\ (
        \/ part = "chain" /\ Chain
        \/ part = "store" /\ Schedule(Main)
        \/ part = "graph" /\ (Graph!BuildReads \/ Graph!BuildEnds)
        \/ part = "panes" /\ Pane!OnJobEvent
        \/ part = "view" /\ View!ScanStarts
        \/ part = "discovery" /\ (Walk!WalkStarts \/ Walk!WalkRoot \/ Walk!WalkEnds)
        \/ part = "readiness" /\ Probe!Expires))
  /\ WF_moving(UNCHANGED part /\ (
        \/ part = "store" /\ Schedule(Scanner)
        \/ part = "graph" /\ Graph!RefreshTick
        \/ part = "panes" /\ Pane!Tick
        \/ part = "view" /\ View!SetRows
        \/ part = "readiness" /\ Probe!Rechecks))
  /\ WF_moving(UNCHANGED part /\ (
        \/ part = "store" /\ \E c \in Callbacks : Fire(c)
        \/ part = "graph" /\ Graph!ScanSteps
        \/ part = "view" /\ View!RefreshUsage
        \/ part = "readiness" /\ Probe!VerdictAsks))
  /\ WF_moving(UNCHANGED part /\ (
        \/ part = "store" /\ Saving(Main)
        \/ part = "graph" /\ Graph!OnJobEvent
        \/ part = "view" /\ View!PublishUsage
        \/ part = "readiness" /\ Probe!ShowBackendVerdict))
  /\ WF_moving(UNCHANGED part /\ (
        \/ part = "graph" /\ Graph!AckSteps
        \/ part = "readiness" /\ Probe!Measures("background")))
  /\ WF_moving(UNCHANGED part /\ (part = "readiness" /\ Probe!ProbeStored("background")))
  /\ SF_moving(UNCHANGED part /\ (
        \/ part = "graph" /\ Graph!Ages
        \/ part = "discovery" /\ Walk!Forget))
  /\ \A c \in Callbacks : WF_moving(UNCHANGED part /\ (part = "store" /\ Saving(c)))
  /\ \A c \in {"check", "starter"} :
       /\ WF_moving(UNCHANGED part /\ (part = "readiness" /\ Probe!Measures(c)))
       /\ WF_moving(UNCHANGED part /\ (part = "readiness" /\ Probe!ProbeStored(c)))

SettlingSpec == SettlingInit /\ [][SettlingNext]_settlingVars /\ Fair

-----------------------------------------------------------------------------
(***************************************************************************)
(* The properties of the parts, each in the behaviours of its own part.    *)
(***************************************************************************)
\* The thread shows what it has been told: the cells and the order of the list
\* are those of the rows it has, an answer stands beside its question, a Jobs page
\* that waits for no event shows the newest job, and what the caches answer with
\* was found after they were last told to forget.
WindowTells ==
  /\ part = "view" => View!BoardTells
  /\ part = "panes" => Pane!AnswersPaired /\ Pane!EventsTold
  /\ part = "graph" => Graph!CacheNeverSuperseded
  /\ part = "readiness" => Probe!NothingOlder

\* What a scan brings: a walk that nothing disturbs gives each checkout its row, one,
\* and nothing else (walkRoot), and the cursor stays on the row it was on (setRows).
ScanKeeps ==
  [][/\ part = "discovery" => Walk!WalkTells
     /\ part = "view" => View!CursorKept]_settlingVars

\* The window catches up with the world: the walk finds every checkout, the list
\* shows those that match, a repair that nobody disturbs clears its row, a Jobs page
\* shows the end of its job, and a banner comes down when its back end works.
CatchingUp ==
  \/ part = "graph" /\ Graph!Repaired
  \/ part = "panes" /\ \E r \in Repos : Pane!Ended(r)
  \/ part = "readiness" /\ banner /\ Probe!PinReady
CaughtUp ==
  /\ part = "graph" => row.state # "stale" \/ ~Graph!Repaired
  /\ part = "panes" => \A r \in Repos : Pane!PageTells(r)
  /\ part = "readiness" => ~banner \/ ~Probe!PinReady
AtRest ==
  /\ part = "discovery" => Walk!FoundAll
  /\ part = "view" => View!ShowsDisk
WindowSettles ==
  /\ <>[]AtRest
  /\ CatchingUp ~> CaughtUp

-----------------------------------------------------------------------------
(***************************************************************************)
(* The instances.                                                          *)
(***************************************************************************)
\* Two files, one of them code; what is edited, committed, run and moved.
TwoKinds == {[x \in Sources |-> IF x = f THEN "code" ELSE k] : k \in {"thin", "silent"}}
Allow(e, c, b, m, r, names) ==
  [edits |-> e, commits |-> c, builds |-> b, moves |-> m, removes |-> r, names |-> names]
Some == {Allow(1, 0, 1, 0, TRUE, {"update"}), Allow(0, 1, 1, 0, FALSE, {"update"}),
         Allow(0, 0, 1, 1, FALSE, {"update", "label"})}

OneClass == [free |-> 1]

TwoFolders == [p \in Paths |-> IF p = "/a/x" THEN "/a" ELSE "/b"]

\* bb holds a link to aa, and cc one back to the top.
Named == <<top, aa, bb, cc>>
AllDirs == {top, aa, bb, cc}
Linked == [d \in AllDirs |-> CASE d = top -> {aa, bb} [] d = aa -> {cc} [] d = bb -> {aa} [] d = cc -> {top}]
Kind(a, b, c) == [d \in AllDirs |-> CASE d = top -> "plain" [] d = aa -> a [] d = bb -> b [] d = cc -> c]
OneRoot == {[entries |-> Linked, kind |-> Kind(a, b, c), hidden |-> h, graphed |-> y, roots |-> <<top>>] :
              a \in {"plain", "checkout"}, b \in {"plain", "worktree"}, c \in {"plain", "damaged"},
              h \in {{}, {bb}}, y \in {{}, {cc}}}
Wide == {[depth |-> 3, showHidden |-> h, showWorktrees |-> TRUE] : h \in BOOLEAN}
=============================================================================
