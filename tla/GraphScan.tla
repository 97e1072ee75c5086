----------------------------- MODULE GraphScan -----------------------------
(***************************************************************************)
(* How a row of the board comes to say what it says: the derivation of a   *)
(* repository's state (internal/graphstate), the cache of it, the scan     *)
(* that asks for it (board.Scan, App.refresh), and what the board does     *)
(* when graphify has finished with the checkout (onJobEvent, ackDrift).    *)
(*                                                                         *)
(* One checkout is followed. Its files are edited, committed and removed,  *)
(* and graphify runs on it, beside the scan, the acknowledgements and the  *)
(* main thread. A file's time of change counts the edits made before it.   *)
(***************************************************************************)
EXTENDS Integers, Sequences, FiniteSets

CONSTANTS
  Sources,    \* the files of the checkout
  Gone,       \* a file that is not there, or that the manifest does not name
  Kinds,      \* what graphify may make of each file, a set of functions on Sources:
              \* "code" it graphs, "thin" it names in the manifest and draws nothing from,
              \* "silent" it reads and leaves out, "refused" the drift walk passes over
  Allowances  \* how a behaviour may be bounded: the edits, commits, runs, and comings,
              \* goings and rescans there may be, whether files may be deleted, and
              \* what the runs are

GraphScanAssumptions ==
  /\ Kinds \subseteq [Sources -> {"code", "thin", "silent", "refused"}]
  /\ \A m \in Allowances : /\ {m.edits, m.commits, m.builds, m.moves} \subseteq Nat
                           /\ m.removes \in BOOLEAN /\ m.names \subseteq {"update", "label"}

VARIABLES
  kind,      \* of each file
  tree,      \* [at, ver] of each file, or Gone
  clock,     \* edits so far
  head,      \* HEAD, as a count of commits
  found,     \* discovery finds the checkout
  graph,     \* graph.json: [state, holds, stamp]
  manifest,  \* manifest.json: the time graphify recorded for each file, or Gone
  flag,      \* the needs_update file
  named,     \* the labels file names the communities
  build,     \* the graphify run on the checkout, or NoBuild
  ended,     \* completion events the main thread has not handled
  acks,      \* ackDrift's goroutines, by run
  baseline,  \* the baseline in the store
  entry,     \* Cache.m of the checkout, or NoEntry
  gen,       \* Cache.gen of the checkout
  clears,    \* Cache.clears
  scan,      \* the scan in flight, or NoScanning
  dirty,     \* App.dirty
  row,       \* the published row
  may,       \* what is left of the bounds
  drops,     \* history: the times the entry has been declared out of date
  repaired   \* history: since the last successful update began nobody touched the checkout

checkout == <<kind, tree, clock, head, found, may>>
output == <<graph, manifest, flag, named>>
cache == <<entry, gen, clears, drops>>
boardVars == <<scan, dirty, row>>
graphVars == <<checkout, output, build, ended, acks, baseline, cache, boardVars, repaired>>

NoBuild == [name |-> "none"]
NoEntry == [key |-> <<>>]
NoScanning == [step |-> "none"]
NoRow == [state |-> "none", head |-> 0]
NothingAcked == [added |-> [f \in Sources |-> Gone], removed |-> {}]

(***************************************************************************)
(* The derivation (graphstate.go, drift.go)                                *)
(***************************************************************************)
Lives(t, f) == t[f] # Gone
Acks(base, f, at) == base.added[f] # Gone /\ at <= base.added[f]

\* The walk forgives what graphify would not extract either.
Graphable(f) == kind[f] # "refused"
Added(t, man, base) ==
  {f \in Sources : Lives(t, f) /\ man[f] = Gone /\ Graphable(f) /\ ~Acks(base, f, t[f].at)}
Changed(t, man) == {f \in Sources : Lives(t, f) /\ man[f] # Gone /\ t[f].at > man[f]}
Removed(t, man, base) == {f \in Sources : ~Lives(t, f) /\ man[f] # Gone} \ base.removed

\* An empty manifest, or none, is no drift.
DriftOf(t, man, base) ==
  IF \A f \in Sources : man[f] = Gone
  THEN [added |-> {}, changed |-> {}, removed |-> {}]
  ELSE [added |-> Added(t, man, base), changed |-> Changed(t, man),
        removed |-> Removed(t, man, base)]
AnyDrift(d) == d.added \cup d.changed \cup d.removed # {}

\* A file changed after the run began was not necessarily seen by it.
MakeBaseline(t, d, since) ==
  [added |-> [f \in Sources |-> IF f \in d.added /\ Lives(t, f) /\ t[f].at <= since
                                THEN t[f].at ELSE Gone],
   removed |-> d.removed]

ReadStatic ==
  [state |-> graph.state, stamp |-> graph.stamp, named |-> named, flag |-> flag]
Final(static) == static.state # "built"
Behind(stamp, at) == stamp # at
FinishRead(static, at, d) ==
  CASE Final(static) -> static.state
    [] static.flag \/ AnyDrift(d) \/ Behind(static.stamp, at) -> "stale"
    [] ~static.named -> "raw"
    [] OTHER -> "fresh"

\* The identity of the output directory, and HEAD.
CacheKey(at) == <<graph, manifest, flag, named, at>>

(***************************************************************************)
(* The cache (cache.go)                                                    *)
(***************************************************************************)
Stamp == <<clears, gen>>
MutInvalidate == entry' = NoEntry /\ drops' = drops + 1 /\ UNCHANGED <<clears, gen>>
Invalidate ==
  /\ entry' = NoEntry /\ gen' = gen + 1 /\ drops' = drops + 1 /\ UNCHANGED clears

\* A walk that does not find the checkout.
Prune ==
  IF entry = NoEntry /\ gen = 0
  THEN UNCHANGED cache
  ELSE /\ entry' = NoEntry /\ gen' = 0
       /\ clears' = clears + 1 /\ drops' = drops + 1
Clear == entry' = NoEntry /\ gen' = 0 /\ clears' = clears + 1 /\ drops' = drops + 1

MayStore(s) == s.stamp = Stamp

(***************************************************************************)
(* The checkout, and graphify, which is not part of the program            *)
(***************************************************************************)
Uses(what) == may' = [may EXCEPT ![what] = @ - 1]

Edit(f) ==
  /\ may.edits > 0
  /\ clock' = clock + 1 /\ Uses("edits")
  /\ \E ver \in {clock + 1} \cup (IF Lives(tree, f) THEN {tree[f].ver} ELSE {}) :
       tree' = [tree EXCEPT ![f] = [at |-> clock + 1, ver |-> ver]]
  /\ repaired' = FALSE
  /\ UNCHANGED <<kind, head, found, output, build, ended, acks, baseline, cache, boardVars>>

Remove(f) ==
  /\ may.removes /\ may.edits > 0 /\ Lives(tree, f)
  /\ clock' = clock + 1 /\ Uses("edits")
  /\ tree' = [tree EXCEPT ![f] = Gone]
  /\ repaired' = FALSE
  /\ UNCHANGED <<kind, head, found, output, build, ended, acks, baseline, cache, boardVars>>

Commit ==
  /\ may.commits > 0 /\ Uses("commits")
  /\ head' = head + 1
  /\ repaired' = FALSE
  /\ UNCHANGED <<kind, tree, clock, found, output, build, ended, acks, baseline, cache, boardVars>>

ComeOrGo ==
  /\ may.moves > 0 /\ Uses("moves")
  /\ found' = ~found
  /\ UNCHANGED <<kind, tree, clock, head, output, build, ended, acks, baseline, cache, boardVars, repaired>>

BuildStarts ==
  /\ build = NoBuild /\ may.builds > 0 /\ found
  /\ Uses("builds")
  /\ \E name \in may.names :
       /\ build' = [name |-> name, step |-> "reads", started |-> clock]
       /\ repaired' = (name = "update" /\ row.head = head /\ acks = {} /\ ended = <<>>)
  /\ UNCHANGED <<kind, tree, clock, head, found, output, ended, acks, baseline, cache, boardVars>>

BuildReads ==
  /\ build # NoBuild /\ build.step = "reads"
  /\ build' = [name |-> build.name, step |-> "writes", started |-> build.started,
               seen |-> tree, commit |-> head]
  /\ UNCHANGED <<checkout, output, ended, acks, baseline, cache, boardVars, repaired>>

Drawn(t) == [f \in Sources |-> IF kind[f] = "code" /\ Lives(t, f) THEN t[f].ver ELSE Gone]
Named(t) == [f \in Sources |-> IF kind[f] \in {"code", "thin"} /\ Lives(t, f) THEN t[f].at ELSE Gone]

\* update: a graph that would come out the same is left as it is, with its commit,
\* and its manifest may be.
Updates ==
  /\ IF graph.state = "built" /\ graph.holds = Drawn(build.seen)
     THEN /\ manifest' \in {manifest, Named(build.seen)}
          /\ UNCHANGED <<graph, named>>
     ELSE /\ graph' = [state |-> "built", holds |-> Drawn(build.seen), stamp |-> build.commit]
          /\ manifest' = Named(build.seen)
          /\ named' \in BOOLEAN
  /\ flag' \in {flag, FALSE}

BuildEnds ==
  /\ build # NoBuild /\ build.step = "writes"
  /\ \/ /\ build.name = "update" /\ Updates
        /\ ended' = Append(ended, [name |-> "update", ok |-> TRUE, started |-> build.started, run |-> may.builds])
        /\ UNCHANGED repaired
     \/ /\ build.name = "label" /\ graph.state = "built"
        /\ named' = TRUE
        /\ ended' = Append(ended, [name |-> "label", ok |-> TRUE, started |-> build.started, run |-> may.builds])
        /\ UNCHANGED <<graph, manifest, flag, repaired>>
     \/ /\ graph' \in {graph, [graph EXCEPT !.state = "broken"]}
        /\ ended' = Append(ended, [name |-> build.name, ok |-> FALSE, started |-> build.started, run |-> may.builds])
        /\ repaired' = FALSE
        /\ UNCHANGED <<manifest, flag, named>>
  /\ build' = NoBuild
  /\ UNCHANGED <<checkout, acks, baseline, cache, boardVars>>

(***************************************************************************)
(* App.refresh and board.Scan                                              *)
(***************************************************************************)
Refresh == \* refresh(false)
  IF scan # NoScanning THEN dirty' = TRUE /\ UNCHANGED scan
  ELSE scan' = [step |-> "finds"] /\ UNCHANGED dirty

RefreshTick ==
  /\ Refresh
  /\ UNCHANGED <<checkout, output, build, ended, acks, baseline, cache, row, repaired>>

\* refresh(true): one that is in flight already is not made a full one.
Rescan ==
  /\ may.moves > 0 /\ Uses("moves")
  /\ Refresh
  /\ IF scan # NoScanning THEN UNCHANGED cache ELSE Clear
  /\ UNCHANGED <<kind, tree, clock, head, found, output, build, ended, acks, baseline, row, repaired>>

\* discover.Walk, pruneCaches, and the baseline that derive asks the store for.
ScanFinds ==
  /\ scan.step = "finds"
  /\ IF found
     THEN /\ scan' = [step |-> "looks", head |-> head, base |-> baseline]
          /\ UNCHANGED cache
     ELSE /\ scan' = [step |-> "publishes", row |-> NoRow]
          /\ Prune
  /\ UNCHANGED <<checkout, output, build, ended, acks, baseline, dirty, row, repaired>>

ScanLooks ==
  /\ scan.step = "looks"
  /\ LET key == CacheKey(scan.head)
     IN scan' = IF entry.key = key /\ ~entry.aged
                THEN [step |-> "publishes", row |-> [state |-> entry.g, head |-> scan.head]]
                ELSE [step |-> "derives", head |-> scan.head, base |-> scan.base,
                      key |-> key, stamp |-> Stamp, born |-> drops,
                      static |-> IF entry.key = key THEN <<entry.static>> ELSE <<>>]
  /\ UNCHANGED <<checkout, output, build, ended, acks, baseline, cache, dirty, row, repaired>>

ScanDerives ==
  /\ scan.step = "derives"
  /\ LET static == IF scan.static = <<>> THEN ReadStatic ELSE scan.static[1]
     IN scan' = [step |-> "stores", head |-> scan.head, key |-> scan.key, stamp |-> scan.stamp,
                 born |-> scan.born, static |-> static,
                 g |-> FinishRead(static, scan.head, DriftOf(tree, manifest, scan.base))]
  /\ UNCHANGED <<checkout, output, build, ended, acks, baseline, cache, dirty, row, repaired>>

ScanStores ==
  /\ scan.step = "stores"
  /\ entry' = IF MayStore(scan)
              THEN [key |-> scan.key, static |-> scan.static, g |-> scan.g, aged |-> FALSE, born |-> scan.born]
              ELSE entry
  /\ scan' = [step |-> "publishes", row |-> [state |-> scan.g, head |-> scan.head]]
  /\ UNCHANGED <<checkout, output, build, ended, acks, baseline, gen, clears, drops, dirty, row, repaired>>

ScanPublishes ==
  /\ scan.step = "publishes"
  /\ row' = scan.row
  /\ scan' = IF dirty THEN [step |-> "finds"] ELSE NoScanning
  /\ dirty' = FALSE
  /\ UNCHANGED <<checkout, output, build, ended, acks, baseline, cache, repaired>>

\* The entry's drift layer outlives its TTL.
Ages ==
  /\ entry # NoEntry /\ ~entry.aged
  /\ entry' = [entry EXCEPT !.aged = TRUE]
  /\ UNCHANGED <<checkout, output, build, ended, acks, baseline, gen, clears, drops, boardVars, repaired>>

(***************************************************************************)
(* onJobEvent, and ackDrift                                                *)
(***************************************************************************)
OnJobEvent ==
  /\ ended # <<>>
  /\ ended' = Tail(ended)
  /\ Invalidate
  /\ LET e == Head(ended)
     IN IF e.ok /\ e.name = "update"
        THEN /\ acks' = acks \cup {[run |-> e.run, step |-> "walks", since |-> e.started, head |-> row.head]}
             /\ UNCHANGED <<scan, dirty>>
        ELSE Refresh /\ UNCHANGED acks
  /\ UNCHANGED <<checkout, output, build, baseline, row, repaired>>

\* restampBehind: what graphify has walked and not rebuilt from is not restamped.
Honest(d) == d.changed = {}

Becomes(x, y) == acks' = (acks \ {x}) \cup {y}

\* DriftOf without a baseline, then MakeBaseline.
AckWalks(x) ==
  /\ x.step = "walks"
  /\ LET d == DriftOf(tree, manifest, NothingAcked)
     IN Becomes(x, [run |-> x.run, head |-> x.head, base |-> MakeBaseline(tree, d, x.since),
                    step |-> IF Honest(d) THEN "stamps" ELSE "records"])
  /\ UNCHANGED <<checkout, output, build, ended, baseline, cache, boardVars, repaired>>

\* restampBehind, and Restamp up to the copy: an unreadable graph has no stamp.
AckStamps(x) ==
  /\ x.step = "stamps"
  /\ Becomes(x, IF x.head = 0 \/ flag \/ graph.state # "built" \/ ~Behind(graph.stamp, x.head)
                THEN [x EXCEPT !.step = "records"]
                ELSE [run |-> x.run, head |-> x.head, base |-> x.base, step |-> "renames", copy |-> graph])
  /\ UNCHANGED <<checkout, output, build, ended, baseline, cache, boardVars, repaired>>

AckRenames(x) ==
  /\ x.step = "renames"
  /\ graph' = [x.copy EXCEPT !.stamp = x.head]
  /\ Becomes(x, [run |-> x.run, head |-> x.head, base |-> x.base, step |-> "records"])
  /\ UNCHANGED <<checkout, manifest, flag, named, build, ended, baseline, cache, boardVars, repaired>>

AckRecords(x) ==
  /\ x.step = "records"
  /\ acks' = acks \ {x}
  /\ baseline' = x.base
  /\ Invalidate
  /\ Refresh
  /\ UNCHANGED <<checkout, output, build, ended, row, repaired>>

-----------------------------------------------------------------------------
GraphInit ==
  /\ kind \in Kinds /\ may \in Allowances
  /\ tree = [f \in Sources |-> [at |-> 0, ver |-> 0]]
  /\ clock = 0 /\ head = 1 /\ found = TRUE
  /\ graph = [state |-> "built", holds |-> Drawn(tree), stamp |-> 1]
  /\ manifest = Named(tree)
  /\ flag \in BOOLEAN /\ named = TRUE
  /\ build = NoBuild /\ ended = <<>> /\ acks = {}
  /\ baseline = MakeBaseline(tree, DriftOf(tree, manifest, NothingAcked), 0)
  /\ entry = NoEntry /\ gen = 0 /\ clears = 0 /\ drops = 0
  /\ scan = NoScanning /\ dirty = FALSE
  /\ row = [state |-> "fresh", head |-> 1]
  /\ repaired = FALSE

ScanSteps == ScanFinds \/ ScanLooks \/ ScanDerives \/ ScanStores \/ ScanPublishes
AckSteps == \E x \in acks : AckWalks(x) \/ AckStamps(x) \/ AckRenames(x) \/ AckRecords(x)

GraphNext ==
  \/ \E f \in Sources : Edit(f) \/ Remove(f)
  \/ Commit \/ ComeOrGo
  \/ BuildStarts \/ BuildReads \/ BuildEnds
  \/ RefreshTick \/ Rescan \/ ScanSteps \/ Ages
  \/ OnJobEvent \/ AckSteps

GraphFairness ==
  /\ WF_graphVars(BuildReads \/ BuildEnds)
  /\ WF_graphVars(RefreshTick) /\ WF_graphVars(ScanSteps) /\ SF_graphVars(Ages)
  /\ WF_graphVars(OnJobEvent) /\ WF_graphVars(AckSteps)

GraphSpec == GraphInit /\ [][GraphNext]_graphVars /\ GraphFairness

-----------------------------------------------------------------------------
\* "A derivation that was already in flight when its repository was invalidated
\* must not store its result" (Cache).
CacheNeverSuperseded == entry # NoEntry => entry.born = drops

\* "The Fix cleared the drift, the row stayed stale" (Cache) is over: when an
\* update that began with nothing left to settle has been over a checkout that
\* nobody touched since, the row does not stay stale.
Repaired ==
  /\ repaired /\ build = NoBuild /\ found /\ ~flag
  /\ Changed(tree, manifest) = {}
RepairShows == Repaired ~> row.state # "stale" \/ ~Repaired

\* "A file touched while it was running was not necessarily seen by it, so it is
\* left counting as drift rather than quietly acknowledged" (MakeBaseline): once
\* nothing moves any more, a row that says fresh answers for the tree.
FreshIsTrue == <>[](row.state = "fresh" => graph.holds = Drawn(tree))
=============================================================================
