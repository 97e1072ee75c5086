--------------------------- MODULE KnowledgeIndex ---------------------------
(***************************************************************************)
(* <out-base>/index.json (internal/knowledge), which says where each       *)
(* checkout's graph is.  The board republishes it from every scan,         *)
(* ggraphify-scan -index from one that may cover fewer checkouts, and      *)
(* ggraphify-job puts the entry of the one it built.                       *)
(*                                                                         *)
(* A graph is known by the time of its build, 0 when there is none; an     *)
(* entry by the build it describes and the build its tier was counted in.  *)
(***************************************************************************)
EXTENDS Integers, FiniteSets

CONSTANTS Checkouts,  \* every checkout with or without a graph in the base
          Covers,     \* Covers[p]: those a scan of p lists; a p that puts has none
          MaxBuilds   \* bound: builds

KnowledgeAssumptions == MaxBuilds \in Nat

Publishers == DOMAIN Covers
NoEntry == [built |-> 0, tier |-> 0]

VARIABLES graph,     \* [built, manifest] under the base: when each was written
          builds,
          removed,   \* checkouts whose graph has been
          due,       \* graphs that a ggraphify-job built and has yet to publish
          entries,   \* the file
          flock,     \* who holds .index.lock
          snap,      \* rows in hand: the scan's, or the one row of a Put
          draft      \* what will be renamed over the file

knowledgeVars == <<graph, builds, removed, due, entries, flock, snap, draft>>

NoRows == [c \in {} |-> 0]

KnowledgeInit ==
  /\ graph = [c \in Checkouts |-> [built |-> 0, manifest |-> 0]]
  /\ builds = 0 /\ removed = {} /\ due = {}
  /\ entries = [c \in Checkouts |-> NoEntry]
  /\ flock = {}
  /\ snap = [p \in Publishers |-> NoRows]
  /\ draft = [p \in Publishers |-> NoRows]

Free(p) == snap[p] = NoRows /\ draft[p] = NoRows

-----------------------------------------------------------------------------
\* graphify writes the graph and the manifest, which is the later one.
BuildStarts(c) ==
  /\ builds < MaxBuilds /\ builds' = builds + 1
  /\ graph' = [graph EXCEPT ![c].built = builds + 1]
  /\ UNCHANGED <<removed, due, entries, flock, snap, draft>>

BuildEnds(c) ==
  /\ graph[c].manifest # graph[c].built
  /\ graph' = [graph EXCEPT ![c].manifest = graph[c].built]
  /\ due' \in {due, due \cup {c}}
  /\ UNCHANGED <<builds, removed, entries, flock, snap, draft>>

Removed(c) ==
  /\ c \notin removed /\ removed' = removed \cup {c}
  /\ graph[c].built # 0 /\ graph' = [graph EXCEPT ![c] = [built |-> 0, manifest |-> 0]]
  /\ UNCHANGED <<builds, due, entries, flock, snap, draft>>

\* syncIndex with a scan that just landed, unless one is still being written.
Scanned(p) ==
  /\ Covers[p] # {} /\ Free(p)
  /\ snap' = [snap EXCEPT ![p] = [c \in Covers[p] |-> graph[c].built]]
  /\ UNCHANGED <<graph, builds, removed, due, entries, flock, draft>>

\* publishIndex: a build that succeeded, when its graph is there to be read.
Built(p, c) ==
  /\ Covers[p] = {} /\ Free(p)
  /\ c \in due /\ due' = due \ {c}
  /\ graph[c].built # 0 /\ snap' = [snap EXCEPT ![p] = [row \in {c} |-> graph[row].built]]
  /\ UNCHANGED <<graph, builds, removed, entries, flock, draft>>

-----------------------------------------------------------------------------
HasGraph(c) == graph[c].built # 0

MutLock(p) == TRUE
Lock(p) == flock = {}

\* The tier is carried forward while the build has not moved.
FromRow(built, c, prev) ==
  [built |-> built,
   tier  |-> IF prev.built = built /\ prev.tier # 0 THEN prev.tier ELSE graph[c].manifest]

\* Under the lock, from what the file holds now: the rows are authoritative for
\* the checkouts they cover; another's entry is kept while its graph is there.
Loads(p) ==
  /\ snap[p] # NoRows /\ draft[p] = NoRows /\ Lock(p)
  /\ flock' = flock \cup {p}
  /\ draft' = [draft EXCEPT ![p] =
       [c \in Checkouts |->
          IF c \in DOMAIN snap[p]
          THEN IF snap[p][c] = 0 THEN NoEntry
               ELSE FromRow(snap[p][c], c, IF Covers[p] = {} THEN NoEntry ELSE entries[c])
          ELSE IF Covers[p] = {} \/ HasGraph(c) THEN entries[c] ELSE NoEntry]]
  /\ UNCHANGED <<graph, builds, removed, due, entries, snap>>

\* Written when anything moved, and the lock let go.
Saves(p) ==
  /\ draft[p] # NoRows
  /\ entries' = draft[p]
  /\ flock' = flock \ {p}
  /\ snap' = [snap EXCEPT ![p] = NoRows] /\ draft' = [draft EXCEPT ![p] = NoRows]
  /\ UNCHANGED <<graph, builds, removed, due>>

\* A publisher dies: the file is as it was, and the lock goes with the process.
Dies(p) ==
  /\ ~Free(p)
  /\ snap' = [snap EXCEPT ![p] = NoRows] /\ draft' = [draft EXCEPT ![p] = NoRows]
  /\ flock' = flock \ {p}
  /\ UNCHANGED <<graph, builds, removed, due, entries>>

KnowledgeNext ==
  \/ \E c \in Checkouts : BuildStarts(c) \/ BuildEnds(c) \/ Removed(c)
  \/ \E p \in Publishers : \/ Scanned(p) \/ Loads(p) \/ Saves(p) \/ Dies(p)
                           \/ \E c \in Checkouts : Built(p, c)

KnowledgeSpec == KnowledgeInit /\ [][KnowledgeNext]_knowledgeVars

-----------------------------------------------------------------------------
Uncovered == {c \in Checkouts : \A p \in Publishers : c \notin Covers[p]}

\* "A scan narrowed to one root must not delete the rest of the machine's
\* index" (Sync), and no publisher loses what another wrote meanwhile: the entry
\* of a checkout that no scan covers stays until its graph is removed.
KeptEntries == \A c \in Uncovered \ removed' : entries[c].built # 0 => entries'[c].built # 0
KeepsTheOthers == [][KeptEntries]_knowledgeVars
=============================================================================
