----------------------------- MODULE Discovery -----------------------------
(***************************************************************************)
(* How the board finds the checkouts (internal/discover): the walk of the  *)
(* scan roots and the cache of its result.                                 *)
(*                                                                         *)
(* A directory has an entry for each directory below it, which may be a    *)
(* link to one that is elsewhere; the walk is depth first in the order of  *)
(* the names.  Directories appear and become checkouts beside it.          *)
(***************************************************************************)
EXTENDS Integers, SequencesExt

CONSTANTS Dirs,    \* every directory, in the order of the names
          Trees,   \* what the disk may be: [entries, kind, hidden, graphed, roots]
          Options, \* the walk's options: [depth, showHidden, showWorktrees]
          Inits    \* bound: checkouts that come to be

DirSet == ToSet(Dirs)

DiscoveryAssumptions ==
  /\ Inits \in Nat
  /\ Dirs \in Seq(DirSet)
  /\ \A t \in Trees :
       t \in [entries : [DirSet -> SUBSET DirSet],
             kind    : [DirSet -> {"plain", "checkout", "worktree", "damaged"}],
             hidden  : SUBSET DirSet, graphed : SUBSET DirSet, roots : Seq(DirSet)]
  /\ \A o \in Options : o.depth \in Nat /\ {o.showHidden, o.showWorktrees} \subseteq BOOLEAN

VARIABLES tree,     \* the disk
          opts,
          touched,  \* how often an entry of a root came to be: its mtime
          todo,     \* directories the walk has yet to read, a stack of [dir, depth]
          visited,  \* walkRoot's seen
          rows,     \* what the walk found so far
          walking,  \* the key of the walk in progress, or -1
          listing,  \* Cache: [key, rows], key -1 when it holds nothing
          found,    \* what the last scan was given
          still     \* history: no checkout has come to be since the walk in progress began

discoveryVars == <<tree, opts, touched, todo, visited, rows, walking, listing, found, still>>
walkVars == <<todo, visited, rows, walking>>

NoListing == [key |-> -1, rows |-> <<>>]

DiscoveryInit ==
  /\ tree \in Trees /\ opts \in Options
  /\ touched = 0
  /\ todo = <<>> /\ visited = {} /\ rows = <<>> /\ walking = -1
  /\ listing = NoListing /\ found = <<>> /\ still = FALSE

-----------------------------------------------------------------------------
\* A checkout, a linked worktree that is wanted, or a graph without a checkout.
RepoAt(d, depth) ==
  \/ tree.kind[d] = "checkout"
  \/ tree.kind[d] = "worktree" /\ (opts.showWorktrees \/ depth = 0)
GraphOnlyAt(d, depth) == tree.kind[d] = "plain" /\ depth > 0 /\ d \in tree.graphed
Boarded(d, depth) == RepoAt(d, depth) \/ GraphOnlyAt(d, depth)
\* Below the root one that is a checkout, or is boarded, is a leaf.
Leaf(d, depth) == depth > 0 /\ (tree.kind[d] # "plain" \/ GraphOnlyAt(d, depth))
Shown(d) == d \notin tree.hidden \/ opts.showHidden

\* What a walk enters from d, in the order of the names.
Below(d) ==
  LET some[i \in 0 .. Len(Dirs)] ==
        IF i = 0 THEN <<>>
        ELSE IF Dirs[i] \in tree.entries[d] /\ Shown(Dirs[i]) THEN Append(some[i - 1], Dirs[i])
        ELSE some[i - 1]
  IN some[Len(Dirs)]

WalkStarts ==
  /\ walking = -1 /\ listing.key # touched
  /\ walking' = touched
  /\ todo' = [i \in DOMAIN tree.roots |-> [dir |-> tree.roots[i], depth |-> 0]]
  /\ visited' = {} /\ rows' = <<>> /\ still' = TRUE
  /\ UNCHANGED <<tree, opts, touched, listing, found>>

MutSeen(d) == FALSE

Seen(d) == d \in visited

WalkRoot ==
  /\ walking # -1 /\ todo # <<>>
  /\ LET v == Head(todo)
         d == v.dir
     IN IF v.depth > opts.depth \/ Seen(d)
        THEN todo' = Tail(todo) /\ UNCHANGED <<visited, rows>>
        ELSE /\ visited' = visited \cup {d}
             /\ rows' = IF Boarded(d, v.depth) THEN Append(rows, d) ELSE rows
             /\ todo' = IF Leaf(d, v.depth) THEN Tail(todo)
                        ELSE [i \in DOMAIN Below(d) |-> [dir |-> Below(d)[i], depth |-> v.depth + 1]]
                               \o Tail(todo)
  /\ UNCHANGED <<tree, opts, touched, walking, listing, found, still>>

\* The result is cached under the roots' times of before the walk.
WalkEnds ==
  /\ walking # -1 /\ todo = <<>>
  /\ listing' = [key |-> walking, rows |-> rows] /\ found' = rows
  /\ walking' = -1 /\ visited' = {} /\ rows' = <<>> /\ still' = FALSE
  /\ UNCHANGED <<tree, opts, touched, todo>>

\* No root has been touched: the listing, for as long as it is trusted.
WalkCached ==
  /\ walking = -1 /\ listing.key = touched
  /\ found' = listing.rows
  /\ UNCHANGED <<tree, opts, touched, walkVars, listing, still>>

\* The TTL runs out; a rescan, or other roots in the settings.
Forget ==
  /\ listing # NoListing /\ listing' = NoListing
  /\ UNCHANGED <<tree, opts, touched, walkVars, found, still>>

\* git init, or a clone: only one right below a root touches the root.
NewCheckout(d) ==
  /\ tree.kind[d] = "plain"
  /\ Cardinality({e \in DirSet : tree.kind[e] = "checkout"}) < Inits
  /\ tree' = [tree EXCEPT !.kind[d] = "checkout"]
  /\ touched' = IF \E r \in ToSet(tree.roots) : d \in tree.entries[r] THEN touched + 1 ELSE touched
  /\ still' = FALSE
  /\ UNCHANGED <<opts, walkVars, listing, found>>

DiscoveryNext ==
  \/ WalkStarts \/ WalkRoot \/ WalkEnds \/ WalkCached \/ Forget
  \/ \E d \in DirSet : NewCheckout(d)

DiscoveryFairness == WF_discoveryVars(WalkStarts \/ WalkRoot \/ WalkEnds) /\ SF_discoveryVars(Forget)
DiscoverySpec == DiscoveryInit /\ [][DiscoveryNext]_discoveryVars /\ DiscoveryFairness

-----------------------------------------------------------------------------
\* The directories at each depth below the roots, by paths with no leaf on the way.
Reached ==
  LET reach[k \in 0 .. opts.depth] ==
        IF k = 0 THEN ToSet(tree.roots)
        ELSE UNION {ToSet(Below(d)) : d \in {d \in reach[k - 1] : ~Leaf(d, k - 1)}}
  IN reach

InReach == {v \in [dir : DirSet, depth : 0 .. opts.depth] : v.dir \in Reached[v.depth]}

Wanted == {v.dir : v \in {v \in InReach : Boarded(v.dir, v.depth)}}

\* Every directory that is walked into is at one depth only: no link to one that
\* is elsewhere below the roots, and no root below another.
AtOneDepth ==
  \A v, w \in InReach : v.dir = w.dir =>
    v.depth = w.depth \/ (Leaf(v.dir, v.depth) /\ Leaf(w.dir, w.depth))

\* A walk of a disk that stands still gives a row to nothing but what is wanted, and
\* one only, however many links lead there; and where no directory is at two depths,
\* to all that is wanted.
WalkTells ==
  WalkEnds /\ still =>
    /\ ToSet(found') \subseteq Wanted /\ IsInjective(found')
    /\ AtOneDepth => ToSet(found') = Wanted

\* "Walk finds every checkout under opts.Roots" (discover.go), the cache and
\* links notwithstanding: once no checkout comes to be any more the board has a
\* row for each of them, one row, and no other.
FoundAll == ToSet(found) = Wanted /\ IsInjective(found)
FindsEverything == <>[]FoundAll

\* "Walk finds every checkout under opts.Roots" (discover.go:225), links or not.
WalkFindsAll == [][WalkEnds /\ still => FoundAll']_discoveryVars
=============================================================================
