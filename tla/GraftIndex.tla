----------------------------- MODULE GraftIndex -----------------------------
(***************************************************************************)
(* graft's index of a checkout as the board sees it: what internal/        *)
(* graftstate reads from <repo>/graft, the cache in front of it that the   *)
(* board's scans and the auto-fix worker share, and the two sweeps of      *)
(* internal/ui/graft.go over the rows.                                     *)
(*                                                                         *)
(* A directory is known by the number of times a run touched it, and what  *)
(* the key of the cache covers moves with that number.                     *)
(***************************************************************************)
EXTENDS Naturals, FiniteSets

CONSTANTS Checkouts,
          Readers,   \* goroutines that read through the cache
          Moves      \* bound: moves of a directory, edits of a tree

GraftAssumptions == Moves \in Nat

VARIABLES graft,     \* the directory: [moves, wiring, deep, built]
          tree,      \* the sources: how often they were edited
          cache,     \* what was last read of a checkout: NoIndex, or [key, moves, tree, state, fresh]
          gen, clears,
          floor,     \* how new a checkout was when its entry was last dropped
          reader,    \* a Read in flight
          rows,      \* the index each row shows
          building,  \* checkouts whose graft is being run on
          deeps,     \* deep jobs queued or running, per checkout
          dialog     \* the rows of an open confirm dialog

graftVars == <<graft, tree, cache, gen, clears, floor, reader, rows, building, deeps, dialog>>

NoIndex == [key |-> 0, moves |-> 0, tree |-> 0, state |-> "none", fresh |-> FALSE]
NoRead == [of |-> {}, stamp |-> <<0, 0>>, key |-> 0, entry |-> NoIndex, index |-> NoIndex]

GraftInit ==
  /\ graft = [c \in Checkouts |-> [moves |-> 1, wiring |-> TRUE, deep |-> FALSE, built |-> 0]]
  /\ tree = [c \in Checkouts |-> 0]
  /\ cache = [c \in Checkouts |-> NoIndex]
  /\ gen = [c \in Checkouts |-> 0] /\ clears = 0
  /\ floor = [c \in Checkouts |-> <<0, 0>>]
  /\ reader = [r \in Readers |-> NoRead]
  /\ rows = [c \in Checkouts |-> "none"]
  /\ building = {} /\ deeps = [c \in Checkouts |-> 0] /\ dialog = {}

-----------------------------------------------------------------------------
StateOf(c) ==
  CASE graft[c].moves = 0         -> "none"
    [] ~graft[c].wiring           -> "broken"
    [] graft[c].built # tree[c]   -> "stale"
    [] ~graft[c].deep             -> "wiring"
    [] OTHER                      -> "fresh"

NeedsBuild(state) == state \in {"none", "broken", "stale"}
NeedsDeep(state) == state # "fresh"

\* A run, from the board, a terminal or an agent, leaves no wiring.json behind
\* until it is done; a deep one leaves the concept layer too.
RunStarts(c) ==
  /\ c \notin building /\ building' = building \cup {c} /\ graft[c].moves < Moves
  /\ graft' = [graft EXCEPT ![c].moves = @ + 1, ![c].wiring = FALSE]
  /\ UNCHANGED <<tree, cache, gen, clears, floor, reader, rows, deeps, dialog>>

\* reDerive, when the board ran it: the entry goes, and a counter moves.
Invalidate(c) ==
  /\ cache' = [cache EXCEPT ![c] = NoIndex] /\ gen' = [gen EXCEPT ![c] = @ + 1]
  /\ floor' = [floor EXCEPT ![c] = <<graft'[c].moves, tree[c]>>]

RunEnds(c) ==
  /\ c \in building /\ building' = building \ {c}
  /\ graft' = [graft EXCEPT ![c] = [moves |-> @.moves + 1, wiring |-> TRUE,
                                    deep |-> @.deep \/ deeps[c] > 0, built |-> tree[c]]]
  /\ deeps' = [deeps EXCEPT ![c] = IF @ > 0 THEN @ - 1 ELSE 0]
  /\ Invalidate(c) \/ (deeps[c] = 0 /\ UNCHANGED <<cache, gen, floor>>)
  /\ UNCHANGED <<tree, clears, reader, rows, dialog>>

Edited(c) ==
  /\ tree[c] < Moves /\ tree' = [tree EXCEPT ![c] = @ + 1]
  /\ UNCHANGED <<graft, cache, gen, clears, floor, reader, rows, building, deeps, dialog>>

-----------------------------------------------------------------------------
\* Cache.Read.  The stamp and the key are taken before anything is read.
Stamp(c) == <<clears, gen[c]>>
DirKey(c) == graft[c].moves

ReadStarts(r, c) ==
  /\ reader[r] = NoRead
  /\ LET hit == cache[c].key = DirKey(c) /\ cache[c].fresh
     IN /\ reader' = IF hit THEN reader
                     ELSE [reader EXCEPT ![r] = [NoRead EXCEPT
                             !.of = {c}, !.stamp = Stamp(c), !.key = DirKey(c),
                             !.entry = cache[c]]]
        /\ rows' = IF hit THEN [rows EXCEPT ![c] = cache[c].state] ELSE rows
  /\ UNCHANGED <<graft, tree, cache, gen, clears, floor, building, deeps, dialog>>

\* readStatic, or the static layer that the key still stands for; then the
\* fingerprint, read again, against the tree.
Derives(r, c) ==
  /\ reader[r].of = {c} /\ reader[r].index = NoIndex
  /\ LET e == reader[r].entry
         static == IF e.key = reader[r].key THEN e.moves ELSE graft[c].moves
     IN reader' = [reader EXCEPT ![r].index =
                     [key |-> reader[r].key, moves |-> static, tree |-> tree[c],
                      state |-> StateOf(c), fresh |-> TRUE]]
  /\ UNCHANGED <<graft, tree, cache, gen, clears, floor, rows, building, deeps, dialog>>

\* What was invalidated while it was derived is shown, and not kept.
Stores(r, c) ==
  /\ reader[r].of = {c} /\ reader[r].index # NoIndex
  /\ cache' = IF Stamp(c) = reader[r].stamp THEN [cache EXCEPT ![c] = reader[r].index] ELSE cache
  /\ rows' = [rows EXCEPT ![c] = reader[r].index.state]
  /\ reader' = [reader EXCEPT ![r] = NoRead]
  /\ UNCHANGED <<graft, tree, gen, clears, floor, building, deeps, dialog>>

\* The drift layer outlives its TTL.
Expires(c) ==
  /\ cache[c].fresh /\ cache' = [cache EXCEPT ![c].fresh = FALSE]
  /\ UNCHANGED <<graft, tree, gen, clears, floor, reader, rows, building, deeps, dialog>>

MutPrune(keep) ==
  LET gone == {c \in Checkouts \ keep : cache[c] # NoIndex \/ gen[c] # 0} IN
  /\ cache' = [c \in Checkouts |-> IF c \in gone THEN NoIndex ELSE cache[c]]
  /\ gen' = [c \in Checkouts |-> IF c \in gone THEN 0 ELSE gen[c]]
  /\ gone # {} /\ UNCHANGED clears
\* Dropping a counter also moves the epoch of the whole board.
Prune(keep) ==
  LET gone == {c \in Checkouts \ keep : cache[c] # NoIndex \/ gen[c] # 0} IN
  /\ cache' = [c \in Checkouts |-> IF c \in gone THEN NoIndex ELSE cache[c]]
  /\ gen' = [c \in Checkouts |-> IF c \in gone THEN 0 ELSE gen[c]]
  /\ gone # {} /\ clears' = clears + 1

\* A checkout that was not among a scan's rows, or the auto-fix candidates.
ScanPrunes ==
  /\ clears < Moves
  /\ \E keep \in SUBSET Checkouts : Prune(keep)
  /\ UNCHANGED <<graft, tree, floor, reader, rows, building, deeps, dialog>>

\* refresh(true)
Clear ==
  /\ clears < Moves /\ clears' = clears + 1
  /\ cache' = [c \in Checkouts |-> NoIndex] /\ gen' = [c \in Checkouts |-> 0]
  /\ floor' = [c \in Checkouts |-> <<graft[c].moves, tree[c]>>]
  /\ UNCHANGED <<graft, tree, reader, rows, building, deeps, dialog>>

-----------------------------------------------------------------------------
\* The deep sweep: the rows that need it and that no deep job is on, in a dialog;
\* the jobs are looked at again at the click, the rows are not.
Live(c) == deeps[c] > 0

SweepTargets == {c \in Checkouts : NeedsDeep(rows[c]) /\ ~Live(c)}

SweepGraftDeep ==
  /\ dialog = {} /\ dialog' = SweepTargets
  /\ dialog' # {}
  /\ UNCHANGED <<graft, tree, cache, gen, clears, floor, reader, rows, building, deeps>>

WithoutLive(cs) == {c \in cs : ~Live(c)}

SweepConfirmed ==
  /\ dialog # {} /\ dialog' = {}
  /\ deeps' = [c \in Checkouts |-> IF c \in WithoutLive(dialog) THEN deeps[c] + 1 ELSE deeps[c]]
  /\ UNCHANGED <<graft, tree, cache, gen, clears, floor, reader, rows, building>>

\* Another path queues one on a row that needs it: the auto-fix loop, a row's menu.
DeepQueued(c) ==
  /\ NeedsDeep(rows[c]) /\ ~Live(c) /\ deeps' = [deeps EXCEPT ![c] = @ + 1]
  /\ UNCHANGED <<graft, tree, cache, gen, clears, floor, reader, rows, building, dialog>>

GraftNext ==
  \/ \E c \in Checkouts :
       \/ RunStarts(c) \/ RunEnds(c) \/ Edited(c) \/ Expires(c) \/ DeepQueued(c)
       \/ \E r \in Readers : ReadStarts(r, c) \/ Derives(r, c) \/ Stores(r, c)
  \/ ScanPrunes \/ Clear \/ SweepGraftDeep \/ SweepConfirmed

GraftSpec == GraftInit /\ [][GraftNext]_graftVars

-----------------------------------------------------------------------------
\* What the cache holds was read after its entry was last dropped, and its
\* counters are no older than the key they are kept under, whatever was in flight
\* and whatever was pruned (cache.go: "does not store a result computed from
\* superseded inputs").
CachedIsCurrent ==
  \A c \in Checkouts : cache[c] # NoIndex =>
    /\ cache[c].moves >= cache[c].key
    /\ cache[c].moves >= floor[c][1] /\ cache[c].tree >= floor[c][2]

\* A sweep does not buy again what was bought while its dialog was open: "on a
\* metered pin each duplicate is a full per-file bill, so the queue is filtered
\* again at the click" (confirmSyncGraftDeep).
SweepsOnlyNeeded ==
  [][\A c \in dialog \ dialog' : deeps'[c] > deeps[c] => NeedsDeep(rows[c])]_graftVars
=============================================================================
