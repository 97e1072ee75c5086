----------------------------- MODULE BoardView -----------------------------
(***************************************************************************)
(* The board's list: rows that a scan replaces wholesale, usage counts and *)
(* jobs kept beside them, and a list view that knows nothing of any of     *)
(* them (ui/ui.go setRows, ui/columns.go, ui/header.go, ui/usage.go).  The *)
(* toolkit renders a cell when an item enters the view, asks a filter when *)
(* the model or the filter says so, and a sorter likewise; a row that      *)
(* changed behind its path tells nobody.                                   *)
(***************************************************************************)
EXTENDS Naturals

CONSTANTS Paths, Folder,   \* the repositories, and the folder each is in
          All,             \* the filters that select everything
          Chips, Sorts,    \* the chips and the columns that can be chosen
          MaxUses, Moves   \* bounds: counts; changes on the disk and by the user

VARIABLES disk,        \* what there is: the checkouts, their graphs, their use
          rows, uses,  \* what the window knows of it
          busy,        \* jobByRepo: the repositories with an unfinished job
          scan, tally, \* results on their way to the GTK thread
          chip, group, sort,
          list,        \* the view: the rows let through, their sort keys, their cells
          current, chosen,  \* the row under the cursor, and Store.Selected
          moves

None == "none"
NotRunning == [on |-> {}, running |-> FALSE]
viewVars == <<disk, rows, uses, busy, scan, tally, chip, group, sort, list, current, chosen, moves>>
choice == <<chip, group, sort>>
cursor == <<current, chosen>>
window == <<rows, uses, busy, choice, list, cursor>>
async == <<scan, tally>>

-----------------------------------------------------------------------------
(* What a row says, given everything it is drawn from. *)

DisplayState(p, r, b) == IF p \in b THEN "running" ELSE r.graph[p]
UsageGap(p, r, u) == u[p] > 0 /\ r.graph[p] = "none"

\* The text of the cells of a row.
Text(p, r, u, b) == <<DisplayState(p, r, b), u[p], UsageGap(p, r, u)>>

Key(p, s, r, u, b) ==
  CASE s = "state" -> <<DisplayState(p, r, b), 0>> [] s = "usage" -> <<"", u[p]>> [] OTHER -> <<"", 0>>

Matches(p, c, g, r, u, b) ==
  /\ g \in {All, Folder[p]}
  /\ c = All \/ (c = "gap" /\ UsageGap(p, r, u)) \/ c = DisplayState(p, r, b)

Matching(c, g, r, u, b) == {p \in r.on : Matches(p, c, g, r, u, b)}

-----------------------------------------------------------------------------
(* The toolkit. *)

\* An item that enters is rendered and given its sort key; one that stays
\* keeps what it had.
Filtered(l, shown, s, r, u, b) ==
  [shown |-> shown,
   cells |-> [p \in shown |-> IF p \in l.shown THEN l.cells[p] ELSE Text(p, r, u, b)],
   keys  |-> [p \in shown |-> IF p \in l.shown THEN l.keys[p] ELSE Key(p, s, r, u, b)]]

Sorted(l, s, r, u, b) == [l EXCEPT !.keys = [p \in l.shown |-> Key(p, s, r, u, b)]]
Repainted(l, r, u, b) == [l EXCEPT !.cells = [p \in l.shown |-> Text(p, r, u, b)]]

Empty == [shown |-> {}, cells |-> [p \in {} |-> <<>>], keys |-> [p \in {} |-> <<>>]]

\* The cursor goes with the row it is on.
Follows(l) == current' = IF current \in l.shown THEN current ELSE None

-----------------------------------------------------------------------------
ViewInit ==
  /\ disk \in [on : {Paths}, graph : [Paths -> {"none", "fresh"}], uses : {[p \in Paths |-> 0]}]
  /\ rows = [on |-> {}, graph |-> disk.graph] /\ uses = disk.uses /\ busy = {}
  /\ scan = NotRunning /\ tally = NotRunning
  /\ chip = All /\ group = All /\ sort = "name"
  /\ list = Empty /\ current = None /\ chosen = None
  /\ moves = 0

Moved == moves < Moves /\ moves' = moves + 1

\* A checkout comes or goes, a graph is built or removed, an agent uses one.
World ==
  /\ Moved /\ UNCHANGED <<window, async>>
  /\ \E p \in Paths :
       \/ disk' = [disk EXCEPT !.on = IF p \in @ THEN @ \ {p} ELSE @ \cup {p}]
       \/ disk' = [disk EXCEPT !.graph[p] = IF @ = "none" THEN "fresh" ELSE "none"]
       \/ disk.uses[p] < MaxUses /\ disk' = [disk EXCEPT !.uses[p] = @ + 1]

\* refresh: one scan at a time.
ScanStarts ==
  /\ ~scan.running /\ scan' = [on |-> disk.on, graph |-> disk.graph, running |-> TRUE]
  /\ UNCHANGED <<disk, window, tally, moves>>

\* A folder nobody is in any more is not filtered on.
GroupKept(r) == IF \E p \in r.on : Folder[p] = group THEN group ELSE All

\* The same repositories: nothing in the model changed, so the filter, the
\* cells and the sorter are each told.
MutFilterTold(l, r) == l.shown
FilterTold(l, r) == Matching(chip, group, r, uses, busy)

CellsTold(l, r) == Repainted(l, r, uses, busy)

Same(l, r) ==
  Sorted(CellsTold(Filtered(l, FilterTold(l, r), sort, r, uses, busy), r), sort, r, uses, busy)

\* Others: every item is replaced, and the cursor put back on the stored row.
Spliced(r) == Filtered(Empty, Matching(chip, group, r, uses, busy), sort, r, uses, busy)

Restored(l) == IF chosen \in l.shown THEN chosen ELSE None

SetRows ==
  /\ scan.running /\ scan' = NotRunning
  /\ LET r == [on |-> scan.on, graph |-> scan.graph]
         first == IF r.on = rows.on THEN Same(list, r) ELSE Spliced(r)
     IN  /\ rows' = r
         /\ group' = GroupKept(r)
         /\ list' = IF group' = group THEN first
                    ELSE Filtered(first, Matching(chip, group', r, uses, busy), sort, r, uses, busy)
         /\ IF r.on = rows.on THEN Follows(first) ELSE current' = Restored(first)
  /\ UNCHANGED <<disk, uses, busy, chip, sort, chosen, tally, moves>>

\* A job starts or ends: the state is drawn and sorted on, but the filter is
\* asked again only by the scan that follows.
OnJobEvent == \E p \in Paths :
  /\ Moved
  /\ busy' = IF p \in busy THEN busy \ {p} ELSE busy \cup {p}
  /\ LET l == Repainted(list, rows, uses, busy')
     IN  list' = IF sort = "state" THEN Sorted(l, sort, rows, uses, busy') ELSE l
  /\ UNCHANGED <<disk, rows, uses, choice, cursor, async>>

\* refreshUsage: dropped while one is running, and asked of the rows of now.
RefreshUsage ==
  /\ ~tally.running
  /\ tally' = [on |-> rows.on, uses |-> disk.uses, running |-> TRUE]
  /\ UNCHANGED <<disk, window, scan, moves>>

\* Only a rollup that moved touches the list: the Used cells, the filter when
\* it selects on use, the sorter when it sorts by it.
Told(l, r, u, b) ==
  IF chip = "gap" THEN Filtered(l, Matching(chip, group, r, u, b), sort, r, u, b) ELSE l

PublishUsage ==
  /\ tally.running /\ tally' = NotRunning
  /\ uses' = [p \in Paths |-> IF p \in tally.on THEN tally.uses[p] ELSE 0]
  /\ IF uses' = uses THEN list' = list
     ELSE LET drawn == [list EXCEPT !.cells = [p \in list.shown |->
                          [@[p] EXCEPT ![2] = uses'[p], ![3] = UsageGap(p, rows, uses')]]]
              told  == Told(drawn, rows, uses', busy)
          IN  list' = IF sort = "usage" THEN Sorted(told, sort, rows, uses', busy) ELSE told
  /\ Follows(list') /\ UNCHANGED chosen
  /\ UNCHANGED <<disk, rows, busy, choice, scan, moves>>

\* The once-a-second tick.
Tick ==
  /\ list' = Repainted(list, rows, uses, busy)
  /\ UNCHANGED <<disk, rows, uses, busy, choice, cursor, async, moves>>

Filters(c, g) ==
  /\ chip' = c /\ group' = g
  /\ list' = Filtered(list, Matching(c, g, rows, uses, busy), sort, rows, uses, busy)
  /\ Follows(list')
  /\ UNCHANGED <<disk, rows, uses, busy, sort, chosen, async>>

SetFilter == Moved /\ \E c \in Chips : Filters(c, group)
SetGroup == Moved /\ \E g \in {All} \cup {Folder[p] : p \in rows.on} : Filters(chip, g)

SortBy == \E s \in Sorts :
  /\ Moved /\ sort' = s /\ list' = Sorted(list, s, rows, uses, busy)
  /\ UNCHANGED <<disk, rows, uses, busy, chip, group, cursor, async>>

SelectRow == \E p \in list.shown :
  /\ current' = p /\ chosen' = p
  /\ UNCHANGED <<disk, rows, uses, busy, choice, list, async, moves>>

ViewNext ==
  \/ World \/ ScanStarts \/ SetRows \/ OnJobEvent \/ RefreshUsage \/ PublishUsage
  \/ Tick \/ SetFilter \/ SetGroup \/ SortBy \/ SelectRow

\* The refresh timer asks for both, and both come back.
ViewFairness ==
  /\ WF_viewVars(ScanStarts) /\ WF_viewVars(SetRows)
  /\ WF_viewVars(RefreshUsage) /\ WF_viewVars(PublishUsage)

ViewSpec == ViewInit /\ [][ViewNext]_viewVars /\ ViewFairness

-----------------------------------------------------------------------------
\* What is on the screen is what the window knows, between any two handlers:
\* the cells, the order, and the rows an agent used without a graph when
\* those are asked for (columns.go repaintRows, usage.go publishUsage).
CellsTell == \A p \in list.shown : list.cells[p] = Text(p, rows, uses, busy)
OrderTells == \A p \in list.shown : list.keys[p] = Key(p, sort, rows, uses, busy)
GapTells == chip = "gap" => list.shown = Matching(chip, group, rows, uses, busy)
BoardTells == CellsTell /\ OrderTells /\ GapTells

\* Once nothing changes any more the board shows the checkouts there are that
\* match the chip and the folder, and no other (ui.go setRows).
ShowsDisk == list.shown = Matching(chip, group, disk, disk.uses, busy)
BoardSettles == <>[]ShowsDisk

\* A scan that found a repository more or less leaves the cursor on the row it
\* was on, while that row is shown (columns.go restoreSelection).
CursorKept ==
  SetRows /\ current # None /\ current = chosen /\ current \in list'.shown => current' = current
CursorStays == [][CursorKept]_viewVars
=============================================================================
