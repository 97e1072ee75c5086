-------------------------------- MODULE Dock --------------------------------
(***************************************************************************)
(* The strip of jobs at the bottom of the window (ui/dock.go).  Its list   *)
(* is rebuilt only when a key of it moves; a once-a-second tick renews the *)
(* text of the rows that stand.                                            *)
(***************************************************************************)
EXTENDS RunnerView, Positions

CONSTANT DoneRows   \* dockMaxJobRows

VARIABLE dock       \* the key, what is drawn, and whether finished jobs are listed

dockVars == <<jobs, dock>>

DockInit ==
  /\ jobs = <<>>
  /\ dock = [key |-> <<>>, drawn |-> <<>>, showDone |-> TRUE]

\* Why a queued job has not started.
WaitReason(i) ==
  IF Busy(jobs[i].repo) # {} THEN "waiting for a job on the same repository"
  ELSE IF Full(jobs[i].class) THEN "waiting for a lane" ELSE "starting"

LaneUse == [c \in DOMAIN Lanes |-> Cardinality(Using(c))]
OutcomeNote == [s \in {"succeeded", "failed", "canceled"} |-> Cardinality(In(s))]

\* The text of a row, which a tick renews without rebuilding it.
DockStatus(i, pos) ==
  CASE jobs[i].status = "queued"  -> <<pos, WaitReason(i)>>
    [] jobs[i].status = "running" -> <<IF jobs[i].paused THEN "paused" ELSE "running">>
    [] OTHER                      -> <<jobs[i].status>>

Header(title, S, note) == <<[title |-> title, count |-> Cardinality(S), note |-> note]>>
JobRows(S) == [n \in DOMAIN S |-> [job |-> Snapshot(jobs, S[n]), text |-> DockStatus(S[n], n)]]
IsHeader(e) == "title" \in DOMAIN e

Oldest(S) == [k \in 1 .. Cardinality(S) |-> Nth(S, k)]
LastOver == {i \in Over : Cardinality({k \in Over : k > i}) < DoneRows}

DockEntries(showDone) ==
  LET running  == Header("Running", In("running"), <<LaneUse>>) \o JobRows(Oldest(In("running")))
      queued   == Header("Queued", In("queued"), <<>>) \o JobRows(Oldest(In("queued")))
      finished == IF showDone
                  THEN Header("Finished", Over, <<OutcomeNote>>) \o JobRows(Reverse(Oldest(LastOver)))
                  ELSE Header("Finished", Over, <<>>)
  IN  running \o queued \o finished

\* The pause mark left out of the key, and the lanes in use with it.
MutDockKey(e) == [n \in DOMAIN e |-> IF IsHeader(e[n]) THEN [title |-> e[n].title, count |-> e[n].count]
                                     ELSE [id |-> e[n].job.id, status |-> e[n].job.status]]

\* A rebuild is skipped while the headers, and each row's id, status and
\* pause mark, are what they were.
DockKey(e) == [n \in DOMAIN e |-> IF IsHeader(e[n]) THEN e[n] ELSE e[n].job]

ReloadDock(d) ==
  LET e == DockEntries(d.showDone)
  IN  IF DockKey(e) = d.key THEN d ELSE [d EXCEPT !.key = DockKey(e), !.drawn = e]

\* A tick reloads, and renews the text of the rows that stand.
TickDock(d) ==
  LET e == DockEntries(d.showDone)
      now(r) == {n \in DOMAIN e : ~IsHeader(e[n]) /\ e[n].job.id = r.job.id}
      renewed(r) == IF IsHeader(r) \/ now(r) = {} THEN r
                    ELSE [r EXCEPT !.text = e[CHOOSE n \in now(r) : TRUE].text]
      new == ReloadDock(d)
  IN  [new EXCEPT !.drawn = [n \in DOMAIN @ |-> renewed(@[n])]]

ToggleDone ==
  /\ dock' = ReloadDock([dock EXCEPT !.showDone = ~@, !.key = <<>>])
  /\ UNCHANGED jobs

\* An event, or the strip being opened.
Reload == dock' = ReloadDock(dock) /\ UNCHANGED jobs

Tick == dock' = TickDock(dock) /\ UNCHANGED jobs

RunnerMoves == (Changes \/ Output) /\ UNCHANGED dock

DockNext == RunnerMoves \/ Reload \/ ToggleDone \/ Tick

DockSpec == DockInit /\ [][DockNext]_dockVars

-----------------------------------------------------------------------------
\* What the dock shows after a tick is what the runner holds, the rows it did
\* not rebuild included (dock.go reloadJobsWith, tickJobs and dockKey).
TickTells == Tick => dock'.drawn = DockEntries(dock.showDone)
DockTells == [][TickTells]_dockVars
=============================================================================
