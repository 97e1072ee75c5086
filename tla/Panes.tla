------------------------------- MODULE Panes -------------------------------
(***************************************************************************)
(* The detail view's Jobs page (ui/detail.go) and its Query page           *)
(* (ui/query.go), where a job's output is the answer.  Events reach the    *)
(* GTK thread one at a time; between two of them a once-a-second tick      *)
(* reads the runner itself.                                                *)
(***************************************************************************)
EXTENDS RunnerView

CONSTANTS Graphed,         \* the repositories with a graph to ask
          NoRepo,
          MaxEvents        \* bound: events on their way at once

VARIABLES events,          \* snapshots on their way to the GTK thread
          last,            \* jobByRepo: what the thread knows of each repository
          row, tab, page,  \* what is selected, the visible page, what the Jobs page shows
          query            \* the console

panesVars == <<jobs, events, last, row, tab, page, query>>
runner == <<jobs, events>>
detail == <<row, tab, page>>

NoSnap == [id |-> 0, status |-> "none", paused |-> FALSE]

Shown(snap, gen) == [job |-> snap, gen |-> gen]
Gen(snap) == IF snap.id = 0 THEN 0 ELSE jobs[snap.id].gen

PanesInit ==
  /\ jobs = <<>> /\ events = <<>>
  /\ last = [r \in Repos |-> NoSnap]
  /\ row = NoRepo /\ tab = "jobs" /\ page = Shown(NoSnap, 0)
  /\ query = [job |-> 0, gen |-> 0, row |-> NoRepo, asked |-> 0, answer |-> 0,
              save |-> FALSE, out |-> "blank"]

\* A copy of the job is sent by whoever changed it. Those of one job arrive in
\* order here (JobEvents has the rest), those of different jobs in any.
Announce(i) == \E k \in 1 .. Len(events) + 1 :
  /\ Len(events) < MaxEvents
  /\ \A n \in k .. Len(events) : events[n].id # i
  /\ events' = InsertAt(events, k, Snapshot(jobs', i))

Announced ==
  /\ Changes
  /\ Announce(CHOOSE i \in DOMAIN jobs' : i \notin Ids \/ jobs'[i] # jobs[i])
  /\ UNCHANGED <<last, detail, query>>

Unannounced == Output /\ UNCHANGED <<events, last, detail, query>>

-----------------------------------------------------------------------------
(* The detail view. *)

\* The Jobs page shows the repository's newest job, and its log as far as it went.
JobsPage(r, known) == IF r = NoRepo THEN page ELSE Shown(known[r], Gen(known[r]))

Newer(snap, known) == snap.id >= known.id

OnJobEvent ==
  /\ events # <<>> /\ events' = Tail(events)
  /\ LET snap == Head(events)
         repo == jobs[snap.id].repo
     IN  last' = IF Newer(snap, last[repo]) THEN [last EXCEPT ![repo] = snap] ELSE last
  /\ page' = JobsPage(row, last')
  /\ UNCHANGED <<jobs, row, tab, query>>

\* The Query page follows the selection, and says so when there is no graph.
Console(r) == [query EXCEPT !.row = r, !.out = IF r \in Graphed THEN @ ELSE "no graph"]

Load(r, t) ==
  /\ row' = r /\ tab' = t
  /\ page' = IF t = "jobs" THEN JobsPage(r, last) ELSE page
  /\ query' = IF t = "query" /\ r # NoRepo THEN Console(r) ELSE query
  /\ UNCHANGED <<runner, last>>

Select == \E r \in (Repos \cup {NoRepo}) \ {row} : Load(r, tab)
Turn == \E t \in {"jobs", "query"} \ {tab} : Load(row, t)

-----------------------------------------------------------------------------
(* The console. *)

\* A new question forgets the answer to the last one.
Forgotten(q) == [q EXCEPT !.answer = 0, !.save = FALSE]

Ask ==
  /\ tab = "query" /\ row # NoRepo /\ query.row \in Graphed
  /\ \E c \in DOMAIN Lanes : SubmitJob([Queued(query.row, c) EXCEPT !.asks = TRUE])
  /\ Announce(Len(jobs'))
  /\ query' = [Forgotten(query) EXCEPT !.job = Len(jobs'), !.asked = Len(jobs'), !.out = "running"]
  /\ UNCHANGED <<last, detail>>

\* The console renders a running question's output and a finished one's
\* answer, when the log has moved since it last looked.
TickQuery(q) ==
  IF q.job = 0 \/ jobs[q.job].gen = q.gen THEN q
  ELSE IF ~Done(jobs[q.job].status)
  THEN [q EXCEPT !.gen = jobs[q.job].gen, !.out = "running"]
  ELSE [q EXCEPT !.gen = jobs[q.job].gen, !.out = "answer", !.answer = q.job,
                 !.save = jobs[q.job].status = "succeeded", !.job = 0]

SaveResult ==
  /\ query.save /\ tab = "query" /\ row # NoRepo /\ query.answer # 0
  /\ SubmitJob([Queued(query.row, "free") EXCEPT !.saves = query.answer])
  /\ Announce(Len(jobs'))
  /\ query' = [query EXCEPT !.save = FALSE]
  /\ UNCHANGED <<last, detail>>

\* The once-a-second tick.
TickJobsPage ==
  LET s == last[row]
  IN  IF row = NoRepo \/ s.id = 0 THEN page
      ELSE IF Gen(s) # page.gen \/ s.id # page.job.id THEN JobsPage(row, last)
      ELSE IF ~Done(s.status) THEN [page EXCEPT !.job = s] ELSE page

Tick ==
  /\ query' = IF tab = "query" THEN TickQuery(query) ELSE query
  /\ page' = IF tab = "jobs" THEN TickJobsPage ELSE page
  /\ UNCHANGED <<runner, last, row, tab>>

PanesNext ==
  \/ Announced \/ Unannounced \/ OnJobEvent \/ Select \/ Turn \/ Ask \/ SaveResult \/ Tick

\* The GTK thread drains what is posted to it, and its timer fires.
PanesFairness == WF_panesVars(OnJobEvent) /\ WF_panesVars(Tick)

PanesSpec == PanesInit /\ [][PanesNext]_panesVars /\ PanesFairness

-----------------------------------------------------------------------------
\* A question and the answer beside it belong together: asking again, however
\* late the last answer came, never pairs the new question with the old one.
AnswersPaired == query.answer # 0 => query.answer = query.asked

Newest(r) == LET S == {i \in Ids : jobs[i].repo = r}
             IN  CHOOSE i \in S \cup {0} : \A k \in S : k <= i

\* With no event on its way a Jobs page shows the repository's newest job as it is,
\* in whatever order those of older jobs came (onJobEvent's guard by id).
EventsTold ==
  events = <<>> => \A r \in Repos \ {NoRepo} :
    tab = "jobs" /\ row = r /\ Newest(r) # 0 => page.job = Snapshot(jobs, Newest(r))

\* Once a repository's newest job has ended, a Jobs page left on it comes to
\* show the job's end and all of its log (detail.go tick, ui.go onJobEvent).
Ended(r) == tab = "jobs" /\ row = r /\ Newest(r) # 0 /\ Done(jobs[Newest(r)].status)
PageTells(r) ==
  Ended(r) => page = Shown(Snapshot(jobs, Newest(r)), jobs[Newest(r)].gen)
JobsPageSettles == \A r \in Repos : Ended(r) ~> PageTells(r)

\* A finished question left on the page comes to be answered.
AnswerSettles ==
  (query.job # 0 /\ tab = "query" /\ Done(jobs[query.job].status) /\ jobs[query.job].gen > 0)
    ~> (query.job = 0 \/ tab # "query")

\* An answer is saved to the repository it is about.
SavedWhereAsked == \A i \in Ids : jobs[i].saves # 0 => jobs[jobs[i].saves].repo = jobs[i].repo
=============================================================================
