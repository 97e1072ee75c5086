----------------------------- MODULE RunnerView -----------------------------
(***************************************************************************)
(* The job runner as the panes of the window see it: jobs by id, in the    *)
(* order they were submitted, each with the lane it uses, its state and    *)
(* how far its log has gone.  What the scheduler decides and in which      *)
(* order is JobRunner's subject.                                           *)
(***************************************************************************)
EXTENDS Naturals, FiniteSets, SequencesExt

CONSTANTS Repos,           \* the repositories
          Lanes,           \* the concurrent jobs of each cost class
          MaxJobs, MaxGen  \* bounds: submissions, and writes to one log

VARIABLE jobs

Ids == DOMAIN jobs
In(status) == {i \in Ids : jobs[i].status = status}
Done(status) == status \in {"succeeded", "failed", "canceled"}
Over == {i \in Ids : Done(jobs[i].status)}

Snapshot(j, i) == [id |-> i, status |-> j[i].status, paused |-> j[i].paused]

Queued(repo, class) ==
  [repo |-> repo, class |-> class, status |-> "queued", paused |-> FALSE, gen |-> 0,
   asks |-> FALSE, saves |-> 0]

\* Only a job that writes to the checkout holds it; a question does not.
Busy(repo) == {i \in In("running") : jobs[i].repo = repo /\ ~jobs[i].asks}
Using(class) == {i \in In("running") : jobs[i].class = class /\ ~jobs[i].paused}
Full(class) == Cardinality(Using(class)) >= Lanes[class]

SubmitJob(new) == Len(jobs) < MaxJobs /\ jobs' = Append(jobs, new)
Becomes(i, new) == jobs' = [jobs EXCEPT ![i] = new]

Submit == \E r \in Repos, c \in DOMAIN Lanes : SubmitJob(Queued(r, c))

\* The header of a log is its first write.
Start == \E i \in In("queued") :
  /\ ~Full(jobs[i].class) /\ (jobs[i].asks \/ Busy(jobs[i].repo) = {})
  /\ Becomes(i, [jobs[i] EXCEPT !.status = "running", !.gen = 1])

Output == \E i \in In("running") :
  /\ ~jobs[i].paused /\ jobs[i].gen < MaxGen
  /\ Becomes(i, [jobs[i] EXCEPT !.gen = @ + 1])

Pause == \E i \in In("running") :
  /\ jobs[i].gen < MaxGen
  /\ Becomes(i, [jobs[i] EXCEPT !.paused = ~@, !.gen = @ + 1])

End == \E i \in In("running"), s \in {"succeeded", "failed"} :
  ~jobs[i].paused /\ Becomes(i, [jobs[i] EXCEPT !.status = s])

Cancel == \E i \in In("queued") : Becomes(i, [jobs[i] EXCEPT !.status = "canceled"])

\* A change of state is announced; output is not.
Changes == Submit \/ Start \/ Pause \/ End \/ Cancel
=============================================================================
