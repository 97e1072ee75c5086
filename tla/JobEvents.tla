----------------------------- MODULE JobEvents -----------------------------
(***************************************************************************)
(* The runner's event stream: Runner.emit and Close (internal/jobs/jobs.go)*)
(* on one side of a bounded channel, on the other the board's pumpJobs and *)
(* onJobEvent (internal/ui/ui.go), which keep the newest job of each row,  *)
(* or the range loop of cmd/ggraphify-job, which stops when it has what it *)
(* waited for.                                                             *)
(*                                                                         *)
(* A transition is made and its snapshot taken under Runner.mu; the event  *)
(* is emitted after the unlock, by the goroutine that made the transition. *)
(* Between the two anything may happen, and that is what this module is    *)
(* about: JobRunner has the rest of the runner and no events.              *)
(***************************************************************************)
EXTENDS Naturals, Sequences, FiniteSets

CONSTANTS
  Job,        \* jobs that may be submitted
  Repo,       \* checkouts, the rows of the board
  RepoOf,     \* Job.Repo
  Restored,   \* the jobs restoreJobs brought back held, oldest first
  Capacity,   \* the size of the events channel
  MaxToggles  \* bound on the pause and resume clicks

ASSUME EventAssumptions ==
  /\ IsFiniteSet(Job)
  /\ RepoOf \in [Job -> Repo]
  /\ Restored \in Seq(Job)
  /\ \A i, n \in DOMAIN Restored : Restored[i] = Restored[n] => i = n
  /\ Capacity \in Nat \ {0}
  /\ MaxToggles \in Nat

VARIABLES
  status,     \* Job.Status; "none" before Submit, "done" for the terminal ones
  paused,     \* Job.paused
  held,       \* Job.Held
  toggles,    \* clicks counted against MaxToggles
  id,         \* Job.ID, 0 before Submit
  at,         \* a goroutine's place in emit: "idle", "enter" or "send"
  carries,    \* the event it is emitting
  events,     \* the channel
  closing,    \* Close: "open", "swapped", "quit", "wait", "lock" or "closed"
  reading,    \* the consumer still reads
  row,        \* App.jobByRepo, and the id in App.jobIDs
  heard       \* jobs whose terminal event the consumer has received

jobVars == <<status, paused, held, id, toggles>>
vars == <<jobVars, at, carries, events, closing, reading, row, heard>>

\* The goroutines that emit: the caller of Submit, the one that lifts a hold,
\* a pause or resume click, the scheduler, and the one that ends the job.
Source == {"submit", "unhold", "toggle", "dispatch", "end"} \X Job

Event(j, s, p) == [job |-> j, status |-> s, paused |-> p]
NoEvent == [job |-> 0, status |-> "none", paused |-> FALSE]

closed == closing # "open"
\* quit is closed at the top of Close, before anything that waits.
QuitClosed == closing \notin {"open", "swapped"}

\* emitMu: a writer that waits keeps new readers out.
Readers == {s \in Source : at[s] = "send"}
MayRead == closing # "lock"

Init ==
  /\ id = [j \in Job |-> IF \E i \in DOMAIN Restored : Restored[i] = j
                         THEN CHOOSE i \in DOMAIN Restored : Restored[i] = j ELSE 0]
  /\ status = [j \in Job |-> IF id[j] > 0 THEN "queued" ELSE "none"]
  /\ held = [j \in Job |-> id[j] > 0]
  /\ paused = [j \in Job |-> FALSE] /\ toggles = 0
  /\ at = [s \in Source |-> "idle"]
  /\ carries = [s \in Source |-> NoEvent]
  /\ events = <<>> /\ closing = "open" /\ reading = TRUE /\ heard = {}
  \* restoreJobs seeds the rows from Snapshot: Restore emits nothing.
  /\ row = [r \in Repo |->
       LET mine == {i \in DOMAIN Restored : RepoOf[Restored[i]] = r}
       IN  IF mine = {} THEN [id |-> 0, status |-> "none", paused |-> FALSE]
           ELSE [id |-> CHOOSE i \in mine : \A n \in mine : n <= i,
                 status |-> "queued", paused |-> FALSE]]

-----------------------------------------------------------------------------
(***************************************************************************)
(* The transitions. Each leaves the snapshot it took with the goroutine    *)
(* that is about to emit it.                                               *)
(***************************************************************************)
Snapshot(j) == Event(j, status'[j], paused'[j])

Emits(who, j) ==
  /\ at[<<who, j>>] = "idle"
  /\ at' = [at EXCEPT ![<<who, j>>] = "enter"]
  /\ carries' = [carries EXCEPT ![<<who, j>>] = Snapshot(j)]
  /\ UNCHANGED <<events, closing, reading, row, heard>>

Submit(j) ==
  /\ status[j] = "none"
  /\ id' = [id EXCEPT ![j] = 1 + Cardinality({k \in Job : id[k] > 0})]
  /\ status' = [status EXCEPT ![j] = "queued"]
  /\ UNCHANGED <<paused, held, toggles>>
  /\ Emits("submit", j)

\* Release, ReleaseAll and handOverLane.
Unhold(j) ==
  /\ status[j] = "queued" /\ held[j]
  /\ held' = [held EXCEPT ![j] = FALSE]
  /\ UNCHANGED <<status, paused, id, toggles>>
  /\ Emits("unhold", j)

\* The scheduler emits before it goes on to the next job, and before it
\* starts the goroutine that runs this one.
Dispatch(j) ==
  /\ ~closed
  /\ status[j] = "queued" /\ ~held[j]
  /\ \A k \in Job : at[<<"dispatch", k>>] = "idle"
  /\ status' = [status EXCEPT ![j] = "running"]
  /\ UNCHANGED <<paused, held, id, toggles>>
  /\ Emits("dispatch", j)

Started(j) == status[j] = "running" /\ at[<<"dispatch", j>>] = "idle"

\* setPaused, from the lock under which it records its change.
Toggle(j) ==
  /\ Started(j)
  /\ toggles < MaxToggles /\ toggles' = toggles + 1
  /\ paused' = [paused EXCEPT ![j] = ~@]
  /\ UNCHANGED <<status, held, id>>
  /\ Emits("toggle", j)

\* The end of run.
Finish(j) ==
  /\ Started(j)
  /\ status' = [status EXCEPT ![j] = "done"]
  /\ paused' = [paused EXCEPT ![j] = FALSE]
  /\ UNCHANGED <<held, id, toggles>>
  /\ Emits("end", j)

CancelQueued(j) ==
  /\ status[j] = "queued"
  /\ status' = [status EXCEPT ![j] = "done"]
  /\ UNCHANGED <<paused, held, id, toggles>>
  /\ Emits("end", j)

-----------------------------------------------------------------------------
(***************************************************************************)
(* emit: the read lock, the closed check inside it, and the send.          *)
(***************************************************************************)
Leaves(s) ==
  /\ at' = [at EXCEPT ![s] = "idle"]
  /\ carries' = [carries EXCEPT ![s] = NoEvent]

Enter(s) ==
  /\ at[s] = "enter" /\ MayRead
  /\ IF closed THEN Leaves(s)
     ELSE at' = [at EXCEPT ![s] = "send"] /\ UNCHANGED carries
  /\ UNCHANGED <<jobVars, events, closing, reading, row, heard>>

\* A transition is sent blocking, or given up once quit is closed.
MutSend(s) == \* a transition dropped like an output event
  /\ at[s] = "send"
  /\ Leaves(s)
  /\ events' = IF Len(events) < Capacity THEN Append(events, carries[s]) ELSE events
  /\ UNCHANGED <<jobVars, closing, reading, row, heard>>
Send(s) ==
  /\ at[s] = "send"
  /\ Leaves(s)
  /\ \/ Len(events) < Capacity /\ events' = Append(events, carries[s])
     \/ QuitClosed /\ UNCHANGED events
  /\ UNCHANGED <<jobVars, closing, reading, row, heard>>

\* logWriter.Write: an output event never waits, and is dropped if it must.
EmitOutput(j) ==
  /\ Started(j) /\ MayRead /\ ~closed
  /\ Len(events) < Capacity
  /\ events' = Append(events, Event(j, "output", FALSE))
  /\ UNCHANGED <<jobVars, at, carries, closing, reading, row, heard>>

-----------------------------------------------------------------------------
(***************************************************************************)
(* Close. CancelAll is one step here (JobRunner has it job by job): what   *)
(* it emits meets the closed check. A running job ends in its own time.    *)
(***************************************************************************)
CloseSwap ==
  /\ closing = "open" /\ closing' = "swapped"
  /\ UNCHANGED <<jobVars, at, carries, events, reading, row, heard>>

CloseQuit ==
  /\ closing = "swapped" /\ closing' = "quit"
  /\ UNCHANGED <<jobVars, at, carries, events, reading, row, heard>>

CloseCancelAll ==
  /\ closing = "quit" /\ closing' = "wait"
  /\ status' = [j \in Job |-> IF status[j] = "queued" THEN "done" ELSE status[j]]
  /\ UNCHANGED <<paused, held, id, toggles, at, carries, events, reading, row, heard>>

\* wg.Wait: the scheduler has left its loop, and no job is running.
CloseWaits ==
  /\ closing = "wait" /\ closing' = "lock"
  /\ \A j \in Job : status[j] # "running" /\ at[<<"dispatch", j>>] = "idle"
  /\ UNCHANGED <<jobVars, at, carries, events, reading, row, heard>>

\* The write lock, and close(events) under it.
MutCloseEvents == \* closed without emitMu
  /\ closing = "lock" /\ closing' = "closed"
  /\ UNCHANGED <<jobVars, at, carries, events, reading, row, heard>>
CloseEvents ==
  /\ closing = "lock" /\ Readers = {} /\ closing' = "closed"
  /\ UNCHANGED <<jobVars, at, carries, events, reading, row, heard>>

-----------------------------------------------------------------------------
(***************************************************************************)
(* The consumer. pumpJobs and the IdleAdd queue keep the channel's order,  *)
(* so a received event is folded at once: an event of an older job than    *)
(* the row's does not displace it.                                         *)
(***************************************************************************)
MutNewer(j) == TRUE
Newer(j) == id[j] >= row[RepoOf[j]].id

Receive ==
  /\ reading /\ events # <<>>
  /\ events' = Tail(events)
  /\ LET e == Head(events)
     IN  IF e.status = "output" THEN UNCHANGED <<row, heard>>
         ELSE /\ row' = IF Newer(e.job)
                        THEN [row EXCEPT ![RepoOf[e.job]] =
                               [id |-> id[e.job], status |-> e.status, paused |-> e.paused]]
                        ELSE row
              /\ heard' = IF e.status = "done" THEN heard \cup {e.job} ELSE heard
  /\ UNCHANGED <<jobVars, at, carries, closing, reading>>

\* The range loop of ggraphify-job breaks; the window's pump never does.
StopReading ==
  /\ reading /\ reading' = FALSE
  /\ UNCHANGED <<jobVars, at, carries, events, closing, row, heard>>

-----------------------------------------------------------------------------
Transitions(j) == \/ Submit(j) \/ Unhold(j) \/ Dispatch(j) \/ Toggle(j)
                  \/ Finish(j) \/ CancelQueued(j)
Closer == CloseSwap \/ CloseQuit \/ CloseCancelAll \/ CloseWaits \/ CloseEvents

Next == \/ \E j \in Job : Transitions(j) \/ EmitOutput(j)
        \/ \E s \in Source : Enter(s) \/ Send(s)
        \/ Closer \/ Receive \/ StopReading

(***************************************************************************)
(* Goroutines get to run. Go serves the senders parked on a channel in     *)
(* order, ahead of any later send, hence strong fairness for Send; once    *)
(* the runner is closed its jobs are killed, and end.                      *)
(***************************************************************************)
Fairness ==
  /\ WF_vars(Receive)
  /\ WF_vars(closed /\ Closer)
  /\ WF_vars(\E s \in Source : Enter(s))
  /\ SF_vars(\E s \in Source : Send(s))
  /\ WF_vars(closed /\ \E j \in Job : Finish(j))

Spec == Init /\ [][Next]_vars
FairSpec == Spec /\ Fairness

-----------------------------------------------------------------------------
(***************************************************************************)
(* Properties.                                                             *)
(***************************************************************************)
\* No goroutine is ever about to send on the closed channel, which would
\* panic the application on quit: Close's comment on emitMu.
NeverSendsOnClosed == closing = "closed" => Readers = {}

\* Nothing is on its way to the board any more.
Settled == /\ ~closed /\ reading /\ events = <<>>
           /\ \A s \in Source : at[s] = "idle"

\* When every event has arrived, in whatever order, each row is about the
\* newest job of its checkout: onJobEvent's guard on the id.
NewestShown ==
  Settled => \A j \in Job : id[j] <= row[RepoOf[j]].id

\* The end of a job reaches a consumer that reads, however much output fills
\* the channel: the event ggraphify-job exits on.
EndIsHeard ==
  \A j \in Job : at[<<"end", j>>] = "enter" /\ ~closed ~> j \in heard \/ closed \/ ~reading

\* Close returns although nobody reads and emits are parked on a full channel.
CloseReturns == closed ~> closing = "closed"

\* Both at once: emit's blocking sends and Close's quit channel pull against each
\* other, and neither the end of a job nor the end of the runner is lost to it.
EventsEnd == EndIsHeard /\ CloseReturns

(***************************************************************************)
(* What the comments claim and the code does not do.                       *)
(***************************************************************************)
\* The outcome emit's comment gives as the reason for its blocking sends, "a
\* row stuck at running": every event has arrived, the row's job is over, and
\* the row says it is not.
NoRowStuck ==
  Settled => \A j \in Job : status[j] = "done" /\ id[j] = row[RepoOf[j]].id
               => row[RepoOf[j]].status = "done"
=============================================================================
