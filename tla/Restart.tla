------------------------------ MODULE Restart ------------------------------
(***************************************************************************)
(* The job list across a restart (ui/session.go, store.Jobs): what a click *)
(* asks for, what the sidecar remembers of the runner, and what the next   *)
(* session makes of it; with it every click that starts work again         *)
(* (ui/actions.go, ui/jobsview.go, ui/heldbanner.go).  The runner's lanes  *)
(* are JobRunner's and the file's write is Store's: here a job starts      *)
(* whenever it is queued and not held, and a save happens at any time.     *)
(***************************************************************************)
EXTENDS SequencesExt, Positions

CONSTANTS MaxHistory,  \* finished jobs the sidecar keeps
          MaxJobs,     \* bound: jobs ever made
          Crashes      \* bound: sessions that end without a word

\* What a command costs on its back end: nothing, this machine's hours, money.
Classes == {"free", "local", "billed"}
Finished == {"succeeded", "failed", "canceled"}

RestartAssumptions ==
    /\ MaxHistory \in Nat /\ MaxJobs \in Nat /\ Crashes \in Nat

VARIABLES jobList,   \* the runner's jobs, oldest first
          untold,    \* a lifecycle event the board has not handled yet
          sidecar,   \* Store.s.Jobs, newest first, of a board that is up
          savedJobs, \* the jobs in the state file, newest first
          life,      \* "up", "quit" (closed with a word) or "crashed"
          crashes,   \* sessions lost so far
          missing,   \* jobs whose directory is gone
          made,      \* jobs ever made: a job keeps its number in this model
          consent,   \* billed jobs somebody asked for and that did not start since
          unasked,   \* billed jobs that were started without consent
          parked     \* jobs paused by hand and not started again by hand

restartVars == <<jobList, untold, sidecar, savedJobs, life, crashes, missing,
                 made, consent, unasked, parked>>
userVars == <<missing, made, parked>>
billVars == <<consent, unasked>>

Outstanding(j) == j.status \notin Finished
Jobs == DOMAIN jobList
Number == 1 .. MaxJobs

RestartInit ==
    /\ jobList = <<>> /\ untold = FALSE
    /\ sidecar = <<>> /\ savedJobs = <<>>
    /\ life = "up" /\ crashes = 0
    /\ missing = {} /\ parked = {}
    /\ made = 0
    /\ consent = {} /\ unasked = {}

-----------------------------------------------------------------------------
(* Clicks.  A billed command is a dialog first; a dialog that is cancelled *)
(* changes nothing and is no step.                                         *)

Ask(class) ==
    /\ life = "up" /\ made < MaxJobs
    /\ made' = made + 1
    /\ jobList' = Append(jobList, [number |-> made + 1, class |-> class, status |-> "queued",
                                   held |-> FALSE, paused |-> FALSE])
    /\ consent' = consent \cup {n \in {made + 1} : class = "billed"}
    /\ untold' = TRUE
    /\ UNCHANGED <<sidecar, savedJobs, life, crashes, missing, unasked, parked>>

\* A key or a menu item of the board.
RunAction(class) == Ask(class)

\* Retry re-runs a finished job, after the cost gate when it bills.
RetryJob(j) == ~Outstanding(jobList[j]) /\ Ask(jobList[j].class)

Released(js) ==
    /\ jobList' = [j \in Jobs |-> IF j \in js THEN [jobList[j] EXCEPT !.held = FALSE]
                                  ELSE jobList[j]]
    /\ consent' = consent \cup {jobList[j].number : j \in {j \in js : jobList[j].class = "billed"}}
    /\ parked' = parked \ {jobList[j].number : j \in js}
    /\ untold' = TRUE
    /\ UNCHANGED <<sidecar, savedJobs, life, crashes, missing, made, unasked>>

HeldJobs == {j \in Jobs : jobList[j].status = "queued" /\ jobList[j].held}

StartHeld(j) == life = "up" /\ j \in HeldJobs /\ Released({j})

StartAllHeld == life = "up" /\ HeldJobs # {} /\ Released(HeldJobs)

\* A pause and a resume: the event of neither rewrites the sidecar.
TogglePause(j) ==
    /\ life = "up" /\ jobList[j].status = "running"
    /\ jobList' = [jobList EXCEPT ![j].paused = ~@]
    /\ parked' = IF jobList[j].paused THEN parked \ {jobList[j].number}
                 ELSE parked \cup {jobList[j].number}
    /\ UNCHANGED <<untold, sidecar, savedJobs, life, crashes, missing, made, billVars>>

EndsAs(j, s) ==
    /\ jobList' = [jobList EXCEPT ![j].status = s, ![j].paused = FALSE, ![j].held = FALSE]
    /\ untold' = TRUE
    /\ UNCHANGED <<sidecar, savedJobs, life, crashes, missing, made, billVars>>

\* A cancel is an answer of its own: the job is no longer parked.
CancelJob(j) ==
    /\ life = "up" /\ Outstanding(jobList[j])
    /\ parked' = parked \ {jobList[j].number}
    /\ EndsAs(j, "canceled")

-----------------------------------------------------------------------------
(* The runner, as far as it matters here. *)

StartJob(j) ==
    /\ life = "up" /\ jobList[j].status = "queued" /\ ~jobList[j].held
    /\ jobList' = [jobList EXCEPT ![j].status = "running"]
    /\ consent' = consent \ {jobList[j].number}
    /\ unasked' = unasked \cup {n \in {jobList[j].number} \ consent : jobList[j].class = "billed"}
    /\ untold' = TRUE
    /\ UNCHANGED <<sidecar, savedJobs, life, crashes, userVars>>

EndJob(j) ==
    /\ life = "up" /\ jobList[j].status = "running" /\ ~jobList[j].paused
    /\ \E s \in {"succeeded", "failed"} : EndsAs(j, s)
    /\ UNCHANGED parked

-----------------------------------------------------------------------------
(* The sidecar. *)

\* The finished jobs are bounded, newest kept; the others never are.
MutTrimJobs(list) == SubSeq(list, 1, IF Len(list) < MaxHistory THEN Len(list) ELSE MaxHistory)

TrimJobs(list) ==
    LET done(i) == Cardinality({k \in 1 .. i : ~Outstanding(list[k])})
    IN  Picked(list, {i \in DOMAIN list : Outstanding(list[i]) \/ done(i) <= MaxHistory})

SetJobs == TrimJobs(Reverse(jobList))

\* onJobEvent: every transition rewrites the list from a snapshot.
PersistJobs ==
    /\ life = "up" /\ untold
    /\ sidecar' = SetJobs /\ untold' = FALSE
    /\ UNCHANGED <<jobList, savedJobs, life, crashes, userVars, billVars>>

SaveJobs ==
    /\ life = "up" /\ savedJobs # sidecar
    /\ savedJobs' = sidecar
    /\ UNCHANGED <<jobList, untold, sidecar, life, crashes, userVars, billVars>>

\* The main loop is over: the queue is written before the runner is closed,
\* and the store is flushed.
QuitBoard ==
    /\ life = "up"
    /\ life' = "quit" /\ savedJobs' = SetJobs
    /\ jobList' = <<>> /\ sidecar' = <<>> /\ untold' = FALSE
    /\ UNCHANGED <<crashes, userVars, billVars>>

CrashBoard ==
    /\ life = "up" /\ crashes < Crashes
    /\ life' = "crashed" /\ crashes' = crashes + 1
    /\ jobList' = <<>> /\ sidecar' = <<>> /\ untold' = FALSE
    /\ UNCHANGED <<savedJobs, userVars, billVars>>

DirectoryGoes(n) ==
    /\ life # "up" /\ n <= made /\ n \notin missing
    /\ missing' = missing \cup {n}
    /\ UNCHANGED <<jobList, untold, sidecar, savedJobs, life, crashes, made, billVars, parked>>

\* What a job the last session ended in the middle of comes back as: held
\* when it was paused or bills, or when the model server it needs is neither
\* there nor startable; resumed otherwise.
MutResumedHeld(e, server) == IF e.paused THEN TRUE ELSE e.class = "local" /\ ~server

ResumedHeld(e, server) ==
    IF e.paused \/ e.class = "billed" THEN TRUE
    ELSE e.class = "local" /\ ~server

RestoredJob(e, server) ==
    IF Outstanding(e)
    THEN [e EXCEPT !.status = "queued", !.paused = FALSE,
                   !.held = IF e.status = "running" THEN ResumedHeld(e, server)
                            ELSE e.held \/ e.class \in {"billed", "local"}]
    ELSE e

\* The next session's activate: oldest first, the outstanding work of a
\* directory that is gone dropped.
LaunchBoard ==
    /\ life # "up"
    /\ \E server \in BOOLEAN :
         LET past == Reverse(savedJobs)
             kept == Picked(past, {i \in DOMAIN past : \/ ~Outstanding(past[i])
                                                       \/ past[i].number \notin missing})
         IN  jobList' = [i \in DOMAIN kept |-> RestoredJob(kept[i], server)]
    /\ life' = "up" /\ sidecar' = savedJobs
    /\ UNCHANGED <<untold, savedJobs, crashes, userVars, billVars>>

RestartNext ==
    \/ \E class \in Classes : RunAction(class)
    \/ \E n \in Number : DirectoryGoes(n)
    \/ \E j \in Jobs : \/ RetryJob(j) \/ StartHeld(j) \/ TogglePause(j) \/ CancelJob(j)
                       \/ StartJob(j) \/ EndJob(j)
    \/ StartAllHeld \/ PersistJobs \/ SaveJobs
    \/ QuitBoard \/ CrashBoard \/ LaunchBoard

RestartSpec == RestartInit /\ [][RestartNext]_restartVars

-----------------------------------------------------------------------------
\* One consent covers one start: a billed command is never started again, by a
\* resume or a restart, without a click since (ui/session.go
\* resumeInterrupted, restoredJob, jobsview.go retryJob).
NeverBilledUnasked == unasked = {}

\* Work that was outstanding when the board was quit is outstanding in the
\* next session, unless its directory is gone (persistJobs before Close,
\* trimJobs, restoredJob).
WorkIn(list) == {list[i].number : i \in {i \in DOMAIN list : Outstanding(list[i])}}

QueueKept ==
    /\ life = "up" /\ life' = "quit" => WorkIn(jobList) = WorkIn(savedJobs')
    /\ life = "quit" /\ life' = "up" => WorkIn(savedJobs) \ missing \subseteq WorkIn(jobList')
QueueSurvives == [][QueueKept]_restartVars

\* "A PAUSED job stays held. It was stopped by hand, and a restart is not
\* consent to start it again" (ui/session.go:239).
PausedStaysHeld ==
    \A j \in Jobs : jobList[j].number \in parked /\ jobList[j].status = "running"
        => jobList[j].paused

=============================================================================
