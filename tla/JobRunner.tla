------------------------------ MODULE JobRunner ------------------------------
(***************************************************************************)
(* internal/jobs/jobs.go: the Runner that supervises graphify processes.   *)
(*                                                                         *)
(* Its actors are the scheduler goroutine (loop, dispatch, pick), one      *)
(* goroutine per dispatched job (run), one reaper per started process      *)
(* (reap), the goroutines a pause or resume click starts (setPaused,       *)
(* handOverLane), the callers of Submit, Restore, Release, Cancel and      *)
(* SetLanes, the one caller of Close, and the process groups themselves.   *)
(* One action is one section the code runs under Runner.mu, one signal, or *)
(* one call of the job's Lease: whatever may run between two of them, here *)
(* may. A goroutine's kick() is taken with the locked section before it:   *)
(* it only fills the one-slot wake channel, and nothing it does in between *)
(* touches the runner.                                                     *)
(***************************************************************************)
EXTENDS Naturals, Sequences, FiniteSets

CONSTANTS
  Job,          \* every job that may be submitted or restored
  NoJob,        \* "nobody", in busyRepo
  Repo,         \* checkouts
  GlobalKey,    \* globalKey, the reservation of the cross-repository graph
  NoKey,        \* a job that needs no reservation
  Cost,         \* Job.Cost: "Free" or "Metered"
  Local,        \* Job.Local: runs against a model on this machine
  Class,        \* Job.Kind: "global", "mutates" or "reads"
  RepoOf,       \* Job.Repo, or NoKey for a job with no checkout
  UsesServer,   \* jobs the LocalLease hook returns a lease for
  Straggles,    \* jobs whose process group can outlive its leader
  InitLimit,    \* Options.FreeLanes, MeteredLanes, LocalLanes after New
  LimitChoices, \* what the settings dialog may pass to SetLanes
  MaxGestures   \* bound on the calls of Pause, Resume, Cancel, SetLanes and Close

Lane == {"free", "metered", "local"}
Key == Repo \cup {GlobalKey}

ASSUME NamesDiffer ==
  /\ NoJob \notin Job
  /\ GlobalKey \notin Repo
  /\ NoKey \notin Key
ASSUME JobAttributes ==
  /\ IsFiniteSet(Job)
  /\ Cost \in [Job -> {"Free", "Metered"}]
  /\ Local \in [Job -> BOOLEAN]
  /\ Class \in [Job -> {"global", "mutates", "reads"}]
  /\ RepoOf \in [Job -> Repo \cup {NoKey}]
  /\ UsesServer \subseteq Job
  /\ Straggles \subseteq Job
ASSUME LimitsPositive ==
  /\ InitLimit \in [Lane -> Nat \ {0}]
  /\ LimitChoices \subseteq [Lane -> Nat]
  /\ MaxGestures \in Nat

VARIABLES
  \* Runner's fields
  queue,      \* Runner.queue
  running,    \* the keys of Runner.running
  busyRepo,   \* Runner.busyRepo
  limit,      \* the three lane limits
  closing,    \* Close: "open", "snapshot", "cancel", "wait" or "closed"
  toCancel,   \* what is left of the Snapshot CancelAll iterates
  loop,       \* the scheduler: "dispatch", "check", "wait" or "exited"
  wake,       \* whether the wake channel holds its one token
  \* Job's fields
  status,     \* Job.Status, "none" before the runner knows the job
  held,       \* Job.Held
  paused,     \* Job.paused
  exited,     \* Job.exited
  lease,      \* Job.lease: "none", "held", "suspended" or "released"
  canceled,   \* the job's context is done
  result,     \* what Start or Wait returned: "none", "ok" or "fail"
  \* the job's goroutines
  run,        \* run(): what it is about to do
  reaper,     \* reap(): "none", "armed", "grace" or "done"
  pauser,     \* setPaused(): what it is about to do
  \* its process group
  leader,     \* "none", "alive", "zombie" or "gone"
  straggler,  \* another member of the group is alive
  stopped,    \* the group's last SIGSTOP was not followed by a SIGCONT
  \* history
  asked,      \* jobs submitted or released by somebody in this session
  resumed,    \* jobs that were ever resumed
  peak,       \* the highest limit each lane has had
  gestures    \* clicks counted against MaxGestures

closed == closing # "open"

runnerVars  == <<queue, running, busyRepo, status, held>>
laneVars    == <<limit, peak>>
closeVars   == <<closing, toCancel>>
pauseVars   == <<paused, pauser, resumed>>
processVars == <<leader, straggler, stopped>>
runVars     == <<run, exited, result>>
vars == <<runnerVars, laneVars, closeVars, pauseVars, processVars, runVars,
          loop, wake, lease, canceled, reaper, asked, gestures>>

-----------------------------------------------------------------------------
(***************************************************************************)
(* Helpers of the code.                                                    *)
(***************************************************************************)
Terminal == {"Succeeded", "Failed", "Canceled"}

laneOf(j) == IF Cost[j] # "Metered" THEN "free"
             ELSE IF Local[j] THEN "local" ELSE "metered"

holdKey(j) == IF Class[j] = "global" THEN GlobalKey
              ELSE IF Class[j] = "mutates" THEN RepoOf[j] ELSE NoKey

MutKeyFree(j) == TRUE
KeyFree(j) == holdKey(j) # NoKey => busyRepo[holdKey(j)] = NoJob

\* The jobs pick counts against a lane: a paused job occupies none.
Active(l) == {j \in running : ~paused[j] /\ laneOf(j) = l}

MutHasRoom(l) == Cardinality(Active(l)) <= limit[l]
HasRoom(l) == Cardinality(Active(l)) < limit[l]

\* The positions of the queue pick may take a job from.
Eligible == {i \in DOMAIN queue : /\ ~held[queue[i]]
                                  /\ HasRoom(laneOf(queue[i]))
                                  /\ KeyFree(queue[i])}

RemoveAt(q, i) == [n \in 1..(Len(q) - 1) |-> IF n < i THEN q[n] ELSE q[n + 1]]

Queued(j) == \E i \in DOMAIN queue : queue[i] = j

\* kill(-pgid, sig) succeeds: an unreaped leader still counts as a member.
GroupExists(j) == leader[j] \in {"alive", "zombie"} \/ straggler[j]

\* Something in the group can still execute or write.
GroupAlive(j) == leader[j] = "alive" \/ straggler[j]

\* A click, counted so that the state space is finite.
Gesture == gestures < MaxGestures /\ gestures' = gestures + 1

\* kick: the wake channel has one slot, and a full one is left full.
MutKick == wake' = (wake \/ loop = "wait") \* an unbuffered channel
Kick == wake' = TRUE

Init ==
  /\ queue = <<>> /\ running = {} /\ busyRepo = [k \in Key |-> NoJob]
  /\ limit = InitLimit /\ peak = InitLimit
  /\ closing = "open" /\ toCancel = {}
  /\ loop = "dispatch" /\ wake = FALSE
  /\ status = [j \in Job |-> "none"]
  /\ held = [j \in Job |-> FALSE]
  /\ paused = [j \in Job |-> FALSE]
  /\ exited = [j \in Job |-> FALSE]
  /\ lease = [j \in Job |-> "none"]
  /\ canceled = [j \in Job |-> FALSE]
  /\ result = [j \in Job |-> "none"]
  /\ run = [j \in Job |-> "none"]
  /\ reaper = [j \in Job |-> "none"]
  /\ pauser = [j \in Job |-> "idle"]
  /\ leader = [j \in Job |-> "none"]
  /\ straggler = [j \in Job |-> FALSE]
  /\ stopped = [j \in Job |-> FALSE]
  /\ asked = {} /\ resumed = {} /\ gestures = 0

-----------------------------------------------------------------------------
(***************************************************************************)
(* The callers: Submit, Restore, Release, ReleaseAll, SetLanes, Cancel.    *)
(***************************************************************************)
Submit(j) ==
  /\ status[j] = "none"
  /\ status' = [status EXCEPT ![j] = "Queued"]
  /\ queue' = Append(queue, j)
  /\ asked' = asked \cup {j}
  /\ Kick
  /\ UNCHANGED <<running, busyRepo, held, laneVars, closeVars, pauseVars,
                 processVars, runVars, loop, lease, canceled, reaper, gestures>>

\* activate calls Restore once, before anything else is submitted. restoredJob
\* (ui/session.go) holds every billed job it brings back, and may hold others.
Restore(js, hs) ==
  /\ \A j \in Job : status[j] = "none"
  /\ closing = "open"
  /\ js # <<>>
  /\ \A i, n \in DOMAIN js : js[i] = js[n] => i = n
  /\ \A i \in DOMAIN js : laneOf(js[i]) = "metered" => js[i] \in hs
  /\ queue' = js
  /\ status' = [j \in Job |-> IF \E i \in DOMAIN js : js[i] = j
                              THEN "Queued" ELSE status[j]]
  /\ held' = [j \in Job |-> j \in hs /\ \E i \in DOMAIN js : js[i] = j]
  /\ Kick
  /\ UNCHANGED <<running, busyRepo, laneVars, closeVars, pauseVars, processVars,
                 runVars, loop, lease, canceled, reaper, asked, gestures>>

Release(j) ==
  /\ Queued(j) /\ held[j]
  /\ held' = [held EXCEPT ![j] = FALSE]
  /\ asked' = asked \cup {j}
  /\ Kick
  /\ UNCHANGED <<queue, running, busyRepo, status, laneVars, closeVars, pauseVars,
                 processVars, runVars, loop, lease, canceled, reaper, gestures>>

ReleaseAll ==
  /\ \E j \in Job : Queued(j) /\ held[j]
  /\ held' = [j \in Job |-> held[j] /\ ~Queued(j)]
  /\ asked' = asked \cup {j \in Job : Queued(j) /\ held[j]}
  /\ Kick
  /\ UNCHANGED <<queue, running, busyRepo, status, laneVars, closeVars, pauseVars,
                 processVars, runVars, loop, lease, canceled, reaper, gestures>>

\* A limit that is not positive is left as it was.
NewLimit(c, l) == IF c[l] > 0 THEN c[l] ELSE limit[l]

SetLanes(c) ==
  /\ Gesture
  /\ limit' = [l \in Lane |-> NewLimit(c, l)]
  /\ peak' = [l \in Lane |-> IF c[l] > peak[l] THEN c[l] ELSE peak[l]]
  /\ Kick
  /\ UNCHANGED <<runnerVars, closeVars, pauseVars, processVars, runVars, loop,
                 lease, canceled, reaper, asked>>

\* The first half of Cancel: a queued job is dropped where it stands.
DropQueued(j) ==
  /\ \E i \in DOMAIN queue : queue[i] = j /\ queue' = RemoveAt(queue, i)
  /\ status' = [status EXCEPT ![j] = "Canceled"]
  /\ UNCHANGED <<running, busyRepo, held, canceled>>

\* The second half: the context of a running job is cancelled.
MutCancelContext(j) == \* no cancel installed before the process starts
  /\ j \in running
  /\ canceled' = [canceled EXCEPT ![j] = @ \/ leader[j] # "none"]
  /\ UNCHANGED runnerVars
CancelContext(j) ==
  /\ j \in running
  /\ canceled' = [canceled EXCEPT ![j] = TRUE]
  /\ UNCHANGED runnerVars

Cancel(j) ==
  /\ Gesture
  /\ DropQueued(j) \/ CancelContext(j)
  /\ UNCHANGED <<laneVars, closeVars, pauseVars, processVars, runVars, loop, wake,
                 lease, reaper, asked>>

-----------------------------------------------------------------------------
(***************************************************************************)
(* Close: refuse new dispatches, cancel everything the Snapshot shows, and *)
(* wait for the scheduler, which leaves once nothing is running.           *)
(***************************************************************************)
CloseBegin ==
  /\ Gesture
  /\ closing = "open"
  /\ closing' = "snapshot"
  /\ UNCHANGED <<runnerVars, toCancel, laneVars, pauseVars, processVars, runVars,
                 loop, wake, lease, canceled, reaper, asked>>

CloseSnapshot ==
  /\ closing = "snapshot"
  /\ closing' = "cancel"
  /\ toCancel' = {j \in Job : status[j] \in {"Queued", "Running"}}
  /\ UNCHANGED <<runnerVars, laneVars, pauseVars, processVars, runVars, loop,
                 wake, lease, canceled, reaper, asked, gestures>>

\* A job of the snapshot may have ended by the time its turn comes.
CloseCancel(j) ==
  /\ closing = "cancel" /\ j \in toCancel
  /\ \/ DropQueued(j)
     \/ CancelContext(j)
     \/ ~Queued(j) /\ j \notin running /\ UNCHANGED <<runnerVars, canceled>>
  /\ toCancel' = toCancel \ {j}
  /\ UNCHANGED <<closing, laneVars, pauseVars, processVars, runVars, loop, wake,
                 lease, reaper, asked, gestures>>

CloseWait ==
  /\ closing = "cancel" /\ toCancel = {}
  /\ closing' = "wait"
  /\ Kick
  /\ UNCHANGED <<runnerVars, toCancel, laneVars, pauseVars, processVars, runVars,
                 loop, lease, canceled, reaper, asked, gestures>>

CloseReturn ==
  /\ closing = "wait" /\ loop = "exited"
  /\ closing' = "closed"
  /\ UNCHANGED <<runnerVars, toCancel, laneVars, pauseVars, processVars, runVars,
                 loop, wake, lease, canceled, reaper, asked, gestures>>

-----------------------------------------------------------------------------
(***************************************************************************)
(* The scheduler: dispatch takes what pick returns until pick returns nil; *)
(* then loop looks whether it may leave, under a lock of its own, or       *)
(* sleeps until a kick or its half-second tick.                            *)
(***************************************************************************)
Dispatch(j) ==
  /\ loop = "dispatch" /\ ~closed
  /\ \E i \in Eligible : /\ \A n \in Eligible : i <= n
                         /\ queue[i] = j
                         /\ queue' = RemoveAt(queue, i)
  /\ status' = [status EXCEPT ![j] = "Running"]
  /\ running' = running \cup {j}
  /\ busyRepo' = [k \in Key |-> IF k = holdKey(j) THEN j ELSE busyRepo[k]]
  /\ run' = [run EXCEPT ![j] = "lease"]
  /\ UNCHANGED <<held, laneVars, closeVars, pauseVars, processVars, exited, result,
                 loop, wake, lease, canceled, reaper, asked, gestures>>

\* When loop returns instead of waiting again.
MutMayLeave == closed
MayLeave == closed /\ running = {}

DispatchNone ==
  /\ loop = "dispatch"
  /\ closed \/ Eligible = {}
  /\ loop' = "check"
  /\ UNCHANGED <<runnerVars, laneVars, closeVars, pauseVars, processVars, runVars,
                 wake, lease, canceled, reaper, asked, gestures>>

CheckIdle ==
  /\ loop = "check"
  /\ loop' = IF MayLeave THEN "exited" ELSE "wait"
  /\ UNCHANGED <<runnerVars, laneVars, closeVars, pauseVars, processVars, runVars,
                 wake, lease, canceled, reaper, asked, gestures>>

Woken ==
  /\ loop = "wait" /\ wake
  /\ loop' = "dispatch"
  /\ wake' = FALSE
  /\ UNCHANGED <<runnerVars, laneVars, closeVars, pauseVars, processVars, runVars,
                 lease, canceled, reaper, asked, gestures>>

Tick ==
  /\ loop = "wait"
  /\ loop' = "dispatch"
  /\ UNCHANGED <<runnerVars, laneVars, closeVars, pauseVars, processVars, runVars,
                 wake, lease, canceled, reaper, asked, gestures>>

-----------------------------------------------------------------------------
(***************************************************************************)
(* run: take the lease, start the process, wait for it, terminate what it  *)
(* left in its group, return the lease, and only then report the outcome.  *)
(***************************************************************************)
TakeLease(j) ==
  /\ run[j] = "lease"
  /\ run' = [run EXCEPT ![j] = "start"]
  /\ lease' = [lease EXCEPT ![j] = IF j \in UsesServer THEN "held" ELSE "none"]
  /\ UNCHANGED <<runnerVars, laneVars, closeVars, pauseVars, processVars, exited,
                 result, loop, wake, canceled, reaper, asked, gestures>>

Start(j) ==
  /\ run[j] = "start"
  /\ run' = [run EXCEPT ![j] = "wait"]
  /\ leader' = [leader EXCEPT ![j] = "alive"]
  /\ reaper' = [reaper EXCEPT ![j] = "armed"]
  /\ UNCHANGED <<runnerVars, laneVars, closeVars, pauseVars, straggler, stopped,
                 exited, result, loop, wake, lease, canceled, asked, gestures>>

StartFails(j) ==
  /\ run[j] = "start"
  /\ run' = [run EXCEPT ![j] = "release"]
  /\ result' = [result EXCEPT ![j] = "fail"]
  /\ UNCHANGED <<runnerVars, laneVars, closeVars, pauseVars, processVars, exited,
                 loop, wake, lease, canceled, reaper, asked, gestures>>

\* cmd.Wait reaps the leader first, then waits for the pipe, then returns.
WaitReaps(j) ==
  /\ run[j] = "wait" /\ leader[j] = "zombie"
  /\ leader' = [leader EXCEPT ![j] = "gone"]
  /\ UNCHANGED <<runnerVars, laneVars, closeVars, pauseVars, straggler, stopped,
                 runVars, loop, wake, lease, canceled, reaper, asked, gestures>>

WaitReturns(j) ==
  /\ run[j] = "wait" /\ leader[j] = "gone"
  /\ run' = [run EXCEPT ![j] = "group"]
  /\ exited' = [exited EXCEPT ![j] = TRUE]
  /\ UNCHANGED <<runnerVars, laneVars, closeVars, pauseVars, processVars, result,
                 loop, wake, lease, canceled, reaper, asked, gestures>>

\* Where reapGroup goes when it finds the group empty, or not.
MutAfterLeader(j) == "release" \* no reapGroup
AfterLeader(j) == IF straggler[j] THEN "grace" ELSE "release"

ReapGroup(j) ==
  /\ run[j] = "group"
  /\ run' = [run EXCEPT ![j] = AfterLeader(j)]
  /\ stopped' = [stopped EXCEPT ![j] = FALSE]
  /\ UNCHANGED <<runnerVars, laneVars, closeVars, pauseVars, leader, straggler,
                 exited, result, loop, wake, lease, canceled, reaper, asked, gestures>>

\* The group empties within the grace period, or is killed at its end.
ReapGroupEnds(j) ==
  /\ run[j] = "grace"
  /\ run' = [run EXCEPT ![j] = "release"]
  /\ straggler' = [straggler EXCEPT ![j] = FALSE]
  /\ UNCHANGED <<runnerVars, laneVars, closeVars, pauseVars, leader, stopped,
                 exited, result, loop, wake, lease, canceled, reaper, asked, gestures>>

ReturnLease(j) ==
  /\ run[j] = "release"
  /\ run' = [run EXCEPT ![j] = "finish"]
  /\ lease' = [lease EXCEPT ![j] = IF lease[j] = "none" THEN "none" ELSE "released"]
  /\ UNCHANGED <<runnerVars, laneVars, closeVars, pauseVars, processVars, exited,
                 result, loop, wake, canceled, reaper, asked, gestures>>

Outcome(j) == IF canceled[j] THEN "Canceled"
              ELSE IF result[j] = "ok" THEN "Succeeded" ELSE "Failed"

\* On its way out run cancels the context it was given.
Finish(j) ==
  /\ run[j] = "finish"
  /\ run' = [run EXCEPT ![j] = "over"]
  /\ status' = [status EXCEPT ![j] = Outcome(j)]
  /\ paused' = [paused EXCEPT ![j] = FALSE]
  /\ running' = running \ {j}
  /\ busyRepo' = [k \in Key |-> IF k = holdKey(j) /\ busyRepo[k] = j
                                THEN NoJob ELSE busyRepo[k]]
  /\ Kick
  /\ canceled' = [canceled EXCEPT ![j] = TRUE]
  /\ result' = [result EXCEPT ![j] = "none"]
  /\ UNCHANGED <<queue, held, laneVars, closeVars, pauser, resumed, processVars,
                 exited, loop, lease, reaper, asked, gestures>>

-----------------------------------------------------------------------------
(***************************************************************************)
(* reap: SIGTERM and SIGCONT to a cancelled job's group, SIGKILL if it is  *)
(* still there when the grace period ends. A slow reaper may find both its *)
(* channels ready, run having cancelled the context on its way out.        *)
(***************************************************************************)
MutExitedClosed(j) == run[j] \in {"wait", "release", "finish", "over"} \* closed before Wait
ExitedClosed(j) == run[j] \in {"release", "finish", "over"}

ReaperSeesExit(j) ==
  /\ reaper[j] = "armed" /\ ExitedClosed(j)
  /\ reaper' = [reaper EXCEPT ![j] = "done"]
  /\ UNCHANGED <<runnerVars, laneVars, closeVars, pauseVars, processVars, runVars,
                 loop, wake, lease, canceled, asked, gestures>>

ReaperTerms(j) ==
  /\ reaper[j] = "armed" /\ canceled[j]
  /\ reaper' = [reaper EXCEPT ![j] = "grace"]
  /\ stopped' = [stopped EXCEPT ![j] = FALSE]
  /\ UNCHANGED <<runnerVars, laneVars, closeVars, pauseVars, leader, straggler,
                 runVars, loop, wake, lease, canceled, asked, gestures>>

ReaperSeesGone(j) ==
  /\ reaper[j] = "grace" /\ ~GroupExists(j)
  /\ reaper' = [reaper EXCEPT ![j] = "done"]
  /\ UNCHANGED <<runnerVars, laneVars, closeVars, pauseVars, processVars, runVars,
                 loop, wake, lease, canceled, asked, gestures>>

ReaperKills(j) ==
  /\ reaper[j] = "grace" /\ GroupExists(j)
  /\ reaper' = [reaper EXCEPT ![j] = "done"]
  /\ straggler' = [straggler EXCEPT ![j] = FALSE]
  /\ leader' = [leader EXCEPT ![j] = IF @ = "alive" THEN "zombie" ELSE @]
  /\ result' = [result EXCEPT ![j] = IF leader[j] = "alive" THEN "fail" ELSE @]
  /\ UNCHANGED <<runnerVars, laneVars, closeVars, pauseVars, stopped, run, exited,
                 loop, wake, lease, canceled, asked, gestures>>

-----------------------------------------------------------------------------
(***************************************************************************)
(* setPaused. The board lets one pause or resume per job be in flight      *)
(* (togglePause, ui/actions.go), so a job has at most one of them here.    *)
(***************************************************************************)
MutSuspend(x) == x
Suspend(x) == IF x = "held" THEN "suspended" ELSE x
MutRetake(x) == x
MutRetakeReleased(x) == "held"
Retake(x) == IF x = "suspended" THEN "held" ELSE x

CanToggle(j, want) ==
  /\ pauser[j] = "idle"
  /\ j \in running /\ status[j] = "Running" /\ ~exited[j]
  /\ leader[j] # "none"
  /\ paused[j] # want

Pause(j) ==
  /\ Gesture /\ CanToggle(j, TRUE)
  /\ pauser' = [pauser EXCEPT ![j] = "stop"]
  /\ UNCHANGED <<runnerVars, laneVars, closeVars, paused, resumed, processVars,
                 runVars, loop, wake, lease, canceled, reaper, asked>>

\* SIGSTOP; a group that is no longer there ends the pause.
SigStop(j) ==
  /\ pauser[j] = "stop"
  /\ \/ /\ GroupExists(j)
        /\ stopped' = [stopped EXCEPT ![j] = TRUE]
        /\ pauser' = [pauser EXCEPT ![j] = "suspend"]
     \/ /\ ~GroupExists(j)
        /\ pauser' = [pauser EXCEPT ![j] = "idle"]
        /\ UNCHANGED stopped
  /\ UNCHANGED <<runnerVars, laneVars, closeVars, paused, resumed, leader,
                 straggler, runVars, loop, wake, lease, canceled, reaper, asked, gestures>>

SuspendLease(j) ==
  /\ pauser[j] = "suspend"
  /\ pauser' = [pauser EXCEPT ![j] = "record"]
  /\ lease' = [lease EXCEPT ![j] = Suspend(@)]
  /\ UNCHANGED <<runnerVars, laneVars, closeVars, paused, resumed, processVars,
                 runVars, loop, wake, canceled, reaper, asked, gestures>>

\* The process did not outlive the signal: setPaused may not record its change.
TooLate(j) == exited[j] \/ status[j] # "Running"

RecordPause(j) ==
  /\ pauser[j] = "record" /\ ~TooLate(j)
  /\ pauser' = [pauser EXCEPT ![j] = "handover"]
  /\ paused' = [paused EXCEPT ![j] = TRUE]
  /\ UNCHANGED <<runnerVars, laneVars, closeVars, resumed, processVars, runVars,
                 loop, wake, lease, canceled, reaper, asked, gestures>>

AbandonPause(j) ==
  /\ pauser[j] = "record" /\ TooLate(j)
  /\ pauser' = [pauser EXCEPT ![j] = "idle"]
  /\ stopped' = [stopped EXCEPT ![j] = FALSE]
  /\ lease' = [lease EXCEPT ![j] = Suspend(@)]
  /\ UNCHANGED <<runnerVars, laneVars, closeVars, paused, resumed, leader,
                 straggler, runVars, loop, wake, canceled, reaper, asked, gestures>>

\* Which lanes a pause passes on: never the one that spends money.
MutHandsOver(l) == TRUE
HandsOver(l) == l # "metered"

\* The queued jobs handOverLane considers; the first one settles it.
Heirs(l) == {i \in DOMAIN queue : laneOf(queue[i]) = l /\ KeyFree(queue[i])}

Heir(j) == {queue[i] : i \in {n \in Heirs(laneOf(j)) :
                                \A m \in Heirs(laneOf(j)) : n <= m}}

HandOverLane(j) ==
  /\ pauser[j] = "handover"
  /\ pauser' = [pauser EXCEPT ![j] = "idle"]
  /\ held' = [h \in Job |-> held[h] /\ ~(HandsOver(laneOf(j)) /\ h \in Heir(j))]
  /\ Kick
  /\ UNCHANGED <<queue, running, busyRepo, status, laneVars, closeVars, paused,
                 resumed, processVars, runVars, loop, lease, canceled, reaper,
                 asked, gestures>>

Resume(j) ==
  /\ Gesture /\ CanToggle(j, FALSE)
  /\ pauser' = [pauser EXCEPT ![j] = "retake"]
  /\ UNCHANGED <<runnerVars, laneVars, closeVars, paused, resumed, processVars,
                 runVars, loop, wake, lease, canceled, reaper, asked>>

\* lease.Resume blocks until the server answers.
ResumeLease(j) ==
  /\ pauser[j] = "retake"
  /\ pauser' = [pauser EXCEPT ![j] = "cont"]
  /\ lease' = [lease EXCEPT ![j] = Retake(@)]
  /\ UNCHANGED <<runnerVars, laneVars, closeVars, paused, resumed, processVars,
                 runVars, loop, wake, canceled, reaper, asked, gestures>>

SigCont(j) ==
  /\ pauser[j] = "cont"
  /\ \/ /\ GroupExists(j)
        /\ stopped' = [stopped EXCEPT ![j] = FALSE]
        /\ pauser' = [pauser EXCEPT ![j] = "clear"]
        /\ UNCHANGED lease
     \/ /\ ~GroupExists(j)
        /\ pauser' = [pauser EXCEPT ![j] = "idle"]
        /\ lease' = [lease EXCEPT ![j] = Suspend(@)]
        /\ UNCHANGED stopped
  /\ UNCHANGED <<runnerVars, laneVars, closeVars, paused, resumed, leader,
                 straggler, runVars, loop, wake, canceled, reaper, asked, gestures>>

RecordResume(j) ==
  /\ pauser[j] = "clear"
  /\ pauser' = [pauser EXCEPT ![j] = "idle"]
  /\ paused' = [paused EXCEPT ![j] = @ /\ TooLate(j)]
  /\ resumed' = IF TooLate(j) THEN resumed ELSE resumed \cup {j}
  /\ UNCHANGED <<runnerVars, laneVars, closeVars, processVars, runVars, loop, wake,
                 lease, canceled, reaper, asked, gestures>>

-----------------------------------------------------------------------------
(***************************************************************************)
(* The process group: only a group that is not stopped can act. A leader   *)
(* may exit with either outcome, whether or not it was sent a SIGTERM.     *)
(***************************************************************************)
LeaderExits(j, how, leaves) ==
  /\ leader[j] = "alive" /\ ~stopped[j]
  /\ leaves => j \in Straggles
  /\ leader' = [leader EXCEPT ![j] = "zombie"]
  /\ straggler' = [straggler EXCEPT ![j] = leaves]
  /\ result' = [result EXCEPT ![j] = how]
  /\ UNCHANGED <<runnerVars, laneVars, closeVars, pauseVars, stopped, run, exited,
                 loop, wake, lease, canceled, reaper, asked, gestures>>

StragglerExits(j) ==
  /\ straggler[j] /\ ~stopped[j]
  /\ straggler' = [straggler EXCEPT ![j] = FALSE]
  /\ UNCHANGED <<runnerVars, laneVars, closeVars, pauseVars, leader, stopped,
                 runVars, loop, wake, lease, canceled, reaper, asked, gestures>>

-----------------------------------------------------------------------------
Callers ==
  \/ \E j \in Job : Submit(j) \/ Release(j) \/ Cancel(j)
  \/ \E n \in 1..Cardinality(Job) : \E js \in [1..n -> Job], hs \in SUBSET Job :
       Restore(js, hs)
  \/ ReleaseAll
  \/ \E c \in LimitChoices : SetLanes(c)
  \/ CloseBegin

Closer == CloseSnapshot \/ CloseWait \/ CloseReturn
          \/ \E j \in Job : CloseCancel(j)

Scheduler == DispatchNone \/ CheckIdle \/ Woken \/ Tick
             \/ \E j \in Job : Dispatch(j)

Runs(j) == \/ TakeLease(j) \/ Start(j) \/ StartFails(j) \/ WaitReaps(j)
           \/ WaitReturns(j) \/ ReapGroup(j) \/ ReapGroupEnds(j)
           \/ ReturnLease(j) \/ Finish(j)

Reaps(j) == ReaperSeesExit(j) \/ ReaperTerms(j) \/ ReaperSeesGone(j) \/ ReaperKills(j)

Toggles(j) == \/ SigStop(j) \/ SuspendLease(j) \/ RecordPause(j) \/ AbandonPause(j)
              \/ HandOverLane(j) \/ ResumeLease(j) \/ SigCont(j) \/ RecordResume(j)

Processes(j) == \/ \E how \in {"ok", "fail"}, leaves \in BOOLEAN :
                     LeaderExits(j, how, leaves)
                \/ StragglerExits(j)

Next == \/ Callers \/ Closer \/ Scheduler
        \/ \E j \in Job : \/ Pause(j) \/ Resume(j)
                          \/ Runs(j) \/ Reaps(j) \/ Toggles(j) \/ Processes(j)

(***************************************************************************)
(* The runner's own goroutines always get to run, and a grace period ends. *)
(* Nobody has to click, and a process may run for ever (graphify watch).   *)
(***************************************************************************)
Fairness ==
  /\ WF_vars(Closer) /\ WF_vars(Scheduler)
  /\ \A j \in Job : WF_vars(Runs(j)) /\ WF_vars(Reaps(j)) /\ WF_vars(Toggles(j))

Spec == Init /\ [][Next]_vars
FairSpec == Spec /\ Fairness

-----------------------------------------------------------------------------
(***************************************************************************)
(* Properties.                                                             *)
(***************************************************************************)
\* The type of every variable.
TypeOK ==
  /\ queue \in Seq(Job) /\ running \subseteq Job
  /\ busyRepo \in [Key -> Job \cup {NoJob}]
  /\ limit \in [Lane -> Nat \ {0}] /\ peak \in [Lane -> Nat \ {0}]
  /\ closing \in {"open", "snapshot", "cancel", "wait", "closed"}
  /\ toCancel \subseteq Job
  /\ loop \in {"dispatch", "check", "wait", "exited"} /\ wake \in BOOLEAN
  /\ status \in [Job -> {"none", "Queued", "Running"} \cup Terminal]
  /\ held \in [Job -> BOOLEAN] /\ paused \in [Job -> BOOLEAN]
  /\ exited \in [Job -> BOOLEAN] /\ canceled \in [Job -> BOOLEAN]
  /\ lease \in [Job -> {"none", "held", "suspended", "released"}]
  /\ result \in [Job -> {"none", "ok", "fail"}]
  /\ run \in [Job -> {"none", "lease", "start", "wait", "group", "grace",
                      "release", "finish", "over"}]
  /\ reaper \in [Job -> {"none", "armed", "grace", "done"}]
  /\ pauser \in [Job -> {"idle", "stop", "suspend", "record", "handover",
                         "retake", "cont", "clear"}]
  /\ leader \in [Job -> {"none", "alive", "zombie", "gone"}]
  /\ straggler \in [Job -> BOOLEAN] /\ stopped \in [Job -> BOOLEAN]
  /\ asked \subseteq Job /\ resumed \subseteq Job /\ gestures \in Nat

\* busyRepo excludes at the level that matters, the processes: no two groups
\* with a member alive ever hold the same output directory, or both hold the
\* global graph, stragglers of a finished leader included.
OutputExclusive ==
  \A j, k \in Job :
    j # k /\ GroupAlive(j) /\ GroupAlive(k) => holdKey(j) # holdKey(k)
                                               \/ holdKey(j) = NoKey

\* "Bounded" in Pause's comment: a lane exceeds the highest limit it has had
\* only by jobs that were resumed into it.
LaneBound == \A l \in Lane : Cardinality(Active(l) \ resumed) <= peak[l]

\* No billed job starts unless somebody submitted or released it in this
\* session: neither Restore nor a pause that hands its lane over is consent.
NeverUnasked == \A j \in running : laneOf(j) = "metered" => j \in asked

\* A process that needs the model server and can execute holds its lease, in
\* every window of a pause or a resume, until it is told to terminate.
LeaseCoversProcess ==
  \A j \in UsesServer :
    leader[j] = "alive" /\ ~stopped[j] /\ reaper[j] = "armed" => lease[j] = "held"

\* Once a pause or resume has settled, Job.paused says what the process group
\* is doing (pick frees the lane on its word) and the lease followed it.
PauseMatchesProcess ==
  \A j \in Job :
    leader[j] = "alive" /\ reaper[j] = "armed" /\ pauser[j] \in {"idle", "handover"}
      => /\ paused[j] <=> stopped[j]
         /\ paused[j] => lease[j] # "held"

\* A job is never reported finished with its lease still out, whatever pause
\* or resume was in flight when it exited.
LeaseReturned ==
  \A j \in Job : status[j] \in Terminal => lease[j] \in {"none", "released"}

\* When Close returns, nothing any job started is left: no process, no lease.
NothingOutlivesClose ==
  closing = "closed" => \A j \in Job : ~GroupAlive(j) /\ lease[j] \in {"none", "released"}

\* The scheduler's tick is only a fallback: it never sleeps, with no wake-up
\* pending, while a job could start or while Close waits for it to leave.
NoLostWakeup ==
  loop = "wait" /\ ~wake /\ (\A j \in Job : pauser[j] # "handover")
    => /\ ~closed => Eligible = {}
       /\ closing = "wait" => running # {}

\* A cancelled job ends, paused or not, even if its process ignores SIGTERM.
CancelEnds == \A j \in Job : canceled[j] ~> status[j] \in Terminal

\* Close returns, whatever was running, starting, paused or being paused.
CloseReturns == closed ~> closing = "closed"

\* The runner implements ExclusiveJobs: a job works from its dispatch to its
\* terminal status, and is alive while any member of its group can execute.
Phase(j) == CASE status[j] = "none" -> "unknown"
              [] status[j] = "Queued" -> "waiting"
              [] status[j] = "Running" -> "working"
              [] OTHER -> "over"
Promise == INSTANCE ExclusiveJobs WITH
             Resource <- holdKey, Free <- NoKey,
             phase <- [j \in Job |-> Phase(j)],
             live <- {j \in Job : GroupAlive(j)}
Implements == Promise!AbsSpec
=============================================================================
