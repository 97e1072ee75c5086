------------------------------ MODULE AutoOllama ------------------------------
(***************************************************************************)
(* internal/gfy/ollamactl.go and StartOllama (local.go): the lease counter *)
(* that brings the local model server up for a job and takes it down when  *)
(* nothing needs it.                                                       *)
(*                                                                         *)
(* The actors are the goroutines of the jobs that hold leases, the idle    *)
(* timer's callbacks, the Start and Stop buttons of the settings page and  *)
(* the application's exit path; the servers, the user's own included, live *)
(* and die beside them. One action is one section under AutoOllama.mu or   *)
(* ollamaStart's mutex, or one call on the outside world. OllamaLease.mu   *)
(* keeps the calls on one lease apart: a job is in one of them at a time.  *)
(***************************************************************************)
EXTENDS Integers, FiniteSets

CONSTANTS
  Job,        \* holders of a lease each
  Idlers,     \* the timer callbacks that can be in flight at once
  Starter,    \* the Start button's goroutine
  Stopper,    \* the Stop button's goroutine
  Quitter,    \* the exit path: Shutdown
  Server,     \* every server process there will ever be
  NoServer,   \* ollamaStart.route = startedNot
  Unit,       \* ollamaStart.route = startedUserUnit, which has no pid
  Route,      \* what ollamaRoute answers: "detached" or "unit"
  OneShot,    \* AutoOllama.OneShot
  MaxTakes,   \* bound on the leases taken
  MaxClicks   \* bound on the clicks on Start and Stop

Actor == Job \cup Idlers \cup {Starter, Stopper, Quitter}
Unclicked == Actor \ {Starter, Stopper}

ASSUME ActorsDiffer ==
  /\ Cardinality({Starter, Stopper, Quitter}) = 3
  /\ Job \cap Idlers = {}
  /\ (Job \cup Idlers) \cap {Starter, Stopper, Quitter} = {}
ASSUME ServersDiffer == NoServer \notin Server /\ Unit \notin Server /\ Unit # NoServer
ASSUME Settings ==
  /\ Route \in {"detached", "unit"}
  /\ OneShot \in BOOLEAN
  /\ IsFiniteSet(Job) /\ MaxTakes \in Nat /\ MaxClicks \in Nat

VARIABLES
  n,          \* AutoOllama.n
  timer,      \* AutoOllama.timer: "nil", "armed" or "fired"
  loose,      \* armed timers the field no longer refers to
  started,    \* ollamaStart: the detached server recorded, Unit or NoServer
  pinned,     \* ollamaStart.pinned
  lease,      \* OllamaLease.state, "new" before Acquire
  now,        \* give's argument
  seen,       \* what give or Shutdown read of ollamaStart before locking
  claim,      \* what StopOllama read of ollamaStart
  pc,         \* each actor's next step
  server,     \* each server: "none", "booting", "up", "stopping", "gone", "reaped"
  origin,     \* who started it: "nobody", "job", "button" or "user"
  asked,      \* servers a click on Start asked for
  takes,      \* leases taken, against MaxTakes
  clicks      \* clicks, against MaxClicks

leaseVars  == <<lease, now, takes>>
clickVars  == <<asked, clicks>>
timerVars  == <<timer, loose>>
startVars  == <<started, pinned>>
stopVars   == <<seen, claim>>
serverVars == <<server, origin, clickVars>>
vars == <<n, leaseVars, timerVars, startVars, stopVars, serverVars, pc>>

-----------------------------------------------------------------------------
Exists(s) == server[s] \in {"booting", "up", "stopping", "gone"}
Runs(s) == server[s] \in {"booting", "up", "stopping"}
Answering == \E s \in Server : server[s] = "up"

\* What ProbeLocal may say: a server on its way down may still answer.
MayReach == \E s \in Server : server[s] \in {"up", "stopping"}
MaySilent == ~Answering

\* Nothing of the board runs after its exit path has returned.
Step(x, from, to) ==
  /\ pc[Quitter] # "exited"
  /\ pc[x] = from
  /\ pc' = [pc EXCEPT ![x] = to]

Quitting == pc[Quitter] # "idle"

\* disarm: a timer that has fired is past stopping.
Disarm == timer' = "nil" /\ UNCHANGED loose

Init ==
  /\ n = 0 /\ timer = "nil" /\ loose = 0
  /\ started = NoServer /\ pinned = FALSE
  /\ lease = [j \in Job |-> "new"] /\ now = [j \in Job |-> FALSE]
  /\ seen = [x \in Actor |-> FALSE] /\ claim = [x \in Actor |-> NoServer]
  /\ pc = [x \in Actor |-> "idle"]
  /\ server = [s \in Server |-> "none"] /\ origin = [s \in Server |-> "nobody"]
  /\ asked = {} /\ takes = 0 /\ clicks = 0

-----------------------------------------------------------------------------
(***************************************************************************)
(* Acquire and Resume: count the lease, and be the one to start the server *)
(* if there was none.                                                      *)
(***************************************************************************)
Take(j) ==
  /\ ~Quitting /\ takes < MaxTakes
  /\ lease[j] \in {"new", "suspended"}
  /\ Step(j, "idle", IF n = 0 THEN "probe" ELSE "idle")
  /\ lease' = [lease EXCEPT ![j] = "held"]
  /\ takes' = takes + 1
  /\ n' = n + 1
  /\ Disarm
  /\ UNCHANGED <<now, startVars, stopVars, serverVars>>

\* The lifecycle is switched off: a lease whose three calls do nothing.
AcquireInert(j) ==
  /\ ~Quitting /\ lease[j] = "new"
  /\ lease' = [lease EXCEPT ![j] = "inert"]
  /\ UNCHANGED <<n, now, takes, timerVars, startVars, stopVars, serverVars, pc>>

-----------------------------------------------------------------------------
(***************************************************************************)
(* StartOllama: leave a server that answers alone; otherwise start one,    *)
(* record it, and poll the port for ten seconds.                           *)
(***************************************************************************)
Returned(x, answers) == IF x = Starter /\ answers THEN "pin" ELSE "idle"

MutReached == started' \in {s \in Server : server[s] = "up"} \* claims what it found
Reached == UNCHANGED started

Probe(x) ==
  /\ \/ MayReach /\ Step(x, "probe", Returned(x, TRUE)) /\ Reached
     \/ MaySilent /\ Step(x, "probe", "spawn") /\ UNCHANGED started
  /\ UNCHANGED <<n, leaseVars, timerVars, pinned, stopVars, serverVars>>

\* cmd.Start fails, or ollamaRoute has no route.
SpawnFails(x) ==
  /\ Step(x, "spawn", Returned(x, FALSE))
  /\ UNCHANGED <<n, leaseVars, timerVars, startVars, stopVars, serverVars>>

\* systemctl start does nothing to a unit that is already starting or up, and
\* waits for one that is stopping.
Spawn(x) ==
  /\ Step(x, "spawn", "note")
  /\ \/ /\ Route = "detached" \/ ~\E s \in Server : Runs(s)
        /\ \E s \in Server :
             /\ server[s] = "none"
             /\ server' = [server EXCEPT ![s] = "booting"]
             /\ origin' = [origin EXCEPT ![s] = IF x = Starter THEN "button" ELSE "job"]
             /\ claim' = [claim EXCEPT ![x] = IF Route = "unit" THEN Unit ELSE s]
     \/ /\ Route = "unit" /\ \E s \in Server : server[s] \in {"booting", "up"}
        /\ claim' = [claim EXCEPT ![x] = Unit]
        /\ UNCHANGED <<server, origin>>
  /\ UNCHANGED <<n, leaseVars, timerVars, startVars, seen, clickVars>>

NoteOllamaStart(x) ==
  /\ Step(x, "note", "await")
  /\ started' = claim[x]
  /\ UNCHANGED <<n, leaseVars, timerVars, pinned, stopVars, serverVars>>

Await(x) ==
  /\ \E answers \in BOOLEAN :
       /\ IF answers THEN MayReach ELSE MaySilent
       /\ Step(x, "await", Returned(x, answers))
  /\ UNCHANGED <<n, leaseVars, timerVars, startVars, stopVars, serverVars>>

-----------------------------------------------------------------------------
(***************************************************************************)
(* Release, Suspend and give.                                              *)
(***************************************************************************)
MutGivesBack(j) == TRUE \* a suspended lease is given back a second time
GivesBack(j) == lease[j] = "held"

Release(j) ==
  /\ lease[j] \in {"held", "suspended"}
  /\ Step(j, "idle", IF GivesBack(j) THEN "readStarted" ELSE "idle")
  /\ lease' = [lease EXCEPT ![j] = "released"]
  /\ now' = [now EXCEPT ![j] = FALSE]
  /\ UNCHANGED <<n, takes, timerVars, startVars, stopVars, serverVars>>

Suspend(j) ==
  /\ lease[j] = "held"
  /\ Step(j, "idle", "readStarted")
  /\ lease' = [lease EXCEPT ![j] = "suspended"]
  /\ now' = [now EXCEPT ![j] = TRUE]
  /\ UNCHANGED <<n, takes, timerVars, startVars, stopVars, serverVars>>

\* ours, then pinned, each under ollamaStart's mutex and both before mu.
ReadStarted(x) ==
  /\ Step(x, "readStarted", "readPinned")
  /\ seen' = [seen EXCEPT ![x] = started # NoServer]
  /\ UNCHANGED <<n, leaseVars, timerVars, startVars, claim, serverVars>>

ReadPinned(x) ==
  /\ Step(x, "readPinned", "give")
  /\ seen' = [seen EXCEPT ![x] = @ /\ ~pinned]
  /\ UNCHANGED <<n, leaseVars, timerVars, startVars, claim, serverVars>>

MutArm == Disarm
Arm == timer' = "armed" /\ UNCHANGED loose

Give(j) ==
  /\ n' = IF n > 0 THEN n - 1 ELSE 0
  /\ \/ (n' > 0 \/ ~seen[j]) /\ Step(j, "give", "idle") /\ UNCHANGED timerVars
     \/ n' = 0 /\ seen[j] /\ now[j] /\ Step(j, "give", "claim") /\ Disarm
     \/ /\ n' = 0 /\ seen[j] /\ ~now[j] /\ Step(j, "give", "idle")
        /\ IF OneShot THEN Disarm ELSE Arm
  /\ UNCHANGED <<leaseVars, startVars, stopVars, serverVars>>

-----------------------------------------------------------------------------
(***************************************************************************)
(* The idle timer's callback.                                              *)
(***************************************************************************)
Fire(x) ==
  /\ Step(x, "idle", "lock")
  /\ \/ timer = "armed" /\ timer' = "fired" /\ UNCHANGED loose
     \/ loose > 0 /\ loose' = loose - 1 /\ UNCHANGED timer
  /\ UNCHANGED <<n, leaseVars, startVars, stopVars, serverVars>>

\* A callback that was late for mu forgets a timer armed since, and does not
\* stop it.
IdleLock(x) ==
  /\ Step(x, "lock", IF n > 0 THEN "idle" ELSE "check")
  /\ timer' = "nil"
  /\ loose' = IF timer = "armed" THEN loose + 1 ELSE loose
  /\ UNCHANGED <<n, leaseVars, startVars, stopVars, serverVars>>

IdleCheck(x) ==
  /\ Step(x, "check", IF pinned THEN "idle" ELSE "claim")
  /\ UNCHANGED <<n, leaseVars, timerVars, startVars, stopVars, serverVars>>

-----------------------------------------------------------------------------
(***************************************************************************)
(* StopOllama: read the record, stop what it names, forget it.             *)
(***************************************************************************)
Ended(x) == IF x = Quitter THEN "exited" ELSE "idle"

Claim(x) ==
  /\ claim' = [claim EXCEPT ![x] = started]
  /\ Step(x, "claim", IF started = NoServer THEN Ended(x) ELSE "signal")
  /\ UNCHANGED <<n, leaseVars, timerVars, startVars, seen, serverVars>>

\* systemctl stops the unit, whoever started it; a SIGTERM goes to the group
\* that was recorded, and fails if it is gone.
Targets(x) == {s \in Server : \/ claim[x] = Unit /\ Runs(s)
                              \/ claim[x] = s /\ Exists(s)}

Terminate(x) ==
  server' = [s \in Server |-> IF s \in Targets(x) /\ Runs(s) THEN "stopping" ELSE server[s]]

Signal(x) ==
  /\ \/ /\ claim[x] = Unit \/ Targets(x) # {}
        /\ Step(x, "signal", "forget")
        /\ Terminate(x)
     \/ /\ claim[x] # Unit /\ Targets(x) = {}
        /\ Step(x, "signal", Ended(x))
        /\ UNCHANGED server
  /\ UNCHANGED <<n, leaseVars, timerVars, startVars, stopVars, origin, clickVars>>

\* systemctl stop returns once the unit is down.
Forget(x) ==
  /\ claim[x] = Unit => ~\E s \in Server : server[s] = "stopping"
  /\ Step(x, "forget", Ended(x))
  /\ started' = NoServer /\ pinned' = FALSE
  /\ UNCHANGED <<n, leaseVars, timerVars, stopVars, serverVars>>

-----------------------------------------------------------------------------
(***************************************************************************)
(* The buttons, and the exit path, which runs after the runner has closed. *)
(***************************************************************************)
Click(x, step) ==
  /\ clicks < MaxClicks /\ ~Quitting
  /\ Step(x, "idle", step)
  /\ clicks' = clicks + 1
  /\ UNCHANGED <<n, leaseVars, timerVars, startVars, stopVars, server, origin, asked>>

PinOllama ==
  /\ ~Quitting
  /\ Step(Starter, "pin", "idle")
  /\ pinned' = TRUE
  /\ asked' = asked \cup {s \in Server : Runs(s)}
  /\ UNCHANGED <<n, leaseVars, timerVars, started, stopVars, server, origin, clicks>>

Quit ==
  /\ \A j \in Job : lease[j] \in {"new", "released", "inert"} /\ pc[j] = "idle"
  /\ Step(Quitter, "idle", "readStarted")
  /\ UNCHANGED <<n, leaseVars, timerVars, startVars, stopVars, serverVars>>

MutShutdown == \* the process leaves before it has stopped the server
  /\ Step(Quitter, "give", "exited")
  /\ n' = 0 /\ Disarm
  /\ UNCHANGED <<leaseVars, startVars, stopVars, serverVars>>
Shutdown ==
  /\ Step(Quitter, "give", IF seen[Quitter] THEN "claim" ELSE "exited")
  /\ n' = 0 /\ Disarm
  /\ UNCHANGED <<leaseVars, startVars, stopVars, serverVars>>

-----------------------------------------------------------------------------
(***************************************************************************)
(* The servers. One that finds the port taken exits; reapOllama, started   *)
(* once a detached server is recorded, forgets it when it has exited, if   *)
(* it is still the one recorded.                                           *)
(***************************************************************************)
UserStarts(s) ==
  /\ server[s] = "none"
  /\ Route = "unit" => ~\E t \in Server : Runs(t)
  /\ server' = [server EXCEPT ![s] = "booting"]
  /\ origin' = [origin EXCEPT ![s] = "user"]
  /\ UNCHANGED <<n, leaseVars, timerVars, startVars, stopVars, clickVars, pc>>

Boots(s) ==
  /\ server[s] = "booting"
  /\ server' = [server EXCEPT ![s] = IF MayReach THEN "gone" ELSE "up"]
  /\ UNCHANGED <<n, leaseVars, timerVars, startVars, stopVars, origin, clickVars, pc>>

\* Told to, by its user, or in a crash.
Exits(s) ==
  /\ Runs(s)
  /\ server' = [server EXCEPT ![s] = "gone"]
  /\ UNCHANGED <<n, leaseVars, timerVars, startVars, stopVars, origin, clickVars, pc>>

ReapOllama(s) ==
  /\ server[s] = "gone" /\ pc[Quitter] # "exited"
  /\ \A x \in Actor : pc[x] = "note" => claim[x] # s
  /\ server' = [server EXCEPT ![s] = "reaped"]
  /\ IF started = s THEN started' = NoServer /\ pinned' = FALSE
                    ELSE UNCHANGED startVars
  /\ UNCHANGED <<n, leaseVars, timerVars, stopVars, origin, clickVars, pc>>

-----------------------------------------------------------------------------
StartSteps(x) == Probe(x) \/ SpawnFails(x) \/ Spawn(x) \/ NoteOllamaStart(x) \/ Await(x)
StopSteps(x) == Claim(x) \/ Signal(x) \/ Forget(x)
ReadSteps(x) == ReadStarted(x) \/ ReadPinned(x)

Works == \/ \E x \in Job \cup {Starter} : StartSteps(x)
         \/ \E x \in Actor : StopSteps(x)
         \/ \E x \in Job \cup {Quitter} : ReadSteps(x)
         \/ \E j \in Job : Give(j)
         \/ \E x \in Idlers : Fire(x) \/ IdleLock(x) \/ IdleCheck(x)
         \/ PinOllama \/ Shutdown

Next == \/ Works
        \/ \E j \in Job : Take(j) \/ AcquireInert(j) \/ Release(j) \/ Suspend(j)
        \/ Click(Starter, "probe") \/ Click(Stopper, "claim") \/ Quit
        \/ \E s \in Server : UserStarts(s) \/ Boots(s) \/ Exits(s) \/ ReapOllama(s)

(***************************************************************************)
(* Goroutines run, timers fire, and a server told to stop does. A job may  *)
(* hold its lease for ever.                                                *)
(***************************************************************************)
Fairness ==
  /\ \A x \in Job \cup {Starter} : WF_vars(StartSteps(x))
  /\ \A x \in Actor : WF_vars(StopSteps(x))
  /\ \A x \in Job \cup {Quitter} : WF_vars(ReadSteps(x))
  /\ \A j \in Job : WF_vars(Give(j))
  /\ \A x \in Idlers : WF_vars(Fire(x) \/ IdleLock(x) \/ IdleCheck(x))
  /\ WF_vars(PinOllama) /\ WF_vars(Shutdown)
  /\ \A s \in Server : WF_vars(Boots(s)) /\ WF_vars(server[s] = "stopping" /\ Exits(s))
                       /\ WF_vars(ReapOllama(s))

Spec == Init /\ [][Next]_vars
FairSpec == Spec /\ Fairness

-----------------------------------------------------------------------------
(***************************************************************************)
(* Properties.                                                             *)
(***************************************************************************)
StartAt == {"idle", "probe", "spawn", "note", "await"}
StopAt == {"claim", "signal", "forget"}

\* The type of every variable, with the steps each actor may be at: a job
\* never pins the server it starts, and only a callback checks for a pin.
TypeOK ==
  /\ n \in Nat /\ loose \in Nat /\ takes \in Nat
  /\ timer \in {"nil", "armed", "fired"}
  /\ started \in Server \cup {NoServer, Unit} /\ pinned \in BOOLEAN
  /\ lease \in [Job -> {"new", "held", "suspended", "released", "inert"}]
  /\ now \in [Job -> BOOLEAN] /\ seen \in [Actor -> BOOLEAN]
  /\ claim \in [Actor -> Server \cup {NoServer, Unit}]
  /\ DOMAIN pc = Actor
  /\ \A j \in Job : pc[j] \in StartAt \cup StopAt \cup {"readStarted", "readPinned", "give"}
  /\ \A x \in Idlers : pc[x] \in StopAt \cup {"idle", "lock", "check"}
  /\ pc[Starter] \in StartAt \cup {"pin"} /\ pc[Stopper] \in StopAt \cup {"idle"}
  /\ pc[Quitter] \in StopAt \cup {"idle", "readStarted", "readPinned", "give", "exited"}
  /\ server \in [Server -> {"none", "booting", "up", "stopping", "gone", "reaped"}]
  /\ origin \in [Server -> {"nobody", "job", "button", "user"}]
  /\ asked \subseteq Server /\ clicks \in Nat

\* n counts the leases out, each once: "a deferred Release next to an early
\* return cannot drive the count negative, and a Release of an already-
\* suspended lease gives nothing back twice" (OllamaLease).
Counted == {j \in Job : lease[j] = "held" \/ pc[j] \in {"readStarted", "readPinned", "give"}}
CountsLeases == ~Quitting => n = Cardinality(Counted)

\* "The board only stops a server it started itself": no process the board
\* signals is a server that somebody else started. Where the server is a systemd
\* unit it is the unit that is stopped, and the user may have started that.
NeverStopsForeign ==
  [][\A s \in Server, x \in Actor :
       pc[x] = "signal" /\ pc'[x] # "signal" /\ claim[x] # Unit /\ origin[s] = "user"
         => server'[s] = server[s]]_vars

\* "An auto-started server outliving the board would be the one outcome nobody
\* could have intended" (Shutdown): what a job started is gone, or told to go,
\* when the exit path has returned, unless a click asked for it as well.
NothingOutlivesBoard ==
  pc[Quitter] = "exited" =>
    \A s \in Server : origin[s] = "job" /\ server[s] \in {"booting", "up"} => s \in asked

(***************************************************************************)
(* What comments claim and the code does not do.                           *)
(***************************************************************************)
\* "When the last one comes back an idle timer starts, and if no new lease is taken
\* before it fires the server is stopped" (AutoOllama): a server of the board's that
\* nobody holds and nobody pinned is stopped. It holds for one job at a time; with
\* two, give's early reading of ours costs what its comment says it does not.
IdleStops ==
  n = 0 /\ started # NoServer /\ ~pinned ~> n > 0 \/ started = NoServer \/ pinned

\* "While at least one lease is out the server stays up": AutoOllama.
StaysUpForLeases ==
  [][\A x \in Unclicked : pc[x] = "signal" /\ pc'[x] = "forget" => n = 0]_vars
=============================================================================
